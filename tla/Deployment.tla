------------------------------- MODULE Deployment -------------------------------
(***************************************************************************)
(* A migration at work: a process that runs the steps of its tasks against  *)
(* a chain and a file, may die between any two of them, and is started      *)
(* again by its operator.  The chain and the file outlive the process, its  *)
(* local variables do not.                                                  *)
(*                                                                         *)
(* The chain is kept as what the deployed contracts store: the addresses in *)
(* their fields, the reserves their pools list, the registry's entries.     *)
(***************************************************************************)
EXTENDS Naturals, Sequences

CONSTANTS Names,        \* of accounts, contracts, fields, variables and keys of the file
          Migrations,   \* names of the migrations
          Program(_),   \* the tasks of a migration, each a sequence of steps
          Markets,      \* migration |-> the file's keys of the projects its market lists
          Owned,        \* contracts that stood before and belong to the deployer
          Steps,        \* the steps the programs are made of
          MaxCrashes,   \* how often the process may die
          MaxReruns     \* how often the operator runs a single task by hand

VARIABLES
    nonce,        \* contracts created so far
    contracts,    \* addresses that hold code
    slot,         \* <<contract, field>> |-> the address stored there
    reserves,     \* reserves the pools list: [pool, project, asset, strategy]
    configured,   \* <<pool, project>> whose row was sent to the configurator
    paused,       \* pools that are paused
    registered,   \* <<registry, provider>> registered
    db,           \* deployed-contracts.json for this network: key |-> address
    migration,    \* the name of the migration
    task,         \* the task it is in
    todo,         \* the steps of the task still to be taken
    locals,       \* the task's variables
    single,       \* the operator runs one task, not the migration
    status,       \* "running", "idle" (the operator's turn), "failed" or "finished"
    crashes, reruns

chain == <<nonce, contracts, slot, reserves, configured, paused, registered>>
process == <<migration, task, todo, single, status, crashes, reruns>>
vars == <<chain, db, locals, process>>

Address == Names \X Nat

\* Accounts, and contracts that stood before: they are numbered zero.
Given(n) == <<n, 0>>
None == Given("none")
Deployer == Given("deployer")

\* A step as a task can write it: it names its variables, reads what it
\* declares, and sets neither a proxy of a provider nor the address a
\* constructor's proxy would have.
ProxyFields == {"LENDING_POOL", "LENDING_POOL_CONFIGURATOR"}

\* The keys under which an implementation is filed when its deployment is sent.
FiledWhenSent == {"LendingPoolImpl", "LendingPoolConfiguratorImpl",
                  "LendingPoolCollateralManagerImpl"}

WellFormed(s) ==
    /\ {s.op, s.of, s.name} \cup s.uses \subseteq Names
    /\ s.op = "deploy" =>
         /\ DOMAIN s.links \subseteq Names \ (ProxyFields \cup {"owner"})
         /\ \A f \in DOMAIN s.links : s.links[f] \in s.uses
    /\ s.op = "get" => s.var \in Names
    \* nothing reads those keys back: only the verification tasks do
    /\ s.op = "load" => s.name \notin FiledWhenSent
    /\ s.op = "set" => s.name \notin ProxyFields /\ s.value \in s.uses
    /\ s.op \in {"save", "wait", "get", "set", "setPool", "setConfigurator", "register", "pause",
                 "initReserve", "configure", "rates", "giveBack"} => s.of \in s.uses
    /\ s.op \in {"setPool", "setConfigurator", "register", "pause", "initReserve", "giveBack"} =>
         s.name \in s.uses
    /\ s.op = "giveBack" => "admin" \in s.uses
    /\ s.op = "initReserve" => s.asset \in s.uses /\ s.strategy \in s.uses
    /\ s.op = "configure" => s.projects \subseteq s.uses

\* Of a task's steps, the one at i files an implementation that was sent.
FiledAt(steps, i) ==
    i \in DOMAIN steps /\ steps[i].op = "save" /\ steps[i].name \in FiledWhenSent

\* The one at i waits for the contract v.
AwaitedAt(steps, i, v) ==
    i \in DOMAIN steps /\ steps[i].op = "wait" /\ steps[i].of = v

\* The task waits for v next, at most after filing it.
Awaited(steps, v) ==
    AwaitedAt(steps, 1, v) \/ (FiledAt(steps, 1) /\ AwaitedAt(steps, 2, v))

\* Whatever is sent without waiting is filed next and then waited for.
SentAreAwaited(steps) ==
    \A i \in DOMAIN steps :
        steps[i].op = "send" =>
            FiledAt(steps, i + 1) /\ AwaitedAt(steps, i + 2, steps[i].name)

ASSUME NamesAssumption ==
    {"none", "deployer", "emergency", "owner", "provider", "implementation", "pool",
     "configurator", "POOL_ADMIN", "LENDING_POOL", "LENDING_POOL_CONFIGURATOR",
     "LendingPoolProxy", "LendingPoolConfiguratorProxy"} \subseteq Names

ASSUME ProgramAssumption ==
    /\ \A m \in Migrations : Program(m) \in Seq(Seq(Steps)) /\ Program(m) # <<>>
    /\ \A s \in Steps : WellFormed(s)
    /\ \A m \in Migrations : \A t \in DOMAIN Program(m) : SentAreAwaited(Program(m)[t])

ASSUME BoundsAssumption ==
    /\ MaxCrashes \in Nat /\ MaxReruns \in Nat
    /\ Owned \subseteq Names \ {"none"}

Accounts == [v \in {"deployer", "admin", "emergency"} |->
                IF v = "emergency" THEN Given(v) ELSE Deployer]

Bind(f, k, v) == [x \in DOMAIN f \cup {k} |-> IF x = k THEN v ELSE f[x]]

\* A mapping entry nobody wrote holds the zero address.
Slot(a, field) == IF <<a, field>> \in DOMAIN slot THEN slot[<<a, field>>] ELSE None

Exists(a) == a[2] = 0 \/ a \in contracts

Tasks == Program(migration)
Now == Head(todo)

Init ==
    /\ nonce = 0
    /\ contracts = {}
    /\ slot = [k \in {<<Given(n), "owner">> : n \in Owned} |-> Deployer]
    /\ reserves = {} /\ configured = {} /\ paused = {} /\ registered = {}
    /\ db = [k \in {} |-> None]
    /\ migration \in Migrations
    /\ task = 1 /\ todo = Tasks[1]
    /\ locals = Accounts
    /\ single = FALSE /\ status = "running"
    /\ crashes = 0 /\ reruns = 0

-----------------------------------------------------------------------------
(* What a contract demands of a call *)

OwnedBy(a, who) == Exists(a) /\ Slot(a, "owner") = who

\* onlyPoolAdmin of a configurator, and the pool's onlyLendingPoolConfigurator.
MayConfigure(configurator, who) ==
    LET provider == Slot(configurator, "provider")
    IN  /\ provider # None
        /\ Slot(provider, "POOL_ADMIN") = who
        /\ Slot(provider, "LENDING_POOL_CONFIGURATOR") = configurator

ListedIn(pool) == {r.project : r \in {q \in reserves : q.pool = pool}}

\* The requirements of each kind of step, those that send nothing included.
Accepted(s) ==
    /\ s.uses \subseteq DOMAIN locals
    /\ s.op # "throw"
    /\ s.op = "load" => s.name \in DOMAIN db
    /\ s.op \in {"set", "call", "register", "setPool", "setConfigurator",
                 "rates", "giveBack", "configure"} => OwnedBy(locals[s.of], Deployer)
    \* a proxy that stands is initialised at this revision already
    /\ s.op = "setPool" => Slot(locals[s.of], "LENDING_POOL") = None
    /\ s.op = "setConfigurator" => Slot(locals[s.of], "LENDING_POOL_CONFIGURATOR") = None
    /\ s.op \in {"rates", "giveBack"} => OwnedBy(locals[s.name], locals[s.of])
    /\ s.op = "pause" =>
         Slot(Slot(locals[s.of], "provider"), "EMERGENCY_ADMIN") = locals[s.name]
    /\ s.op = "initReserve" =>
         /\ MayConfigure(locals[s.of], Deployer)
         /\ Exists(locals[s.name]) /\ Exists(locals[s.asset])
         /\ locals[s.name] \notin ListedIn(Slot(locals[s.of], "pool"))
    /\ s.op = "configure" =>
         LET configurator == Slot(locals[s.of], "configurator")
         IN  /\ MayConfigure(configurator, locals[s.of])
             \* without a threshold the row is checked for liquidity, in the reserve's aToken
             /\ {locals[v] : v \in s.unsecured} \subseteq ListedIn(Slot(configurator, "pool"))

-----------------------------------------------------------------------------
(* The process's steps *)

Running(op) ==
    /\ status = "running" /\ todo # <<>>
    /\ Now.op = op
    /\ Accepted(Now)

Advance == /\ todo' = Tail(todo)
           /\ UNCHANGED <<migration, task, single, status, crashes, reruns>>

OnlySlot == UNCHANGED <<nonce, contracts, reserves, configured, paused, registered,
                        db, locals>>

\* Fault: the task goes on before the transaction is mined, and it may never be.
DeployedUnmined(new) == contracts' \in {contracts, contracts \cup {new}}

\* waitForTx: the task goes on when the transaction is mined.
Deployed(new) == contracts' = contracts \cup {new}

\* Fault: a constructor does not store the provider it is given.
AssignedUnbound(s) == DOMAIN s.links \ {"provider"}

\* A constructor stores every contract it is given.
Assigned(s) == DOMAIN s.links

\* A constructor ran; Ownable contracts belong to the account that created them.
Create ==
    /\ Running("deploy")
    /\ LET new == <<Now.name, nonce + 1>>
           fields == {<<new, f>> : f \in Assigned(Now)}
       IN  /\ Deployed(new)
           /\ slot' = [k \in DOMAIN slot \cup fields \cup {<<new, "owner">>} |->
                          IF k \in fields THEN locals[Now.links[k[2]]]
                          ELSE IF k = <<new, "owner">> THEN Deployer ELSE slot[k]]
           /\ locals' = Bind(locals, Now.name, new)
    /\ nonce' = nonce + 1
    /\ UNCHANGED <<reserves, configured, paused, registered, db>>
    /\ Advance

\* A transaction that creates a contract without fields is mined.
Mined(new) ==
    /\ Deployed(new)
    /\ slot' = Bind(slot, <<new, "owner">>, Deployer)

\* deploy() alone: the address is known, and the transaction is mined by the
\* time the task goes on, or it is not.
SendDeployment ==
    /\ Running("send")
    /\ LET new == <<Now.name, nonce + 1>>
       IN  /\ Mined(new) \/ UNCHANGED <<contracts, slot>>
           /\ locals' = Bind(locals, Now.name, new)
    /\ nonce' = nonce + 1
    /\ UNCHANGED <<reserves, configured, paused, registered, db>>
    /\ Advance

\* withSaveAndVerify waits for what was sent before: it is mined, at the latest now.
AwaitDeployment ==
    /\ Running("wait")
    /\ IF Exists(locals[Now.of]) THEN UNCHANGED <<contracts, slot>> ELSE Mined(locals[Now.of])
    /\ UNCHANGED <<nonce, reserves, configured, paused, registered, db, locals>>
    /\ Advance

SaveAddress ==
    /\ Running("save")
    /\ db' = Bind(db, Now.name, locals[Now.of])
    /\ UNCHANGED <<chain, locals>>
    /\ Advance

LoadAddress ==
    /\ Running("load")
    /\ locals' = Bind(locals, Now.name, db[Now.name])
    /\ UNCHANGED <<chain, db>>
    /\ Advance

TakeGiven ==
    /\ Running("given")
    /\ locals' = Bind(locals, Now.name, Given(Now.name))
    /\ UNCHANGED <<chain, db>>
    /\ Advance

ReadField ==
    /\ Running("get")
    /\ locals' = Bind(locals, Now.var, Slot(locals[Now.of], Now.name))
    /\ UNCHANGED <<chain, db>>
    /\ Advance

SetField ==
    /\ Running("set")
    /\ slot' = Bind(slot, <<locals[Now.of], Now.name>>, locals[Now.value])
    /\ OnlySlot
    /\ Advance

\* Calls that leave nothing another step reads.
Transact ==
    /\ Running("call") \/ Running("rates")
    /\ UNCHANGED <<chain, db, locals>>
    /\ Advance

\* setOracleOwnership: the helper hands the oracle it owns to the admin.
GiveOracleBack ==
    /\ Running("giveBack")
    /\ slot' = Bind(slot, <<locals[Now.name], "owner">>, locals["admin"])
    /\ OnlySlot
    /\ Advance

\* Fault: initialize is given the implementation for the provider.
InitializedWithImpl(provider, impl, pool) ==
    [provider |-> impl, implementation |-> impl, pool |-> pool]

\* What a proxy stores after initialize(provider).
Initialized(provider, impl, pool) ==
    [provider |-> provider, implementation |-> impl, pool |-> pool]

\* The provider creates a proxy of its own for the implementation.
NewProxy(field, name, pool) ==
    LET provider == locals[Now.of]
        proxy == <<name, nonce + 1>>
        stored == Initialized(provider, locals[Now.name], pool)
        written == {<<proxy, f>> : f \in DOMAIN stored}
    IN  /\ Deployed(proxy)
        /\ slot' = [k \in DOMAIN slot \cup written \cup {<<provider, field>>} |->
                       IF k = <<provider, field>> THEN proxy
                       ELSE IF k \in written THEN stored[k[2]] ELSE slot[k]]
        /\ nonce' = nonce + 1
        /\ UNCHANGED <<reserves, configured, paused, registered, db, locals>>

SetLendingPoolImpl ==
    /\ Running("setPool")
    /\ NewProxy("LENDING_POOL", "LendingPoolProxy", None)
    /\ Advance

\* Fault: the configurator is initialised before it knows its pool.
SetConfiguratorWithoutPool ==
    /\ Running("setConfigurator")
    /\ NewProxy("LENDING_POOL_CONFIGURATOR", "LendingPoolConfiguratorProxy", None)
    /\ Advance

\* The configurator keeps the pool the provider holds when it is initialised.
SetLendingPoolConfiguratorImpl ==
    /\ Running("setConfigurator")
    /\ NewProxy("LENDING_POOL_CONFIGURATOR", "LendingPoolConfiguratorProxy",
                Slot(locals[Now.of], "LENDING_POOL"))
    /\ Advance

RegisterProvider ==
    /\ Running("register")
    /\ registered' = registered \cup {<<locals[Now.of], locals[Now.name]>>}
    /\ UNCHANGED <<nonce, contracts, slot, reserves, configured, paused, db, locals>>
    /\ Advance

PausePool ==
    /\ Running("pause")
    /\ paused' = paused \cup {Slot(locals[Now.of], "pool")}
    /\ UNCHANGED <<nonce, contracts, slot, reserves, configured, registered, db, locals>>
    /\ Advance

InitReserve ==
    /\ Running("initReserve")
    /\ reserves' = reserves \cup {[pool |-> Slot(locals[Now.of], "pool"),
                                   project |-> locals[Now.name], asset |-> locals[Now.asset],
                                   strategy |-> locals[Now.strategy]]}
    /\ UNCHANGED <<nonce, contracts, slot, configured, paused, registered, db, locals>>
    /\ Advance

ConfigureReserves ==
    /\ Running("configure")
    /\ LET pool == Slot(Slot(locals[Now.of], "configurator"), "pool")
       IN  configured' = configured \cup {<<pool, locals[v]>> : v \in Now.projects}
    /\ UNCHANGED <<nonce, contracts, slot, reserves, paused, registered, db, locals>>
    /\ Advance

-----------------------------------------------------------------------------
(* Tasks ending, and the operator *)

\* The next task starts with its own variables; a single task returns to the operator.
FinishTask ==
    /\ status = "running" /\ todo = <<>>
    /\ locals' = Accounts
    /\ IF single \/ task = Len(Tasks)
       THEN status' = (IF single THEN "idle" ELSE "finished") /\ UNCHANGED <<task, todo>>
       ELSE task' = task + 1 /\ todo' = Tasks[task + 1] /\ UNCHANGED status
    /\ UNCHANGED <<chain, db, migration, single, crashes, reruns>>

\* A getter, an undefined value or a revert throws: the process ends there.
Fail ==
    /\ status = "running" /\ todo # <<>>
    /\ ~Accepted(Now)
    /\ status' = IF single THEN "idle" ELSE "failed"
    /\ locals' = Accounts
    /\ UNCHANGED <<chain, db, migration, task, todo, single, crashes, reruns>>

\* The process, its node or its machine goes away between two steps.
Crash ==
    /\ status = "running" /\ crashes < MaxCrashes
    /\ status' = "idle" /\ crashes' = crashes + 1
    /\ locals' = Accounts
    /\ UNCHANGED <<chain, db, migration, task, todo, single, reruns>>

\* Fault: the script takes up where it stopped, its variables lost.
RestartHalfWay ==
    /\ status = "idle"
    /\ status' = "running" /\ single' = FALSE
    /\ UNCHANGED <<chain, db, locals, migration, task, todo, crashes, reruns>>

\* Fault: the script skips the task it stopped in, be it the last.
RestartAtNextTask ==
    /\ status = "idle"
    /\ status' = "running" /\ single' = FALSE /\ task' = task + 1
    /\ todo' = IF task < Len(Tasks) THEN Tasks[task + 1] ELSE <<>>
    /\ UNCHANGED <<chain, db, locals, migration, crashes, reruns>>

\* The npm script of the migration is run again: it has no notion of where it stopped.
Restart ==
    /\ status = "idle"
    /\ status' = "running" /\ single' = FALSE /\ task' = 1 /\ todo' = Tasks[1]
    /\ UNCHANGED <<chain, db, locals, migration, crashes, reruns>>

\* One task is run by name, as the script aave:kovan:full:initialize does.
Rerun(t) ==
    /\ status = "idle" /\ reruns < MaxReruns
    /\ status' = "running" /\ single' = TRUE /\ task' = t /\ todo' = Tasks[t]
    /\ reruns' = reruns + 1
    /\ UNCHANGED <<chain, db, locals, migration, crashes>>

Progress ==
    \/ Create \/ SendDeployment \/ AwaitDeployment \/ SaveAddress \/ LoadAddress \/ TakeGiven
    \/ ReadField \/ SetField \/ Transact \/ GiveOracleBack \/ SetLendingPoolImpl
    \/ SetLendingPoolConfiguratorImpl \/ RegisterProvider \/ PausePool \/ InitReserve
    \/ ConfigureReserves \/ FinishTask \/ Fail

Next == Progress \/ Crash \/ Restart \/ (\E t \in DOMAIN Tasks : Rerun(t))

Spec == Init /\ [][Next]_vars

\* A process that runs takes its next step, and an operator whose migration
\* stopped half-way runs it again.
FairSpec == Spec /\ WF_vars(Progress) /\ WF_vars(Restart)

-----------------------------------------------------------------------------
(* Properties *)

TypeOK ==
    /\ nonce \in Nat /\ contracts \subseteq Address
    /\ DOMAIN slot \subseteq Address \X Names /\ \A k \in DOMAIN slot : slot[k] \in Address
    /\ \A r \in reserves : {r.pool, r.project, r.asset, r.strategy} \subseteq Address
    /\ configured \cup registered \subseteq Address \X Address
    /\ paused \subseteq Address
    /\ \A k \in DOMAIN db : db[k] \in Address
    /\ \A v \in DOMAIN locals : locals[v] \in Address
    /\ migration \in Migrations /\ task \in DOMAIN Tasks
    /\ single \in BOOLEAN /\ status \in {"running", "idle", "failed", "finished"}
    /\ crashes \in 0..MaxCrashes /\ reruns \in 0..MaxReruns

\* Whatever steps the tasks take and wherever they die, the file, the
\* process's variables and every address stored on the chain name contracts
\* that were really created.  The exceptions are the three implementations that
\* are filed under their own keys when their deployment is sent: such an entry
\* may stay behind without a contract when the process dies, and the process
\* itself holds that address until it has waited for it.  The file's other
\* entries, those of the pool, the configurator and the manager among them, are
\* written after the transaction is mined.
NothingDangles ==
    /\ \A k \in DOMAIN db \ FiledWhenSent : Exists(db[k])
    /\ \A v \in DOMAIN locals : Exists(locals[v]) \/ Awaited(todo, v)
    /\ \A k \in DOMAIN slot : Exists(k[1]) /\ Exists(slot[k])

\* The pool and the configurator a provider gives out answer to that provider,
\* and a configurator administers the pool of its own provider: proxies of two
\* attempts are never paired.
ProxiesPointBack ==
    \A p \in contracts :
        LET pool == Slot(p, "LENDING_POOL")
            configurator == Slot(p, "LENDING_POOL_CONFIGURATOR")
        IN  /\ pool # None => Slot(pool, "provider") = p
            /\ configurator # None =>
                 /\ Slot(configurator, "provider") = p
                 /\ Slot(configurator, "pool") \in {pool, None}

Provider == db["LendingPoolAddressesProvider"]

\* One market: the file names the proxies of its provider, not their
\* implementations, the two helpers and the data provider serve it, the
\* deployer is its pool admin, the registry lists it, it is not paused, and the
\* reserves its pool lists are exactly the file's projects, each configured,
\* with one contract per named strategy.
Connected(file, Field(_, _), listed, sent, recorded, stopped, keys) ==
    LET provider == file["LendingPoolAddressesProvider"]
        pool == Field(provider, "LENDING_POOL")
        configurator == Field(provider, "LENDING_POOL_CONFIGURATOR")
        projects == {file[k] : k \in keys}
        here == {r \in listed : r.pool = pool}
    IN  /\ pool # None /\ file["LendingPool"] = pool
        /\ configurator # None /\ file["LendingPoolConfigurator"] = configurator
        /\ Field(configurator, "pool") = pool
        /\ \A h \in {"ATokensAndRatesHelper", "StableAndVariableTokensHelper"} :
             Field(file[h], "pool") = pool /\ Field(file[h], "provider") = provider
        /\ Field(file["ATokensAndRatesHelper"], "configurator") = configurator
        /\ Field(file["AaveProtocolDataProvider"], "provider") = provider
        /\ Field(provider, "POOL_ADMIN") = Deployer
        /\ <<file["LendingPoolAddressesProviderRegistry"], provider>> \in recorded
        /\ {r.project : r \in here} = projects
        /\ \A x \in projects : <<pool, x>> \in sent
        /\ \A r, q \in here : r.strategy[1] = q.strategy[1] => r.strategy = q.strategy
        /\ pool \notin stopped

\* What a migration that ran to its end leaves behind is one market.
FinishedMarketIsConnected ==
    status = "finished" /\ migration \in DOMAIN Markets =>
        Connected(db, Slot, reserves, configured, registered, paused, Markets[migration])

\* The pool admin of a market is only ever lent to the helper of that market,
\* never to one that an attempt before it left in the file or on the chain.
AdminLentToOwnHelper ==
    \A p \in contracts :
        LET admin == Slot(p, "POOL_ADMIN")
        IN  admin[2] > 0 => Slot(admin, "provider") = p

\* A migration that gets to its end does so although its process dies on the
\* way, since its operator runs it again and it starts a market of its own.
MarketIsEventuallyDeployed == migration \in DOMAIN Markets ~> status = "finished"

\* The rights over the market in the file, lent to the helper while it
\* configures the reserves, come back to the deployer.
AdminComesBack ==
    ("LendingPoolAddressesProvider" \in DOMAIN db /\ Slot(Provider, "POOL_ADMIN")[2] > 0)
        ~> ("LendingPoolAddressesProvider" \in DOMAIN db /\ Slot(Provider, "POOL_ADMIN") = Deployer)

\* Every migration ends, one way or the other.
MigrationFinishes == <>(status = "finished")
=============================================================================
