---------------------------- MODULE DeploymentOutline ----------------------------
(***************************************************************************)
(* What is known of a migration at each of its steps, read off the programs *)
(* alone: the proof outline of a sequential program.  An attempt begins     *)
(* when the operator starts the migration, or one of its tasks; the outline *)
(* names the contracts it creates by their number within the attempt, so    *)
(* that it fits every attempt, whatever earlier ones left on the chain and  *)
(* in the file.  OutlineAssumption says what it is, step by step; nothing is *)
(* assumed of the process, only of the programs.                            *)
(***************************************************************************)
EXTENDS Deployment

CONSTANT Outline(_, _, _)   \* migration, first task of the attempt, task |->
                            \* what is known before each of its steps and at its end

(***************************************************************************)
(* What is known: the values of variables, keys of the file and fields,     *)
(* and what was listed, since the attempt began.  An address numbered zero  *)
(* stands for itself and one with a higher number for a contract of the     *)
(* attempt.  The view is "clear", or "lost" when a step wrote to a contract *)
(* of another attempt, or "never" when the step before cannot be accepted.  *)
(***************************************************************************)
IsPicture(k) ==
    /\ DOMAIN k = {"view", "made", "locals", "db", "slot",
                    "reserves", "configured", "registered", "paused"}
    /\ k.view \in {"clear", "lost", "never"} /\ k.made \in Nat
    /\ \A v \in DOMAIN k.locals : k.locals[v] \in Address
    /\ \A x \in DOMAIN k.db : k.db[x] \in Address
    /\ \A x \in DOMAIN k.slot : k.slot[x] \in Address
    /\ \A r \in k.reserves : {r.pool, r.project, r.asset, r.strategy} \subseteq Address
    /\ k.paused \subseteq Address

\* A value the attempt did not make: it comes from the file or the chain as it found them.
Unknown == Given("unknown")

Blank == [view |-> "clear", made |-> 0, locals |-> Accounts,
          db |-> [k \in {} |-> None], slot |-> [k \in {} |-> None],
          reserves |-> {}, configured |-> {}, registered |-> {}, paused |-> {}]

Own(a) == a[2] > 0

Stored(slots, a, f) == IF <<a, f>> \in DOMAIN slots THEN slots[<<a, f>>] ELSE None

FieldOf(k, a, f) == Stored(k.slot, a, f)

\* The fields of a contract written, those of others kept.
FieldsAt(a, fields) == {<<a, f>> : f \in DOMAIN fields}

Written(slots, a, fields) ==
    [x \in DOMAIN slots \cup FieldsAt(a, fields) |->
        IF x \in FieldsAt(a, fields) THEN fields[x[2]] ELSE slots[x]]

Created(k, name, fields) ==
    [k EXCEPT !.made = k.made + 1,
              !.slot = Written(k.slot, <<name, k.made + 1>>, fields)]

Constructed(k, s) ==
    [f \in DOMAIN s.links \cup {"owner"} |->
        IF f = "owner" THEN Deployer ELSE k.locals[s.links[f]]]

\* A proxy for the implementation, stored by its provider.
Proxied(k, s, field, name, pool) ==
    LET provider == k.locals[s.of]
        with == Created(k, name, [provider |-> provider, implementation |-> k.locals[s.name],
                                  pool |-> pool])
    IN  [with EXCEPT !.slot = Bind(with.slot, <<provider, field>>, <<name, k.made + 1>>)]

\* The step writes to contracts of the attempt, or reads what decides where it writes.
Followed(k, s) ==
    LET of == k.locals[s.of]
        known(vars_) == \A v \in vars_ : k.locals[v] # Unknown
        poolOf(c) == FieldOf(k, c, "pool")
    IN  /\ s.op \in {"wait", "set", "setPool", "setConfigurator", "pause", "initReserve",
                    "configure"} => Own(of)
        /\ s.op = "giveBack" => Own(k.locals[s.name])
        /\ s.op = "register" => known({s.of, s.name})
        /\ s.op \in {"pause", "initReserve"} => Own(poolOf(of))
        /\ s.op = "initReserve" => known({s.name, s.asset, s.strategy})
        /\ s.op = "configure" =>
             LET configurator == FieldOf(k, of, "configurator")
             IN  Own(configurator) /\ Own(poolOf(configurator)) /\ known(s.projects)

\* What is known after a step that was accepted.
After(k, s) ==
    LET of == k.locals[s.of]
        pool == FieldOf(k, of, "pool")
    IN  CASE s.op = "deploy" ->
                [Created(k, s.name, Constructed(k, s)) EXCEPT
                     !.locals = Bind(k.locals, s.name, <<s.name, k.made + 1>>)]
          [] s.op = "send" ->
                [Created(k, s.name, [owner |-> Unknown]) EXCEPT
                     !.locals = Bind(k.locals, s.name, <<s.name, k.made + 1>>)]
          [] s.op = "wait" -> [k EXCEPT !.slot = Bind(k.slot, <<of, "owner">>, Unknown)]
          [] s.op = "save" -> [k EXCEPT !.db = Bind(k.db, s.name, of)]
          [] s.op = "load" ->
                [k EXCEPT !.locals = Bind(k.locals, s.name,
                                          IF s.name \in DOMAIN k.db THEN k.db[s.name] ELSE Unknown)]
          [] s.op = "given" -> [k EXCEPT !.locals = Bind(k.locals, s.name, Given(s.name))]
          [] s.op = "get" ->
                [k EXCEPT !.locals = Bind(k.locals, s.var,
                                          IF Own(of) THEN FieldOf(k, of, s.name) ELSE Unknown)]
          [] s.op = "set" -> [k EXCEPT !.slot = Bind(k.slot, <<of, s.name>>, k.locals[s.value])]
          [] s.op = "giveBack" ->
                [k EXCEPT !.slot = Bind(k.slot, <<k.locals[s.name], "owner">>, k.locals["admin"])]
          [] s.op = "setPool" -> Proxied(k, s, "LENDING_POOL", "LendingPoolProxy", None)
          [] s.op = "setConfigurator" ->
                Proxied(k, s, "LENDING_POOL_CONFIGURATOR", "LendingPoolConfiguratorProxy",
                        FieldOf(k, of, "LENDING_POOL"))
          [] s.op = "register" ->
                [k EXCEPT !.registered = k.registered \cup {<<of, k.locals[s.name]>>}]
          [] s.op = "pause" -> [k EXCEPT !.paused = k.paused \cup {pool}]
          [] s.op = "initReserve" ->
                [k EXCEPT !.reserves = k.reserves \cup
                    {[pool |-> pool, project |-> k.locals[s.name], asset |-> k.locals[s.asset],
                      strategy |-> k.locals[s.strategy]]}]
          [] s.op = "configure" ->
                [k EXCEPT !.configured = k.configured \cup
                    {<<FieldOf(k, FieldOf(k, of, "configurator"), "pool"), k.locals[v]>> :
                        v \in s.projects}]
          [] OTHER -> k

\* A variable that is not bound, or a throw, ends the attempt.
Blocked(k, s) ==
    \/ k.view = "never" \/ s.op = "throw"
    \/ k.view = "clear" /\ ~(s.uses \subseteq DOMAIN k.locals)

Onward(k, s) ==
    IF Blocked(k, s) THEN [k EXCEPT !.view = "never"]
    ELSE IF k.view = "clear" /\ Followed(k, s) THEN After(k, s)
    ELSE [k EXCEPT !.view = "lost"]

\* The next task starts with its own variables.
NextTask(k) == [k EXCEPT !.locals = Accounts]

\* What is known where a task of an attempt ends.
AtEnd(m, first, t) == Outline(m, first, t)[Len(Program(m)[t]) + 1]

\* A migration runs its tasks in order; a task run by hand is an attempt of its own.
Attempts(m) == {a \in (DOMAIN Program(m)) \X (DOMAIN Program(m)) : a[1] \in {1, a[2]}}

ASSUME OutlineAssumption ==
    \A m \in Migrations : \A a \in Attempts(m) :
        LET steps == Program(m)[a[2]]
            known == Outline(m, a[1], a[2])
        IN  /\ \A i \in 1..(Len(steps) + 1) : IsPicture(known[i])
            /\ known[1] = IF a[1] = a[2] THEN Blank ELSE NextTask(AtEnd(m, a[1], a[2] - 1))
            /\ \A i \in DOMAIN steps : known[i + 1] = Onward(known[i], steps[i])

\* The administration of a provider is given to an account or, of a provider of
\* the attempt, to a rates helper of the attempt made for it; nobody turns a
\* rates helper to another provider.
LentWell(k, s) ==
    LET of == k.locals[s.of]
        value == k.locals[s.value]
    IN  /\ s.op = "deploy" => "POOL_ADMIN" \notin DOMAIN s.links
        /\ s.op = "set" /\ ~Blocked(k, s) =>
             /\ s.name \in {"POOL_ADMIN", "provider"} => k.view = "clear"
             /\ s.name = "POOL_ADMIN" /\ value # Deployer =>
                  /\ Own(of) /\ Own(value) /\ value[1] = "ATokensAndRatesHelper"
                  /\ FieldOf(k, value, "provider") = of
             /\ s.name = "provider" => Own(of) /\ of[1] # "ATokensAndRatesHelper"

ASSUME LendingAssumption ==
    \A m \in Migrations : \A a \in Attempts(m) : \A i \in DOMAIN Program(m)[a[2]] :
        LentWell(Outline(m, a[1], a[2])[i], Program(m)[a[2]][i])

\* What is known is one market of the attempt's own contracts.
MarketKnown(k, projects) ==
    LET keys == {"LendingPoolAddressesProvider", "LendingPoolAddressesProviderRegistry",
                 "LendingPool", "LendingPoolConfigurator", "AaveProtocolDataProvider",
                 "ATokensAndRatesHelper", "StableAndVariableTokensHelper"} \cup projects
    IN  /\ k.view = "clear"
        /\ keys \subseteq DOMAIN k.db /\ \A x \in keys : Own(k.db[x])
        /\ Connected(k.db, LAMBDA c, f : FieldOf(k, c, f),
                     k.reserves, k.configured, k.registered, k.paused, projects)

\* An undisturbed run of a migration that lists a market ends with one.
ASSUME OutcomeAssumption ==
    \A m \in DOMAIN Markets : MarketKnown(AtEnd(m, 1, Len(Program(m))), Markets[m])

-----------------------------------------------------------------------------
(* The process follows its outline *)

\* What an address of the outline stands for in an attempt that found base contracts.
Real(base, a) == IF Own(a) THEN <<a[1], base + a[2]>> ELSE a

\* A value is what the outline knows of it, if it does.
Shows(base, a, real) == a # Unknown => real = Real(base, a)

RealReserve(base, r) ==
    [pool |-> Real(base, r.pool), project |-> Real(base, r.project),
     asset |-> Real(base, r.asset), strategy |-> Real(base, r.strategy)]

FileShown(base, k) == \A x \in DOMAIN k.db : x \in DOMAIN db /\ Shows(base, k.db[x], db[x])

FieldsShown(base, k) ==
    \A n \in Names, i \in Nat \ {0}, f \in Names :
        Shows(base, FieldOf(k, <<n, i>>, f), Slot(<<n, base + i>>, f))

MarketsShown(base, k) ==
    /\ {r \in reserves : r.pool[2] > base} = {RealReserve(base, r) : r \in k.reserves}
    /\ {a \in paused : a[2] > base} = {Real(base, a) : a \in k.paused}
    /\ \A x \in k.configured : <<Real(base, x[1]), Real(base, x[2])>> \in configured
    /\ \A x \in k.registered : <<Real(base, x[1]), Real(base, x[2])>> \in registered

\* The file and the chain are as known.
Left(base, k) ==
    nonce = base + k.made /\ FileShown(base, k) /\ FieldsShown(base, k) /\ MarketsShown(base, k)

\* So are the task's variables, and no other is bound.
LocalsShown(base, k) ==
    /\ DOMAIN locals = DOMAIN k.locals
    /\ \A v \in DOMAIN locals : Shows(base, k.locals[v], locals[v])

Holds(base, k) ==
    k.view # "never" /\ (k.view = "clear" => LocalsShown(base, k) /\ Left(base, k))

\* A task run by hand is the first of its attempt.
First == IF single THEN task ELSE 1

Position == Len(Tasks[task]) - Len(todo) + 1

\* What is left of a task is its end.
TaskInPlace ==
    /\ Len(todo) <= Len(Tasks[task])
    /\ \A j \in 1..Len(todo) : todo[j] = Tasks[task][Len(Tasks[task]) - Len(todo) + j]

\* A process that runs is in an attempt of which the outline tells the truth,
\* and a finished one leaves what the end of the last task shows.
OutlineFollowed ==
    \E base \in Nat :
        /\ status = "running" => Holds(base, Outline(migration, First, task)[Position])
        /\ status = "finished" =>
             LET k == AtEnd(migration, 1, Len(Tasks))
             IN  k.view # "never" /\ (k.view = "clear" => Left(base, k))

\* The pool admin of a provider is an account or a rates helper of its own.
AdminIsHelper ==
    \A p \in Address :
        LET admin == Slot(p, "POOL_ADMIN")
        IN  admin[2] > 0 =>
              admin[1] = "ATokensAndRatesHelper" /\ Slot(admin, "provider") = p
=============================================================================
