---------------------------- MODULE Deployment_proofs ----------------------------
(***************************************************************************)
(* The safety of a deployment, for any migrations, any number of crashes    *)
(* and reruns: what is filed exists, proxies belong to their provider, and  *)
(* every attempt at a migration follows the outline of its program, so that *)
(* a finished one leaves one market and its administration is only ever     *)
(* lent to its own helper.                                                  *)
(***************************************************************************)
EXTENDS DeploymentOutline, SequenceTheorems, TLAPS

\* Contracts are numbered in the order of their creation.
Fresh == \A a \in contracts : a[2] \in 1..nonce

\* Proxies have no owner, so no task can write their fields; neither has the
\* address an unwritten mapping entry holds.
ProxiesKept ==
    /\ Slot(None, "owner") = None
    /\ \A a \in Address :
         LET pool == Slot(a, "LENDING_POOL")
             configurator == Slot(a, "LENDING_POOL_CONFIGURATOR")
         IN  /\ pool # None => Slot(pool, "provider") = a /\ Slot(pool, "owner") = None
             /\ configurator # None =>
                  /\ Slot(configurator, "provider") = a
                  /\ Slot(configurator, "owner") = None
                  /\ Slot(configurator, "pool") \in {pool, None}

\* What the contracts store is well typed and exists.
StoredOK ==
    \A k \in DOMAIN slot :
        k \in Address \X Names /\ slot[k] \in Address /\ Exists(k[1]) /\ Exists(slot[k])

\* A process that does not run has no variables.
StoppedIsBlank == status # "running" => locals = Accounts

\* The process is somewhere in its tasks.
ProcessOK ==
    /\ todo \in Seq(Steps) /\ SentAreAwaited(todo)
    /\ migration \in Migrations /\ task \in DOMAIN Tasks
    /\ single \in BOOLEAN /\ status \in {"running", "idle", "failed", "finished"}
    /\ crashes \in 0..MaxCrashes /\ reruns \in 0..MaxReruns
    /\ StoppedIsBlank

\* What is filed after it was mined exists.
FileOK ==
    \A k \in DOMAIN db : db[k] \in Address /\ (k \notin FiledWhenSent => Exists(db[k]))

\* The file and the task's variables name what exists.
BookFirm ==
    FileOK /\ \A v \in DOMAIN locals : locals[v] \in Address /\ Exists(locals[v])

\* A contract that was sent has its number.
SentNumbered == \A v \in DOMAIN locals : ~Exists(locals[v]) => locals[v][2] \in 1..nonce

\* So they do but for a contract sent and not yet awaited.
BookOK ==
    /\ FileOK
    /\ \A v \in DOMAIN locals : locals[v] \in Address /\ (Exists(locals[v]) \/ Awaited(todo, v))
    /\ SentNumbered

\* The rest of the chain is well typed.
MarketOK ==
    /\ nonce \in Nat /\ contracts \subseteq Address
    /\ \A r \in reserves : {r.pool, r.project, r.asset, r.strategy} \subseteq Address
    /\ configured \cup registered \subseteq Address \X Address
    /\ paused \subseteq Address

DeploymentInv ==
    /\ TypeOK
    /\ todo \in Seq(Steps) /\ SentAreAwaited(todo)
    /\ StoppedIsBlank
    /\ NothingDangles
    /\ SentNumbered
    /\ Fresh
    /\ ProxiesKept

-----------------------------------------------------------------------------
(* Lemmas *)

\* A task of a migration is a sequence of steps, and there is a first one.
LEMMA TasksAreSequences ==
    ASSUME migration \in Migrations
    PROVE  /\ Tasks \in Seq(Seq(Steps)) /\ 1 \in DOMAIN Tasks
           /\ \A t \in DOMAIN Tasks : Tasks[t] \in Seq(Steps) /\ SentAreAwaited(Tasks[t])
  BY ProgramAssumption DEF Tasks

\* What is sent and awaited in a sequence is so in its tail.
LEMMA TailAwaited ==
    ASSUME NEW steps \in Seq(Steps), steps # <<>>
    PROVE  /\ SentAreAwaited(steps) => SentAreAwaited(Tail(steps))
           /\ \A i \in Nat \ {0} : \A v :
                AwaitedAt(Tail(steps), i, v) <=> AwaitedAt(steps, i + 1, v)
           /\ \A i \in Nat \ {0} : FiledAt(Tail(steps), i) <=> FiledAt(steps, i + 1)
  <1>1. /\ \A i \in Nat \ {0} : i \in DOMAIN Tail(steps) <=> i + 1 \in DOMAIN steps
        /\ \A i \in DOMAIN Tail(steps) : i \in Nat \ {0} /\ Tail(steps)[i] = steps[i + 1]
    BY HeadTailProperties
  <1>2. /\ \A i \in Nat \ {0} : \A v :
             AwaitedAt(Tail(steps), i, v) <=> AwaitedAt(steps, i + 1, v)
        /\ \A i \in Nat \ {0} : FiledAt(Tail(steps), i) <=> FiledAt(steps, i + 1)
    BY <1>1 DEF AwaitedAt, FiledAt
  <1>3. ASSUME SentAreAwaited(steps), NEW i \in DOMAIN Tail(steps), Tail(steps)[i].op = "send"
        PROVE  FiledAt(Tail(steps), i + 1) /\ AwaitedAt(Tail(steps), i + 2, Tail(steps)[i].name)
    <2>1. i \in Nat \ {0} /\ i + 1 \in DOMAIN steps /\ Tail(steps)[i] = steps[i + 1]
      BY <1>1
    <2>2. FiledAt(steps, (i + 1) + 1) /\ AwaitedAt(steps, (i + 1) + 2, steps[i + 1].name)
      BY <1>3, <2>1 DEF SentAreAwaited
    <2>3. (i + 1) + 2 = (i + 2) + 1 /\ i + 1 \in Nat \ {0} /\ i + 2 \in Nat \ {0}
      BY <2>1
    <2> QED BY <1>2, <2>1, <2>2, <2>3
  <1> QED BY <1>2, <1>3 DEF SentAreAwaited

\* The step a running task takes is well formed and leaves a sequence of steps.
LEMMA StepTaken ==
    ASSUME DeploymentInv, NEW op, Running(op)
    PROVE  /\ WellFormed(Now) /\ Now.op = op /\ Accepted(Now)
           /\ todo \in Seq(Steps) /\ todo # <<>> /\ todo[1] = Now /\ 1 \in DOMAIN todo
           /\ Tail(todo) \in Seq(Steps)
  <1>1. todo # <<>> /\ Now.op = op /\ Accepted(Now)
    BY DEF Running
  <1>2. todo \in Seq(Steps) /\ Head(todo) \in Steps /\ Tail(todo) \in Seq(Steps)
        /\ 1 \in DOMAIN todo /\ todo[1] = Head(todo)
    BY <1>1, HeadTailProperties DEF DeploymentInv
  <1> QED BY <1>1, <1>2, ProgramAssumption DEF Now

\* Only the steps after a deployment is sent see a contract that may not exist.
LEMMA NothingAwaited ==
    ASSUME DeploymentInv, NEW op, Running(op), op \notin {"save", "wait"}
    PROVE  BookFirm
  <1>1. todo[1].op = op
    BY StepTaken
  <1>2. \A v \in DOMAIN locals : Exists(locals[v])
    BY <1>1 DEF DeploymentInv, NothingDangles, Awaited, AwaitedAt, FiledAt
  <1> QED BY <1>2 DEF BookFirm, FileOK, DeploymentInv, TypeOK, NothingDangles

\* The variables a step uses hold addresses.
LEMMA UsedBound ==
    ASSUME DeploymentInv, Accepted(Now), WellFormed(Now), NEW v \in Now.uses
    PROVE  v \in Names /\ v \in DOMAIN locals /\ locals[v] \in Address
  BY DEF DeploymentInv, TypeOK, Accepted, WellFormed

\* Other steps use contracts that exist.
LEMMA UsedExists ==
    ASSUME DeploymentInv, BookFirm, Accepted(Now), WellFormed(Now), NEW v \in Now.uses
    PROVE  v \in Names /\ v \in DOMAIN locals /\ locals[v] \in Address /\ Exists(locals[v])
  BY UsedBound DEF BookFirm

\* Whatever is stored, or not, exists.
LEMMA StoredExists ==
    ASSUME DeploymentInv, NEW a, NEW f
    PROVE  Slot(a, f) \in Address /\ Exists(Slot(a, f))
  <1>1. None \in Address /\ None[2] = 0
    BY NamesAssumption DEF None, Given, Address
  <1> QED BY <1>1 DEF DeploymentInv, TypeOK, NothingDangles, Slot, Exists

\* An address that does not exist yet stores nothing.
LEMMA NewIsBlank ==
    ASSUME DeploymentInv, NEW n \in Names
    PROVE  /\ <<n, nonce + 1>> \in Address
           /\ ~Exists(<<n, nonce + 1>>)
           /\ \A f : Slot(<<n, nonce + 1>>, f) = None
  <1> DEFINE new == <<n, nonce + 1>>
  <1>1. nonce \in Nat /\ new \in Address /\ new[2] = nonce + 1
    BY DEF DeploymentInv, TypeOK, Address
  <1>2. ~Exists(new)
    BY <1>1 DEF DeploymentInv, Fresh, Exists
  <1>3. ASSUME NEW f PROVE <<new, f>> \notin DOMAIN slot
    <2> HIDE DEF new
    <2> QED BY <1>2 DEF DeploymentInv, NothingDangles
  <1> QED BY <1>1, <1>2, <1>3 DEF Slot

\* What an assignment to one entry leaves in the mapping.
LEMMA BindFacts ==
    ASSUME NEW f, NEW k, NEW v
    PROVE  /\ DOMAIN Bind(f, k, v) = DOMAIN f \cup {k}
           /\ Bind(f, k, v)[k] = v
           /\ \A x \in DOMAIN f : x # k => Bind(f, k, v)[x] = f[x]
  BY DEF Bind

\* What a field holds after one field was set.
LEMMA SlotAfterBind ==
    ASSUME NEW b, NEW g, NEW v, slot' = Bind(slot, <<b, g>>, v)
    PROVE  \A a, f : Slot(a, f)' = IF a = b /\ f = g THEN v ELSE Slot(a, f)
  <1> SUFFICES ASSUME NEW a, NEW f
               PROVE  Slot(a, f)' = IF a = b /\ f = g THEN v ELSE Slot(a, f)
    OBVIOUS
  <1> DEFINE k == <<a, f>>
             w == <<b, g>>
  <1>1. k = w <=> a = b /\ f = g
    OBVIOUS
  <1>2. slot' = Bind(slot, w, v)
    OBVIOUS
  <1>3. Slot(a, f) = (IF k \in DOMAIN slot THEN slot[k] ELSE None)
    BY DEF Slot
  <1>4. Slot(a, f)' = (IF k \in DOMAIN slot' THEN slot'[k] ELSE None)
    BY DEF Slot
  <1>5. DOMAIN slot' = DOMAIN slot \cup {w} /\ slot'[w] = v
    BY <1>2 DEF Bind
  <1>6. k # w /\ k \in DOMAIN slot => slot'[k] = slot[k]
    BY <1>2 DEF Bind
  <1>7. CASE k = w
    BY <1>1, <1>4, <1>5, <1>7
  <1>8. CASE k # w
    <2> HIDE DEF k, w
    <2> QED BY <1>1, <1>3, <1>4, <1>5, <1>6, <1>8
  <1> QED BY <1>7, <1>8

\* The accounts a task starts with are addresses and stand.
LEMMA AccountsExist ==
    \A v \in DOMAIN Accounts : Accounts[v] \in Address /\ Exists(Accounts[v])
  BY NamesAssumption DEF Accounts, Given, Deployer, Address, Exists

-----------------------------------------------------------------------------
(* The invariant *)

\* The first attempt starts with an empty chain and file.
LEMMA InitInv == Init => DeploymentInv
  <1> SUFFICES ASSUME Init PROVE DeploymentInv
    OBVIOUS
  <1> USE DEF Init
  <1>1. todo \in Seq(Steps) /\ SentAreAwaited(todo) /\ task \in DOMAIN Tasks
    BY TasksAreSequences
  <1>2. \A k \in DOMAIN slot : k[1] \in Address /\ k[1][2] = 0 /\ k[2] = "owner" /\ slot[k] = Deployer
    BY NamesAssumption, BoundsAssumption DEF Given, Address
  <1>3. Deployer \in Address /\ Deployer[2] = 0 /\ None \in Address
    BY NamesAssumption DEF Deployer, Given, Address, None
  <1>4. DOMAIN slot \subseteq Address \X Names
    BY NamesAssumption, BoundsAssumption DEF Given, Address
  <1>5. TypeOK
    <2>1. DOMAIN slot \subseteq Address \X Names /\ \A k \in DOMAIN slot : slot[k] \in Address
      BY <1>2, <1>3, <1>4
    <2>2. \A v \in DOMAIN locals : locals[v] \in Address
      BY AccountsExist
    <2>3. \A k \in DOMAIN db : db[k] \in Address
      OBVIOUS
    <2>4. crashes \in 0..MaxCrashes /\ reruns \in 0..MaxReruns
      BY BoundsAssumption
    <2>5. nonce \in Nat /\ single \in BOOLEAN
          /\ status \in {"running", "idle", "failed", "finished"}
      OBVIOUS
    <2> QED BY <1>1, <2>1, <2>2, <2>3, <2>4, <2>5 DEF TypeOK
  <1>6. NothingDangles
    BY <1>2, <1>3, AccountsExist DEF NothingDangles, Exists
  <1>7. <<None, "owner">> \notin DOMAIN slot
    BY BoundsAssumption DEF None, Given
  <1>8. \A a, f : f # "owner" => Slot(a, f) = None
    BY <1>2 DEF Slot
  <1>9. ProxiesKept
    BY <1>7, <1>8 DEF ProxiesKept, Slot
  <1>10. Fresh
    BY DEF Fresh
  <1>11. SentNumbered /\ StoppedIsBlank
    BY AccountsExist DEF SentNumbered, StoppedIsBlank
  <1> QED BY <1>1, <1>5, <1>6, <1>9, <1>10, <1>11 DEF DeploymentInv

\* A step that creates nothing and stores nothing keeps the chain's part.
LEMMA ChainUntouched ==
    ASSUME DeploymentInv, UNCHANGED <<nonce, contracts, slot>>
    PROVE  Fresh' /\ ProxiesKept' /\ StoredOK' /\ \A a : Exists(a)' <=> Exists(a)
  <1>1. Fresh' /\ \A a : Exists(a)' <=> Exists(a)
    BY DEF DeploymentInv, Fresh, Exists
  <1>2. ProxiesKept'
    BY DEF DeploymentInv, ProxiesKept, Slot
  <1>3. StoredOK
    BY DEF DeploymentInv, TypeOK, NothingDangles, StoredOK
  <1>4. StoredOK'
    BY <1>3 DEF StoredOK, Exists
  <1> QED BY <1>1, <1>2, <1>4

\* Advance moves on in the same task.
LEMMA AdvanceKeeps ==
    ASSUME DeploymentInv, NEW op, Running(op), Advance
    PROVE  ProcessOK'
  <1>1. todo' = Tail(todo) /\ todo' \in Seq(Steps) /\ SentAreAwaited(todo')
    BY StepTaken, TailAwaited DEF Advance, DeploymentInv
  <1> QED BY <1>1 DEF DeploymentInv, TypeOK, Advance, Running, ProcessOK, StoppedIsBlank, Tasks

\* A field set by an owner of the contract, or by its helper, is no proxy's.
LEMMA FieldSetKeeps ==
    ASSUME DeploymentInv, UNCHANGED <<nonce, contracts>>,
           NEW b \in Address, NEW g \in Names \ ProxyFields, NEW v \in Address,
           Exists(b), Exists(v), Slot(b, "owner") # None,
           slot' = Bind(slot, <<b, g>>, v)
    PROVE  Fresh' /\ ProxiesKept' /\ StoredOK' /\ \A a : Exists(a)' <=> Exists(a)
  <1>1. Fresh' /\ \A a : Exists(a)' <=> Exists(a)
    BY DEF DeploymentInv, Fresh, Exists
  <1>2. \A a, f : Slot(a, f)' = IF a = b /\ f = g THEN v ELSE Slot(a, f)
    BY SlotAfterBind
  <1>3. ASSUME NEW a \in Address, NEW f \in ProxyFields PROVE Slot(a, f)' = Slot(a, f)
    BY <1>2 DEF ProxyFields
  <1>4. ASSUME NEW a, Slot(a, "owner") = None, NEW f PROVE Slot(a, f)' = Slot(a, f)
    BY <1>2, <1>4
  <1>5. ProxiesKept'
    <2>1. ProxiesKept /\ Slot(None, "owner")' = None
      BY <1>4 DEF DeploymentInv, ProxiesKept
    <2> SUFFICES ASSUME NEW a \in Address, NEW p, NEW c,
                        p = Slot(a, "LENDING_POOL")', c = Slot(a, "LENDING_POOL_CONFIGURATOR")'
                 PROVE  /\ p # None => Slot(p, "provider")' = a /\ Slot(p, "owner")' = None
                        /\ c # None => /\ Slot(c, "provider")' = a /\ Slot(c, "owner")' = None
                                       /\ Slot(c, "pool")' \in {p, None}
      BY <2>1 DEF ProxiesKept
    <2>2. /\ Slot(a, "LENDING_POOL")' = Slot(a, "LENDING_POOL")
          /\ Slot(a, "LENDING_POOL_CONFIGURATOR")' = Slot(a, "LENDING_POOL_CONFIGURATOR")
      BY <1>3 DEF ProxyFields
    <2> QED BY <2>1, <2>2, <1>4 DEF ProxiesKept
  <1>6. DOMAIN slot' = DOMAIN slot \cup {<<b, g>>} /\ slot'[<<b, g>>] = v
        /\ \A k \in DOMAIN slot : k # <<b, g>> => slot'[k] = slot[k]
    BY DEF Bind
  <1>7. StoredOK'
    <2> SUFFICES ASSUME NEW k \in DOMAIN slot'
                 PROVE  k \in Address \X Names /\ slot'[k] \in Address
                        /\ Exists(k[1]) /\ Exists(slot'[k])
      BY <1>1 DEF StoredOK, Exists
    <2>1. CASE k = <<b, g>>
      BY <2>1, <1>6
    <2>2. CASE k # <<b, g>>
      BY <2>2, <1>6 DEF DeploymentInv, TypeOK, NothingDangles
    <2> QED BY <2>1, <2>2
  <1> QED BY <1>1, <1>5, <1>7

\* The next contract is numbered higher than all that stand.
LEMMA CreationKeeps ==
    ASSUME DeploymentInv, NEW n \in Names, NEW new, new = <<n, nonce + 1>>,
           Deployed(new), nonce' = nonce + 1
    PROVE  Fresh' /\ Exists(new)' /\ \A a : Exists(a) => Exists(a)'
  <1>1. contracts' = contracts \cup {new} /\ nonce \in Nat
    BY DEF Deployed, DeploymentInv, TypeOK
  <1>2. Fresh'
    BY <1>1 DEF DeploymentInv, Fresh
  <1> QED BY <1>1, <1>2 DEF Exists

\* A constructor writes to its own contract only, and to no proxy field.
LEMMA CreateKeeps ==
    ASSUME DeploymentInv, Create
    PROVE  Fresh' /\ ProxiesKept' /\ StoredOK' /\ \A a : Exists(a) => Exists(a)'
  <1> PICK new : new = <<Now.name, nonce + 1>>
    OBVIOUS
  <1> DEFINE fields == {<<new, f>> : f \in DOMAIN Now.links}
  <1>1. WellFormed(Now) /\ Now.op = "deploy" /\ Accepted(Now)
    BY StepTaken DEF Create, Assigned
  <1>2. /\ Deployed(new) /\ nonce' = nonce + 1
        /\ slot' = [k \in DOMAIN slot \cup fields \cup {<<new, "owner">>} |->
                      IF k \in fields THEN locals[Now.links[k[2]]]
                      ELSE IF k = <<new, "owner">> THEN Deployer ELSE slot[k]]
    BY DEF Create, Assigned
  <1>3. Now.name \in Names /\ DOMAIN Now.links \subseteq Names \ (ProxyFields \cup {"owner"})
        /\ \A f \in DOMAIN Now.links : Now.links[f] \in Now.uses
    BY <1>1 DEF WellFormed
  <1>4. new \in Address /\ ~Exists(new) /\ \A f : Slot(new, f) = None
    BY <1>3, NewIsBlank
  <1>5. Fresh' /\ Exists(new)' /\ \A a : Exists(a) => Exists(a)'
    BY <1>2, <1>3, CreationKeeps
  <1>6. \A k \in fields : k[1] = new /\ k[2] \in DOMAIN Now.links /\ k = <<new, k[2]>>
    OBVIOUS
  <1> HIDE DEF fields
  <1>7. ASSUME NEW a, NEW f, a # new PROVE Slot(a, f)' = Slot(a, f)
    <2>1. <<a, f>> \notin fields /\ <<a, f>> # <<new, "owner">>
      BY <1>6, <1>7
    <2> DEFINE k == <<a, f>>
    <2>2. k \in DOMAIN slot' <=> k \in DOMAIN slot
      BY <2>1, <1>2
    <2>3. k \in DOMAIN slot => slot'[k] = slot[k]
      BY <2>1, <1>2
    <2> QED BY <2>2, <2>3 DEF Slot
  <1>8. ASSUME NEW f \in ProxyFields PROVE Slot(new, f)' = None
    <2>1. f # "owner" /\ f \notin DOMAIN Now.links
      BY <1>3 DEF ProxyFields
    <2>2. <<new, f>> \notin fields /\ <<new, f>> # <<new, "owner">>
      BY <2>1, <1>6
    <2> DEFINE k == <<new, f>>
    <2>3. k \notin DOMAIN slot
      BY <1>4 DEF DeploymentInv, NothingDangles
    <2>4. k \notin DOMAIN slot'
      BY <2>2, <2>3, <1>2
    <2> QED BY <2>4 DEF Slot
  <1>9. ProxiesKept'
    <2>1. ProxiesKept /\ None # new
      BY <1>4 DEF DeploymentInv, None, Given, Exists
    <2> SUFFICES ASSUME NEW a \in Address, NEW p, NEW c,
                        p = Slot(a, "LENDING_POOL")', c = Slot(a, "LENDING_POOL_CONFIGURATOR")'
                 PROVE  /\ p # None => Slot(p, "provider")' = a /\ Slot(p, "owner")' = None
                        /\ c # None => /\ Slot(c, "provider")' = a /\ Slot(c, "owner")' = None
                                       /\ Slot(c, "pool")' \in {p, None}
      BY <2>1, <1>7 DEF ProxiesKept
    <2>2. CASE a = new
      BY <2>2, <1>8 DEF ProxyFields
    <2>3. CASE a # new
      <3>1. p = Slot(a, "LENDING_POOL") /\ c = Slot(a, "LENDING_POOL_CONFIGURATOR")
        BY <2>3, <1>7
      <3>2. p # new /\ c # new
        BY <3>1, <1>4, StoredExists
      <3> QED BY <3>1, <3>2, <2>1, <1>7 DEF ProxiesKept
    <2> QED BY <2>2, <2>3
  <1>10. StoredOK'
    <2> SUFFICES ASSUME NEW k \in DOMAIN slot'
                 PROVE  k \in Address \X Names /\ slot'[k] \in Address
                        /\ Exists(k[1])' /\ \E x : x = slot'[k] /\ Exists(x)'
      BY DEF StoredOK
    <2>1. CASE k \in fields
      <3>1. k[2] \in DOMAIN Now.links /\ k = <<new, k[2]>> /\ k[1] = new
            /\ slot'[k] = locals[Now.links[k[2]]]
        BY <2>1, <1>2, <1>6
      <3>2. k[2] \in Names /\ Now.links[k[2]] \in Now.uses
        BY <3>1, <1>3
      <3>3. slot'[k] \in Address /\ Exists(locals[Now.links[k[2]]])
        BY <3>1, <3>2, <1>1, UsedExists, NothingAwaited DEF Create
      <3> QED BY <3>1, <3>2, <3>3, <1>4, <1>5
    <2>2. CASE k \notin fields /\ k = <<new, "owner">>
      <3>1. slot'[k] = Deployer /\ Deployer \in Address /\ Exists(Deployer) /\ "owner" \in Names
        BY <2>2, <1>2, NamesAssumption DEF Deployer, Given, Address, Exists
      <3> QED BY <3>1, <2>2, <1>4, <1>5
    <2>3. CASE k \notin fields /\ k # <<new, "owner">>
      <3>1. k \in DOMAIN slot /\ slot'[k] = slot[k]
        BY <2>3, <1>2
      <3> QED BY <3>1, <1>5 DEF DeploymentInv, TypeOK, NothingDangles
    <2> QED BY <2>1, <2>2, <2>3
  <1> QED BY <1>5, <1>9, <1>10

\* A provider's first proxy of a kind points back to it, and stores the pool
\* the provider has, if any.
LEMMA NewProxyKeeps ==
    ASSUME DeploymentInv, BookFirm, WellFormed(Now), Accepted(Now),
           NEW field \in ProxyFields, NEW name \in Names, NEW pool,
           Now.of \in Now.uses, Now.name \in Now.uses,
           Slot(locals[Now.of], field) = None,
           field = "LENDING_POOL" => pool = None,
           field = "LENDING_POOL_CONFIGURATOR" => pool = Slot(locals[Now.of], "LENDING_POOL"),
           NewProxy(field, name, pool)
    PROVE  Fresh' /\ ProxiesKept' /\ StoredOK' /\ \A a : Exists(a) => Exists(a)'
  <1> PICK provider, proxy, impl :
        provider = locals[Now.of] /\ proxy = <<name, nonce + 1>> /\ impl = locals[Now.name]
    OBVIOUS
  <1> DEFINE kept == {"provider", "implementation", "pool"}
             written == {<<proxy, f>> : f \in kept}
             stored == Initialized(provider, impl, pool)
  <1>1. /\ provider \in Address /\ Exists(provider) /\ impl \in Address /\ Exists(impl)
        /\ pool \in Address /\ Exists(pool)
    <2>1. provider \in Address /\ Exists(provider) /\ impl \in Address /\ Exists(impl)
      BY UsedExists
    <2>2. None \in Address /\ Exists(None)
      BY NamesAssumption DEF None, Given, Address, Exists
    <2> QED BY <2>1, <2>2, StoredExists DEF ProxyFields
  <1>2. /\ Deployed(proxy) /\ nonce' = nonce + 1
        /\ slot' = [k \in DOMAIN slot \cup written \cup {<<provider, field>>} |->
                      IF k = <<provider, field>> THEN proxy
                      ELSE IF k \in written THEN stored[k[2]] ELSE slot[k]]
    BY DEF NewProxy, Initialized
  <1>3. /\ stored["provider"] = provider /\ stored["pool"] = pool
        /\ \A f \in kept : stored[f] \in {provider, impl, pool}
    BY DEF Initialized
  <1>4. proxy \in Address /\ ~Exists(proxy) /\ \A f : Slot(proxy, f) = None
    BY NewIsBlank
  <1>5. Fresh' /\ Exists(proxy)' /\ \A a : Exists(a) => Exists(a)'
    BY <1>2, CreationKeeps
  <1>6. \A k \in written : k[1] = proxy /\ k[2] \in kept /\ k = <<proxy, k[2]>>
    OBVIOUS
  <1>7. provider # proxy /\ None # proxy
    BY <1>1, <1>4 DEF None, Given, Exists
  <1>8. \A f \in kept : <<proxy, f>> \in written
    OBVIOUS
  <1> HIDE DEF written, stored
  <1>9. ASSUME NEW a, NEW f, a # proxy, a # provider \/ f # field
        PROVE  Slot(a, f)' = Slot(a, f)
    <2>1. <<a, f>> \notin written /\ <<a, f>> # <<provider, field>>
      BY <1>6, <1>9
    <2> DEFINE k == <<a, f>>
    <2>2. k \in DOMAIN slot' <=> k \in DOMAIN slot
      BY <2>1, <1>2
    <2>3. k \in DOMAIN slot => slot'[k] = slot[k]
      BY <2>1, <1>2
    <2> QED BY <2>2, <2>3 DEF Slot
  <1>10. Slot(provider, field)' = proxy
    <2>1. <<provider, field>> \in DOMAIN slot' /\ slot'[<<provider, field>>] = proxy
      BY <1>2
    <2> QED BY <2>1 DEF Slot
  <1>11. Slot(proxy, "provider")' = provider /\ Slot(proxy, "pool")' = pool
    <2>1. ASSUME NEW f \in kept PROVE Slot(proxy, f)' = stored[f]
      <3>1. <<proxy, f>> \in DOMAIN slot' /\ slot'[<<proxy, f>>] = stored[f]
        BY <1>2, <1>7, <1>8
      <3> QED BY <3>1 DEF Slot
    <2> QED BY <2>1, <1>3
  <1>12. ASSUME NEW f \in ProxyFields \cup {"owner"} PROVE Slot(proxy, f)' = None
    <2>1. <<proxy, f>> \notin written /\ <<proxy, f>> # <<provider, field>>
      BY <1>6, <1>7 DEF ProxyFields
    <2>2. <<proxy, f>> \notin DOMAIN slot
      BY <1>4 DEF DeploymentInv, NothingDangles
    <2>3. <<proxy, f>> \notin DOMAIN slot'
      BY <2>1, <2>2, <1>2
    <2> QED BY <2>3 DEF Slot
  <1>13. ProxiesKept'
    <2>1. ProxiesKept /\ Slot(None, "owner")' = None
      BY <1>7, <1>9 DEF DeploymentInv, ProxiesKept, ProxyFields
    <2> SUFFICES ASSUME NEW a \in Address, NEW p, NEW c,
                        p = Slot(a, "LENDING_POOL")', c = Slot(a, "LENDING_POOL_CONFIGURATOR")'
                 PROVE  /\ p # None => Slot(p, "provider")' = a /\ Slot(p, "owner")' = None
                        /\ c # None => /\ Slot(c, "provider")' = a /\ Slot(c, "owner")' = None
                                       /\ Slot(c, "pool")' \in {p, None}
      BY <2>1 DEF ProxiesKept
    <2>2. CASE a = proxy
      BY <2>2, <1>12 DEF ProxyFields
    <2>3. ASSUME NEW q, q # proxy PROVE \A f \in {"provider", "owner", "pool"} : Slot(q, f)' = Slot(q, f)
      BY <2>3, <1>9 DEF ProxyFields
    <2>4. Slot(a, "LENDING_POOL") # proxy /\ Slot(a, "LENDING_POOL_CONFIGURATOR") # proxy
      BY <1>4, StoredExists
    <2>5. CASE a # proxy /\ a # provider
      <3>1. p = Slot(a, "LENDING_POOL") /\ c = Slot(a, "LENDING_POOL_CONFIGURATOR")
        BY <2>5, <1>9
      <3> QED BY <3>1, <2>1, <2>3, <2>4 DEF ProxiesKept
    <2>6. CASE a = provider /\ field = "LENDING_POOL"
      <3>1. p = proxy /\ c = Slot(a, "LENDING_POOL_CONFIGURATOR") /\ pool = None
        BY <2>6, <1>9, <1>10, <1>7
      <3>2. c # None => /\ Slot(c, "provider")' = a /\ Slot(c, "owner")' = None
                        /\ Slot(c, "pool")' = None
        BY <3>1, <2>1, <2>3, <2>4, <2>6 DEF ProxiesKept
      <3> QED BY <3>1, <3>2, <2>6, <1>11, <1>12
    <2>7. CASE a = provider /\ field = "LENDING_POOL_CONFIGURATOR"
      <3>1. c = proxy /\ p = Slot(a, "LENDING_POOL") /\ pool = p
        BY <2>7, <1>9, <1>10, <1>7
      <3>2. p # None => Slot(p, "provider")' = a /\ Slot(p, "owner")' = None
        BY <3>1, <2>1, <2>3, <2>4 DEF ProxiesKept
      <3> QED BY <3>1, <3>2, <2>7, <1>11, <1>12
    <2> QED BY <2>2, <2>5, <2>6, <2>7 DEF ProxyFields
  <1>14. StoredOK'
    <2> SUFFICES ASSUME NEW k \in DOMAIN slot'
                 PROVE  k \in Address \X Names /\ slot'[k] \in Address
                        /\ Exists(k[1])' /\ \E x : x = slot'[k] /\ Exists(x)'
      BY DEF StoredOK
    <2>1. CASE k = <<provider, field>>
      <3>1. slot'[k] = proxy /\ field \in Names
        BY <2>1, <1>2, NamesAssumption DEF ProxyFields
      <3> QED BY <3>1, <2>1, <1>1, <1>4, <1>5
    <2>2. CASE k # <<provider, field>> /\ k \in written
      <3>1. k[2] \in kept /\ k = <<proxy, k[2]>> /\ k[1] = proxy /\ slot'[k] = stored[k[2]]
        BY <2>2, <1>2, <1>6
      <3>2. k[2] \in Names /\ slot'[k] \in {provider, impl, pool}
        BY <3>1, <1>3, NamesAssumption
      <3> QED BY <3>1, <3>2, <1>1, <1>4, <1>5
    <2>3. CASE k # <<provider, field>> /\ k \notin written
      <3>1. k \in DOMAIN slot /\ slot'[k] = slot[k]
        BY <2>3, <1>2
      <3> QED BY <3>1, <1>5 DEF DeploymentInv, TypeOK, NothingDangles
    <2> QED BY <2>1, <2>2, <2>3
  <1> QED BY <1>5, <1>13, <1>14

\* The invariant, part by part.
LEMMA PartsOfInv ==
    ASSUME DeploymentInv
    PROVE  ProcessOK /\ BookOK /\ MarketOK /\ StoredOK
  <1>1. BookOK
    BY DEF DeploymentInv, TypeOK, NothingDangles, FileOK, BookOK
  <1> QED BY <1>1 DEF DeploymentInv, TypeOK, NothingDangles, ProcessOK, MarketOK, StoredOK

\* A book whose contracts all exist is one.
LEMMA FirmIsOK == BookFirm' => BookOK'
  BY DEF BookFirm, BookOK, SentNumbered

\* The parts make the invariant.
LEMMA InvFromParts ==
    ASSUME ProcessOK', BookOK' \/ BookFirm', MarketOK', StoredOK', Fresh', ProxiesKept'
    PROVE  DeploymentInv'
  <1>0. BookOK'
    BY FirmIsOK
  <1>1. TypeOK'
    <2>1. (DOMAIN slot \subseteq Address \X Names /\ \A k \in DOMAIN slot : slot[k] \in Address)'
      BY DEF StoredOK
    <2> QED BY <1>0, <2>1 DEF TypeOK, ProcessOK, BookOK, FileOK, MarketOK, Tasks
  <1>2. NothingDangles'
    BY <1>0 DEF NothingDangles, StoredOK, BookOK, FileOK
  <1> QED BY <1>0, <1>1, <1>2 DEF DeploymentInv, ProcessOK, BookOK

\* What an action that leaves the file and the variables alone keeps of them.
LEMMA BookKept ==
    ASSUME BookFirm, UNCHANGED <<db, locals>>, \A a : Exists(a) => Exists(a)'
    PROVE  BookFirm'
  BY DEF BookFirm, FileOK

\* One more name for an address that exists.
LEMMA BookBound ==
    ASSUME BookFirm, \A a : Exists(a) => Exists(a)', NEW k, NEW a \in Address, Exists(a)',
           \/ db' = Bind(db, k, a) /\ UNCHANGED locals
           \/ locals' = Bind(locals, k, a) /\ UNCHANGED db
    PROVE  BookFirm'
  <1>1. CASE db' = Bind(db, k, a) /\ UNCHANGED locals
    <2>1. ASSUME NEW x \in DOMAIN db'
          PROVE  \E y : y = db'[x] /\ y \in Address /\ (x \notin FiledWhenSent => Exists(y)')
      <3>1. CASE x = k
        BY <1>1, <3>1 DEF Bind
      <3>2. CASE x # k
        BY <1>1, <3>2 DEF Bind, BookFirm, FileOK
      <3> QED BY <3>1, <3>2
    <2> QED BY <1>1, <2>1 DEF BookFirm, FileOK, Exists
  <1>2. CASE locals' = Bind(locals, k, a) /\ UNCHANGED db
    <2>1. ASSUME NEW x \in DOMAIN locals' 
          PROVE  \E y : y = locals'[x] /\ y \in Address /\ Exists(y)'
      <3>1. CASE x = k
        BY <1>2, <3>1 DEF Bind
      <3>2. CASE x # k
        BY <1>2, <3>2 DEF Bind, BookFirm
      <3> QED BY <3>1, <3>2
    <2> QED BY <1>2, <2>1 DEF BookFirm, FileOK, Exists
  <1> QED BY <1>1, <1>2

\* A contract that is mined stores its owner, and nothing pointed to it before.
LEMMA MinedKeeps ==
    ASSUME DeploymentInv, nonce' \in {nonce, nonce + 1},
           NEW new \in Address, ~Exists(new), new[2] \in 1..nonce', Mined(new)
    PROVE  /\ Fresh' /\ ProxiesKept' /\ StoredOK'
           /\ Exists(new)' /\ \A a : Exists(a) => Exists(a)'
  <1>1. contracts' = contracts \cup {new} /\ slot' = Bind(slot, <<new, "owner">>, Deployer)
    BY DEF Mined, Deployed
  <1>2. Fresh'
    BY <1>1 DEF DeploymentInv, TypeOK, Fresh
  <1>3. Exists(new)' /\ \A a : Exists(a) => Exists(a)'
    BY <1>1 DEF Exists
  <1>4. \A a, f : Slot(a, f)' = IF a = new /\ f = "owner" THEN Deployer ELSE Slot(a, f)
    BY <1>1, SlotAfterBind
  <1>5. ProxiesKept'
    <2>1. ProxiesKept /\ None # new
      BY DEF DeploymentInv, None, Given, Exists
    <2> SUFFICES ASSUME NEW a \in Address, NEW p, NEW c,
                        p = Slot(a, "LENDING_POOL")', c = Slot(a, "LENDING_POOL_CONFIGURATOR")'
                 PROVE  /\ p # None => Slot(p, "provider")' = a /\ Slot(p, "owner")' = None
                        /\ c # None => /\ Slot(c, "provider")' = a /\ Slot(c, "owner")' = None
                                       /\ Slot(c, "pool")' \in {p, None}
      BY <1>4, <2>1 DEF ProxiesKept
    <2>2. p = Slot(a, "LENDING_POOL") /\ c = Slot(a, "LENDING_POOL_CONFIGURATOR")
      BY <1>4
    <2>3. p # new /\ c # new
      BY <2>2, StoredExists
    <2> QED BY <2>1, <2>2, <2>3, <1>4 DEF ProxiesKept
  <1>6. StoredOK'
    <2>1. Deployer \in Address /\ Exists(Deployer)' /\ "owner" \in Names
      BY NamesAssumption DEF Deployer, Given, Address, Exists
    <2> SUFFICES ASSUME NEW k \in DOMAIN slot'
                 PROVE  k \in Address \X Names /\ slot'[k] \in Address
                        /\ Exists(k[1])' /\ \E x : x = slot'[k] /\ Exists(x)'
      BY DEF StoredOK
    <2>2. CASE k = <<new, "owner">>
      BY <2>1, <2>2, <1>1, <1>3 DEF Bind
    <2>3. CASE k # <<new, "owner">>
      <3>1. k \in DOMAIN slot /\ slot'[k] = slot[k]
        BY <2>3, <1>1 DEF Bind
      <3> QED BY <3>1, <1>3 DEF DeploymentInv, TypeOK, NothingDangles
    <2> QED BY <2>2, <2>3
  <1> QED BY <1>2, <1>3, <1>5, <1>6

\* What is sent is mined or not, and its variable is awaited.
LEMMA SendKeeps ==
    ASSUME DeploymentInv, SendDeployment
    PROVE  /\ Fresh' /\ ProxiesKept' /\ StoredOK' /\ BookOK' /\ MarketOK'
           /\ \A a : Exists(a) => Exists(a)'
  <1> PICK new : new = <<Now.name, nonce + 1>>
    OBVIOUS
  <1>1. Running("send") /\ nonce' = nonce + 1 /\ todo' = Tail(todo)
        /\ locals' = Bind(locals, Now.name, new) /\ UNCHANGED db
        /\ (Mined(new) \/ UNCHANGED <<contracts, slot>>)
    BY DEF SendDeployment, Advance
  <1>2. WellFormed(Now) /\ Now.op = "send" /\ Now.name \in Names
        /\ todo \in Seq(Steps) /\ todo # <<>> /\ 1 \in DOMAIN todo /\ todo[1] = Now
    BY <1>1, StepTaken DEF WellFormed
  <1>3. new \in Address /\ ~Exists(new) /\ new[2] = nonce + 1 /\ nonce \in Nat
    BY <1>2, NewIsBlank DEF DeploymentInv, TypeOK
  <1>4. Fresh' /\ ProxiesKept' /\ StoredOK' /\ \A a : Exists(a) => Exists(a)'
    <2>1. CASE Mined(new)
      BY <1>1, <1>3, <2>1, MinedKeeps
    <2>2. CASE UNCHANGED <<contracts, slot>>
      <3>1. \A a : Exists(a)' <=> Exists(a)
        BY <2>2 DEF Exists
      <3>2. Fresh'
        BY <1>1, <1>3, <2>2 DEF DeploymentInv, Fresh
      <3>3. ProxiesKept'
        BY <2>2 DEF DeploymentInv, ProxiesKept, Slot
      <3>4. StoredOK /\ StoredOK'
        BY <2>2, PartsOfInv DEF StoredOK, Exists
      <3> QED BY <3>1, <3>2, <3>3, <3>4
    <2> QED BY <1>1, <2>1, <2>2
  <1>5. Awaited(todo', Now.name)
    <2>1. FiledAt(todo, 2) /\ AwaitedAt(todo, 3, Now.name)
      BY <1>2 DEF DeploymentInv, SentAreAwaited
    <2>2. FiledAt(todo, 1 + 1) /\ AwaitedAt(todo, 2 + 1, Now.name)
      BY <2>1
    <2>3. FiledAt(Tail(todo), 1) /\ AwaitedAt(Tail(todo), 2, Now.name)
      BY <1>2, <2>2, TailAwaited
    <2> QED BY <1>1, <2>3 DEF Awaited
  <1>6. BookOK'
    <2>1. BookFirm
      BY <1>1, NothingAwaited
    <2>2. ASSUME NEW v \in DOMAIN locals'
          PROVE  \E y : /\ y = locals'[v] /\ y \in Address
                         /\ (Exists(y)' \/ (Awaited(todo', v) /\ y[2] \in 1..nonce'))
      <3>1. CASE v = Now.name
        BY <1>1, <1>3, <1>5, <3>1 DEF Bind
      <3>2. CASE v # Now.name
        BY <1>1, <1>4, <2>1, <3>2 DEF Bind, BookFirm
      <3> QED BY <3>1, <3>2
    <2>3. FileOK'
      BY <1>1, <1>4, <2>1 DEF BookFirm, FileOK
    <2>4. SentNumbered'
      BY <2>2 DEF SentNumbered, Exists
    <2> QED BY <2>2, <2>3, <2>4 DEF BookOK, Exists
  <1>7. MarketOK'
    BY <1>1, <1>3, PartsOfInv DEF MarketOK, SendDeployment, Mined, Deployed
  <1> QED BY <1>4, <1>6, <1>7

\* When the process has waited, the contract exists.
LEMMA AwaitKeeps ==
    ASSUME DeploymentInv, AwaitDeployment
    PROVE  /\ Fresh' /\ ProxiesKept' /\ StoredOK' /\ BookFirm' /\ MarketOK'
           /\ \A a : Exists(a) => Exists(a)'
  <1> PICK sent : sent = locals[Now.of]
    OBVIOUS
  <1>1. Running("wait") /\ UNCHANGED <<nonce, db, locals>>
        /\ IF Exists(sent) THEN UNCHANGED <<contracts, slot>> ELSE Mined(sent)
    BY DEF AwaitDeployment
  <1>2. WellFormed(Now) /\ Accepted(Now) /\ Now.op = "wait" /\ Now.of \in Now.uses /\ todo[1] = Now
    BY <1>1, StepTaken DEF WellFormed
  <1>3. sent \in Address /\ Now.of \in DOMAIN locals
    BY <1>2, UsedBound
  <1>4. /\ Fresh' /\ ProxiesKept' /\ StoredOK' /\ Exists(sent)' /\ \A a : Exists(a) => Exists(a)'
    <2>1. CASE Exists(sent)
      BY <1>1, <2>1, ChainUntouched
    <2>2. CASE ~Exists(sent)
      <3>1. sent[2] \in 1..nonce'
        BY <1>1, <1>3, <2>2 DEF DeploymentInv, SentNumbered
      <3> QED BY <1>1, <1>3, <2>2, <3>1, MinedKeeps
    <2> QED BY <2>1, <2>2
  <1>5. BookFirm'
    <2>1. ASSUME NEW v \in DOMAIN locals
          PROVE  \E y : y = locals[v] /\ y \in Address /\ Exists(y)'
      <3>1. Exists(locals[v]) \/ v = Now.of
        BY <1>2 DEF DeploymentInv, NothingDangles, Awaited, AwaitedAt, FiledAt
      <3> QED BY <1>4, <3>1 DEF DeploymentInv, TypeOK
    <2>2. FileOK /\ FileOK'
      BY <1>1, <1>4, PartsOfInv DEF BookOK, FileOK
    <2> QED BY <1>1, <2>1, <2>2 DEF BookFirm, Exists
  <1>6. MarketOK'
    BY <1>1, <1>3, PartsOfInv DEF MarketOK, AwaitDeployment, Mined, Deployed
  <1> QED BY <1>4, <1>5, <1>6

\* A contract that is not awaited exists when it is filed, and one that is
\* awaited is filed under a key nothing reads.
LEMMA SaveKeeps ==
    ASSUME DeploymentInv, SaveAddress
    PROVE  BookOK'
  <1>1. Running("save") /\ todo' = Tail(todo) /\ UNCHANGED <<nonce, contracts, locals>>
        /\ db' = Bind(db, Now.name, locals[Now.of])
    BY DEF SaveAddress, Advance, chain
  <1>2. WellFormed(Now) /\ Accepted(Now) /\ Now.op = "save" /\ Now.of \in Now.uses
        /\ todo[1] = Now /\ todo \in Seq(Steps) /\ todo # <<>>
    BY <1>1, StepTaken DEF WellFormed
  <1>3. locals[Now.of] \in Address /\ Now.of \in DOMAIN locals
    BY <1>2, UsedBound
  <1>4. \A a : Exists(a)' <=> Exists(a)
    BY <1>1 DEF Exists
  <1>5. ASSUME NEW v \in DOMAIN locals, ~Exists(locals[v])
        PROVE  Now.name \in FiledWhenSent /\ AwaitedAt(todo', 1, v)
    <2>1. FiledAt(todo, 1) /\ AwaitedAt(todo, 2, v)
      BY <1>2, <1>5 DEF DeploymentInv, NothingDangles, Awaited, AwaitedAt
    <2> QED BY <1>1, <1>2, <2>1, TailAwaited DEF FiledAt
  <1>6. FileOK'
    <2>1. ASSUME NEW x \in DOMAIN db'
          PROVE  \E y : y = db'[x] /\ y \in Address /\ (x \notin FiledWhenSent => Exists(y)')
      <3>1. CASE x = Now.name
        BY <1>1, <1>3, <1>4, <1>5, <3>1 DEF Bind
      <3>2. CASE x # Now.name
        BY <1>1, <1>4, <3>2, PartsOfInv DEF Bind, BookOK, FileOK
      <3> QED BY <3>1, <3>2
    <2> QED BY <2>1 DEF FileOK, Exists
  <1>7. SentNumbered'
    BY <1>1, <1>4 DEF DeploymentInv, SentNumbered, Exists
  <1>8. \A v \in DOMAIN locals : locals[v] \in Address /\ (Exists(locals[v]) \/ Awaited(todo', v))
    BY <1>5 DEF DeploymentInv, TypeOK, Awaited
  <1> QED BY <1>1, <1>6, <1>7, <1>8 DEF BookOK, Exists

\* Every action keeps the invariant.
LEMMA NextInv == DeploymentInv /\ [Next]_vars => DeploymentInv'
  <1> SUFFICES ASSUME DeploymentInv, [Next]_vars PROVE DeploymentInv'
    OBVIOUS
  <1>0. ProcessOK /\ BookOK /\ MarketOK /\ StoredOK
    BY PartsOfInv
  <1>a. ASSUME NEW op, Running(op), Advance PROVE ProcessOK'
    BY <1>a, AdvanceKeeps
  <1>b. ASSUME NEW op, Running(op), op \notin {"save", "wait"} PROVE BookFirm
    BY <1>b, NothingAwaited
  <1>1. CASE Create
    <2>1. WellFormed(Now) /\ Now.name \in Names
      BY <1>1, StepTaken DEF Create, Assigned, WellFormed
    <2> PICK new : new = <<Now.name, nonce + 1>>
      OBVIOUS
    <2>2. new \in Address /\ contracts' = contracts \cup {new} /\ nonce' = nonce + 1
          /\ locals' = Bind(locals, Now.name, new) /\ UNCHANGED db
      BY <1>1, <2>1, NewIsBlank DEF Create, Assigned, Deployed
    <2>3. MarketOK'
      BY <1>0, <1>1, <2>2 DEF MarketOK, Create, Assigned
    <2>4. Exists(new)' /\ \A a : Exists(a) => Exists(a)'
      BY <2>2 DEF Exists
    <2>5. BookFirm'
      BY <1>1, <1>b, <2>2, <2>4, BookBound DEF Create
    <2> QED BY <1>1, <1>a, <2>3, <2>5, CreateKeeps, InvFromParts DEF Create, Assigned
  <1>2. CASE SaveAddress
    BY <1>0, <1>2, <1>a, SaveKeeps, ChainUntouched, InvFromParts DEF SaveAddress, chain, MarketOK
  <1>17. CASE SendDeployment
    BY <1>17, <1>a, SendKeeps, InvFromParts DEF SendDeployment
  <1>18. CASE AwaitDeployment
    BY <1>18, <1>a, AwaitKeeps, InvFromParts DEF AwaitDeployment
  <1>3. CASE LoadAddress
    <2>1. Now.name \in DOMAIN db \ FiledWhenSent
      BY <1>3, StepTaken DEF LoadAddress, Running, Accepted, WellFormed
    <2>2. BookFirm'
      BY <1>3, <1>b, <2>1, ChainUntouched, BookBound DEF LoadAddress, chain, BookFirm, FileOK
    <2> QED BY <1>0, <1>3, <1>a, <2>2, ChainUntouched, InvFromParts DEF LoadAddress, chain, MarketOK
  <1>4. CASE TakeGiven
    <2>1. Given(Now.name) \in Address /\ Exists(Given(Now.name))
      BY <1>4, StepTaken DEF TakeGiven, WellFormed, Given, Address, Exists
    <2>2. BookFirm'
      BY <1>b, <1>0, <1>4, <2>1, ChainUntouched, BookBound DEF TakeGiven, chain
    <2> QED BY <1>0, <1>4, <1>a, <2>2, ChainUntouched, InvFromParts DEF TakeGiven, chain, MarketOK
  <1>5. CASE ReadField
    <2>1. BookFirm'
      BY <1>b, <1>0, <1>5, StoredExists, ChainUntouched, BookBound DEF ReadField, chain
    <2> QED BY <1>0, <1>5, <1>a, <2>1, ChainUntouched, InvFromParts DEF ReadField, chain, MarketOK
  <1>6. CASE SetField
    <2>1. /\ Now.name \in Names \ ProxyFields /\ Now.of \in Now.uses /\ Now.value \in Now.uses
          /\ WellFormed(Now) /\ Accepted(Now) /\ Slot(locals[Now.of], "owner") = Deployer
      BY <1>6, StepTaken DEF SetField, WellFormed, Accepted, OwnedBy
    <2>2. Deployer # None
      BY DEF Deployer, None, Given
    <2>3. Fresh' /\ ProxiesKept' /\ StoredOK' /\ \A a : Exists(a)' <=> Exists(a)
      BY <1>b, <1>6, <2>1, <2>2, UsedExists, FieldSetKeeps DEF SetField, OnlySlot
    <2> QED BY <1>b, <1>0, <1>6, <1>a, <2>3, BookKept, InvFromParts DEF SetField, OnlySlot, MarketOK
  <1>7. CASE Transact
    <2>1. ProcessOK'
      BY <1>7, <1>a DEF Transact
    <2>2. BookFirm'
      BY <1>b, <1>0, <1>7, ChainUntouched, BookKept DEF Transact, chain
    <2> QED BY <1>0, <1>7, <2>1, <2>2, ChainUntouched, InvFromParts DEF Transact, chain, MarketOK
  <1>8. CASE GiveOracleBack
    <2>1. /\ Now.of \in Now.uses /\ Now.name \in Now.uses /\ "admin" \in Now.uses
          /\ WellFormed(Now) /\ Accepted(Now) /\ Slot(locals[Now.of], "owner") = Deployer
          /\ Slot(locals[Now.name], "owner") = locals[Now.of]
      BY <1>8, StepTaken DEF GiveOracleBack, WellFormed, Accepted, OwnedBy
    <2>2. Deployer # None /\ Slot(None, "owner") = None
      BY DEF Deployer, None, Given, DeploymentInv, ProxiesKept
    <2>3. Slot(locals[Now.name], "owner") # None
      BY <2>1, <2>2
    <2>4. "owner" \in Names \ ProxyFields
      BY NamesAssumption DEF ProxyFields
    <2>5. Fresh' /\ ProxiesKept' /\ StoredOK' /\ \A a : Exists(a)' <=> Exists(a)
      BY <1>b, <1>8, <2>1, <2>3, <2>4, UsedExists, FieldSetKeeps DEF GiveOracleBack, OnlySlot
    <2> QED BY <1>b, <1>0, <1>8, <1>a, <2>5, BookKept, InvFromParts DEF GiveOracleBack, OnlySlot, MarketOK
  <1>9. CASE SetLendingPoolImpl
    <2>0. BookFirm
      BY <1>9, <1>b DEF SetLendingPoolImpl
    <2>1. /\ WellFormed(Now) /\ Accepted(Now) /\ Now.of \in Now.uses /\ Now.name \in Now.uses
          /\ Slot(locals[Now.of], "LENDING_POOL") = None
      BY <1>9, StepTaken DEF SetLendingPoolImpl, WellFormed, Accepted
    <2>2. "LendingPoolProxy" \in Names /\ "LENDING_POOL" \in ProxyFields
      BY NamesAssumption DEF ProxyFields
    <2>3. NewProxy("LENDING_POOL", "LendingPoolProxy", None)
      BY <1>9 DEF SetLendingPoolImpl
    <2>4. Fresh' /\ ProxiesKept' /\ StoredOK' /\ \A a : Exists(a) => Exists(a)'
      BY <2>0, <2>1, <2>2, <2>3, NewProxyKeeps
    <2>5. MarketOK'
      BY <1>0, <2>2, <2>3, NewIsBlank DEF MarketOK, NewProxy, Deployed
    <2>6. BookFirm'
      BY <2>0, <2>3, <2>4, BookKept DEF NewProxy
    <2> QED BY <1>9, <1>a, <2>4, <2>5, <2>6, InvFromParts DEF SetLendingPoolImpl
  <1>10. CASE SetLendingPoolConfiguratorImpl
    <2>0. BookFirm
      BY <1>10, <1>b DEF SetLendingPoolConfiguratorImpl
    <2>1. /\ WellFormed(Now) /\ Accepted(Now) /\ Now.of \in Now.uses /\ Now.name \in Now.uses
          /\ Slot(locals[Now.of], "LENDING_POOL_CONFIGURATOR") = None
      BY <1>10, StepTaken DEF SetLendingPoolConfiguratorImpl, WellFormed, Accepted
    <2>2. "LendingPoolConfiguratorProxy" \in Names /\ "LENDING_POOL_CONFIGURATOR" \in ProxyFields
      BY NamesAssumption DEF ProxyFields
    <2>3. NewProxy("LENDING_POOL_CONFIGURATOR", "LendingPoolConfiguratorProxy",
                   Slot(locals[Now.of], "LENDING_POOL"))
      BY <1>10 DEF SetLendingPoolConfiguratorImpl
    <2>4. Fresh' /\ ProxiesKept' /\ StoredOK' /\ \A a : Exists(a) => Exists(a)'
      BY <2>0, <2>1, <2>2, <2>3, NewProxyKeeps
    <2>5. MarketOK'
      BY <1>0, <2>2, <2>3, NewIsBlank DEF MarketOK, NewProxy, Deployed
    <2>6. BookFirm'
      BY <2>0, <2>3, <2>4, BookKept DEF NewProxy
    <2> QED BY <1>10, <1>a, <2>4, <2>5, <2>6, InvFromParts DEF SetLendingPoolConfiguratorImpl
  <1>11. CASE RegisterProvider
    <2>1. locals[Now.of] \in Address /\ locals[Now.name] \in Address
      BY <1>b, <1>11, StepTaken, UsedExists DEF RegisterProvider, WellFormed
    <2>2. MarketOK'
      BY <1>0, <1>11, <2>1 DEF RegisterProvider, MarketOK
    <2> QED BY <1>b, <1>0, <1>11, <1>a, <2>2, ChainUntouched, BookKept, InvFromParts DEF RegisterProvider
  <1>12. CASE PausePool
    <2>1. MarketOK'
      BY <1>0, <1>12, StoredExists DEF PausePool, MarketOK
    <2> QED BY <1>b, <1>0, <1>12, <1>a, <2>1, ChainUntouched, BookKept, InvFromParts DEF PausePool
  <1>13. CASE InitReserve
    <2>1. {locals[Now.name], locals[Now.asset], locals[Now.strategy]} \subseteq Address
      BY <1>b, <1>13, StepTaken, UsedExists DEF InitReserve, WellFormed
    <2>2. MarketOK'
      BY <1>0, <1>13, <2>1, StoredExists DEF InitReserve, MarketOK
    <2> QED BY <1>b, <1>0, <1>13, <1>a, <2>2, ChainUntouched, BookKept, InvFromParts DEF InitReserve
  <1>14. CASE ConfigureReserves
    <2>1. \A v \in Now.projects : locals[v] \in Address
      BY <1>b, <1>14, StepTaken, UsedExists DEF ConfigureReserves, WellFormed
    <2>2. MarketOK'
      BY <1>0, <1>14, <2>1, StoredExists DEF ConfigureReserves, MarketOK
    <2> QED BY <1>b, <1>0, <1>14, <1>a, <2>2, ChainUntouched, BookKept, InvFromParts DEF ConfigureReserves
  <1>15. CASE FinishTask \/ Fail \/ Crash \/ Restart \/ (\E t \in DOMAIN Tasks : Rerun(t))
    <2>1. UNCHANGED <<chain, db, migration>> /\ locals' = Accounts
      BY <1>0, <1>15 DEF FinishTask, Fail, Crash, Restart, Rerun, ProcessOK, StoppedIsBlank
    <2>2. BookFirm'
      BY <1>0, <2>1, AccountsExist DEF BookOK, BookFirm, FileOK, chain, Exists
    <2>3. ProcessOK'
      <3>1. /\ Tasks \in Seq(Seq(Steps)) /\ 1 \in DOMAIN Tasks /\ Tasks' = Tasks
            /\ \A t \in DOMAIN Tasks : Tasks[t] \in Seq(Steps) /\ SentAreAwaited(Tasks[t])
            /\ StoppedIsBlank'
        BY <1>0, <2>1, TasksAreSequences DEF ProcessOK, StoppedIsBlank, Tasks
      <3>2. CASE FinishTask
        <4>1. task # Len(Tasks) => task + 1 \in DOMAIN Tasks
          BY <1>0, <3>1 DEF ProcessOK
        <4> QED BY <1>0, <3>1, <3>2, <4>1 DEF ProcessOK, FinishTask
      <3>3. CASE Fail
        BY <1>0, <3>1, <3>3 DEF ProcessOK, Fail
      <3>4. CASE Crash
        BY <1>0, <3>1, <3>4, BoundsAssumption DEF ProcessOK, Crash
      <3>5. CASE Restart
        BY <1>0, <3>1, <3>5 DEF ProcessOK, Restart
      <3>6. CASE \E t \in DOMAIN Tasks : Rerun(t)
        BY <1>0, <3>1, <3>6, BoundsAssumption DEF ProcessOK, Rerun
      <3> QED BY <1>15, <3>2, <3>3, <3>4, <3>5, <3>6
    <2> QED BY <1>0, <2>1, <2>2, <2>3, ChainUntouched, InvFromParts DEF chain, MarketOK
  <1>16. CASE UNCHANGED vars
    <2>1. ProcessOK' /\ BookOK'
      BY <1>0, <1>16 DEF vars, process, chain, ProcessOK, StoppedIsBlank, BookOK, FileOK,
                         SentNumbered, Tasks, Exists
    <2> QED BY <1>0, <1>16, <2>1, ChainUntouched, InvFromParts DEF vars, chain, MarketOK
  <1> QED BY <1>1, <1>2, <1>3, <1>4, <1>5, <1>6, <1>7, <1>8, <1>9, <1>10, <1>11, <1>12,
             <1>13, <1>14, <1>15, <1>16, <1>17, <1>18 DEF Next, Progress

-----------------------------------------------------------------------------
(* Theorems *)

\* The invariant holds of every deployment, however often its process dies.
THEOREM DeploymentInvariant == Spec => []DeploymentInv
  <1>1. Init => DeploymentInv
    BY InitInv
  <1>2. DeploymentInv /\ [Next]_vars => DeploymentInv'
    BY NextInv
  <1> QED BY <1>1, <1>2, PTL DEF Spec

\* The process stays within its tasks and stores addresses only.
THEOREM DeploymentTypeCorrect == Spec => []TypeOK
  <1>1. DeploymentInv => TypeOK
    BY DEF DeploymentInv
  <1> QED BY <1>1, DeploymentInvariant, PTL

\* What is filed after it was mined, what getters load and what constructors
\* keep are contracts that were created; so is what a task holds, but for an
\* implementation it has sent and is about to wait for.
THEOREM NothingDanglesCorrect == Spec => []NothingDangles
  <1>1. DeploymentInv => NothingDangles
    BY DEF DeploymentInv
  <1> QED BY <1>1, DeploymentInvariant, PTL

\* The proxies of a provider answer to it, and its configurator to its pool.
THEOREM ProxiesCorrect == Spec => []ProxiesPointBack
  <1>1. DeploymentInv => ProxiesPointBack
    BY DEF DeploymentInv, TypeOK, ProxiesKept, ProxiesPointBack
  <1> QED BY <1>1, DeploymentInvariant, PTL

-----------------------------------------------------------------------------
(* The outline's addresses and the chain's *)

\* The zero address, and accounts, are no contracts of an attempt.
LEMMA RealFacts ==
    ASSUME NEW base \in Nat, NEW a \in Address
    PROVE  /\ Own(a) => Real(base, a) = <<a[1], base + a[2]>> /\ Real(base, a)[1] = a[1]
                        /\ Real(base, a)[2] = base + a[2] /\ Real(base, a)[2] > base
                        /\ a # Unknown /\ a # None /\ a # Deployer
                        /\ a[1] \in Names /\ a[2] \in Nat \ {0} /\ a = <<a[1], a[2]>>
           /\ ~Own(a) => Real(base, a) = a /\ a[2] = 0
           /\ Real(base, a)[2] > base <=> Own(a)
  BY DEF Real, Own, Address, Unknown, None, Deployer, Given

\* Two addresses of the outline never stand for the same contract.
LEMMA RealInjective ==
    ASSUME NEW base \in Nat, NEW a \in Address, NEW b \in Address, Real(base, a) = Real(base, b)
    PROVE  a = b
  <1>1. Own(a) <=> Own(b)
    BY RealFacts
  <1>2. CASE ~Own(a)
    BY <1>1, <1>2, RealFacts
  <1>3. CASE Own(a)
    <2>1. a[1] = b[1] /\ a[2] = b[2] /\ a = <<a[1], a[2]>> /\ b = <<b[1], b[2]>>
      BY <1>1, <1>3, RealFacts
    <2> QED BY <2>1
  <1> QED BY <1>2, <1>3

\* An account stands for itself.
LEMMA GivenReal ==
    ASSUME NEW base, NEW n
    PROVE  Real(base, Given(n)) = Given(n) /\ ~Own(Given(n)) /\ Given(n)[2] = 0
  BY DEF Given, Real, Own

\* What the outline knows of a variable, a key or a field of a contract of the attempt.
LEMMA FieldKnown ==
    ASSUME NEW base \in Nat, NEW k, FieldsShown(base, k), NEW a \in Address, Own(a), NEW f \in Names
    PROVE  Shows(base, FieldOf(k, a, f), Slot(Real(base, a), f))
  <1>1. a[1] \in Names /\ a[2] \in Nat \ {0} /\ a = <<a[1], a[2]>>
        /\ Real(base, a) = <<a[1], base + a[2]>>
    BY RealFacts
  <1>2. Shows(base, FieldOf(k, <<a[1], a[2]>>, f), Slot(<<a[1], base + a[2]>>, f))
    BY <1>1 DEF FieldsShown
  <1> QED BY <1>1, <1>2

\* A field the outline writes.
LEMMA StoredAfterBind ==
    ASSUME NEW slots, NEW b, NEW g, NEW v
    PROVE  \A a, f : Stored(Bind(slots, <<b, g>>, v), a, f) =
                       IF a = b /\ f = g THEN v ELSE Stored(slots, a, f)
  <1> SUFFICES ASSUME NEW a, NEW f, NEW x, x = <<a, f>>, NEW w, w = <<b, g>>
               PROVE  Stored(Bind(slots, w, v), a, f) =
                        IF a = b /\ f = g THEN v ELSE Stored(slots, a, f)
    OBVIOUS
  <1>1. x = w <=> a = b /\ f = g
    OBVIOUS
  <1>2. DOMAIN Bind(slots, w, v) = DOMAIN slots \cup {w} /\ Bind(slots, w, v)[w] = v
        /\ (x # w /\ x \in DOMAIN slots => Bind(slots, w, v)[x] = slots[x])
    BY DEF Bind
  <1> QED BY <1>1, <1>2 DEF Stored

\* The fields of a contract the outline creates.
LEMMA StoredAfterWritten ==
    ASSUME NEW slots, NEW b, NEW fields
    PROVE  \A a, f : Stored(Written(slots, b, fields), a, f) =
                       IF a = b /\ f \in DOMAIN fields THEN fields[f] ELSE Stored(slots, a, f)
  <1> SUFFICES ASSUME NEW a, NEW f, NEW x, x = <<a, f>>
               PROVE  Stored(Written(slots, b, fields), a, f) =
                        IF a = b /\ f \in DOMAIN fields THEN fields[f] ELSE Stored(slots, a, f)
    OBVIOUS
  <1> DEFINE at == FieldsAt(b, fields)
  <1>1. (x \in at <=> a = b /\ f \in DOMAIN fields) /\ x[2] = f
    BY DEF FieldsAt
  <1>2. Written(slots, b, fields) =
          [y \in DOMAIN slots \cup at |-> IF y \in at THEN fields[y[2]] ELSE slots[y]]
    BY DEF Written
  <1> HIDE DEF at
  <1> QED BY <1>1, <1>2 DEF Stored

\* A field written in the outline and on the chain.
LEMMA FieldWritten ==
    ASSUME NEW base \in Nat, NEW k, NEW k2, FieldsShown(base, k),
           NEW a \in Address, Own(a), NEW g, NEW value, NEW real, Shows(base, value, real),
           slot' = Bind(slot, <<Real(base, a), g>>, real),
           k2.slot = Bind(k.slot, <<a, g>>, value)
    PROVE  FieldsShown(base, k2)'
  <1> SUFFICES ASSUME NEW n \in Names, NEW i \in Nat \ {0}, NEW f \in Names,
                      NEW c, c = <<n, i>>, NEW r, r = <<n, base + i>>
               PROVE  Shows(base, FieldOf(k2, c, f), Slot(r, f)')
    BY DEF FieldsShown
  <1>1. c \in Address /\ Own(c) /\ Real(base, c) = r
    BY DEF Address, Own, Real
  <1>2. Shows(base, FieldOf(k, c, f), Slot(r, f))
    BY DEF FieldsShown
  <1>3. r = Real(base, a) <=> c = a
    BY <1>1, RealInjective
  <1>4. FieldOf(k2, c, f) = IF c = a /\ f = g THEN value ELSE FieldOf(k, c, f)
    BY StoredAfterBind DEF FieldOf
  <1>5. Slot(r, f)' = IF r = Real(base, a) /\ f = g THEN real ELSE Slot(r, f)
    BY SlotAfterBind
  <1> QED BY <1>2, <1>3, <1>4, <1>5

\* What the chain stores after a contract is created, field by field.
LEMMA SlotAfterCreate ==
    ASSUME Create, NEW new, new = <<Now.name, nonce + 1>>, "owner" \notin DOMAIN Now.links
    PROVE  \A a, f : Slot(a, f)' =
             IF a = new /\ f \in DOMAIN Now.links THEN locals[Now.links[f]]
             ELSE IF a = new /\ f = "owner" THEN Deployer ELSE Slot(a, f)
  <1> SUFFICES ASSUME NEW a, NEW f, NEW k, k = <<a, f>>
               PROVE  Slot(a, f)' =
                        IF a = new /\ f \in DOMAIN Now.links THEN locals[Now.links[f]]
                        ELSE IF a = new /\ f = "owner" THEN Deployer ELSE Slot(a, f)
    OBVIOUS
  <1> DEFINE fields == {<<new, g>> : g \in DOMAIN Now.links}
             own == <<new, "owner">>
  <1>1. slot' = [x \in DOMAIN slot \cup fields \cup {own} |->
                   IF x \in fields THEN locals[Now.links[x[2]]]
                   ELSE IF x = own THEN Deployer ELSE slot[x]]
    BY DEF Create, Assigned
  <1>2. (k \in fields <=> a = new /\ f \in DOMAIN Now.links) /\ k[2] = f
        /\ (k = own <=> a = new /\ f = "owner")
    OBVIOUS
  <1>3. Slot(a, f) = (IF k \in DOMAIN slot THEN slot[k] ELSE None)
        /\ Slot(a, f)' = (IF k \in DOMAIN slot' THEN slot'[k] ELSE None)
    BY DEF Slot
  <1> HIDE DEF fields, own
  <1> QED BY <1>1, <1>2, <1>3

\* What it stores after a provider created a proxy.
LEMMA SlotAfterProxy ==
    ASSUME NEW field, NEW name, NEW pool, NewProxy(field, name, pool),
           NEW provider, provider = locals[Now.of], NEW proxy, proxy = <<name, nonce + 1>>,
           provider # proxy
    PROVE  \A a, f : Slot(a, f)' =
             IF a = provider /\ f = field THEN proxy
             ELSE IF a = proxy /\ f \in {"provider", "implementation", "pool"}
                  THEN Initialized(provider, locals[Now.name], pool)[f] ELSE Slot(a, f)
  <1> SUFFICES ASSUME NEW a, NEW f, NEW k, k = <<a, f>>
               PROVE  Slot(a, f)' =
                        IF a = provider /\ f = field THEN proxy
                        ELSE IF a = proxy /\ f \in {"provider", "implementation", "pool"}
                             THEN Initialized(provider, locals[Now.name], pool)[f] ELSE Slot(a, f)
    OBVIOUS
  <1> DEFINE stored == Initialized(provider, locals[Now.name], pool)
             written == {<<proxy, g>> : g \in {"provider", "implementation", "pool"}}
             at == <<provider, field>>
  <1>1. slot' = [x \in DOMAIN slot \cup written \cup {at} |->
                   IF x = at THEN proxy ELSE IF x \in written THEN stored[x[2]] ELSE slot[x]]
    BY DEF NewProxy, Initialized
  <1>2. (k \in written <=> a = proxy /\ f \in {"provider", "implementation", "pool"}) /\ k[2] = f
        /\ (k = at <=> a = provider /\ f = field)
    OBVIOUS
  <1>3. Slot(a, f) = (IF k \in DOMAIN slot THEN slot[k] ELSE None)
        /\ Slot(a, f)' = (IF k \in DOMAIN slot' THEN slot'[k] ELSE None)
    BY DEF Slot
  <1> HIDE DEF stored, written, at
  <1>4. Slot(a, f)' = IF a = provider /\ f = field THEN proxy
                      ELSE IF a = proxy /\ f \in {"provider", "implementation", "pool"}
                           THEN stored[f] ELSE Slot(a, f)
    BY <1>1, <1>2, <1>3
  <1> QED BY <1>4 DEF stored

\* A contract of the outline and of the chain is created with fields that
\* show each other, and all others stay.
LEMMA FieldsCreated ==
    ASSUME NEW base \in Nat, NEW k, NEW k2, FieldsShown(base, k),
           NEW b \in Address, Own(b), NEW fields, NEW real,
           k2.slot = Written(k.slot, b, fields),
           \A f \in DOMAIN fields : Shows(base, fields[f], real[f]),
           \A a, f : Slot(a, f)' = IF a = Real(base, b) /\ f \in DOMAIN fields THEN real[f]
                                   ELSE Slot(a, f)
    PROVE  FieldsShown(base, k2)'
  <1> SUFFICES ASSUME NEW n \in Names, NEW i \in Nat \ {0}, NEW f \in Names,
                      NEW c, c = <<n, i>>, NEW r, r = <<n, base + i>>
               PROVE  Shows(base, FieldOf(k2, c, f), Slot(r, f)')
    BY DEF FieldsShown
  <1>1. c \in Address /\ Own(c) /\ Real(base, c) = r
    BY DEF Address, Own, Real
  <1>2. Shows(base, FieldOf(k, c, f), Slot(r, f))
    BY DEF FieldsShown
  <1>3. r = Real(base, b) <=> c = b
    BY <1>1, RealInjective
  <1>4. FieldOf(k2, c, f) = IF c = b /\ f \in DOMAIN fields THEN fields[f] ELSE FieldOf(k, c, f)
    BY StoredAfterWritten DEF FieldOf
  <1>5. Slot(r, f)' = IF r = Real(base, b) /\ f \in DOMAIN fields THEN real[f] ELSE Slot(r, f)
    OBVIOUS
  <1> QED BY <1>2, <1>3, <1>4, <1>5

\* The same for a proxy, which its provider stores.
LEMMA FieldsProxied ==
    ASSUME NEW base \in Nat, NEW k, NEW k2, FieldsShown(base, k),
           NEW p \in Address, Own(p), NEW b \in Address, Own(b), p # b, NEW field,
           NEW fields, NEW real,
           k2.slot = Bind(Written(k.slot, b, fields), <<p, field>>, b),
           \A f \in DOMAIN fields : Shows(base, fields[f], real[f]),
           \A a, f : Slot(a, f)' = IF a = Real(base, p) /\ f = field THEN Real(base, b)
                                   ELSE IF a = Real(base, b) /\ f \in DOMAIN fields THEN real[f]
                                   ELSE Slot(a, f)
    PROVE  FieldsShown(base, k2)'
  <1> SUFFICES ASSUME NEW n \in Names, NEW i \in Nat \ {0}, NEW f \in Names,
                      NEW c, c = <<n, i>>, NEW r, r = <<n, base + i>>
               PROVE  Shows(base, FieldOf(k2, c, f), Slot(r, f)')
    BY DEF FieldsShown
  <1>1. c \in Address /\ Own(c) /\ Real(base, c) = r
    BY DEF Address, Own, Real
  <1>2. Shows(base, FieldOf(k, c, f), Slot(r, f))
    BY DEF FieldsShown
  <1>3. (r = Real(base, b) <=> c = b) /\ (r = Real(base, p) <=> c = p)
    BY <1>1, RealInjective
  <1>4. FieldOf(k2, c, f) = IF c = p /\ f = field THEN b
                            ELSE Stored(Written(k.slot, b, fields), c, f)
    BY StoredAfterBind DEF FieldOf
  <1>5. Stored(Written(k.slot, b, fields), c, f) =
          IF c = b /\ f \in DOMAIN fields THEN fields[f] ELSE FieldOf(k, c, f)
    BY StoredAfterWritten DEF FieldOf
  <1>6. Slot(r, f)' = IF r = Real(base, p) /\ f = field THEN Real(base, b)
                      ELSE IF r = Real(base, b) /\ f \in DOMAIN fields THEN real[f]
                      ELSE Slot(r, f)
    OBVIOUS
  <1>7. Shows(base, b, Real(base, b))
    BY DEF Shows
  <1> QED BY <1>2, <1>3, <1>4, <1>5, <1>6, <1>7

-----------------------------------------------------------------------------
(* Each step leaves what the outline shows after it *)

\* A step the process takes is one the outline goes on with.
LEMMA NotBlocked ==
    ASSUME NEW base, NEW k, Holds(base, k), NEW op, Running(op)
    PROVE  ~Blocked(k, Now)
  BY DEF Holds, LocalsShown, Running, Accepted, Blocked

\* The variables a step uses are those of the outline.
LEMMA UsedShown ==
    ASSUME DeploymentInv, NEW base \in Nat, NEW k, IsPicture(k), LocalsShown(base, k),
           Accepted(Now), WellFormed(Now), NEW v \in Now.uses
    PROVE  /\ k.locals[v] \in Address /\ Shows(base, k.locals[v], locals[v])
           /\ locals[v] \in Address
           /\ Own(k.locals[v]) => locals[v] = Real(base, k.locals[v])
           /\ k.locals[v] # Unknown => locals[v] = Real(base, k.locals[v])
  <1>1. v \in DOMAIN locals /\ locals[v] \in Address
    BY UsedBound
  <1>2. k.locals[v] \in Address /\ Shows(base, k.locals[v], locals[v])
    BY <1>1 DEF LocalsShown, IsPicture
  <1> QED BY <1>1, <1>2, RealFacts DEF Shows

\* A field of a contract of the attempt that holds another is that one's.
LEMMA OwnField ==
    ASSUME NEW base \in Nat, NEW k, IsPicture(k), FieldsShown(base, k),
           NEW a \in Address, Own(a), NEW f \in Names
    PROVE  /\ FieldOf(k, a, f) \in Address
           /\ Own(FieldOf(k, a, f)) => Slot(Real(base, a), f) = Real(base, FieldOf(k, a, f))
  <1>1. FieldOf(k, a, f) \in Address
    BY NamesAssumption DEF IsPicture, FieldOf, Stored, None, Given, Address
  <1> QED BY <1>1, FieldKnown, RealFacts DEF Shows

\* A variable bound in the outline and in the process to what it shows.
LEMMA LocalsBound ==
    ASSUME NEW base, NEW k, NEW k2, LocalsShown(base, k), NEW v, NEW a, NEW real,
           Shows(base, a, real), locals' = Bind(locals, v, real), k2.locals = Bind(k.locals, v, a)
    PROVE  LocalsShown(base, k2)'
  BY DEF LocalsShown, Bind, Shows, Real, Own

\* Variables, keys, fields and markets that neither the outline nor the state changes.
LEMMA LocalsKept ==
    ASSUME NEW base, NEW k, NEW k2, LocalsShown(base, k), locals' = locals, k2.locals = k.locals
    PROVE  LocalsShown(base, k2)'
  BY DEF LocalsShown

\* As for variables, with the file.
LEMMA FileKept ==
    ASSUME NEW base, NEW k, NEW k2, FileShown(base, k), db' = db, k2.db = k.db
    PROVE  FileShown(base, k2)'
  BY DEF FileShown

\* As for variables, with the contracts' fields.
LEMMA FieldsKept ==
    ASSUME NEW base, NEW k, NEW k2, FieldsShown(base, k), slot' = slot, k2.slot = k.slot
    PROVE  FieldsShown(base, k2)'
  BY DEF FieldsShown, FieldOf, Slot

\* As for variables, with what the pools and registries list.
LEMMA MarketsKept ==
    ASSUME NEW base, NEW k, NEW k2, MarketsShown(base, k),
           UNCHANGED <<reserves, configured, registered, paused>>,
           k2.reserves = k.reserves, k2.configured = k.configured,
           k2.registered = k.registered, k2.paused = k.paused
    PROVE  MarketsShown(base, k2)'
  BY DEF MarketsShown

\* What is known before a step shows the state.
Shown(base, k) == LocalsShown(base, k) /\ Left(base, k)

\* Which parts of what is known a step leaves as they are.
Aspects == {"made", "locals", "db", "slot", "reserves", "configured", "registered", "paused"}

\* What each step changes in the outline, and nothing else.
LEMMA AspectsKept ==
    ASSUME NEW k, IsPicture(k), NEW s
    PROVE  /\ s.op = "save" => \A x \in Aspects \ {"db"} : After(k, s)[x] = k[x]
           /\ s.op \in {"load", "given", "get"} =>
                \A x \in Aspects \ {"locals"} : After(k, s)[x] = k[x]
           /\ s.op \in {"set", "giveBack"} => \A x \in Aspects \ {"slot"} : After(k, s)[x] = k[x]
           /\ s.op \in {"call", "rates"} => After(k, s) = k
           /\ s.op = "register" => \A x \in Aspects \ {"registered"} : After(k, s)[x] = k[x]
           /\ s.op = "pause" => \A x \in Aspects \ {"paused"} : After(k, s)[x] = k[x]
           /\ s.op = "initReserve" => \A x \in Aspects \ {"reserves"} : After(k, s)[x] = k[x]
           /\ s.op = "configure" => \A x \in Aspects \ {"configured"} : After(k, s)[x] = k[x]
           /\ s.op = "wait" => \A x \in Aspects \ {"slot"} : After(k, s)[x] = k[x]
           /\ s.op \in {"deploy", "send"} =>
                \A x \in Aspects \ {"made", "slot", "locals"} : After(k, s)[x] = k[x]
           /\ s.op \in {"setPool", "setConfigurator"} =>
                \A x \in Aspects \ {"made", "slot"} : After(k, s)[x] = k[x]
  <1>1. \A x \in Aspects : x \in DOMAIN k
    BY DEF IsPicture, Aspects
  <1>2. CASE s.op \in {"wait", "save", "load", "given", "get", "set", "giveBack"}
    BY <1>1, <1>2 DEF After, Aspects
  <1>3. CASE s.op \in {"call", "rates", "register", "pause", "initReserve", "configure"}
    BY <1>1, <1>3 DEF After, Aspects
  <1>4. CASE s.op \in {"deploy", "send", "setPool", "setConfigurator"}
    BY <1>1, <1>4 DEF After, Aspects, Created, Proxied
  <1> QED BY <1>2, <1>3, <1>4

\* What a step leaves of what is shown, when it leaves what is known and the
\* state both as they are.
LEMMA PartsKept ==
    ASSUME NEW base \in Nat, NEW k, NEW k2, Shown(base, k)
    PROVE  /\ locals' = locals /\ k2.locals = k.locals => LocalsShown(base, k2)'
           /\ db' = db /\ k2.db = k.db => FileShown(base, k2)'
           /\ slot' = slot /\ k2.slot = k.slot => FieldsShown(base, k2)'
           /\ UNCHANGED <<reserves, configured, registered, paused>>
              /\ (\A x \in {"reserves", "configured", "registered", "paused"} : k2[x] = k[x])
                => MarketsShown(base, k2)'
           /\ nonce' = nonce /\ k2.made = k.made => nonce' = base + k2.made
  BY LocalsKept, FileKept, FieldsKept, MarketsKept DEF Shown, Left

\* The parts of what is shown make the whole.
LEMMA ShownFromParts ==
    ASSUME NEW base, NEW k, nonce' = base + k.made,
           LocalsShown(base, k)', FileShown(base, k)', FieldsShown(base, k)', MarketsShown(base, k)'
    PROVE  Shown(base, k)'
  BY DEF Shown, Left

\* An address filed is the one the outline files.
LEMMA SaveShown ==
    ASSUME DeploymentInv, NEW base \in Nat, NEW k, IsPicture(k), Shown(base, k), SaveAddress,
           NEW k2, k2 = After(k, Now)
    PROVE  Shown(base, k2)'
  <1>1. WellFormed(Now) /\ Accepted(Now) /\ Now.op = "save" /\ Now.of \in Now.uses
    BY StepTaken DEF SaveAddress, WellFormed
  <1>2. k2.db = Bind(k.db, Now.name, k.locals[Now.of])
    BY <1>1 DEF After, IsPicture
  <1>3. Shows(base, k.locals[Now.of], locals[Now.of])
    BY <1>1, UsedShown DEF Shown
  <1>4. db' = Bind(db, Now.name, locals[Now.of]) /\ UNCHANGED <<chain, locals>>
    BY DEF SaveAddress
  <1>5. FileShown(base, k2)'
    BY <1>2, <1>3, <1>4 DEF FileShown, Bind, Shown, Left
  <1>6. \A x \in Aspects \ {"db"} : k2[x] = k[x]
    BY <1>1, AspectsKept
  <1> QED BY <1>4, <1>5, <1>6, PartsKept, ShownFromParts DEF Aspects, chain

\* A variable loaded, named or read is what the outline knows, or is unknown to it.
LEMMA BoundShown ==
    ASSUME DeploymentInv, NEW base \in Nat, NEW k, IsPicture(k), Shown(base, k),
           LoadAddress \/ TakeGiven \/ ReadField, NEW k2, k2 = After(k, Now)
    PROVE  Shown(base, k2)'
  <1>1. WellFormed(Now) /\ Accepted(Now) /\ Now.op \in {"load", "given", "get"}
        /\ UNCHANGED <<chain, db>>
    BY StepTaken DEF LoadAddress, TakeGiven, ReadField
  <1>2. \A x \in Aspects \ {"locals"} : k2[x] = k[x]
    BY <1>1, AspectsKept
  <1>3. LocalsShown(base, k)
    BY DEF Shown
  <1>4. CASE LoadAddress
    <2>1. Now.op = "load" /\ locals' = Bind(locals, Now.name, db[Now.name])
      BY <1>4, StepTaken DEF LoadAddress
    <2> PICK a : a = IF Now.name \in DOMAIN k.db THEN k.db[Now.name] ELSE Unknown
      OBVIOUS
    <2>2. k2.locals = Bind(k.locals, Now.name, a)
      BY <2>1 DEF After, IsPicture
    <2>3. Shows(base, a, db[Now.name])
      BY DEF Shown, Left, FileShown, Shows
    <2>4. LocalsShown(base, k2)'
      BY <1>3, <2>1, <2>2, <2>3, LocalsBound
    <2> QED BY <1>1, <1>2, <2>4, PartsKept, ShownFromParts DEF Aspects, chain
  <1>5. CASE TakeGiven
    <2>1. Now.op = "given" /\ locals' = Bind(locals, Now.name, Given(Now.name))
      BY <1>5, StepTaken DEF TakeGiven
    <2>2. k2.locals = Bind(k.locals, Now.name, Given(Now.name))
      BY <2>1 DEF After, IsPicture
    <2>3. Shows(base, Given(Now.name), Given(Now.name))
      BY GivenReal DEF Shows
    <2>4. LocalsShown(base, k2)'
      BY <1>3, <2>1, <2>2, <2>3, LocalsBound
    <2> QED BY <1>1, <1>2, <2>4, PartsKept, ShownFromParts DEF Aspects, chain
  <1>6. CASE ReadField
    <2>1. Now.op = "get" /\ locals' = Bind(locals, Now.var, Slot(locals[Now.of], Now.name))
          /\ Now.of \in Now.uses /\ Now.name \in Names
      BY <1>6, StepTaken DEF ReadField, WellFormed
    <2> PICK of, a : of = k.locals[Now.of]
                     /\ a = IF Own(of) THEN FieldOf(k, of, Now.name) ELSE Unknown
      OBVIOUS
    <2>2. k2.locals = Bind(k.locals, Now.var, a)
      BY <2>1 DEF After, IsPicture
    <2>3. of \in Address /\ (Own(of) => locals[Now.of] = Real(base, of))
      BY <1>1, <1>3, <2>1, UsedShown
    <2>4. Shows(base, a, Slot(locals[Now.of], Now.name))
      <3>1. CASE Own(of)
        BY <2>1, <2>3, <3>1, FieldKnown DEF Shown, Left
      <3>2. CASE ~Own(of)
        BY <3>2 DEF Shows
      <3> QED BY <3>1, <3>2
    <2>5. LocalsShown(base, k2)'
      BY <1>3, <2>1, <2>2, <2>4, LocalsBound
    <2> QED BY <1>1, <1>2, <2>5, PartsKept, ShownFromParts DEF Aspects, chain
  <1> QED BY <1>4, <1>5, <1>6

\* A field set, or an oracle handed back, is one of a contract of the attempt.
LEMMA SetShown ==
    ASSUME DeploymentInv, NEW base \in Nat, NEW k, IsPicture(k), Shown(base, k), Followed(k, Now),
           SetField \/ GiveOracleBack, NEW k2, k2 = After(k, Now)
    PROVE  Shown(base, k2)'
  <1>1. WellFormed(Now) /\ Accepted(Now) /\ Now.op \in {"set", "giveBack"} /\ OnlySlot
    BY StepTaken DEF SetField, GiveOracleBack
  <1>2. \A x \in Aspects \ {"slot"} : k2[x] = k[x]
    BY <1>1, AspectsKept
  <1>3. LocalsShown(base, k) /\ FieldsShown(base, k)
    BY DEF Shown, Left
  <1>4. CASE SetField
    <2>1. Now.op = "set" /\ slot' = Bind(slot, <<locals[Now.of], Now.name>>, locals[Now.value])
          /\ Now.of \in Now.uses /\ Now.value \in Now.uses
      BY <1>4, StepTaken DEF SetField, WellFormed
    <2> PICK of, value : of = k.locals[Now.of] /\ value = k.locals[Now.value]
      OBVIOUS
    <2>2. of \in Address /\ Own(of) /\ locals[Now.of] = Real(base, of)
          /\ Shows(base, value, locals[Now.value])
      BY <1>1, <1>3, <2>1, UsedShown DEF Followed
    <2>3. k2.slot = Bind(k.slot, <<of, Now.name>>, value)
      BY <2>1 DEF After, IsPicture
    <2>4. FieldsShown(base, k2)'
      BY <1>3, <2>1, <2>2, <2>3, FieldWritten
    <2> QED BY <1>1, <1>2, <2>4, PartsKept, ShownFromParts DEF Aspects, OnlySlot
  <1>5. CASE GiveOracleBack
    <2>1. Now.op = "giveBack" /\ slot' = Bind(slot, <<locals[Now.name], "owner">>, locals["admin"])
          /\ Now.name \in Now.uses /\ "admin" \in Now.uses
      BY <1>5, StepTaken DEF GiveOracleBack, WellFormed
    <2> PICK of, value : of = k.locals[Now.name] /\ value = k.locals["admin"]
      OBVIOUS
    <2>2. of \in Address /\ Own(of) /\ locals[Now.name] = Real(base, of)
          /\ Shows(base, value, locals["admin"])
      BY <1>1, <1>3, <2>1, UsedShown DEF Followed
    <2>3. k2.slot = Bind(k.slot, <<of, "owner">>, value)
      BY <2>1 DEF After, IsPicture
    <2>4. FieldsShown(base, k2)'
      BY <1>3, <2>1, <2>2, <2>3, FieldWritten
    <2> QED BY <1>1, <1>2, <2>4, PartsKept, ShownFromParts DEF Aspects, OnlySlot
  <1> QED BY <1>4, <1>5

\* A call that leaves nothing leaves what is shown.
LEMMA TransactShown ==
    ASSUME DeploymentInv, NEW base \in Nat, NEW k, IsPicture(k), Shown(base, k), Transact,
           NEW k2, k2 = After(k, Now)
    PROVE  Shown(base, k2)'
  <1>1. Now.op \in {"call", "rates"} /\ UNCHANGED <<chain, db, locals>>
    BY StepTaken DEF Transact
  <1>2. k2 = k
    BY <1>1, AspectsKept
  <1> QED BY <1>1, <1>2, PartsKept, ShownFromParts DEF chain

\* A provider is registered in the outline as in the registry.
LEMMA RegisterShown ==
    ASSUME DeploymentInv, NEW base \in Nat, NEW k, IsPicture(k), Shown(base, k), Followed(k, Now),
           RegisterProvider, NEW k2, k2 = After(k, Now)
    PROVE  Shown(base, k2)'
  <1>1. /\ WellFormed(Now) /\ Accepted(Now) /\ Now.op = "register"
        /\ Now.of \in Now.uses /\ Now.name \in Now.uses
        /\ registered' = registered \cup {<<locals[Now.of], locals[Now.name]>>}
        /\ UNCHANGED <<nonce, contracts, slot, reserves, configured, paused, db, locals>>
    BY StepTaken DEF RegisterProvider, WellFormed
  <1> PICK of, name : of = k.locals[Now.of] /\ name = k.locals[Now.name]
    OBVIOUS
  <1>2. locals[Now.of] = Real(base, of) /\ locals[Now.name] = Real(base, name)
    BY <1>1, UsedShown DEF Followed, Shown
  <1>3. k2.registered = k.registered \cup {<<of, name>>}
        /\ \A x \in Aspects \ {"registered"} : k2[x] = k[x]
    <2>1. k2.registered = k.registered \cup {<<of, name>>}
      BY <1>1 DEF After, IsPicture
    <2> QED BY <1>1, <2>1, AspectsKept
  <1>4. MarketsShown(base, k2)'
    BY <1>1, <1>2, <1>3 DEF MarketsShown, Shown, Left, Aspects
  <1> QED BY <1>1, <1>3, <1>4, PartsKept, ShownFromParts DEF Aspects

\* The pool a configurator of the attempt pauses is the attempt's.
LEMMA PauseShown ==
    ASSUME DeploymentInv, NEW base \in Nat, NEW k, IsPicture(k), Shown(base, k), Followed(k, Now),
           PausePool, NEW k2, k2 = After(k, Now)
    PROVE  Shown(base, k2)'
  <1>1. /\ WellFormed(Now) /\ Accepted(Now) /\ Now.op = "pause" /\ Now.of \in Now.uses
        /\ paused' = paused \cup {Slot(locals[Now.of], "pool")}
        /\ UNCHANGED <<nonce, contracts, slot, reserves, configured, registered, db, locals>>
    BY StepTaken DEF PausePool, WellFormed
  <1> PICK of, pool : of = k.locals[Now.of] /\ pool = FieldOf(k, of, "pool")
    OBVIOUS
  <1>2. of \in Address /\ Own(of) /\ locals[Now.of] = Real(base, of) /\ Own(pool)
    BY <1>1, UsedShown DEF Followed, Shown
  <1>3. pool \in Address /\ Slot(locals[Now.of], "pool") = Real(base, pool)
    <2>1. "pool" \in Names /\ FieldsShown(base, k)
      BY NamesAssumption DEF Shown, Left
    <2> QED BY <1>2, <2>1, OwnField
  <1>4. k2.paused = k.paused \cup {pool}
        /\ \A x \in Aspects \ {"paused"} : k2[x] = k[x]
    <2>1. k2.paused = k.paused \cup {pool}
      BY <1>1 DEF After, IsPicture
    <2> QED BY <1>1, <2>1, AspectsKept
  <1>5. Real(base, pool)[2] > base
    BY <1>2, <1>3, RealFacts
  <1>6. {a \in paused' : a[2] > base} = {Real(base, a) : a \in k2.paused}
    BY <1>1, <1>3, <1>4, <1>5 DEF MarketsShown, Shown, Left
  <1>7. MarketsShown(base, k2)'
    BY <1>1, <1>4, <1>6 DEF MarketsShown, Shown, Left, Aspects
  <1> QED BY <1>1, <1>4, <1>7, PartsKept, ShownFromParts DEF Aspects

\* A reserve is listed in a pool of the attempt, with known addresses.
LEMMA InitReserveShown ==
    ASSUME DeploymentInv, NEW base \in Nat, NEW k, IsPicture(k), Shown(base, k), Followed(k, Now),
           InitReserve, NEW k2, k2 = After(k, Now)
    PROVE  Shown(base, k2)'
  <1>1. /\ WellFormed(Now) /\ Accepted(Now) /\ Now.op = "initReserve" /\ Now.of \in Now.uses
        /\ {Now.name, Now.asset, Now.strategy} \subseteq Now.uses
        /\ reserves' = reserves \cup {[pool |-> Slot(locals[Now.of], "pool"),
                                       project |-> locals[Now.name], asset |-> locals[Now.asset],
                                       strategy |-> locals[Now.strategy]]}
        /\ UNCHANGED <<nonce, contracts, slot, configured, paused, registered, db, locals>>
    BY StepTaken DEF InitReserve, WellFormed
  <1> PICK of, pool : of = k.locals[Now.of] /\ pool = FieldOf(k, of, "pool")
    OBVIOUS
  <1> PICK r : r = [pool |-> pool, project |-> k.locals[Now.name], asset |-> k.locals[Now.asset],
                    strategy |-> k.locals[Now.strategy]]
    OBVIOUS
  <1>2. /\ of \in Address /\ Own(of) /\ locals[Now.of] = Real(base, of) /\ Own(pool)
        /\ \A v \in {Now.name, Now.asset, Now.strategy} : locals[v] = Real(base, k.locals[v])
    BY <1>1, UsedShown DEF Followed, Shown
  <1>3. pool \in Address /\ Slot(locals[Now.of], "pool") = Real(base, pool)
    <2>1. "pool" \in Names /\ FieldsShown(base, k)
      BY NamesAssumption DEF Shown, Left
    <2> QED BY <1>2, <2>1, OwnField
  <1>4. k2.reserves = k.reserves \cup {r}
        /\ \A x \in Aspects \ {"reserves"} : k2[x] = k[x]
    <2>1. k2.reserves = k.reserves \cup {r}
      BY <1>1 DEF After, IsPicture
    <2> QED BY <1>1, <2>1, AspectsKept
  <1>5. RealReserve(base, r).pool[2] > base
    BY <1>2, <1>3, RealFacts DEF RealReserve
  <1>6. reserves' = reserves \cup {RealReserve(base, r)}
    BY <1>1, <1>2, <1>3 DEF RealReserve
  <1>7. {q \in reserves' : q.pool[2] > base} = {RealReserve(base, q) : q \in k2.reserves}
    <2>1. {q \in reserves : q.pool[2] > base} = {RealReserve(base, q) : q \in k.reserves}
      BY DEF MarketsShown, Shown, Left
    <2>2. {q \in reserves' : q.pool[2] > base}
            = {q \in reserves : q.pool[2] > base} \cup {RealReserve(base, r)}
      BY <1>5, <1>6
    <2> QED BY <1>4, <2>1, <2>2
  <1>8. MarketsShown(base, k2)'
    BY <1>1, <1>4, <1>7 DEF MarketsShown, Shown, Left, Aspects
  <1> QED BY <1>1, <1>4, <1>8, PartsKept, ShownFromParts DEF Aspects

\* The helper's rows go to the pool of the attempt.
LEMMA ConfigureShown ==
    ASSUME DeploymentInv, NEW base \in Nat, NEW k, IsPicture(k), Shown(base, k), Followed(k, Now),
           ConfigureReserves, NEW k2, k2 = After(k, Now)
    PROVE  Shown(base, k2)'
  <1>1. /\ WellFormed(Now) /\ Accepted(Now) /\ Now.op = "configure" /\ Now.of \in Now.uses
        /\ Now.projects \subseteq Now.uses
        /\ configured' = configured \cup {<<Slot(Slot(locals[Now.of], "configurator"), "pool"), locals[v]>> :
                                             v \in Now.projects}
        /\ UNCHANGED <<nonce, contracts, slot, reserves, paused, registered, db, locals>>
    BY StepTaken DEF ConfigureReserves, WellFormed
  <1> PICK of, c, pool : of = k.locals[Now.of] /\ c = FieldOf(k, of, "configurator")
                         /\ pool = FieldOf(k, c, "pool")
    OBVIOUS
  <1>2. /\ of \in Address /\ Own(of) /\ locals[Now.of] = Real(base, of) /\ Own(c) /\ Own(pool)
        /\ \A v \in Now.projects : locals[v] = Real(base, k.locals[v])
    BY <1>1, UsedShown DEF Followed, Shown
  <1>3. c \in Address /\ Slot(locals[Now.of], "configurator") = Real(base, c)
    <2>1. "configurator" \in Names /\ FieldsShown(base, k)
      BY NamesAssumption DEF Shown, Left
    <2> QED BY <1>2, <2>1, OwnField
  <1>4. Slot(Real(base, c), "pool") = Real(base, pool)
    <2>1. "pool" \in Names /\ FieldsShown(base, k)
      BY NamesAssumption DEF Shown, Left
    <2> QED BY <1>2, <1>3, <2>1, OwnField
  <1>5. k2.configured = k.configured \cup {<<pool, k.locals[v]>> : v \in Now.projects}
        /\ \A x \in Aspects \ {"configured"} : k2[x] = k[x]
    <2>1. k2.configured = k.configured \cup {<<pool, k.locals[v]>> : v \in Now.projects}
      BY <1>1 DEF After, IsPicture
    <2> QED BY <1>1, <2>1, AspectsKept
  <1>6. configured' = configured \cup {<<Real(base, pool), Real(base, k.locals[v])>> : v \in Now.projects}
    BY <1>1, <1>2, <1>3, <1>4
  <1>7. \A x \in k2.configured : <<Real(base, x[1]), Real(base, x[2])>> \in configured'
    BY <1>5, <1>6 DEF MarketsShown, Shown, Left
  <1>8. MarketsShown(base, k2)'
    BY <1>1, <1>5, <1>7 DEF MarketsShown, Shown, Left, Aspects
  <1> QED BY <1>1, <1>5, <1>8, PartsKept, ShownFromParts DEF Aspects

\* The next contract of the attempt is the next contract of the chain.
LEMMA NextOwn ==
    ASSUME NEW base \in Nat, NEW k, IsPicture(k), nonce = base + k.made, NEW n \in Names,
           NEW b, b = <<n, k.made + 1>>
    PROVE  b \in Address /\ Own(b) /\ Real(base, b) = <<n, nonce + 1>>
  BY DEF IsPicture, Address, Own, Real

\* A contract created is the next of the attempt.
LEMMA CreateShown ==
    ASSUME DeploymentInv, NEW base \in Nat, NEW k, IsPicture(k), Shown(base, k),
           Create, NEW k2, k2 = After(k, Now)
    PROVE  Shown(base, k2)'
  <1>1. /\ WellFormed(Now) /\ Accepted(Now) /\ Now.op = "deploy" /\ Now.name \in Names
        /\ "owner" \notin DOMAIN Now.links
        /\ \A f \in DOMAIN Now.links : Now.links[f] \in Now.uses
    BY StepTaken DEF Create, Assigned, WellFormed
  <1> PICK b, new : b = <<Now.name, k.made + 1>> /\ new = <<Now.name, nonce + 1>>
    OBVIOUS
  <1>2. b \in Address /\ Own(b) /\ new = Real(base, b) /\ k.made \in Nat
    BY <1>1, NextOwn DEF Shown, Left, IsPicture
  <1>3. /\ nonce' = nonce + 1 /\ locals' = Bind(locals, Now.name, new)
        /\ UNCHANGED <<reserves, configured, paused, registered, db>>
    BY DEF Create, Assigned
  <1>4. /\ k2.made = k.made + 1 /\ k2.locals = Bind(k.locals, Now.name, b)
        /\ k2.slot = Written(k.slot, b, Constructed(k, Now))
    BY <1>1 DEF After, Created, IsPicture
  <1>5. \A x \in Aspects \ {"made", "slot", "locals"} : k2[x] = k[x]
    BY <1>1, AspectsKept
  <1>6. nonce' = base + k2.made
    BY <1>2, <1>3, <1>4 DEF Shown, Left
  <1>7. LocalsShown(base, k2)'
    BY <1>2, <1>3, <1>4, LocalsBound DEF Shown, Shows
  <1>8. FieldsShown(base, k2)'
    <2> DEFINE built == Constructed(k, Now)
               stores == [f \in DOMAIN Now.links \cup {"owner"} |->
                            IF f = "owner" THEN Deployer ELSE locals[Now.links[f]]]
    <2>1. DOMAIN built = DOMAIN Now.links \cup {"owner"}
          /\ \A f \in DOMAIN built :
               built[f] = IF f = "owner" THEN Deployer ELSE k.locals[Now.links[f]]
      BY DEF Constructed
    <2>2. \A f \in DOMAIN Now.links : Shows(base, k.locals[Now.links[f]], locals[Now.links[f]])
      BY <1>1, UsedShown DEF Shown
    <2>3. Shows(base, Deployer, Deployer)
      BY GivenReal DEF Shows, Deployer
    <2>4. \A f \in DOMAIN built : Shows(base, built[f], stores[f])
      BY <2>1, <2>2, <2>3
    <2>5. \A a, f : Slot(a, f)' = IF a = Real(base, b) /\ f \in DOMAIN built THEN stores[f]
                                  ELSE Slot(a, f)
      <3>1. \A a, f : Slot(a, f)' =
              IF a = new /\ f \in DOMAIN Now.links THEN locals[Now.links[f]]
              ELSE IF a = new /\ f = "owner" THEN Deployer ELSE Slot(a, f)
        BY <1>1, SlotAfterCreate
      <3> QED BY <1>1, <1>2, <2>1, <3>1
    <2>6. FieldsShown(base, k) /\ b \in Address /\ Own(b) /\ k2.slot = Written(k.slot, b, built)
      BY <1>2, <1>4 DEF Shown, Left
    <2> HIDE DEF built, stores
    <2> QED BY <2>4, <2>5, <2>6, FieldsCreated
  <1> QED BY <1>3, <1>5, <1>6, <1>7, <1>8, PartsKept, ShownFromParts DEF Aspects

\* A contract sent is the next of the attempt; who owns it is known to nobody
\* before it is mined.
LEMMA SendShown ==
    ASSUME DeploymentInv, NEW base \in Nat, NEW k, IsPicture(k), Shown(base, k),
           SendDeployment, NEW k2, k2 = After(k, Now)
    PROVE  Shown(base, k2)'
  <1>1. WellFormed(Now) /\ Now.op = "send" /\ Now.name \in Names
    BY StepTaken DEF SendDeployment, WellFormed
  <1> PICK b, new : b = <<Now.name, k.made + 1>> /\ new = <<Now.name, nonce + 1>>
    OBVIOUS
  <1>2. b \in Address /\ Own(b) /\ new = Real(base, b) /\ k.made \in Nat
    BY <1>1, NextOwn DEF Shown, Left, IsPicture
  <1>3. /\ nonce' = nonce + 1 /\ locals' = Bind(locals, Now.name, new)
        /\ UNCHANGED <<reserves, configured, paused, registered, db>>
        /\ Mined(new) \/ UNCHANGED slot
    BY DEF SendDeployment
  <1> PICK fields, real : fields = [owner |-> Unknown] /\ real = [owner |-> Slot(new, "owner")']
    OBVIOUS
  <1>4. k2.made = k.made + 1 /\ k2.locals = Bind(k.locals, Now.name, b)
        /\ k2.slot = Written(k.slot, b, fields)
    BY <1>1 DEF After, Created, IsPicture
  <1>5. \A x \in Aspects \ {"made", "slot", "locals"} : k2[x] = k[x]
    BY <1>1, AspectsKept
  <1>6. nonce' = base + k2.made
    BY <1>2, <1>3, <1>4 DEF Shown, Left
  <1>7. LocalsShown(base, k2)'
    BY <1>2, <1>3, <1>4, LocalsBound DEF Shown, Shows
  <1>8. FieldsShown(base, k2)'
    <2>1. \A a, f : a # new \/ f # "owner" => Slot(a, f)' = Slot(a, f)
      <3>1. CASE Mined(new)
        BY <3>1, SlotAfterBind DEF Mined
      <3>2. CASE UNCHANGED slot
        BY <3>2 DEF Slot
      <3> QED BY <1>3, <3>1, <3>2
    <2>2. \A a, f : Slot(a, f)' = IF a = Real(base, b) /\ f \in DOMAIN fields THEN real[f]
                                  ELSE Slot(a, f)
      BY <1>2, <2>1
    <2>3. \A f \in DOMAIN fields : Shows(base, fields[f], real[f])
      BY DEF Shows
    <2>4. FieldsShown(base, k)
      BY DEF Shown, Left
    <2> QED BY <1>2, <1>4, <2>2, <2>3, <2>4, FieldsCreated
  <1> QED BY <1>3, <1>5, <1>6, <1>7, <1>8, PartsKept, ShownFromParts DEF Aspects

\* Waiting for it changes nothing that is known.
LEMMA WaitShown ==
    ASSUME DeploymentInv, NEW base \in Nat, NEW k, IsPicture(k), Shown(base, k), Followed(k, Now),
           AwaitDeployment, NEW k2, k2 = After(k, Now)
    PROVE  Shown(base, k2)'
  <1>1. /\ WellFormed(Now) /\ Accepted(Now) /\ Now.op = "wait" /\ Now.of \in Now.uses
        /\ UNCHANGED <<nonce, reserves, configured, paused, registered, db, locals>>
        /\ UNCHANGED slot \/ Mined(locals[Now.of])
    BY StepTaken DEF AwaitDeployment, WellFormed
  <1> PICK of : of = k.locals[Now.of]
    OBVIOUS
  <1>2. of \in Address /\ Own(of) /\ locals[Now.of] = Real(base, of)
    BY <1>1, UsedShown DEF Followed, Shown
  <1>3. k2.slot = Bind(k.slot, <<of, "owner">>, Unknown)
    BY <1>1 DEF After, IsPicture
  <1>4. \A x \in Aspects \ {"slot"} : k2[x] = k[x]
    BY <1>1, AspectsKept
  <1>5. FieldsShown(base, k)
    BY DEF Shown, Left
  <1>6. CASE UNCHANGED slot
    <2>1. \A a, f : FieldOf(k2, a, f) = IF a = of /\ f = "owner" THEN Unknown ELSE FieldOf(k, a, f)
      BY <1>3, StoredAfterBind DEF FieldOf
    <2>2. FieldsShown(base, k2)
      BY <1>5, <2>1 DEF FieldsShown, Shows
    <2>3. FieldsShown(base, k2)'
      BY <1>6, <2>2, FieldsKept
    <2> QED BY <1>1, <1>4, <2>3, PartsKept, ShownFromParts DEF Aspects
  <1>7. CASE Mined(locals[Now.of])
    <2>1. slot' = Bind(slot, <<Real(base, of), "owner">>, Deployer)
      BY <1>2, <1>7 DEF Mined
    <2>2. FieldsShown(base, k2)'
      BY <1>2, <1>3, <1>5, <2>1, FieldWritten DEF Shows
    <2> QED BY <1>1, <1>4, <2>2, PartsKept, ShownFromParts DEF Aspects
  <1> QED BY <1>1, <1>6, <1>7

\* So is a proxy, and its provider is the attempt's.
LEMMA ProxyShown ==
    ASSUME DeploymentInv, NEW base \in Nat, NEW k, IsPicture(k), Shown(base, k), Followed(k, Now),
           SetLendingPoolImpl \/ SetLendingPoolConfiguratorImpl, NEW k2, k2 = After(k, Now)
    PROVE  Shown(base, k2)'
  <1>1. /\ WellFormed(Now) /\ Accepted(Now) /\ Now.op \in {"setPool", "setConfigurator"}
        /\ Now.of \in Now.uses /\ Now.name \in Now.uses
    BY StepTaken DEF SetLendingPoolImpl, SetLendingPoolConfiguratorImpl, WellFormed
  <1> PICK of, impl : of = k.locals[Now.of] /\ impl = k.locals[Now.name]
    OBVIOUS
  <1>2. /\ of \in Address /\ Own(of) /\ locals[Now.of] = Real(base, of)
        /\ Shows(base, impl, locals[Now.name]) /\ Exists(locals[Now.of])
    <2>1. BookFirm
      BY NothingAwaited DEF SetLendingPoolImpl, SetLendingPoolConfiguratorImpl
    <2> QED BY <1>1, <2>1, UsedShown, UsedExists DEF Followed, Shown
  <1>3. Shows(base, of, locals[Now.of])
    BY <1>2 DEF Shows
  <1>4. \A x \in Aspects \ {"made", "slot"} : k2[x] = k[x]
    BY <1>1, AspectsKept
  <1>5. ASSUME NEW field, NEW name \in Names, NEW pool, NEW known, Shows(base, known, pool),
               NewProxy(field, name, pool), k2 = Proxied(k, Now, field, name, known)
        PROVE  Shown(base, k2)'
    <2> PICK b, new : b = <<name, k.made + 1>> /\ new = <<name, nonce + 1>>
      OBVIOUS
    <2>1. b \in Address /\ Own(b) /\ new = Real(base, b) /\ k.made \in Nat
      BY NextOwn DEF Shown, Left, IsPicture
    <2>2. locals[Now.of] # new /\ of # b
      BY <1>2, <2>1, NewIsBlank
    <2> PICK fields, real :
          /\ fields = [provider |-> of, implementation |-> impl, pool |-> known]
          /\ real = Initialized(locals[Now.of], locals[Now.name], pool)
      OBVIOUS
    <2>3. k2.made = k.made + 1 /\ k2.slot = Bind(Written(k.slot, b, fields), <<of, field>>, b)
      BY <1>5 DEF Proxied, Created, IsPicture
    <2>4. /\ nonce' = nonce + 1
          /\ UNCHANGED <<reserves, configured, paused, registered, db, locals>>
      BY <1>5 DEF NewProxy
    <2>5. nonce' = base + k2.made
      BY <2>1, <2>3, <2>4 DEF Shown, Left
    <2>6. DOMAIN fields = {"provider", "implementation", "pool"}
          /\ \A f \in DOMAIN fields : Shows(base, fields[f], real[f])
      BY <1>2, <1>3, <1>5 DEF Initialized
    <2>7. \A a, f : Slot(a, f)' =
            IF a = Real(base, of) /\ f = field THEN Real(base, b)
            ELSE IF a = Real(base, b) /\ f \in DOMAIN fields THEN real[f] ELSE Slot(a, f)
      <3>1. \A a, f : Slot(a, f)' =
              IF a = locals[Now.of] /\ f = field THEN new
              ELSE IF a = new /\ f \in {"provider", "implementation", "pool"}
                   THEN real[f] ELSE Slot(a, f)
        BY <1>5, <2>2, SlotAfterProxy
      <3> QED BY <1>2, <2>1, <2>6, <3>1
    <2>8. FieldsShown(base, k2)'
      <3>1. FieldsShown(base, k) /\ of \in Address /\ Own(of) /\ b \in Address /\ Own(b) /\ of # b
        BY <1>2, <2>1, <2>2 DEF Shown, Left
      <3>2. k2.slot = Bind(Written(k.slot, b, fields), <<of, field>>, b)
        BY <2>3
      <3>3. \A f \in DOMAIN fields : Shows(base, fields[f], real[f])
        BY <2>6
      <3> QED BY <3>1, <3>2, <3>3, <2>7, FieldsProxied
    <2> QED BY <1>4, <2>4, <2>5, <2>8, PartsKept, ShownFromParts DEF Aspects
  <1>6. CASE SetLendingPoolImpl
    <2>1. Now.op = "setPool" /\ NewProxy("LENDING_POOL", "LendingPoolProxy", None)
      BY <1>6, StepTaken DEF SetLendingPoolImpl
    <2>2. k2 = Proxied(k, Now, "LENDING_POOL", "LendingPoolProxy", None)
      BY <2>1 DEF After
    <2>3. Shows(base, None, None) /\ "LendingPoolProxy" \in Names
      BY GivenReal, NamesAssumption DEF None, Shows
    <2> QED BY <1>5, <2>1, <2>2, <2>3
  <1>7. CASE SetLendingPoolConfiguratorImpl
    <2> PICK pool, known : pool = Slot(locals[Now.of], "LENDING_POOL")
                           /\ known = FieldOf(k, of, "LENDING_POOL")
      OBVIOUS
    <2>1. /\ Now.op = "setConfigurator"
          /\ NewProxy("LENDING_POOL_CONFIGURATOR", "LendingPoolConfiguratorProxy", pool)
      BY <1>7, StepTaken DEF SetLendingPoolConfiguratorImpl
    <2>2. k2 = Proxied(k, Now, "LENDING_POOL_CONFIGURATOR", "LendingPoolConfiguratorProxy", known)
      BY <2>1 DEF After
    <2>3. Shows(base, known, pool) /\ "LendingPoolConfiguratorProxy" \in Names
      BY <1>2, FieldKnown, NamesAssumption DEF Shown, Left
    <2> QED BY <1>5, <2>1, <2>2, <2>3
  <1> QED BY <1>6, <1>7

\* The steps of a task, without the operator's and the failures.
Taken ==
    \/ Create \/ SendDeployment \/ AwaitDeployment \/ SaveAddress \/ LoadAddress \/ TakeGiven
    \/ ReadField \/ SetField \/ Transact \/ GiveOracleBack \/ SetLendingPoolImpl
    \/ SetLendingPoolConfiguratorImpl \/ RegisterProvider \/ PausePool \/ InitReserve \/ ConfigureReserves

\* What such a step is called.
Ops == {"deploy", "send", "wait", "save", "load", "given", "get", "set", "call", "rates", "giveBack", "setPool",
        "setConfigurator", "register", "pause", "initReserve", "configure"}

\* A step taken is the next one of the task, well formed and accepted.
LEMMA TakenFacts ==
    ASSUME DeploymentInv, Taken
    PROVE  /\ WellFormed(Now) /\ Accepted(Now) /\ Now.op \in Ops
           /\ status = "running" /\ todo # <<>> /\ Advance /\ \E op : Running(op)
  <1>1. Advance /\ \E op \in Ops : Running(op)
    <2>1. CASE Create \/ SaveAddress \/ LoadAddress \/ TakeGiven \/ ReadField \/ SetField
      BY <2>1 DEF Create, Assigned, SaveAddress, LoadAddress, TakeGiven, ReadField, SetField, Ops
    <2>2. CASE Transact \/ GiveOracleBack \/ SetLendingPoolImpl \/ SetLendingPoolConfiguratorImpl
      BY <2>2 DEF Transact, GiveOracleBack, SetLendingPoolImpl, SetLendingPoolConfiguratorImpl, Ops
    <2>3. CASE RegisterProvider \/ PausePool \/ InitReserve \/ ConfigureReserves
      BY <2>3 DEF RegisterProvider, PausePool, InitReserve, ConfigureReserves, Ops
    <2>4. CASE SendDeployment \/ AwaitDeployment
      BY <2>4 DEF SendDeployment, AwaitDeployment, Ops
    <2> QED BY <2>1, <2>2, <2>3, <2>4 DEF Taken
  <1> PICK op \in Ops : Running(op)
    BY <1>1
  <1> QED BY <1>1, StepTaken DEF Running

\* A step the outline follows leaves the view clear.
LEMMA ViewKept ==
    ASSUME NEW k, IsPicture(k), NEW s, s.op \in Ops
    PROVE  After(k, s).view = k.view
  <1>1. CASE s.op \in {"wait", "save", "load", "given", "get", "set", "giveBack"}
    BY <1>1 DEF After, IsPicture
  <1>2. CASE s.op \in {"call", "rates", "register", "pause", "initReserve", "configure"}
    BY <1>2 DEF After, IsPicture
  <1>3. CASE s.op \in {"deploy", "send", "setPool", "setConfigurator"}
    BY <1>3 DEF After, Created, Proxied, IsPicture
  <1> QED BY <1>1, <1>2, <1>3 DEF Ops

\* Whatever the step, what it leaves is what the outline shows after it.
LEMMA AfterShown ==
    ASSUME DeploymentInv, NEW base \in Nat, NEW k, IsPicture(k), Shown(base, k), Followed(k, Now),
           Taken, NEW k2, k2 = After(k, Now)
    PROVE  Shown(base, k2)'
  <1>1. CASE Create
    BY <1>1, CreateShown
  <1>2. CASE SaveAddress
    BY <1>2, SaveShown
  <1>3. CASE LoadAddress \/ TakeGiven \/ ReadField
    BY <1>3, BoundShown
  <1>4. CASE SetField \/ GiveOracleBack
    BY <1>4, SetShown
  <1>5. CASE Transact
    BY <1>5, TransactShown
  <1>6. CASE SetLendingPoolImpl \/ SetLendingPoolConfiguratorImpl
    BY <1>6, ProxyShown
  <1>7. CASE RegisterProvider
    BY <1>7, RegisterShown
  <1>8. CASE PausePool
    BY <1>8, PauseShown
  <1>9. CASE InitReserve
    BY <1>9, InitReserveShown
  <1>10. CASE ConfigureReserves
    BY <1>10, ConfigureShown
  <1>11. CASE SendDeployment
    BY <1>11, SendShown
  <1>12. CASE AwaitDeployment
    BY <1>12, WaitShown
  <1> QED BY <1>1, <1>2, <1>3, <1>4, <1>5, <1>6, <1>7, <1>8, <1>9, <1>10, <1>11, <1>12 DEF Taken

\* A step of the process is a step of its outline.
LEMMA OnwardHolds ==
    ASSUME DeploymentInv, NEW base \in Nat, NEW k, IsPicture(k), Holds(base, k),
           Taken, NEW k2, k2 = Onward(k, Now)
    PROVE  Holds(base, k2)'
  <1>1. Now.op \in Ops /\ \E op : Running(op)
    BY TakenFacts
  <1>2. ~Blocked(k, Now)
    BY <1>1, NotBlocked
  <1>3. CASE k.view = "clear" /\ Followed(k, Now)
    <2>1. k2 = After(k, Now)
      BY <1>2, <1>3 DEF Onward
    <2>2. k2.view = "clear"
      BY <1>1, <1>3, <2>1, ViewKept
    <2>3. Shown(base, k)
      BY <1>3 DEF Holds, Shown
    <2>4. Shown(base, k2)'
      BY <1>3, <2>1, <2>3, AfterShown
    <2> QED BY <2>2, <2>4 DEF Holds, Shown
  <1>4. CASE ~(k.view = "clear" /\ Followed(k, Now))
    <2>1. k2.view = "lost"
      BY <1>2, <1>4 DEF Onward, IsPicture
    <2> QED BY <2>1 DEF Holds
  <1> QED BY <1>3, <1>4

-----------------------------------------------------------------------------
(* Attempts begin, go on and end as their outline *)

\* Pools that list reserves or are paused exist.
ListedExist == (\A r \in reserves : Exists(r.pool)) /\ (\A a \in paused : Exists(a))

\* The process is in an attempt of its migration.
LEMMA AttemptFacts ==
    ASSUME DeploymentInv
    PROVE  /\ Tasks[task] \in Seq(Steps) /\ Tasks = Program(migration) /\ task \in DOMAIN Tasks
           /\ Tasks \in Seq(Seq(Steps)) /\ DOMAIN Tasks = 1..Len(Tasks)
           /\ migration \in Migrations /\ First \in {1, task}
           /\ <<First, task>> \in Attempts(migration) /\ <<1, task>> \in Attempts(migration)
           /\ <<1, Len(Tasks)>> \in Attempts(migration)
  <1>1. migration \in Migrations /\ task \in DOMAIN Tasks
    BY DEF DeploymentInv, TypeOK
  <1>2. Tasks \in Seq(Seq(Steps)) /\ 1 \in DOMAIN Tasks /\ Tasks[task] \in Seq(Steps)
    BY <1>1, TasksAreSequences
  <1>3. DOMAIN Tasks = 1..Len(Tasks) /\ Len(Tasks) \in DOMAIN Tasks
    BY <1>2
  <1>4. \A a \in (DOMAIN Tasks) \X (DOMAIN Tasks) : a[1] \in {1, a[2]} => a \in Attempts(migration)
    BY DEF Attempts, Tasks
  <1>5. First \in {1, task}
    BY DEF First
  <1> QED BY <1>1, <1>2, <1>3, <1>4, <1>5 DEF Tasks

\* What the outline says of an attempt.
LEMMA OutlineFacts ==
    ASSUME NEW m \in Migrations, NEW first, NEW t, <<first, t>> \in Attempts(m),
           Program(m)[t] \in Seq(Steps)
    PROVE  /\ \A i \in 1..(Len(Program(m)[t]) + 1) : IsPicture(Outline(m, first, t)[i])
           /\ first = t => Outline(m, first, t)[1] = Blank
           /\ first # t => Outline(m, first, t)[1] = NextTask(AtEnd(m, first, t - 1))
           /\ \A i \in 1..Len(Program(m)[t]) :
                Outline(m, first, t)[i + 1] = Onward(Outline(m, first, t)[i], Program(m)[t][i])
           /\ IsPicture(AtEnd(m, first, t))
  <1> PICK a : a = <<first, t>>
    OBVIOUS
  <1>1. a \in Attempts(m) /\ a[1] = first /\ a[2] = t
    OBVIOUS
  <1>2. /\ \A i \in 1..(Len(Program(m)[t]) + 1) : IsPicture(Outline(m, first, t)[i])
        /\ Outline(m, first, t)[1] = IF first = t THEN Blank ELSE NextTask(AtEnd(m, first, t - 1))
        /\ \A i \in DOMAIN Program(m)[t] :
             Outline(m, first, t)[i + 1] = Onward(Outline(m, first, t)[i], Program(m)[t][i])
    BY <1>1, OutlineAssumption
  <1>3. IsPicture(AtEnd(m, first, t))
    BY <1>2 DEF AtEnd
  <1> QED BY <1>2, <1>3

\* The step to come stands at the process's position.
LEMMA PositionFacts ==
    ASSUME DeploymentInv, TaskInPlace
    PROVE  /\ Position \in 1..(Len(Tasks[task]) + 1)
           /\ todo = <<>> => Position = Len(Tasks[task]) + 1
           /\ todo # <<>> => Position \in 1..Len(Tasks[task]) /\ Now = Tasks[task][Position]
  <1>1. todo \in Seq(Steps) /\ Tasks[task] \in Seq(Steps) /\ Len(todo) <= Len(Tasks[task])
    BY AttemptFacts DEF DeploymentInv, TaskInPlace
  <1>2. CASE todo = <<>>
    BY <1>1, <1>2 DEF Position
  <1>3. CASE todo # <<>>
    <2>1. Len(todo) \in Nat \ {0} /\ Now = todo[1]
      BY <1>1, <1>3, HeadTailProperties, EmptySeq DEF Now
    <2>2. todo[1] = Tasks[task][Len(Tasks[task]) - Len(todo) + 1]
      BY <2>1 DEF TaskInPlace
    <2> QED BY <1>1, <1>3, <2>1, <2>2 DEF Position
  <1> QED BY <1>2, <1>3

\* The rest of an end of a sequence is an end of it.
LEMMA RestOfEnd ==
    ASSUME NEW S, NEW s \in Seq(S), NEW t \in Seq(S), s # <<>>,
           \A j \in 1..Len(s) : s[j] = t[Len(t) - Len(s) + j]
    PROVE  /\ Len(s) \in Nat \ {0} /\ Len(Tail(s)) = Len(s) - 1
           /\ \A j \in 1..Len(Tail(s)) : Tail(s)[j] = t[Len(t) - Len(Tail(s)) + j]
  <1>1. Len(s) \in Nat \ {0} /\ Len(Tail(s)) = Len(s) - 1 /\ Len(t) \in Nat
        /\ \A j \in 1..Len(Tail(s)) : Tail(s)[j] = s[j + 1]
    BY HeadTailProperties, EmptySeq
  <1>2. ASSUME NEW j \in 1..Len(Tail(s)) PROVE Tail(s)[j] = t[Len(t) - Len(Tail(s)) + j]
    <2>1. Tail(s)[j] = s[j + 1] /\ j + 1 \in 1..Len(s)
      BY <1>1
    <2>2. s[j + 1] = t[Len(t) - Len(s) + (j + 1)]
      BY <2>1
    <2>3. Len(t) - Len(s) + (j + 1) = Len(t) - Len(Tail(s)) + j
      BY <1>1
    <2> QED BY <2>1, <2>2, <2>3
  <1> QED BY <1>1, <1>2

\* Taking a step moves one position on in the task.
LEMMA AdvanceInPlace ==
    ASSUME DeploymentInv, TaskInPlace, todo # <<>>, Advance
    PROVE  TaskInPlace' /\ Position' = Position + 1 /\ First' = First /\ Tasks' = Tasks
  <1>1. todo' = Tail(todo) /\ UNCHANGED <<migration, task, single, status, crashes, reruns>>
    BY DEF Advance
  <1>2. Tasks' = Tasks /\ First' = First /\ task' = task
    BY <1>1 DEF Tasks, First
  <1>3. todo \in Seq(Steps) /\ Tasks[task] \in Seq(Steps) /\ Len(todo) <= Len(Tasks[task])
    BY AttemptFacts DEF DeploymentInv, TaskInPlace
  <1>4. Len(todo) \in Nat \ {0} /\ Len(Tail(todo)) = Len(todo) - 1
        /\ \A j \in 1..Len(Tail(todo)) :
             Tail(todo)[j] = Tasks[task][Len(Tasks[task]) - Len(Tail(todo)) + j]
    BY <1>3, RestOfEnd DEF TaskInPlace
  <1>5. Len(todo') <= Len(Tasks[task]) /\ Position' = Position + 1
    BY <1>1, <1>2, <1>3, <1>4 DEF Position
  <1> QED BY <1>1, <1>2, <1>4, <1>5 DEF TaskInPlace

\* Nothing of an attempt that begins is on the chain yet.
LEMMA BlankLeft ==
    ASSUME DeploymentInv, ListedExist
    PROVE  nonce \in Nat /\ Left(nonce, Blank)
  <1>1. nonce \in Nat /\ \A a : Exists(a) => a[2] <= nonce
    BY DEF DeploymentInv, TypeOK, Fresh, Exists
  <1>2. ASSUME NEW n \in Names, NEW i \in Nat \ {0}, NEW f \in Names
        PROVE  Shows(nonce, FieldOf(Blank, <<n, i>>, f), Slot(<<n, nonce + i>>, f))
    <2>1. FieldOf(Blank, <<n, i>>, f) = None
      BY DEF Blank, FieldOf, Stored
    <2> PICK c : c = <<n, nonce + i>>
      OBVIOUS
    <2>2. ~Exists(c)
      BY <1>1
    <2>3. <<c, f>> \notin DOMAIN slot
      BY <2>2 DEF DeploymentInv, NothingDangles
    <2>4. Slot(c, f) = None
      BY <2>3 DEF Slot
    <2>5. Real(nonce, None) = None
      BY GivenReal DEF None
    <2> QED BY <2>1, <2>4, <2>5 DEF Shows
  <1>3. FieldsShown(nonce, Blank)
    BY <1>2 DEF FieldsShown
  <1>4. \A r \in reserves : ~(r.pool[2] > nonce)
    BY <1>1 DEF ListedExist, DeploymentInv, TypeOK, Address
  <1>5. \A a \in paused : ~(a[2] > nonce)
    BY <1>1 DEF ListedExist, DeploymentInv, TypeOK, Address
  <1>6. MarketsShown(nonce, Blank)
    BY <1>4, <1>5 DEF MarketsShown, Blank
  <1> QED BY <1>1, <1>3, <1>6 DEF Left, FileShown, Blank

\* A task starts with the accounts.
LEMMA AccountsShown ==
    ASSUME NEW base
    PROVE  \A v \in DOMAIN Accounts : Shows(base, Accounts[v], Accounts[v])
  BY GivenReal DEF Accounts, Deployer, Shows

\* An attempt begins with nothing known and nothing of its own.
LEMMA BlankHolds ==
    ASSUME DeploymentInv, ListedExist, locals = Accounts
    PROVE  nonce \in Nat /\ Holds(nonce, Blank)
  BY BlankLeft, AccountsShown DEF Holds, Blank, LocalsShown

\* A task that has not begun is all to be done.
LEMMA WholeTaskInPlace ==
    DeploymentInv /\ todo = Tasks[task] => TaskInPlace /\ Position = 1
  <1> SUFFICES ASSUME DeploymentInv, todo = Tasks[task] PROVE TaskInPlace /\ Position = 1
    OBVIOUS
  <1>1. Tasks[task] \in Seq(Steps)
    BY AttemptFacts
  <1>2. Len(todo) \in Nat /\ Len(todo) = Len(Tasks[task])
    BY <1>1
  <1> HIDE DEF Tasks
  <1>3. Position = 1
    BY <1>2 DEF Position
  <1>4. \A j \in 1..Len(todo) : Len(Tasks[task]) - Len(todo) + j = j
    BY <1>2
  <1>5. TaskInPlace
    BY <1>2, <1>4 DEF TaskInPlace
  <1> QED BY <1>3, <1>5

\* An attempt that begins is shown by its blank outline.
LEMMA AttemptBegins ==
    (/\ DeploymentInv /\ ListedExist /\ locals = Accounts /\ status = "running"
     /\ todo = Tasks[task] /\ First = task)
    => TaskInPlace /\ OutlineFollowed
  <1> SUFFICES ASSUME DeploymentInv, ListedExist, locals = Accounts, status = "running",
                      todo = Tasks[task], First = task
               PROVE  TaskInPlace /\ OutlineFollowed
    OBVIOUS
  <1>1. TaskInPlace /\ Position = 1
    BY WholeTaskInPlace
  <1>2. Outline(migration, First, task)[1] = Blank
    BY AttemptFacts, OutlineFacts
  <1>3. nonce \in Nat /\ Holds(nonce, Blank)
    BY BlankHolds
  <1> QED BY <1>1, <1>2, <1>3 DEF OutlineFollowed

\* The process is in its outline.
OutlineInv == TaskInPlace /\ ListedExist /\ OutlineFollowed

\* The first attempt begins like every other.
LEMMA InitOutline == Init => OutlineInv
  <1> SUFFICES ASSUME Init PROVE OutlineInv
    OBVIOUS
  <1>1. DeploymentInv
    BY InitInv
  <1>2. ListedExist /\ locals = Accounts /\ status = "running" /\ todo = Tasks[task]
        /\ First = task
    BY DEF Init, ListedExist, First
  <1> QED BY <1>1, <1>2, AttemptBegins DEF OutlineInv

\* Pools are listed and paused as the contracts store them.
LEMMA ListedKept ==
    ASSUME DeploymentInv, ListedExist, [Next]_vars
    PROVE  ListedExist'
  <1>1. \A a : Exists(a) => Exists(a)'
    <2>1. contracts \subseteq contracts'
      <3>1. CASE Create \/ SetLendingPoolImpl \/ SetLendingPoolConfiguratorImpl
        BY <3>1 DEF Create, Assigned, SetLendingPoolImpl, SetLendingPoolConfiguratorImpl, NewProxy, Deployed
      <3>4. CASE SendDeployment \/ AwaitDeployment
        BY <3>4 DEF SendDeployment, AwaitDeployment, Mined, Deployed
      <3>2. CASE SaveAddress \/ LoadAddress \/ TakeGiven \/ ReadField \/ SetField \/ Transact
                 \/ GiveOracleBack \/ RegisterProvider \/ PausePool \/ InitReserve \/ ConfigureReserves
        BY <3>2 DEF SaveAddress, LoadAddress, TakeGiven, ReadField, SetField, Transact,
                    GiveOracleBack, RegisterProvider, PausePool, InitReserve, ConfigureReserves,
                    OnlySlot, chain
      <3>3. CASE FinishTask \/ Fail \/ Crash \/ Restart \/ (\E t \in DOMAIN Tasks : Rerun(t))
                 \/ UNCHANGED vars
        BY <3>3 DEF FinishTask, Fail, Crash, Restart, Rerun, vars, chain
      <3> QED BY <3>1, <3>2, <3>3, <3>4 DEF Next, Progress
    <2> QED BY <2>1 DEF Exists
  <1>2. CASE PausePool
    <2>1. reserves' = reserves /\ \E a : paused' = paused \cup {a} /\ Exists(a)
      BY <1>2, StoredExists DEF PausePool
    <2> QED BY <1>1, <2>1 DEF ListedExist
  <1>3. CASE InitReserve
    <2>1. paused' = paused /\ \E r : reserves' = reserves \cup {r} /\ Exists(r.pool)
      <3>1. Exists(Slot(locals[Now.of], "pool"))
        BY StoredExists
      <3> PICK r : r = [pool |-> Slot(locals[Now.of], "pool"), project |-> locals[Now.name],
                        asset |-> locals[Now.asset], strategy |-> locals[Now.strategy]]
        OBVIOUS
      <3>2. paused' = paused /\ reserves' = reserves \cup {r}
        BY <1>3 DEF InitReserve
      <3> QED BY <3>1, <3>2
    <2> QED BY <1>1, <2>1 DEF ListedExist
  <1>4. CASE UNCHANGED <<reserves, paused>>
    BY <1>1, <1>4 DEF ListedExist
  <1>5. CASE Create \/ SetLendingPoolImpl \/ SetLendingPoolConfiguratorImpl
             \/ SendDeployment \/ AwaitDeployment
    BY <1>4, <1>5 DEF Create, Assigned, SetLendingPoolImpl, SetLendingPoolConfiguratorImpl,
                      NewProxy, SendDeployment, AwaitDeployment
  <1>6. CASE SaveAddress \/ LoadAddress \/ TakeGiven \/ ReadField \/ SetField \/ Transact
             \/ GiveOracleBack \/ RegisterProvider \/ ConfigureReserves
    BY <1>4, <1>6 DEF SaveAddress, LoadAddress, TakeGiven, ReadField, SetField, Transact,
                      GiveOracleBack, RegisterProvider, ConfigureReserves, OnlySlot, chain
  <1>7. CASE FinishTask \/ Fail \/ Crash \/ Restart \/ (\E t \in DOMAIN Tasks : Rerun(t))
             \/ UNCHANGED vars
    BY <1>4, <1>7 DEF FinishTask, Fail, Crash, Restart, Rerun, vars, chain
  <1> QED BY <1>2, <1>3, <1>5, <1>6, <1>7 DEF Next, Progress

\* A step taken is the step of the outline at the process's position.
LEMMA TakenFollowed ==
    ASSUME DeploymentInv, OutlineInv, Taken
    PROVE  TaskInPlace' /\ OutlineFollowed'
  <1>1. /\ WellFormed(Now) /\ Accepted(Now) /\ status = "running" /\ todo # <<>> /\ Advance
    BY TakenFacts
  <1>2. /\ TaskInPlace' /\ Position' = Position + 1 /\ First' = First /\ Tasks' = Tasks
        /\ UNCHANGED <<migration, task, status>>
    BY <1>1, AdvanceInPlace DEF OutlineInv, Advance
  <1>3. Position \in 1..Len(Tasks[task]) /\ Now = Tasks[task][Position]
        /\ Position \in 1..(Len(Tasks[task]) + 1)
    BY <1>1, PositionFacts DEF OutlineInv
  <1> PICK base \in Nat : Holds(base, Outline(migration, First, task)[Position])
    BY <1>1 DEF OutlineInv, OutlineFollowed
  <1> PICK k, k2 : k = Outline(migration, First, task)[Position]
                   /\ k2 = Outline(migration, First, task)[Position + 1]
    OBVIOUS
  <1>4. IsPicture(k) /\ k2 = Onward(k, Now)
    <2>1. /\ migration \in Migrations /\ <<First, task>> \in Attempts(migration)
          /\ Tasks = Program(migration) /\ Program(migration)[task] \in Seq(Steps)
      BY AttemptFacts
    <2>2. \A i \in 1..(Len(Tasks[task]) + 1) : IsPicture(Outline(migration, First, task)[i])
      BY <2>1, OutlineFacts
    <2>3. \A i \in 1..Len(Tasks[task]) :
            Outline(migration, First, task)[i + 1]
              = Onward(Outline(migration, First, task)[i], Tasks[task][i])
      BY <2>1, OutlineFacts
    <2> QED BY <1>3, <2>2, <2>3
  <1>5. Holds(base, k2)'
    BY <1>4, OnwardHolds
  <1>6. k2 = Outline(migration', First', task')[Position']
    BY <1>2
  <1>7. status' = "running"
    BY <1>1, <1>2
  <1>8. OutlineFollowed'
    BY <1>5, <1>6, <1>7 DEF OutlineFollowed
  <1> QED BY <1>2, <1>8

\* Where a task ends, the next one begins with what it left, or the migration ends.
LEMMA FinishFollowed ==
    ASSUME DeploymentInv, DeploymentInv', OutlineInv, FinishTask
    PROVE  TaskInPlace' /\ OutlineFollowed'
  <1>1. /\ status = "running" /\ todo = <<>> /\ locals' = Accounts
        /\ UNCHANGED <<chain, db, migration, single, crashes, reruns>>
        /\ Tasks' = Tasks
    BY DEF FinishTask, Tasks
  <1> PICK base \in Nat : Holds(base, Outline(migration, First, task)[Position])
    BY <1>1 DEF OutlineInv, OutlineFollowed
  <1> PICK k : k = AtEnd(migration, First, task)
    OBVIOUS
  <1>3. Holds(base, k) /\ IsPicture(k)
    <2>1. Position = Len(Program(migration)[task]) + 1
      BY <1>1, PositionFacts, AttemptFacts DEF OutlineInv
    <2>2. Holds(base, k)
      BY <2>1 DEF AtEnd
    <2> QED BY <2>2, AttemptFacts, OutlineFacts
  <1>4. k.view = "clear" => Left(base, k)'
    BY <1>1, <1>3 DEF Holds, Left, FileShown, FieldsShown, MarketsShown, chain, Slot, FieldOf
  <1>5. CASE single
    <2>1. status' = "idle" /\ UNCHANGED <<task, todo>>
      BY <1>5 DEF FinishTask
    <2> QED BY <1>1, <2>1 DEF OutlineInv, TaskInPlace, OutlineFollowed
  <1>6. CASE ~single /\ task = Len(Tasks)
    <2>1. status' = "finished" /\ UNCHANGED <<task, todo>>
      BY <1>6 DEF FinishTask
    <2>2. First = 1
      BY <1>6 DEF First
    <2>3. k = AtEnd(migration', 1, Len(Tasks'))
      BY <1>1, <1>6, <2>2
    <2>4. k.view # "never"
      BY <1>3 DEF Holds
    <2>5. OutlineFollowed'
      BY <1>4, <2>1, <2>3, <2>4 DEF OutlineFollowed
    <2> QED BY <1>1, <2>1, <2>5 DEF OutlineInv, TaskInPlace
  <1>7. CASE ~single /\ task # Len(Tasks)
    <2>1. task' = task + 1 /\ todo' = Tasks[task + 1] /\ status' = "running"
      BY <1>1, <1>7 DEF FinishTask
    <2>2. First = 1 /\ First' = 1
      BY <1>1, <1>7 DEF First
    <2>3. TaskInPlace' /\ Position' = 1
      <3>1. todo' = Tasks'[task']
        BY <1>1, <2>1
      <3>2. (DeploymentInv /\ todo = Tasks[task] => TaskInPlace /\ Position = 1)'
        BY WholeTaskInPlace, PTL
      <3> QED BY <3>1, <3>2
    <2> PICK k2 : k2 = NextTask(k)
      OBVIOUS
    <2>4. k2 = Outline(migration', First', task')[Position']
      <3>1. task \in Nat \ {0}
        BY AttemptFacts
      <3>2. First' # task' /\ task' - 1 = task
        BY <2>1, <2>2, <3>1
      <3>3. <<First', task'>> \in Attempts(migration') /\ Program(migration')[task'] \in Seq(Steps)
            /\ migration' \in Migrations
        <4>1. migration \in Migrations /\ Tasks = Program(migration) /\ 1 \in DOMAIN Tasks
              /\ \A t \in DOMAIN Tasks : Tasks[t] \in Seq(Steps)
          BY AttemptFacts, TasksAreSequences
        <4>2. task' \in DOMAIN Tasks
          BY <1>1 DEF DeploymentInv, TypeOK
        <4>3. <<1, task'>> \in Attempts(migration)
          BY <4>1, <4>2 DEF Attempts
        <4> QED BY <1>1, <2>2, <4>1, <4>2, <4>3
      <3>4. Outline(migration', First', task')[1] = NextTask(AtEnd(migration', First', task' - 1))
        BY <3>2, <3>3, OutlineFacts
      <3> QED BY <1>1, <2>2, <2>3, <3>2, <3>4
    <2>5. k2.view = k.view /\ k2.locals = Accounts
          /\ \A x \in {"made", "db", "slot", "reserves", "configured", "registered", "paused"} : k2[x] = k[x]
      BY <1>3 DEF NextTask, IsPicture
    <2>6. LocalsShown(base, k2)'
      BY <1>1, <2>5, AccountsShown DEF LocalsShown
    <2>7. k.view = "clear" => Left(base, k2)'
      BY <1>4, <2>5 DEF Left, FileShown, FieldsShown, MarketsShown, FieldOf
    <2>8. Holds(base, k2)'
      BY <1>3, <2>5, <2>6, <2>7 DEF Holds
    <2>9. OutlineFollowed'
      BY <2>1, <2>4, <2>8 DEF OutlineFollowed
    <2> QED BY <2>3, <2>9
  <1> QED BY <1>5, <1>6, <1>7

\* Every action keeps the process within its outline.
LEMMA OutlineNext ==
    ASSUME DeploymentInv, DeploymentInv', OutlineInv, [Next]_vars
    PROVE  OutlineInv'
  <1>1. ListedExist'
    BY ListedKept DEF OutlineInv
  <1>2. CASE Taken
    BY <1>1, <1>2, TakenFollowed DEF OutlineInv
  <1>3. CASE FinishTask
    BY <1>1, <1>3, FinishFollowed DEF OutlineInv
  <1>4. CASE Fail \/ Crash
    <2>1. status' \in {"idle", "failed"} /\ locals' = Accounts /\ UNCHANGED <<migration, task, todo>>
      BY <1>4 DEF Fail, Crash
    <2> QED BY <1>1, <2>1 DEF OutlineInv, TaskInPlace, OutlineFollowed, Tasks
  <1>5. CASE Restart \/ (\E t \in DOMAIN Tasks : Rerun(t))
    <2>1. /\ status = "idle" /\ status' = "running" /\ UNCHANGED <<chain, db, locals, migration>>
          /\ todo' = Tasks[task'] /\ (single' \/ task' = 1)
      BY <1>5 DEF Restart, Rerun
    <2>2. locals' = Accounts /\ todo' = Tasks'[task'] /\ First' = task'
      BY <2>1 DEF DeploymentInv, StoppedIsBlank, Tasks, First
    <2>3. TaskInPlace' /\ OutlineFollowed'
      <3>1. (DeploymentInv /\ ListedExist /\ locals = Accounts /\ status = "running"
             /\ todo = Tasks[task] /\ First = task => TaskInPlace /\ OutlineFollowed)'
        BY AttemptBegins, PTL
      <3> QED BY <1>1, <2>1, <2>2, <3>1
    <2> QED BY <1>1, <2>1, <2>3 DEF OutlineInv
  <1>6. CASE UNCHANGED vars
    <2>1. UNCHANGED <<chain, db, locals, migration, task, todo, single, status>>
      BY <1>6 DEF vars, process
    <2>2. TaskInPlace'
      BY <2>1 DEF OutlineInv, TaskInPlace, Tasks
    <2>3. Position' = Position /\ First' = First /\ Tasks' = Tasks
      BY <2>1 DEF Position, First, Tasks
    <2> PICK base \in Nat :
          /\ status = "running" => Holds(base, Outline(migration, First, task)[Position])
          /\ status = "finished" =>
               AtEnd(migration, 1, Len(Tasks)).view # "never"
               /\ (AtEnd(migration, 1, Len(Tasks)).view = "clear"
                     => Left(base, AtEnd(migration, 1, Len(Tasks))))
      BY DEF OutlineInv, OutlineFollowed
    <2>4. ASSUME NEW k PROVE (Left(base, k) => Left(base, k)') /\ (Holds(base, k) => Holds(base, k)')
      BY <2>1 DEF Holds, LocalsShown, Left, FileShown, FieldsShown, MarketsShown, chain, Slot, FieldOf
    <2>5. OutlineFollowed'
      BY <2>1, <2>3, <2>4 DEF OutlineFollowed
    <2> QED BY <1>1, <2>2, <2>5 DEF OutlineInv
  <1> QED BY <1>2, <1>3, <1>4, <1>5, <1>6 DEF Next, Progress, Taken

-----------------------------------------------------------------------------
(* The administration of a market *)

\* Only a set field, a new proxy and a new contract change what is stored.
LEMMA SlotKept ==
    ASSUME [Next]_vars, ~(Create \/ SendDeployment \/ AwaitDeployment \/ SetField \/ GiveOracleBack
                          \/ SetLendingPoolImpl \/ SetLendingPoolConfiguratorImpl)
    PROVE  slot' = slot
  <1>1. CASE SaveAddress \/ LoadAddress \/ TakeGiven \/ ReadField \/ Transact
             \/ RegisterProvider \/ PausePool \/ InitReserve \/ ConfigureReserves
    BY <1>1 DEF SaveAddress, LoadAddress, TakeGiven, ReadField, Transact,
                RegisterProvider, PausePool, InitReserve, ConfigureReserves, chain
  <1>2. CASE FinishTask \/ Fail \/ Crash \/ Restart \/ (\E t \in DOMAIN Tasks : Rerun(t))
             \/ UNCHANGED vars
    BY <1>2 DEF FinishTask, Fail, Crash, Restart, Rerun, vars, chain
  <1> QED BY <1>1, <1>2 DEF Next, Progress

\* A contract that has no admin yet, and none whose provider changes, keep it.
LEMMA AdminKept ==
    ASSUME AdminIsHelper,
           \A p \in Address : Slot(p, "POOL_ADMIN")[2] > 0 \/ Slot(p, "POOL_ADMIN")'[2] > 0 =>
               Slot(p, "POOL_ADMIN")' = Slot(p, "POOL_ADMIN")
               /\ Slot(Slot(p, "POOL_ADMIN"), "provider")' = Slot(Slot(p, "POOL_ADMIN"), "provider")
    PROVE  AdminIsHelper'
  <1> SUFFICES ASSUME NEW p \in Address, NEW admin, admin = Slot(p, "POOL_ADMIN")', admin[2] > 0
               PROVE  admin[1] = "ATokensAndRatesHelper" /\ Slot(admin, "provider")' = p
    BY DEF AdminIsHelper
  <1>1. admin = Slot(p, "POOL_ADMIN") /\ Slot(admin, "provider")' = Slot(admin, "provider")
    OBVIOUS
  <1> QED BY <1>1 DEF AdminIsHelper

\* The step to come is one the programs may take where the outline stands.
LEMMA LentHere ==
    ASSUME DeploymentInv, OutlineInv, status = "running", todo # <<>>
    PROVE  \E base \in Nat : \E k : IsPicture(k) /\ Holds(base, k) /\ LentWell(k, Now)
  <1>1. Position \in 1..Len(Tasks[task]) /\ Now = Tasks[task][Position]
        /\ Position \in 1..(Len(Tasks[task]) + 1)
    BY PositionFacts DEF OutlineInv
  <1>2. /\ migration \in Migrations /\ <<First, task>> \in Attempts(migration)
        /\ Tasks = Program(migration) /\ Program(migration)[task] \in Seq(Steps)
    BY AttemptFacts
  <1> PICK k, a : k = Outline(migration, First, task)[Position] /\ a = <<First, task>>
    OBVIOUS
  <1>3. IsPicture(k)
    BY <1>1, <1>2, OutlineFacts
  <1>4. LentWell(k, Now)
    <2>1. a \in Attempts(migration) /\ a[1] = First /\ a[2] = task
      BY <1>2
    <2>2. Position \in DOMAIN Program(migration)[task]
      BY <1>1, <1>2
    <2>3. \A i \in DOMAIN Program(migration)[task] :
            LentWell(Outline(migration, First, task)[i], Program(migration)[task][i])
      BY <1>2, <2>1, LendingAssumption
    <2> QED BY <1>1, <1>2, <2>2, <2>3
  <1> QED BY <1>3, <1>4 DEF OutlineInv, OutlineFollowed

\* Every action keeps a lent administration with a helper of its own provider.
LEMMA AdminNext ==
    ASSUME DeploymentInv, OutlineInv, AdminIsHelper, [Next]_vars
    PROVE  AdminIsHelper'
  <1>1. CASE ~(Create \/ SendDeployment \/ AwaitDeployment \/ SetField \/ GiveOracleBack
               \/ SetLendingPoolImpl \/ SetLendingPoolConfiguratorImpl)
    <2>1. slot' = slot
      BY <1>1, SlotKept
    <2> QED BY <2>1 DEF AdminIsHelper, Slot
  <1>2. CASE GiveOracleBack \/ SendDeployment \/ AwaitDeployment
    <2>1. (\E b, v : slot' = Bind(slot, <<b, "owner">>, v)) \/ slot' = slot
      BY <1>2 DEF GiveOracleBack, SendDeployment, AwaitDeployment, Mined
    <2>2. \A a, f : f # "owner" => Slot(a, f)' = Slot(a, f)
      BY <2>1, SlotAfterBind DEF Slot
    <2> QED BY <2>2, AdminKept
  <1>3. CASE Create
    <2>1. Now.op = "deploy" /\ WellFormed(Now) /\ status = "running" /\ todo # <<>>
      BY <1>3, StepTaken DEF Create, Assigned, Running
    <2>2. "POOL_ADMIN" \notin DOMAIN Now.links /\ "owner" \notin DOMAIN Now.links /\ Now.name \in Names
      BY <2>1, LentHere DEF LentWell, WellFormed
    <2> PICK new : new = <<Now.name, nonce + 1>>
      OBVIOUS
    <2>3. \A a, f : Slot(a, f)' =
            IF a = new /\ f \in DOMAIN Now.links THEN locals[Now.links[f]]
            ELSE IF a = new /\ f = "owner" THEN Deployer ELSE Slot(a, f)
      BY <1>3, <2>2, SlotAfterCreate
    <2>4. \A a : Slot(a, "POOL_ADMIN")' = Slot(a, "POOL_ADMIN")
      BY <2>2, <2>3
    <2>5. \A a, f : Slot(a, f) # new
      BY <2>2, NewIsBlank, StoredExists
    <2> QED BY <2>3, <2>4, <2>5, AdminKept
  <1>4. CASE SetLendingPoolImpl \/ SetLendingPoolConfiguratorImpl
    <2>1. WellFormed(Now) /\ Accepted(Now) /\ Now.of \in Now.uses
      BY <1>4, StepTaken DEF SetLendingPoolImpl, SetLendingPoolConfiguratorImpl, WellFormed
    <2> PICK field \in ProxyFields, name \in Names : \E pool : NewProxy(field, name, pool)
      BY <1>4, NamesAssumption DEF SetLendingPoolImpl, SetLendingPoolConfiguratorImpl, ProxyFields
    <2> PICK pool : NewProxy(field, name, pool)
      OBVIOUS
    <2> PICK provider, new : provider = locals[Now.of] /\ new = <<name, nonce + 1>>
      OBVIOUS
    <2>2. provider # new
      <3>1. BookFirm
        BY <1>4, NothingAwaited DEF SetLendingPoolImpl, SetLendingPoolConfiguratorImpl
      <3> QED BY <2>1, <3>1, UsedExists, NewIsBlank
    <2>3. \A a, f : Slot(a, f)' =
            IF a = provider /\ f = field THEN new
            ELSE IF a = new /\ f \in {"provider", "implementation", "pool"}
                 THEN Initialized(provider, locals[Now.name], pool)[f] ELSE Slot(a, f)
      BY <2>2, SlotAfterProxy
    <2>4. \A a : Slot(a, "POOL_ADMIN")' = Slot(a, "POOL_ADMIN")
      BY <2>3 DEF ProxyFields
    <2>5. \A a, f : Slot(a, f) # new
      BY NewIsBlank, StoredExists
    <2>6. \A a : a # new => Slot(a, "provider")' = Slot(a, "provider")
      BY <2>3 DEF ProxyFields
    <2> QED BY <2>4, <2>5, <2>6, AdminKept
  <1>5. CASE SetField
    <2>1. /\ Now.op = "set" /\ WellFormed(Now) /\ Accepted(Now) /\ status = "running" /\ todo # <<>>
          /\ slot' = Bind(slot, <<locals[Now.of], Now.name>>, locals[Now.value])
          /\ Now.of \in Now.uses /\ Now.value \in Now.uses
          /\ \E op : Running(op)
      BY <1>5, StepTaken DEF SetField, Running, WellFormed
    <2> PICK base \in Nat : \E k : IsPicture(k) /\ Holds(base, k) /\ LentWell(k, Now)
      BY <2>1, LentHere
    <2> PICK k : IsPicture(k) /\ Holds(base, k) /\ LentWell(k, Now)
      OBVIOUS
    <2> PICK of, value : of = k.locals[Now.of] /\ value = k.locals[Now.value]
      OBVIOUS
    <2> PICK b, v, g : b = locals[Now.of] /\ v = locals[Now.value] /\ g = Now.name
      OBVIOUS
    <2>2. \A a, f : Slot(a, f)' = IF a = b /\ f = g THEN v ELSE Slot(a, f)
      BY <2>1, SlotAfterBind
    <2>3. ~Blocked(k, Now)
      BY <2>1, NotBlocked
    <2>4. CASE g \notin {"POOL_ADMIN", "provider"}
      BY <2>2, <2>4, AdminKept
    <2>5. ASSUME g \in {"POOL_ADMIN", "provider"}
          PROVE  LocalsShown(base, k) /\ FieldsShown(base, k)
                 /\ of \in Address /\ (Own(of) => b = Real(base, of))
                 /\ value \in Address /\ Shows(base, value, v) /\ (Own(value) => v = Real(base, value))
      <3>1. k.view = "clear"
        BY <2>1, <2>3, <2>5 DEF LentWell
      <3>2. LocalsShown(base, k) /\ FieldsShown(base, k)
        BY <3>1 DEF Holds, Left
      <3> QED BY <2>1, <3>2, UsedShown
    <2>6. CASE g = "provider"
      <3>1. Own(of) /\ of[1] # "ATokensAndRatesHelper"
        BY <2>1, <2>3, <2>6 DEF LentWell
      <3>2. b[1] # "ATokensAndRatesHelper"
        BY <2>5, <2>6, <3>1, RealFacts
      <3>3. \A a : Slot(a, "POOL_ADMIN")' = Slot(a, "POOL_ADMIN")
            /\ (a[1] = "ATokensAndRatesHelper" => Slot(a, "provider")' = Slot(a, "provider"))
        BY <2>2, <2>6, <3>2
      <3> QED BY <3>3, AdminKept DEF AdminIsHelper
    <2>7. CASE g = "POOL_ADMIN"
      <3>1. \A a : Slot(a, "provider")' = Slot(a, "provider")
            /\ Slot(a, "POOL_ADMIN")' = IF a = b THEN v ELSE Slot(a, "POOL_ADMIN")
        BY <2>2, <2>7
      <3>2. CASE value = Deployer
        <4>1. v[2] = 0
          BY <2>5, <2>7, <3>2, GivenReal DEF Shows, Deployer, Unknown, Given
        <4> QED BY <3>1, <4>1 DEF AdminIsHelper
      <3>3. CASE value # Deployer
        <4>1. Own(of) /\ Own(value) /\ value[1] = "ATokensAndRatesHelper"
              /\ FieldOf(k, value, "provider") = of
          BY <2>1, <2>3, <2>7, <3>3 DEF LentWell
        <4>2. v[1] = "ATokensAndRatesHelper" /\ v = Real(base, value) /\ b = Real(base, of)
          BY <2>5, <2>7, <4>1, RealFacts
        <4>3. Slot(v, "provider") = b
          BY <2>5, <2>7, <4>1, <4>2, OwnField, NamesAssumption
        <4> QED BY <3>1, <4>2, <4>3 DEF AdminIsHelper
      <3> QED BY <3>2, <3>3
    <2> QED BY <2>4, <2>6, <2>7
  <1> QED BY <1>1, <1>2, <1>3, <1>4, <1>5

\* At first nothing is administered by a contract.
LEMMA InitAdmin == Init => AdminIsHelper
  <1> SUFFICES ASSUME Init, NEW p \in Address PROVE ~(Slot(p, "POOL_ADMIN")[2] > 0)
    BY DEF AdminIsHelper
  <1>1. <<p, "POOL_ADMIN">> \notin DOMAIN slot
    BY DEF Init
  <1> QED BY <1>1 DEF Slot, None, Given

-----------------------------------------------------------------------------
(* The market at the end *)

\* The file's keys a market is found by.
Keys(projects) ==
    {"LendingPoolAddressesProvider", "LendingPoolAddressesProviderRegistry",
     "LendingPool", "LendingPoolConfigurator", "AaveProtocolDataProvider",
     "ATokensAndRatesHelper", "StableAndVariableTokensHelper"} \cup projects

\* A known market, part by part.
LEMMA KnownParts ==
    ASSUME NEW k, NEW projects, MarketKnown(k, projects)
    PROVE  LET provider == k.db["LendingPoolAddressesProvider"]
               pool == FieldOf(k, provider, "LENDING_POOL")
               configurator == FieldOf(k, provider, "LENDING_POOL_CONFIGURATOR")
           IN  /\ k.view = "clear"
               /\ Keys(projects) \subseteq DOMAIN k.db /\ \A x \in Keys(projects) : Own(k.db[x])
               /\ k.db["LendingPool"] = pool /\ k.db["LendingPoolConfigurator"] = configurator
               /\ FieldOf(k, configurator, "pool") = pool
               /\ \A h \in {"ATokensAndRatesHelper", "StableAndVariableTokensHelper"} :
                    FieldOf(k, k.db[h], "pool") = pool /\ FieldOf(k, k.db[h], "provider") = provider
               /\ FieldOf(k, k.db["ATokensAndRatesHelper"], "configurator") = configurator
               /\ FieldOf(k, k.db["AaveProtocolDataProvider"], "provider") = provider
               /\ FieldOf(k, provider, "POOL_ADMIN") = Deployer
               /\ <<k.db["LendingPoolAddressesProviderRegistry"], provider>> \in k.registered
               /\ \A x \in projects : <<pool, k.db[x]>> \in k.configured
               /\ \A r, q \in k.reserves : r.pool = pool /\ q.pool = pool
                    /\ r.strategy[1] = q.strategy[1] => r.strategy = q.strategy
               /\ pool \notin k.paused
  BY DEF MarketKnown, Connected, Keys

\* The reserves of a known market are its projects.
LEMMA KnownReserves ==
    ASSUME NEW k, NEW projects, MarketKnown(k, projects),
           NEW pool, pool = FieldOf(k, k.db["LendingPoolAddressesProvider"], "LENDING_POOL")
    PROVE  /\ \A r \in k.reserves : r.pool = pool => \E x \in projects : r.project = k.db[x]
           /\ \A x \in projects : \E r \in k.reserves : r.pool = pool /\ r.project = k.db[x]
  <1>1. {r.project : r \in {q \in k.reserves : q.pool = pool}} = {k.db[x] : x \in projects}
    BY DEF MarketKnown, Connected
  <1> QED BY <1>1

\* A market the outline shows is a market on the chain and in the file.
LEMMA KnownMarketConnected ==
    ASSUME DeploymentInv, NEW base \in Nat, NEW k, IsPicture(k), Left(base, k),
           NEW projects, MarketKnown(k, projects)
    PROVE  Connected(db, Slot, reserves, configured, registered, paused, projects)
  <1> PICK provider, pool, configurator, registry, rates, tokens, data :
        /\ provider = k.db["LendingPoolAddressesProvider"]
        /\ pool = FieldOf(k, provider, "LENDING_POOL")
        /\ configurator = FieldOf(k, provider, "LENDING_POOL_CONFIGURATOR")
        /\ registry = k.db["LendingPoolAddressesProviderRegistry"]
        /\ rates = k.db["ATokensAndRatesHelper"] /\ tokens = k.db["StableAndVariableTokensHelper"]
        /\ data = k.db["AaveProtocolDataProvider"]
    OBVIOUS
  <1>1. /\ Keys(projects) \subseteq DOMAIN k.db /\ \A x \in Keys(projects) : Own(k.db[x])
        /\ k.db["LendingPool"] = pool /\ k.db["LendingPoolConfigurator"] = configurator
    BY KnownParts
  <1>2. /\ FieldOf(k, configurator, "pool") = pool
        /\ FieldOf(k, rates, "pool") = pool /\ FieldOf(k, rates, "provider") = provider
        /\ FieldOf(k, tokens, "pool") = pool /\ FieldOf(k, tokens, "provider") = provider
        /\ FieldOf(k, rates, "configurator") = configurator
        /\ FieldOf(k, data, "provider") = provider
        /\ FieldOf(k, provider, "POOL_ADMIN") = Deployer
    BY KnownParts
  <1>3. <<registry, provider>> \in k.registered /\ pool \notin k.paused
    BY KnownParts
  <1>4. /\ \A r \in k.reserves : r.pool = pool => \E x \in projects : r.project = k.db[x]
        /\ \A x \in projects : \E r \in k.reserves : r.pool = pool /\ r.project = k.db[x]
    BY KnownReserves
  <1>5. \A x \in projects : <<pool, k.db[x]>> \in k.configured
    BY KnownParts
  <1>6. \A r, q \in k.reserves : r.pool = pool /\ q.pool = pool
          /\ r.strategy[1] = q.strategy[1] => r.strategy = q.strategy
    BY KnownParts
  <1>7. FileShown(base, k) /\ FieldsShown(base, k) /\ MarketsShown(base, k)
    BY DEF Left
  <1>8. \A x \in Keys(projects) : k.db[x] \in Address /\ Own(k.db[x]) /\ db[x] = Real(base, k.db[x])
    BY <1>1, <1>7, RealFacts DEF FileShown, Shows, IsPicture
  <1>9. \A a \in {provider, pool, configurator, registry, rates, tokens, data} :
          a \in Address /\ Own(a)
    BY <1>1, <1>8 DEF Keys
  <1>10. /\ db["LendingPoolAddressesProvider"] = Real(base, provider)
         /\ db["LendingPoolAddressesProviderRegistry"] = Real(base, registry)
         /\ db["LendingPool"] = Real(base, pool)
         /\ db["LendingPoolConfigurator"] = Real(base, configurator)
         /\ db["AaveProtocolDataProvider"] = Real(base, data)
         /\ db["ATokensAndRatesHelper"] = Real(base, rates)
         /\ db["StableAndVariableTokensHelper"] = Real(base, tokens)
         /\ \A x \in projects : db[x] = Real(base, k.db[x])
    BY <1>1, <1>8 DEF Keys
  <1>11. \A a \in Address, f \in Names : Own(a) /\ Own(FieldOf(k, a, f)) =>
           Slot(Real(base, a), f) = Real(base, FieldOf(k, a, f))
    BY <1>7, OwnField
  <1>12. /\ Slot(Real(base, provider), "LENDING_POOL") = Real(base, pool)
         /\ Slot(Real(base, provider), "LENDING_POOL_CONFIGURATOR") = Real(base, configurator)
         /\ Slot(Real(base, configurator), "pool") = Real(base, pool)
         /\ Slot(Real(base, rates), "pool") = Real(base, pool)
         /\ Slot(Real(base, rates), "provider") = Real(base, provider)
         /\ Slot(Real(base, tokens), "pool") = Real(base, pool)
         /\ Slot(Real(base, tokens), "provider") = Real(base, provider)
         /\ Slot(Real(base, rates), "configurator") = Real(base, configurator)
         /\ Slot(Real(base, data), "provider") = Real(base, provider)
    BY <1>2, <1>9, <1>11, NamesAssumption
  <1>13. Slot(Real(base, provider), "POOL_ADMIN") = Deployer
    <2>1. Shows(base, Deployer, Slot(Real(base, provider), "POOL_ADMIN"))
      BY <1>2, <1>7, <1>9, FieldKnown, NamesAssumption
    <2>2. Deployer # Unknown /\ Real(base, Deployer) = Deployer
      BY GivenReal DEF Deployer, Unknown, Given
    <2> QED BY <2>1, <2>2 DEF Shows
  <1>14. Real(base, pool) # None /\ Real(base, configurator) # None /\ Real(base, pool)[2] > base
    <2>1. None[2] = 0
      BY DEF None, Given
    <2>2. Real(base, pool)[2] > base /\ Real(base, configurator)[2] > base
      BY <1>9, RealFacts
    <2> QED BY <2>1, <2>2
  <1>15. <<Real(base, registry), Real(base, provider)>> \in registered
    <2> PICK x : x = <<registry, provider>>
      OBVIOUS
    <2>1. x \in k.registered /\ x[1] = registry /\ x[2] = provider
      BY <1>3
    <2> QED BY <1>7, <2>1 DEF MarketsShown
  <1>16. Real(base, pool) \notin paused
    <2>1. {a \in paused : a[2] > base} = {Real(base, a) : a \in k.paused} /\ k.paused \subseteq Address
      BY <1>7 DEF MarketsShown, IsPicture
    <2> QED BY <1>3, <1>9, <1>14, <2>1, RealInjective
  <1>17. {r \in reserves : r.pool = Real(base, pool)}
           = {RealReserve(base, r) : r \in {q \in k.reserves : q.pool = pool}}
    <2>1. {r \in reserves : r.pool[2] > base} = {RealReserve(base, r) : r \in k.reserves}
      BY <1>7 DEF MarketsShown
    <2>2. \A r \in k.reserves : r.pool \in Address /\ RealReserve(base, r).pool = Real(base, r.pool)
      BY DEF IsPicture, RealReserve
    <2>3. \A r \in k.reserves : RealReserve(base, r).pool = Real(base, pool) <=> r.pool = pool
      BY <1>9, <2>2, RealInjective
    <2> QED BY <1>14, <2>1, <2>3
  <1>18. \A r : RealReserve(base, r).project = Real(base, r.project)
                /\ RealReserve(base, r).strategy = Real(base, r.strategy)
    BY DEF RealReserve
  <1>19. {r.project : r \in {q \in reserves : q.pool = Real(base, pool)}} = {db[x] : x \in projects}
    <2>1. {r.project : r \in {q \in reserves : q.pool = Real(base, pool)}}
            = {Real(base, r.project) : r \in {q \in k.reserves : q.pool = pool}}
      BY <1>17, <1>18
    <2>2. {db[x] : x \in projects} = {Real(base, k.db[x]) : x \in projects}
      BY <1>10
    <2>3. {Real(base, r.project) : r \in {q \in k.reserves : q.pool = pool}}
            = {Real(base, k.db[x]) : x \in projects}
      BY <1>4
    <2> QED BY <2>1, <2>2, <2>3
  <1>20. \A x \in {db[y] : y \in projects} : <<Real(base, pool), x>> \in configured
    <2> SUFFICES ASSUME NEW y \in projects PROVE <<Real(base, pool), Real(base, k.db[y])>> \in configured
      BY <1>10
    <2> PICK x : x = <<pool, k.db[y]>>
      OBVIOUS
    <2>1. x \in k.configured /\ x[1] = pool /\ x[2] = k.db[y]
      BY <1>5
    <2> QED BY <1>7, <2>1 DEF MarketsShown
  <1>21. \A r, q \in {r \in reserves : r.pool = Real(base, pool)} :
           r.strategy[1] = q.strategy[1] => r.strategy = q.strategy
    <2>1. \A r \in k.reserves : Real(base, r.strategy)[1] = r.strategy[1]
      BY DEF IsPicture, Real
    <2> QED BY <1>6, <1>17, <1>18, <2>1
  <1>22. \A h \in {"ATokensAndRatesHelper", "StableAndVariableTokensHelper"} :
           Slot(db[h], "pool") = Real(base, pool) /\ Slot(db[h], "provider") = Real(base, provider)
    BY <1>10, <1>12
  <1> QED BY <1>10, <1>12, <1>13, <1>14, <1>15, <1>16, <1>19, <1>20, <1>21, <1>22 DEF Connected

\* A finished migration leaves the market its outline ends with.
LEMMA EndIsConnected ==
    DeploymentInv /\ OutlineInv => FinishedMarketIsConnected
  <1> SUFFICES ASSUME DeploymentInv, OutlineInv, status = "finished", migration \in DOMAIN Markets
               PROVE  Connected(db, Slot, reserves, configured, registered, paused, Markets[migration])
    BY DEF FinishedMarketIsConnected
  <1> PICK k : k = AtEnd(migration, 1, Len(Tasks))
    OBVIOUS
  <1>1. MarketKnown(k, Markets[migration])
    BY OutcomeAssumption DEF Tasks
  <1>2. k.view = "clear"
    BY <1>1, KnownParts
  <1>3. \E base \in Nat : Left(base, k)
    BY <1>2 DEF OutlineInv, OutlineFollowed
  <1>4. IsPicture(k)
    <2>1. /\ migration \in Migrations /\ Tasks = Program(migration)
          /\ <<1, Len(Tasks)>> \in Attempts(migration) /\ Len(Tasks) \in DOMAIN Tasks
      BY AttemptFacts DEF Attempts
    <2>2. Program(migration)[Len(Tasks)] \in Seq(Steps)
      BY <2>1, TasksAreSequences
    <2> QED BY <2>1, <2>2, OutlineFacts
  <1> QED BY <1>1, <1>3, <1>4, KnownMarketConnected

-----------------------------------------------------------------------------
(* Theorems about the outline *)

\* Whenever the process runs, the contracts of the attempt it is in, the file and
\* the task's variables are as the program's outline says, whatever the attempts
\* before it left behind.
THEOREM OutlineInvariant == Spec => []OutlineInv
  <1>1. Init => OutlineInv
    BY InitOutline
  <1>2. DeploymentInv /\ DeploymentInv' /\ OutlineInv /\ [Next]_vars => OutlineInv'
    BY OutlineNext
  <1> QED BY <1>1, <1>2, DeploymentInvariant, PTL DEF Spec

\* A migration that ran to its end, after however many crashes, restarts and tasks
\* run by hand, leaves one market: pool, configurator, helpers, data provider and
\* registry belong together and the pool lists the file's projects.
THEOREM FinishedMarketCorrect == Spec => []FinishedMarketIsConnected
  BY EndIsConnected, DeploymentInvariant, OutlineInvariant, PTL

\* A contract that administers a provider is a rates helper made for it.
THEOREM AdminInvariant == Spec => []AdminIsHelper
  <1>1. Init => AdminIsHelper
    BY InitAdmin
  <1>2. DeploymentInv /\ OutlineInv /\ AdminIsHelper /\ [Next]_vars => AdminIsHelper'
    BY AdminNext
  <1> QED BY <1>1, <1>2, DeploymentInvariant, OutlineInvariant, PTL DEF Spec

\* setPoolAdmin lends a market to the ATokensAndRatesHelper of that market only.
THEOREM AdminLentCorrect == Spec => []AdminLentToOwnHelper
  <1>1. DeploymentInv /\ AdminIsHelper => AdminLentToOwnHelper
    BY DEF DeploymentInv, TypeOK, AdminIsHelper, AdminLentToOwnHelper
  <1> QED BY <1>1, DeploymentInvariant, AdminInvariant, PTL

\* A migration with a task no undisturbed run gets through (a getter of an address
\* nobody filed, a variable nobody bound) does not finish by being restarted.
THEOREM StuckNeverFinishes ==
    Spec => [](status = "finished" => AtEnd(migration, 1, Len(Tasks)).view # "never")
  <1>1. OutlineInv => (status = "finished" => AtEnd(migration, 1, Len(Tasks)).view # "never")
    BY DEF OutlineInv, OutlineFollowed
  <1> QED BY <1>1, OutlineInvariant, PTL
=============================================================================
