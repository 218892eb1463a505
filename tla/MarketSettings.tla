----------------------------- MODULE MarketSettings -----------------------------
(***************************************************************************)
(* What the configurator promises of a market, without words and bits: an  *)
(* ordered list of the reserves, and for each project a record of          *)
(* settings.  One call changes only the settings it is about.              *)
(***************************************************************************)
EXTENDS Integers, Sequences, SequencesExt

CONSTANT Settings, Percent     \* the names of the settings; 100 % of a ratio

VARIABLES settings, listed

settingsVars == <<settings, listed>>

Ratios == {"ltv", "liquidationThreshold", "liquidationBonus"}

\* The settings a deployment writes into a reserve it has listed.
Deployed == Ratios \cup {"reserveFactor", "borrowing", "stableRate", "deposits",
                        "withdrawals", "interestWithdrawals"}

\* A loan up to the ltv is safe at first, and what it is liquidated for covers
\* the liquidator's bonus.
Covered(s) ==
  /\ s.ltv <= s.liquidationThreshold
  /\ IF s.liquidationThreshold = 0
       THEN s.liquidationBonus = 0
       ELSE /\ s.liquidationBonus > Percent
            /\ (s.liquidationThreshold * s.liquidationBonus + Percent \div 2)
                 \div Percent <= Percent

\* The settings of project `p` outside `names` stay.
Keeps(p, names) ==
  \A s \in Settings \ names : settings'[p][s] = settings[p][s]

Init ==
  /\ listed = <<>>
  /\ \A p \in DOMAIN settings : settings[p] = [s \in Settings |-> 0]

\* The projects whose settings a step changes.
Touched == {p \in DOMAIN settings : settings'[p] # settings[p]}

\* A project is listed once, at the end; only then are its decimals written.
List(p, touched) ==
  /\ ~Contains(listed, p)
  /\ listed' = Append(listed, p)
  /\ touched \subseteq {p}
  /\ Keeps(p, {"decimals", "active", "frozen"})
  /\ settings'[p].active = 1
  /\ settings'[p].frozen = 0

SetTerms(p) == Keeps(p, Ratios) /\ Covered(settings'[p])

OpenToBorrowers(p) ==
  Keeps(p, {"borrowing", "stableRate"}) /\ settings'[p].borrowing = 1

SetOne(p) == \E s \in Settings \ (Ratios \cup {"decimals"}) : Keeps(p, {s})

\* A call of the administrator, for one project, listed or not.
Change(touched) ==
  /\ UNCHANGED listed
  /\ \A p, q \in touched : p = q
  /\ \A p \in touched : SetTerms(p) \/ OpenToBorrowers(p) \/ SetOne(p)

\* A deployment's chunk: for several listed projects at once, and it opens
\* operations but closes none.
Deploy(touched) ==
  /\ UNCHANGED listed
  /\ \A p \in touched :
       /\ Contains(listed, p)
       /\ Keeps(p, Deployed)
       /\ Covered(settings'[p])
       /\ \A s \in {"borrowing", "deposits", "withdrawals", "interestWithdrawals"} :
            settings'[p][s] >= settings[p][s]

Next ==
  /\ DOMAIN settings' = DOMAIN settings
  /\ \E touched \in {Touched} :
       \/ \E p \in DOMAIN settings : List(p, touched)
       \/ Change(touched)
       \/ Deploy(touched)

Spec == Init /\ [][Next]_settingsVars
===============================================================================
