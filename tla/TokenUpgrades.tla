------------------------------- MODULE TokenUpgrades -------------------------------
(***************************************************************************)
(* The proxies of a market's tokens: _initReserve gives a reserve its four *)
(* tokens, updateAToken, updateStableDebtToken and updateVariableDebtToken *)
(* (LendingPoolConfigurator.sol) put another implementation behind three   *)
(* of them, and the new implementation's initializer writes the token's    *)
(* settings anew.                                                          *)
(*                                                                         *)
(* An implementation is its revision; an address says what it is, and of   *)
(* which project.  Of a token's settings there are those that name its     *)
(* reserve, and its decimals; treasury, incentives controller, name and    *)
(* symbol are whatever the administrator passes.  The market goes on       *)
(* beside the upgrades as in MarketConfiguration.                          *)
(***************************************************************************)
EXTENDS MarketConfiguration

CONSTANT Revisions  \* revisions of the implementations an upgrade may bring

ASSUME RevisionAssumption == Revisions \subseteq Nat

VARIABLES
  tokens,    \* project |-> token |-> its proxy
  upgrades   \* upgrades so far

upgradeVars == <<vars, tokens, upgrades>>

DebtTokens == {"stableDebtToken", "variableDebtToken"}
Tokens     == {"aToken", "pToken"} \cup DebtTokens

\* ATOKEN_REVISION, PTOKEN_REVISION, DEBT_TOKEN_REVISION.
FirstRevision == 1

ZeroAddress     == <<"zero">>
ProjectOf(p)    == <<"project", p>>
UnderlyingOf(p) == <<"underlying", p>>
ATokenOf(p)     == <<"aToken", p>>

\* A proxy: the implementation it delegates to, lastInitializedRevision, and what
\* the initializer stored.
NewProxy ==
  [implementation |-> 0, revision |-> 0,
   settings |->
     [project |-> ZeroAddress, underlying |-> ZeroAddress, decimals |-> 0]]

(***************************************************************************)
(* Proxies and initializers                                                *)
(***************************************************************************)

\* VersionedInitializable.
Initializes(proxy, implementation) == implementation > proxy.revision

\* The initializer behind a proxy; a refusal reverts what it did.
Delegated(proxy, implementation, settings) ==
  IF Initializes(proxy, implementation)
    THEN [implementation |-> proxy.implementation, revision |-> implementation,
          settings |-> settings]
    ELSE proxy

\* Fault: the delegated call's success is not required.
SucceedsAnyway(proxy, implementation) == TRUE

\* upgradeToAndCall requires the delegated call to succeed.
Succeeds(proxy, implementation) == Initializes(proxy, implementation)

\* _setImplementation, then the delegated call: initialize of a new proxy,
\* upgradeToAndCall of an old one.
Initialize(proxy, implementation, settings) ==
  Delegated([proxy EXCEPT !.implementation = implementation],
            implementation, settings)

\* The pool's getUnderlyingAsset.
getUnderlyingAsset(p) == IF p \in aTokens THEN UnderlyingOf(p) ELSE ZeroAddress

\* What the initializers store: the aToken asks the pool for its underlying, the
\* debt tokens are told theirs and know no project.
ATokenSettings(p, decimals) ==
  [project |-> ProjectOf(p), underlying |-> getUnderlyingAsset(p),
   decimals |-> decimals]

PTokenSettings(p, decimals) ==
  [project |-> ProjectOf(p), underlying |-> ATokenOf(p), decimals |-> decimals]

DebtTokenSettings(asset, decimals) ==
  [project |-> ZeroAddress, underlying |-> asset, decimals |-> decimals]

(***************************************************************************)
(* The tokens of a reserve                                                 *)
(***************************************************************************)

\* The four tokens _initReserve creates, before it lists the reserve.
InitTokens(p) ==
  LET decimals == RowOf(p).reserveDecimals
      given(token) ==
        CASE token = "aToken" -> ATokenSettings(p, decimals)
          [] token = "pToken" -> PTokenSettings(p, decimals)
          [] token \in DebtTokens -> DebtTokenSettings(UnderlyingOf(p), decimals)
  IN  [token \in Tokens |-> Initialize(NewProxy, FirstRevision, given(token))]

\* AToken.burn writes down the underlying; a withdrawal is what takes cash and
\* aTokens at once.
Burnt(reserve, asset) == [reserve EXCEPT !["aToken"].settings.underlying = asset]

Burns(p) ==
  /\ cash'[p] < cash[p]
  /\ \E user \in Users : balance'[user][p] < balance[user][p]

\* A transaction of the market: the reserve it lists gets its tokens, the aToken it
\* burns learns its underlying.
TokensFollow ==
  tokens' = [p \in Projects |->
               IF p \in aTokens' \ aTokens THEN InitTokens(p)
               ELSE IF Burns(p) THEN Burnt(tokens[p], getUnderlyingAsset(p))
               ELSE tokens[p]]

\* Fault: the fifth value of getParamsMemory is taken for the fourth.
DecimalsAreTheFactor(p) == GetField(configuration[p], "reserveFactor")

\* The decimals an upgrade passes on, from the reserve's word.
Decimals(p) == GetField(configuration[p], "decimals")

\* _upgradeTokenImplementation.  An unlisted project has no token: there is no code
\* at the zero address, and the call fails.
UpgradeTokenImplementation(p, token, implementation, settings) ==
  /\ Administer
  /\ p \in aTokens
  /\ Succeeds(tokens[p][token], implementation)
  /\ tokens' = [tokens EXCEPT ![p][token] = Initialize(@, implementation, settings)]

UpdateAToken(p, implementation) ==
  UpgradeTokenImplementation(p, "aToken", implementation,
                             ATokenSettings(p, Decimals(p)))

\* updateStableDebtToken, updateVariableDebtToken: the name the reserve is looked up
\* by goes where _initReserve passed the underlying asset.
UpdateDebtToken(p, token, implementation) ==
  UpgradeTokenImplementation(p, token, implementation,
                             DebtTokenSettings(ProjectOf(p), Decimals(p)))

Upgrade ==
  \E p \in Projects, implementation \in Revisions :
    \/ UpdateAToken(p, implementation)
    \/ \E token \in DebtTokens : UpdateDebtToken(p, token, implementation)

(***************************************************************************)
(* The market and its tokens                                               *)
(***************************************************************************)

UpgradeInit ==
  /\ Init
  /\ tokens = [p \in Projects |-> [token \in Tokens |-> NewProxy]]
  /\ upgrades = 0

UpgradeNext ==
  \/ /\ Next
     /\ spent' + upgrades <= Budget[market]                          \* bound
     /\ TokensFollow
     /\ UNCHANGED upgrades
  \/ /\ spent + upgrades < Budget[market]                           \* bound
     /\ Upgrade
     /\ upgrades' = upgrades + 1
     /\ UNCHANGED vars

UpgradeSpec == UpgradeInit /\ [][UpgradeNext]_upgradeVars

\* FairSpec's fairness: no other transaction puts the script off for ever.
FairUpgradeSpec ==
  UpgradeSpec /\ WF_upgradeVars(Script /\ TokensFollow /\ UNCHANGED <<spent, upgrades>>)

(***************************************************************************)
(* Properties                                                              *)
(***************************************************************************)

\* After any listing, use and upgrade, the four tokens of a reserve serve that
\* reserve: they count in the decimals of its packed word, aToken and pToken know
\* its project, the pToken obeys its aToken.  The aToken has no underlying until
\* its first burn or upgrade, since it is initialized before the pool knows the
\* reserve (_initReserve); a debt token has the asset as its underlying until it is
\* upgraded, and the project from then on (updateStableDebtToken).
TokensServeTheirReserve ==
  \A p \in aTokens :
    LET settings(token) == tokens[p][token].settings
        first(token)    == tokens[p][token].revision = FirstRevision
    IN  /\ \A token \in Tokens : settings(token).decimals = Decimals(p)
        /\ settings("aToken").project = ProjectOf(p)
        /\ settings("aToken").underlying # UnderlyingOf(p) =>
             settings("aToken").underlying = ZeroAddress /\ first("aToken")
        /\ settings("pToken") = PTokenSettings(p, Decimals(p))
        /\ \A token \in DebtTokens :
             settings(token).underlying =
               IF first(token) THEN UnderlyingOf(p) ELSE ProjectOf(p)

\* A proxy that comes to run another implementation has that implementation's
\* initializer run in the same transaction, and never runs a revision it has been
\* past: setting the implementation and the delegated call either both count or
\* both are reverted (upgradeToAndCall, VersionedInitializable).
UpgradesInitialize ==
  [][\A p \in aTokens, token \in Tokens :
       LET before == tokens[p][token]
           after  == tokens'[p][token]
       IN  after.implementation # before.implementation =>
             /\ after.revision = after.implementation
             /\ after.revision > before.revision]_upgradeVars
===============================================================================
