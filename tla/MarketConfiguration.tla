--------------------------- MODULE MarketConfiguration ---------------------------
(***************************************************************************)
(* A market of many reserves: how the deployment lists and configures the  *)
(* reserves of its files (initReservesByHelper2, configureReservesByHelper2*)
(* of helpers/init-helpers.ts, ATokensAndRatesHelper.sol), what the pool's *)
(* administrator may change meanwhile and afterwards                       *)
(* (LendingPoolConfigurator.sol), and the words of bits the pool keeps of  *)
(* each reserve and of each user (LendingPool.sol).                        *)
(*                                                                         *)
(* LendingPool.tla follows one reserve through time; here there are many,  *)
(* no time passes, and a balance or a debt is the principal.  The pTokens  *)
(* then follow the aTokens and are left out.  Pausing, naming a project's  *)
(* borrower and moving pTokens alone are in LendingPool.tla.               *)
(***************************************************************************)
EXTENDS MarketRows, ReserveConfiguration, UserConfiguration

CONSTANTS
  Markets,        \* a market's name |-> its ReservesConfig
  Budget,         \* bound: a market's name |-> transactions beside the deployment
  Users,          \* lenders and borrowers
  Borrower,       \* the user every project is given as its borrower
  Amounts,        \* what a user may deposit, borrow or transfer at once
  Terms,          \* <<ltv, threshold, bonus>> the administrator may try
  Factors,        \* reserve factors the administrator may try
  LiquidityRates, \* liquidity rates the administrator may set
  MaxReserves     \* _maxNumberOfReserves

\* What a call can carry: unsigned numbers, the decimals one of eight bits.  An ltv
\* of -1 marks a row that is not configured.
RowIsPassable(row) ==
  /\ row.baseLTVAsCollateral \in Nat \cup {-1}
  /\ {row.liquidationThreshold, row.liquidationBonus, row.reserveFactor} \subseteq Nat
  /\ row.reserveDecimals \in 0 .. 255

\* A market is a sequence that names no project twice, and a reserve's id fits
\* UserConfiguration.
ASSUME MarketAssumption ==
  /\ \A m \in DOMAIN Markets :
       /\ Len(Markets[m]) \in Nat
       /\ DOMAIN Markets[m] = 1 .. Len(Markets[m])
       /\ \A i, j \in DOMAIN Markets[m] :
            Markets[m][i].project = Markets[m][j].project => i = j
       /\ \A i \in DOMAIN Markets[m] : RowIsPassable(Markets[m][i].row)
  /\ MaxReserves \in 1 .. 128
  /\ Borrower \in Users
  /\ Amounts \subseteq Nat \ {0}
  /\ \A t \in Terms : {t[1], t[2], t[3]} \subseteq Nat
  /\ Factors \subseteq Nat
  /\ LiquidityRates \subseteq Nat

\* What a market's files say besides: a stable rate only where borrowing is open,
\* one curve to a name.
ASSUME FilesAssumption ==
  \A m \in DOMAIN Markets : \A i, j \in DOMAIN Markets[m] :
    LET row   == Markets[m][i].row
        other == Markets[m][j].row
    IN  /\ row.enabled \subseteq {"borrowing", "stableRate", "deposits", "withdrawals",
                                 "interestWithdrawals"}
        /\ "stableRate" \in row.enabled => "borrowing" \in row.enabled
        /\ row.strategy.name = other.strategy.name => row.strategy = other.strategy

VARIABLES
  market,         \* the market deployed
  stage,          \* where the deployment is
  cursor,         \* how many rows (then, configurable rows) it has dealt with
  poolAdmin,      \* the address provider's POOL_ADMIN
  aTokens,        \* projects whose reserve has an aToken
  id,             \* reserve.id
  reservesList,   \* _reservesList, the entry 0 first
  configuration,  \* reserve.configuration
  strategy,       \* reserve.interestRateStrategyAddress: the name of its curve
  liquidityRate,  \* reserve.currentLiquidityRate
  cash,           \* underlying held by a reserve's aToken
  balance,        \* aTokens (and pTokens), per user and project
  debt,           \* stable debt, per user and project
  userConfig,     \* _usersConfig
  spent           \* transactions beside the deployment

scriptVars  == <<market, stage, cursor, poolAdmin>>
reserveVars == <<aTokens, id, reservesList, strategy>>
userVars    == <<cash, balance, debt, userConfig>>
vars == <<scriptVars, reserveVars, configuration, liquidityRate, userVars, spent>>

Deployer == "deployer"
Helper   == "aTokensAndRatesHelper"

PERCENTAGE_FACTOR == 10000
PercentMul(value, percentage) ==
  (value * percentage + PERCENTAGE_FACTOR \div 2) \div PERCENTAGE_FACTOR

\* The terms of the files' rows are numbers the configurator takes, for a reserve
\* that holds nothing.
ASSUME TermsAssumption ==
  \A m \in DOMAIN Markets : \A i \in DOMAIN Markets[m] :
    LET row       == Markets[m][i].row
        ltv       == row.baseLTVAsCollateral
        threshold == row.liquidationThreshold
        bonus     == row.liquidationBonus
    IN  ltv # -1 =>
          /\ ltv <= threshold
          /\ IF threshold = 0
               THEN bonus = 0
               ELSE /\ bonus > PERCENTAGE_FACTOR
                    /\ PercentMul(threshold, bonus) <= PERCENTAGE_FACTOR
          /\ ltv <= MaxValid("ltv")
          /\ threshold <= MaxValid("liquidationThreshold")
          /\ bonus <= MaxValid("liquidationBonus")
          /\ row.reserveFactor <= MaxValid("reserveFactor")

\* The market's projects, and the row each of them has.
Rows     == Markets[market]
Projects == DOMAIN configuration
RowOf(p) == Rows[CHOOSE i \in DOMAIN Rows : Rows[i].project = p].row

(***************************************************************************)
(* The pool                                                                *)
(***************************************************************************)

\* Fault: the count is stored after it was advanced.
AddReserveToListLate(p) ==
  /\ id' = [id EXCEPT ![p] = Len(reservesList) + 1]
  /\ reservesList' = Append(reservesList, p)

\* _addReserveToList: the id is the project's place in the list, from 0.
AddReserveToList(p) ==
  IF id[p] # 0 \/ (reservesList # <<>> /\ reservesList[1] = p)
    THEN UNCHANGED <<id, reservesList>>
    ELSE /\ id' = [id EXCEPT ![p] = Len(reservesList)]
         /\ reservesList' = Append(reservesList, p)

CanInit(p) == p \notin aTokens /\ Len(reservesList) < MaxReserves

\* initReserve.
PoolInitReserve(p, curve) ==
  /\ CanInit(p)
  /\ aTokens' = aTokens \cup {p}
  /\ strategy' = [strategy EXCEPT ![p] = curve]
  /\ AddReserveToList(p)

\* Validations of a user's operation on a listed reserve.
Open(p, switches) ==
  /\ p \in aTokens
  /\ \A f \in switches : IsOn(configuration[p], f)

Thawed(p) == ~IsOn(configuration[p], "frozen")

(***************************************************************************)
(* The configurator                                                        *)
(***************************************************************************)

\* _initReserve, when the pool has accepted the reserve.
Initialised(data, decimals) ==
  SwitchTo(SwitchTo(SetField(data, "decimals", decimals), "active", TRUE),
           "frozen", FALSE)

\* Fault: looks for cash in every reserve.
NoLiquidityAnywhere(p) ==
  p \in aTokens /\ \A q \in aTokens : cash[q] = 0 /\ liquidityRate[q] = 0

\* _checkNoLiquidity; a project that is not listed has no token to ask.
NoLiquidity(p) == p \in aTokens /\ cash[p] = 0 /\ liquidityRate[p] = 0

\* Fault: the ltv may not reach the threshold.
ValidTermsBelow(p, ltv, threshold, bonus) ==
  /\ ltv < threshold
  /\ bonus > PERCENTAGE_FACTOR
  /\ PercentMul(threshold, bonus) <= PERCENTAGE_FACTOR

\* The conditions of configureReserveAsCollateral.
ValidTerms(p, ltv, threshold, bonus) ==
  /\ ltv <= threshold
  /\ IF threshold # 0
       THEN /\ bonus > PERCENTAGE_FACTOR
            /\ PercentMul(threshold, bonus) <= PERCENTAGE_FACTOR
       ELSE bonus = 0 /\ NoLiquidity(p)
  /\ ltv <= MaxValid("ltv")
  /\ threshold <= MaxValid("liquidationThreshold")
  /\ bonus <= MaxValid("liquidationBonus")

WithTerms(data, ltv, threshold, bonus) ==
  SetField(SetField(SetField(data, "ltv", ltv),
                    "liquidationThreshold", threshold),
           "liquidationBonus", bonus)

(***************************************************************************)
(* The deployment                                                          *)
(***************************************************************************)

\* Curves are deployed once for each name: the first row with it counts.
CurveFor(name) ==
  Rows[CHOOSE i \in DOMAIN Rows :
         /\ Rows[i].row.strategy.name = name
         /\ \A j \in 1 .. (i - 1) : Rows[j].row.strategy.name # name].row.strategy

\* configureReservesByHelper2 leaves out the rows whose ltv is -1, and goes through
\* the others in their order.
Configurable == {i \in DOMAIN Rows : Rows[i].row.baseLTVAsCollateral # -1}
Place(i) == Cardinality({j \in Configurable : j <= i})

enableChunks == 20

\* The cursor after the next transaction, and the entries of that transaction.
ChunkEnd ==
  IF cursor + enableChunks < Cardinality(Configurable)
    THEN cursor + enableChunks
    ELSE Cardinality(Configurable)

Chunk == {Rows[i] : i \in {j \in Configurable : Place(j) \in (cursor + 1) .. ChunkEnd}}

Opened(data, row, f) == IF f \in row.enabled THEN SwitchTo(data, f, TRUE) ELSE data

\* Fault: the argument of enableBorrowingOnReserve is not passed on.
OpenedToBorrowersOnly(data, row) == Opened(data, row, "borrowing")

\* enableBorrowingOnReserve writes both switches, and is called or not at all.
OpenedToBorrowers(data, row) ==
  IF "borrowing" \in row.enabled
    THEN SwitchTo(SwitchTo(data, "borrowing", TRUE),
                  "stableRate", "stableRate" \in row.enabled)
    ELSE data

\* configureReserves for one row: its terms, the operations it opens, and its
\* reserve factor.
Configured(data, row) ==
  LET terms  == WithTerms(data, row.baseLTVAsCollateral, row.liquidationThreshold,
                          row.liquidationBonus)
      lent   == OpenedToBorrowers(terms, row)
      opened == Opened(Opened(Opened(lent, row, "deposits"), row, "withdrawals"),
                       row, "interestWithdrawals")
  IN  SetField(opened, "reserveFactor", row.reserveFactor)

ChunkIsAccepted ==
  \A entry \in Chunk :
    /\ ValidTerms(entry.project, entry.row.baseLTVAsCollateral,
                  entry.row.liquidationThreshold, entry.row.liquidationBonus)
    /\ entry.row.reserveFactor <= MaxValid("reserveFactor")

\* One call of batchInitReserve for one row (initChunks is 1).
InitNextReserve ==
  LET entry == Rows[cursor + 1]
      p     == entry.project
  IN  /\ stage = "initialising"
      /\ cursor < Len(Rows)
      /\ PoolInitReserve(p, entry.row.strategy.name)
      /\ configuration' =
           [configuration EXCEPT ![p] = Initialised(@, entry.row.reserveDecimals)]
      /\ cursor' = cursor + 1
      /\ UNCHANGED <<market, stage, poolAdmin, liquidityRate, userVars>>

\* The helper becomes the pool's administrator.
HandOver ==
  /\ stage = "initialising"
  /\ cursor = Len(Rows)
  /\ stage' = "configuring"
  /\ cursor' = 0
  /\ poolAdmin' = Helper
  /\ UNCHANGED <<market, reserveVars, configuration, liquidityRate, userVars>>

\* One transaction for a whole chunk: one row refused reverts all of it.
ConfigureReserves ==
  /\ stage = "configuring"
  /\ poolAdmin = Helper
  /\ cursor < Cardinality(Configurable)
  /\ ChunkIsAccepted
  /\ configuration' =
       [p \in Projects |->
          IF p \in {entry.project : entry \in Chunk}
            THEN Configured(configuration[p], RowOf(p))
            ELSE configuration[p]]
  /\ cursor' = ChunkEnd
  /\ UNCHANGED <<market, stage, poolAdmin, reserveVars, liquidityRate, userVars>>

HandBack ==
  /\ stage = "configuring"
  /\ cursor = Cardinality(Configurable)
  /\ stage' = "done"
  /\ poolAdmin' = Deployer
  /\ UNCHANGED <<market, cursor, reserveVars, configuration, liquidityRate, userVars>>

\* A transaction of the script reverts, which ends the script.
Abort ==
  /\ \/ /\ stage = "initialising"
        /\ cursor < Len(Rows)
        /\ ~CanInit(Rows[cursor + 1].project)
     \/ /\ stage = "configuring"
        /\ cursor < Cardinality(Configurable)
        /\ ~ChunkIsAccepted
  /\ stage' = "failed"
  /\ UNCHANGED <<market, cursor, poolAdmin, reserveVars, configuration,
                 liquidityRate, userVars>>

Script == InitNextReserve \/ HandOver \/ ConfigureReserves \/ HandBack \/ Abort

(***************************************************************************)
(* The administrator                                                       *)
(***************************************************************************)

\* onlyPoolAdmin.
Administer == poolAdmin = Deployer

\* Writes one reserve's word and nothing else.  Nothing asks whether the project
\* is listed.
Store(p, data) ==
  /\ Administer
  /\ configuration' = [configuration EXCEPT ![p] = data]
  /\ UNCHANGED <<scriptVars, reserveVars, liquidityRate, userVars>>

\* batchInitReserve, by hand.
BatchInitReserve(p) ==
  /\ Administer
  /\ PoolInitReserve(p, CurveFor(RowOf(p).strategy.name).name)
  /\ configuration' =
       [configuration EXCEPT ![p] = Initialised(@, RowOf(p).reserveDecimals)]
  /\ UNCHANGED <<scriptVars, liquidityRate, userVars>>

ConfigureReserveAsCollateral(p, ltv, threshold, bonus) ==
  /\ ValidTerms(p, ltv, threshold, bonus)
  /\ Store(p, WithTerms(configuration[p], ltv, threshold, bonus))

EnableBorrowingOnReserve(p, stable) ==
  Store(p, SwitchTo(SwitchTo(configuration[p], "borrowing", TRUE), "stableRate", stable))

DisableBorrowingOnReserve(p) ==
  Store(p, SwitchTo(configuration[p], "borrowing", FALSE))

\* enableReserveStableRate, disableReserveStableRate.
SetReserveStableRate(p, on) == Store(p, SwitchTo(configuration[p], "stableRate", on))

ActivateReserve(p) == Store(p, SwitchTo(configuration[p], "active", TRUE))

\* Fault: the reserve may still hold cash.
DeactivateReserveAnytime(p) ==
  p \in aTokens /\ Store(p, SwitchTo(configuration[p], "active", FALSE))

DeactivateReserve(p) ==
  NoLiquidity(p) /\ Store(p, SwitchTo(configuration[p], "active", FALSE))

\* freezeReserve, unfreezeReserve.
SetReserveFrozen(p, on) == Store(p, SwitchTo(configuration[p], "frozen", on))

SetReserveFactor(p, factor) ==
  /\ factor <= MaxValid("reserveFactor")
  /\ Store(p, SetField(configuration[p], "reserveFactor", factor))

\* enableDepositsOnReserve, disableDepositsOnReserve.
SetDepositsOnReserve(p, on) == Store(p, SwitchTo(configuration[p], "deposits", on))

\* enableWithdrawalsOnReserve, disableWithdrawalsOnReserve.
SetWithdrawalsOnReserve(p, on) ==
  Store(p, SwitchTo(configuration[p], "withdrawals", on))

\* enableInterestWithdrawalsOnReserve, disableInterestWithdrawalsOnReserve.
SetInterestWithdrawalsOnReserve(p, on) ==
  Store(p, SwitchTo(configuration[p], "interestWithdrawals", on))

\* setReserveInterestRateStrategyAddress, which asks nothing of the project.
SetStrategy(p, name) ==
  /\ Administer
  /\ strategy' = [strategy EXCEPT ![p] = name]
  /\ UNCHANGED <<scriptVars, aTokens, id, reservesList, configuration, liquidityRate,
                 userVars>>

\* updateReserveRates: the pool then calls the reserve's tokens.
UpdateReserveRates(p, rate) ==
  /\ Administer
  /\ p \in aTokens
  /\ liquidityRate' = [liquidityRate EXCEPT ![p] = rate]
  /\ UNCHANGED <<scriptVars, reserveVars, configuration, userVars>>

SwitchReserve(p) ==
  \/ ActivateReserve(p) \/ DeactivateReserve(p) \/ DisableBorrowingOnReserve(p)
  \/ \E on \in BOOLEAN :
       \/ EnableBorrowingOnReserve(p, on) \/ SetReserveStableRate(p, on)
       \/ SetReserveFrozen(p, on) \/ SetDepositsOnReserve(p, on)
       \/ SetWithdrawalsOnReserve(p, on) \/ SetInterestWithdrawalsOnReserve(p, on)

Administration(p) ==
  \/ BatchInitReserve(p)
  \/ SwitchReserve(p)
  \/ \E t \in Terms : ConfigureReserveAsCollateral(p, t[1], t[2], t[3])
  \/ \E factor \in Factors : SetReserveFactor(p, factor)
  \/ \E rate \in LiquidityRates : UpdateReserveRates(p, rate)
  \/ \E i \in DOMAIN Rows : SetStrategy(p, Rows[i].row.strategy.name)

(***************************************************************************)
(* The users                                                               *)
(***************************************************************************)

\* A user's transaction touches neither the reserves' settings nor their list.
Use == UNCHANGED <<scriptVars, reserveVars, configuration, liquidityRate>>

\* deposit: the deposit is not used as collateral.
Deposit(user, p, amount) ==
  /\ Use
  /\ Open(p, {"active", "deposits"}) /\ Thawed(p)
  /\ cash' = [cash EXCEPT ![p] = @ + amount]
  /\ balance' = [balance EXCEPT ![user][p] = @ + amount]
  /\ UNCHANGED <<debt, userConfig>>

\* withdraw.
Withdraw(user, p, amount) ==
  /\ Use
  /\ Open(p, {"active", "withdrawals"})
  /\ amount <= balance[user][p] /\ amount <= cash[p]
  /\ cash' = [cash EXCEPT ![p] = @ - amount]
  /\ balance' = [balance EXCEPT ![user][p] = @ - amount]
  /\ userConfig' = IF amount = balance[user][p]
                     THEN [userConfig EXCEPT ![user] =
                             SetUsingAsCollateral(@, id[p], FALSE)]
                     ELSE userConfig
  /\ UNCHANGED debt

\* Fault: the recipient's bit is set for the reserve of the largest id.
FinalizeTransferToLast(from, to, p, amount) ==
  [u \in Users |->
     IF u = from /\ balance[from][p] = amount
       THEN SetUsingAsCollateral(userConfig[u], id[p], FALSE)
     ELSE IF u = to /\ balance[to][p] = 0
       THEN SetUsingAsCollateral(userConfig[u], Len(reservesList) - 1, TRUE)
     ELSE userConfig[u]]

\* finalizeTransfer: who keeps nothing stops using the reserve as collateral, who
\* had nothing starts.
FinalizeTransfer(from, to, p, amount) ==
  [u \in Users |->
     IF u = from /\ balance[from][p] = amount
       THEN SetUsingAsCollateral(userConfig[u], id[p], FALSE)
     ELSE IF u = to /\ balance[to][p] = 0
       THEN SetUsingAsCollateral(userConfig[u], id[p], TRUE)
     ELSE userConfig[u]]

\* A transfer of aTokens, to somebody else.
Transfer(from, to, p, amount) ==
  /\ Use
  /\ p \in aTokens
  /\ from # to
  /\ amount <= balance[from][p]
  /\ balance' = [balance EXCEPT ![from][p] = @ - amount, ![to][p] = @ + amount]
  /\ userConfig' = FinalizeTransfer(from, to, p, amount)
  /\ UNCHANGED <<cash, debt>>

\* borrow, by the project's borrower on its own behalf.
Borrow(p, amount) ==
  /\ Use
  /\ Open(p, {"active", "borrowing"}) /\ Thawed(p)
  /\ amount <= cash[p]
  /\ cash' = [cash EXCEPT ![p] = @ - amount]
  /\ debt' = [debt EXCEPT ![Borrower][p] = @ + amount]
  /\ userConfig' = IF debt[Borrower][p] = 0
                     THEN [userConfig EXCEPT ![Borrower] =
                             SetBorrowing(@, id[p], TRUE)]
                     ELSE userConfig
  /\ UNCHANGED balance

\* Fault: more than the debt is taken.
PaybackUncapped(amount, owed) == amount

\* At most what is owed is paid back.
PaybackAmount(amount, owed) == IF amount < owed THEN amount ELSE owed

\* repay, by anybody.
Repay(p, amount) ==
  LET owed == debt[Borrower][p]
      paid == PaybackAmount(amount, owed)
  IN  /\ Use
      /\ Open(p, {"active"})
      /\ owed # 0
      /\ cash' = [cash EXCEPT ![p] = @ + paid]
      /\ debt' = [debt EXCEPT ![Borrower][p] = @ - paid]
      /\ userConfig' = IF paid = owed
                         THEN [userConfig EXCEPT ![Borrower] =
                                 SetBorrowing(@, id[p], FALSE)]
                         ELSE userConfig
      /\ UNCHANGED balance

Usage(p, amount) ==
  \/ Borrow(p, amount)
  \/ Repay(p, amount)
  \/ \E user \in Users :
       \/ Deposit(user, p, amount)
       \/ Withdraw(user, p, amount)
       \/ \E to \in Users : Transfer(user, to, p, amount)

(***************************************************************************)
(* The market                                                              *)
(***************************************************************************)

Nothing == [p \in Projects |-> 0]

Init ==
  /\ market \in DOMAIN Markets
  /\ configuration = [p \in {Rows[i].project : i \in DOMAIN Rows} |-> {}]
  /\ stage = "initialising"
  /\ cursor = 0
  /\ poolAdmin = Deployer
  /\ aTokens = {}
  /\ id = Nothing
  /\ reservesList = <<>>
  /\ strategy = [p \in Projects |-> ""]
  /\ liquidityRate = Nothing
  /\ cash = Nothing
  /\ balance = [user \in Users |-> Nothing]
  /\ debt = [user \in Users |-> Nothing]
  /\ userConfig = [user \in Users |-> {}]
  /\ spent = 0

\* A transaction beside the deployment.
Beside ==
  \E p \in Projects :
    \/ Administration(p)
    \/ \E amount \in Amounts : Usage(p, amount)

Next ==
  \/ Script /\ UNCHANGED spent
  \/ spent < Budget[market] /\ spent' = spent + 1 /\ Beside     \* bound

Spec == Init /\ [][Next]_vars

\* The script runs to its end: it awaits one transaction after the other, and no
\* other transaction can put a later one off for ever.
FairSpec == Spec /\ WF_vars(Script /\ UNCHANGED spent)

(***************************************************************************)
(* Properties                                                              *)
(***************************************************************************)

\* Every variable keeps its type: words of bits, balances that are natural
\* numbers, a list of projects of the market.
TypeOK ==
  /\ market \in DOMAIN Markets
  /\ stage \in {"initialising", "configuring", "done", "failed"}
  /\ cursor \in 0 .. Len(Rows)
  /\ poolAdmin \in {Deployer, Helper}
  /\ aTokens \subseteq Projects
  /\ id \in [Projects -> Nat]
  /\ reservesList \in Seq(Projects)
  /\ Projects = {Rows[i].project : i \in DOMAIN Rows}
  /\ \A p \in Projects : configuration[p] \subseteq Nat
  /\ DOMAIN strategy = Projects
  /\ liquidityRate \in [Projects -> Nat]
  /\ cash \in [Projects -> Nat]
  /\ balance \in [Users -> [Projects -> Nat]]
  /\ debt \in [Users -> [Projects -> Nat]]
  /\ DOMAIN userConfig = Users
  /\ \A user \in Users : userConfig[user] \subseteq Nat
  /\ spent \in Nat

\* _reservesList and the reserves' ids are each other's inverse, and just the
\* reserves that have tokens are listed, however the deployment and the
\* administrator take turns listing and whichever of them is refused
\* (LendingPool.sol, _addReserveToList).  The first reserve's id is the id a
\* project has that was never listed.
ListIsIndexed ==
  /\ Len(reservesList) <= MaxReserves
  /\ \A p \in aTokens : id[p] < Len(reservesList) /\ reservesList[id[p] + 1] = p
  /\ \A i \in 1 .. Len(reservesList) :
       reservesList[i] \in aTokens /\ id[reservesList[i]] = i - 1
  /\ \A p \in Projects \ aTokens : id[p] = 0

\* Two bits of one word per reserve, written by four operations for one reserve
\* at a time: a user's word says of every listed reserve whether the user owes
\* it, says "collateral" only of reserves the user has a deposit in, and has no
\* bit of a reserve that is not listed yet (UserConfiguration.sol).
UserBitsMatch ==
  \A user \in Users :
    /\ \A p \in aTokens :
         /\ BorrowingBit(id[p]) \in userConfig[user] <=> debt[user][p] > 0
         /\ CollateralBit(id[p]) \in userConfig[user] => balance[user][p] > 0
    /\ \A bit \in userConfig[user] : bit < 2 * Len(reservesList)

\* No operation of the pool leaves cash in a reserve that was switched off, where
\* nobody could reach it: a reserve is switched off only when it is empty, and
\* then refuses deposits and repayments (_checkNoLiquidity and the validations).
InactiveHoldsNoCash ==
  \A p \in aTokens : ~IsOn(configuration[p], "active") => cash[p] = 0

SwitchesOn(p) == {f \in Switches : IsOn(configuration[p], f)}

Agrees(p, row) ==
  /\ GetField(configuration[p], "decimals") = row.reserveDecimals
  /\ CurveFor(strategy[p]) = row.strategy
  /\ IF row.baseLTVAsCollateral = -1
       THEN SwitchesOn(p) = {"active"}
       ELSE /\ SwitchesOn(p) = {"active"} \cup row.enabled
            /\ GetField(configuration[p], "ltv") = row.baseLTVAsCollateral
            /\ GetField(configuration[p], "liquidationThreshold") =
                 row.liquidationThreshold
            /\ GetField(configuration[p], "liquidationBonus") = row.liquidationBonus
            /\ GetField(configuration[p], "reserveFactor") = row.reserveFactor

\* A deployment nobody interferes with leaves every reserve as its row says, and
\* a reserve whose row is left out listed, active and closed: eight settings per
\* row go through two scripts, a helper contract and a packed word, in chunks.
ConfiguredAsListed ==
  stage = "done" /\ spent = 0 => \A p \in Projects : Agrees(p, RowOf(p))

\* The rows of the six markets are such that the configurator accepts them all:
\* a deployment nobody interferes with, of a market the list has room for, gets
\* to its end.  One bad row would revert its whole chunk, and the helper would
\* stay the pool's administrator.
DeploymentEnds ==
  [](spent = 0 /\ Len(Rows) <= MaxReserves) => <>(stage = "done")

\* A configuring chunk is refused for one reason only: a reserve that its row
\* takes out of the collateral was given liquidity, cash or a rate, between its
\* listing and its configuration.
OnlyLiquidityStopsConfiguring ==
  [][stage = "configuring" /\ stage' = "failed" =>
       \E p \in Projects : /\ RowOf(p).liquidationThreshold = 0
                           /\ cash[p] > 0 \/ liquidityRate[p] > 0]_vars

\* The words, read field by field.
SettingsOf(data) == [f \in Fields |-> GetField(data, f)]
FieldsRead == [p \in Projects |-> SettingsOf(configuration[p])]

Abstract == INSTANCE MarketSettings
  WITH Settings <- Fields, Percent <- PERCENTAGE_FACTOR, listed <- reservesList,
       settings <- FieldsRead

\* The packed words are settings: with each word read field by field, every
\* transaction is one that MarketSettings allows, and it changes no field it is
\* not about, of this reserve or another.
WordsAreSettings == Abstract!Spec
===============================================================================
