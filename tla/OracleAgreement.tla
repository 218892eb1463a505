---------------------------- MODULE OracleAgreement ----------------------------
(***************************************************************************)
(* Two implementations of the accounting side by side: the contracts', of  *)
(* LendingPool, and the one in TypeScript, of ScenarioOracle.              *)
(*                                                                         *)
(* The formulas are applied to what the pool stores, in every state it can *)
(* reach.  Nobody reads anything here: this module has no actions of its   *)
(* own, and says nothing of the code that would fill the records.          *)
(***************************************************************************)
EXTENDS LendingPool, ScenarioOracle

CONSTANT MarketRate  \* what the lending rate oracle says of the asset

ASSUME OracleAssumption ==
  /\ MarketRate \in Nat
  /\ MAX_UINT_AMOUNT = MaxUint256

(***************************************************************************)
(* The data the formulas are applied to                                    *)
(***************************************************************************)

\* The reserve as stored, and its views.  There is no variable debt, and the rate
\* of one is never set.
StoredReserve ==
  LET liquidity == cash + TotalDebt
  IN  [totalLiquidity |-> liquidity,
       utilizationRate |-> IF liquidity = 0 THEN 0 ELSE rayDiv(TotalDebt, liquidity),
       availableLiquidity |-> cash,
       totalStableDebt |-> TotalDebt,
       totalVariableDebt |-> 0,
       liquidityRate |-> currentLiquidityRate,
       variableBorrowRate |-> 0,
       stableBorrowRate |-> currentStableBorrowRate,
       averageStableBorrowRate |-> avgStableRate,
       liquidityIndex |-> liquidityIndex,
       variableBorrowIndex |-> RAY,
       lastUpdateTimestamp |-> lastUpdateTimestamp,
       totalStableDebtLastUpdated |-> totalSupplyTimestamp,
       principalStableDebt |-> debtSupply,
       scaledVariableDebt |-> 0,
       marketStableRate |-> MarketRate]

\* A user, and the wallet of whoever pays or is paid.
StoredUser(user, payer) ==
  [scaledATokenBalance |-> scaled[user],
   currentATokenBalance |-> BalanceOf(user),
   currentStableDebt |-> DebtOf(user),
   currentVariableDebt |-> 0,
   principalStableDebt |-> principal[user],
   scaledVariableDebt |-> 0,
   stableBorrowRate |-> usersStableRate[user],
   liquidityRate |-> currentLiquidityRate,
   usageAsCollateralEnabled |-> user \in usingAsCollateral,
   stableRateLastUpdated |-> timestamps[user],
   walletBalance |-> wallet[payer]]

(***************************************************************************)
(* Where they may differ                                                   *)
(***************************************************************************)

\* The administrator sets what the formulas compute from the curve.
Administered == {"liquidityRate", "stableBorrowRate", "variableBorrowRate"}

\* A reserve with nothing lent out accrues in the contract and not in the formulas.
AccruesIdle == StoredReserve.utilizationRate = 0 /\ currentLiquidityRate # 0

Idle(fields) == IF AccruesIdle THEN fields ELSE {}

\* The reserve is as expected in all but what differs in general, and here.
ReserveAgrees(expected, different) ==
  \A reserve \in {expected}, stored \in {StoredReserve'} :
    AlmostEqualOrEqual(reserve, stored,
      DOMAIN stored \ (AccessoryFields \cup Administered \cup Idle({"liquidityIndex"})
                         \cup different))

\* The same for the user.
UserAgrees(expected, user, payer, different) ==
  \A account \in {expected}, stored \in {StoredUser(user, payer)'} :
    AlmostEqualOrEqual(account, stored,
      DOMAIN stored \ ({"liquidityRate"} \cup Idle({"scaledATokenBalance"})
                         \cup different))

\* After a deposit totals are kept from before, the principal is overwritten with
\* the variable debt, and the collateral bit, which no deposit sets, is set.
DepositAgrees(sender, onBehalfOf, amount) ==
  \A before \in {StoredReserve}, user \in {StoredUser(onBehalfOf, sender)} :
    LET after == calcExpectedReserveDataAfterDeposit(amount, before, now)
    IN  /\ ReserveAgrees(after, {"totalLiquidity", "utilizationRate"})
        /\ UserAgrees(calcExpectedUserDataAfterDeposit(amount, before, after, user, now),
                      onBehalfOf, sender,
                      {"principalStableDebt", "usageAsCollateralEnabled"})

WithdrawalAgrees(holder, amount) ==
  \A before \in {StoredReserve}, user \in {StoredUser(holder, holder)} :
    LET after == calcExpectedReserveDataAfterWithdraw(amount, before, user, now)
    IN  /\ ReserveAgrees(after, {})
        /\ UserAgrees(calcExpectedUserDataAfterWithdraw(amount, before, after, user, now),
                      holder, holder, {})

\* The balance is expected at the index the loan leaves.
LoanAgrees(sender, onBehalfOf, amount) ==
  \A before \in {StoredReserve}, user \in {StoredUser(onBehalfOf, sender)} :
    LET after == calcExpectedReserveDataAfterBorrow(amount, "Stable", before, now, now)
    IN  /\ ReserveAgrees(after, {})
        /\ UserAgrees(calcExpectedUserDataAfterBorrow(amount, "Stable", before, after, user,
                                                      now, now),
                      onBehalfOf, sender, Idle({"currentATokenBalance"}))

\* The last repayment at an average rate of zero erases the contract's supply.
RepaymentAgrees(sender, onBehalfOf, amount) ==
  \A before \in {StoredReserve}, user \in {StoredUser(onBehalfOf, onBehalfOf)} :
    LET after == calcExpectedReserveDataAfterRepay(amount, "Stable", before, user, now)
    IN  /\ ReserveAgrees(after,
             IF avgStableRate' = 0
               THEN {"principalStableDebt", "totalStableDebt", "totalLiquidity",
                     "utilizationRate"}
               ELSE {})
        /\ UserAgrees(calcExpectedUserDataAfterRepay(amount, "Stable", before, after, user,
                                                     sender = onBehalfOf, now, now),
                      onBehalfOf, onBehalfOf, {})

(***************************************************************************)
(* Properties                                                              *)
(***************************************************************************)

\* Whatever happened before, and however long after the last transaction, the
\* formulas make of the stored data exactly what the contracts' views show: the
\* reserve's income and debt, every user's debt and balance.  The two accrue by code
\* of their own (calculations.ts, calcExpectedReserveNormalizedIncome and the
\* balances built on it), from four timestamps different operations write.
FormulasMatchViews ==
  \A reserve \in {StoredReserve} :
    /\ calcExpectedReserveNormalizedIncome(reserve, now) = NormalizedIncome
    /\ StableDebtAt(reserve, now) = TotalDebt
    /\ \A a \in Accounts :
         \A user \in {StoredUser(a, a)} :
           /\ UserStableDebtAt(user, now) = DebtOf(a)
           /\ calcExpectedATokenBalance(reserve, user, now) = BalanceOf(a)

\* Whatever history a deposit, a withdrawal, a loan or a repayment comes after, it
\* leaves the reserve and the user within the suite's tolerance of what
\* calculations.ts works out from the data before it, in every field but those named
\* above.  The amount is the one that is paid, or asks for all there is: of a
\* repayment of more than is owed only the contract knows what to do.
FormulasMatchTransactions ==
  [][LET paid  == cash' - cash
         party == {a \in Accounts : wallet'[a] # wallet[a]}
     IN  \A a \in party, b \in Accounts :
           /\ paid > 0 =>
                /\ Deposit(a, b, paid) => DepositAgrees(a, b, paid)
                /\ \A amount \in {paid, MaxUint256} :
                     Repay(a, b, amount) => RepaymentAgrees(a, b, amount)
           /\ paid < 0 =>
                /\ Borrow(a, b, -paid) => LoanAgrees(a, b, -paid)
                /\ \A amount \in {-paid, MaxUint256} :
                     a = b /\ Withdraw(a, a, amount) => WithdrawalAgrees(a, amount)]_vars

\* The two translations of the interest rate curve, the contract's and the
\* oracle's, give the same rates on both sides of the optimum, for every split of
\* the debt the reserve may have between the modes; and what a curve promises to
\* depositors never exceeds what borrowers are charged for it.
StrategiesAgree ==
  LET stable == TotalDebt
  IN  \A variable \in {0, stable \div 2, stable} :
        LET used == calcExpectedUtilizationRate(stable - variable, variable, cash + stable)
            onChain == CalculateInterestRates(Curve, MarketRate, cash, stable - variable,
                                              variable, avgStableRate, ReserveFactor)
            expected == calcExpectedInterestRates(Curve, ReserveFactor, MarketRate, used,
                                                  stable - variable, variable, avgStableRate)
        IN  /\ \A f \in Administered : AlmostEqual(onChain[f], expected[f])
            /\ (cash + stable) * onChain.liquidityRate
                 <= (stable - variable) * avgStableRate
                      + variable * onChain.variableBorrowRate
                      + (cash + stable) * Tolerance
===============================================================================
