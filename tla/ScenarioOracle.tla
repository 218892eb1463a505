---------------------------- MODULE ScenarioOracle ----------------------------
(***************************************************************************)
(* The formulas of test-aave/helpers/utils/calculations.ts: what a reserve *)
(* and a user should look like after each operation, worked out in         *)
(* TypeScript from their data before it.  They are a second implementation *)
(* of the protocol's accounting, with its own arithmetic.                  *)
(*                                                                         *)
(* Only functions are here: no suite of this repository can run them       *)
(* against its pool (see the README).  The calculations for swaps and      *)
(* rebalances of rates, which the pool has no function for, are left out.  *)
(*                                                                         *)
(* The data are records with the fields of the interfaces ReserveData and  *)
(* UserReserveData.  A field an expected record does not set keeps, here,  *)
(* its value from before: such fields are never compared.                  *)
(***************************************************************************)
EXTENDS Integers, MathUtils, RateStrategy

CONSTANTS
  Curve,           \* strategy of the reserve, found by its symbol
  ReserveFactor,   \* its reserve factor, as the market's configuration has it
  MAX_UINT_AMOUNT  \* asks for the whole balance or debt

(***************************************************************************)
(* Arithmetic on BigNumbers, which may be negative                         *)
(***************************************************************************)

Magnitude(a) == IF a < 0 THEN -a ELSE a

\* Division to whole numbers, towards zero, as scenario.spec.ts configures BigNumber.
div(a, b) ==
  LET quotient == Magnitude(a) \div Magnitude(b)
  IN  IF (a < 0) = (b < 0) THEN quotient ELSE -quotient

rayMul(a, b) == div(HALF_RAY + a * b, RAY)
rayDiv(a, b) == div(div(b, 2) + a * RAY, b)
percentMul(a, b) == div(HALF_PERCENT + a * b, PERCENTAGE_FACTOR)
wadToRay(a) == a * WAD_RAY_RATIO

calcLinearInterest(rate, current, last) ==
  div(rate * (current - last), SECONDS_PER_YEAR) + RAY

calcCompoundedInterest(rate, current, last) ==
  LET time  == current - last
      pairs == time * (time - 1)
      expMinusTwo    == IF time > 2 THEN time - 2 ELSE 0
      ratePerSecond  == div(rate, SECONDS_PER_YEAR)
      basePowerTwo   == rayMul(ratePerSecond, ratePerSecond)
      basePowerThree == rayMul(basePowerTwo, ratePerSecond)
  IN  IF time = 0
        THEN RAY
        ELSE RAY + ratePerSecond * time
               + div(pairs * basePowerTwo, 2)
               + div(pairs * expMinusTwo * basePowerThree, 6)

(***************************************************************************)
(* Balances, indexes and rates at a given time                             *)
(***************************************************************************)

calcExpectedReserveNormalizedIncome(reserve, time) ==
  IF reserve.liquidityRate = 0
    THEN reserve.liquidityIndex
    ELSE rayMul(calcLinearInterest(reserve.liquidityRate, time,
                                   reserve.lastUpdateTimestamp),
                reserve.liquidityIndex)

calcExpectedReserveNormalizedDebt(rate, index, last, time) ==
  IF rate = 0 THEN index ELSE rayMul(calcCompoundedInterest(rate, time, last), index)

calcExpectedLiquidityIndex(reserve, time) ==
  IF reserve.utilizationRate = 0
    THEN reserve.liquidityIndex
    ELSE rayMul(calcLinearInterest(reserve.liquidityRate, time,
                                   reserve.lastUpdateTimestamp),
                reserve.liquidityIndex)

calcExpectedVariableBorrowIndex(reserve, time) ==
  IF reserve.totalVariableDebt = 0
    THEN reserve.variableBorrowIndex
    ELSE rayMul(calcCompoundedInterest(reserve.variableBorrowRate, time,
                                       reserve.lastUpdateTimestamp),
                reserve.variableBorrowIndex)

calcExpectedScaledATokenBalance(user, index, added, taken) ==
  user.scaledATokenBalance + rayDiv(added, index) - rayDiv(taken, index)

calcExpectedATokenBalance(reserve, user, time) ==
  rayMul(user.scaledATokenBalance, calcExpectedReserveNormalizedIncome(reserve, time))

calcExpectedVariableDebtTokenBalance(reserve, user, time) ==
  rayMul(user.scaledVariableDebt,
         calcExpectedReserveNormalizedDebt(reserve.variableBorrowRate,
           reserve.variableBorrowIndex, reserve.lastUpdateTimestamp, time))

calcExpectedStableDebtTokenBalance(principal, rate, last, time) ==
  IF rate = 0 \/ time = last \/ last = 0
    THEN principal
    ELSE rayMul(principal, calcCompoundedInterest(rate, time, last))

calcExpectedTotalStableDebt(principal, averageRate, last, time) ==
  rayMul(calcCompoundedInterest(averageRate, time, last), principal)

calcExpectedTotalVariableDebt(reserve, index) == rayMul(reserve.scaledVariableDebt, index)

calcExpectedAverageStableBorrowRate(averageRate, total, changed, rate) ==
  IF total + changed = 0
    THEN 0
    ELSE div(averageRate * total + rate * changed, total + changed)

calcExpectedUserStableRate(balance, rate, amount, newRate) ==
  div(balance * rate + amount * newRate, balance + amount)

calcExpectedUtilizationRate(stableDebt, variableDebt, liquidity) ==
  IF stableDebt = 0 /\ variableDebt = 0
    THEN 0
    ELSE rayDiv(stableDebt + variableDebt, liquidity)

calcExpectedOverallBorrowRate(stableDebt, variableDebt, variableRate, averageRate) ==
  IF stableDebt + variableDebt = 0
    THEN 0
    ELSE rayDiv(rayMul(wadToRay(variableDebt), variableRate)
                  + rayMul(wadToRay(stableDebt), averageRate),
                wadToRay(stableDebt + variableDebt))

\* For a reserve of the given curve and factor; the source looks both up by symbol.
calcExpectedInterestRates(curve, factor, market, used, stableDebt, variableDebt, avg) ==
  LET optimal == curve.optimalUtilizationRate
      above   == used > optimal
      excess  == rayDiv(used - optimal, RAY - optimal)
      stable  ==
        IF above
          THEN market + curve.stableRateSlope1 + rayMul(curve.stableRateSlope2, excess)
          ELSE market + rayMul(curve.stableRateSlope1, rayDiv(used, optimal))
      variable ==
        IF above
          THEN curve.baseVariableBorrowRate + curve.variableRateSlope1
                 + rayMul(curve.variableRateSlope2, excess)
          ELSE curve.baseVariableBorrowRate
                 + rayMul(rayDiv(used, optimal), curve.variableRateSlope1)
      overall ==
        calcExpectedOverallBorrowRate(stableDebt, variableDebt, variable, avg)
  IN  [liquidityRate      |-> percentMul(rayMul(overall, used),
                                         PERCENTAGE_FACTOR - factor),
       stableBorrowRate   |-> stable,
       variableBorrowRate |-> variable]

(***************************************************************************)
(* The reserve after an operation                                          *)
(***************************************************************************)

WithTotalLiquidity(reserve) ==
  [reserve EXCEPT !.totalLiquidity =
     reserve.availableLiquidity + reserve.totalStableDebt + reserve.totalVariableDebt]

\* The utilisation and the rates of a reserve whose debts and liquidity are known.
WithRates(reserve) ==
  LET used  == calcExpectedUtilizationRate(reserve.totalStableDebt,
                 reserve.totalVariableDebt, reserve.totalLiquidity)
      rates == calcExpectedInterestRates(Curve, ReserveFactor, reserve.marketStableRate,
                 used, reserve.totalStableDebt, reserve.totalVariableDebt,
                 reserve.averageStableBorrowRate)
  IN  [reserve EXCEPT
         !.utilizationRate    = used,
         !.liquidityRate      = rates.liquidityRate,
         !.stableBorrowRate   = rates.stableBorrowRate,
         !.variableBorrowRate = rates.variableBorrowRate]

\* Fault: the debt accrues from the reserve's clock instead of its own.
StableDebtSinceUpdate(before, time) ==
  calcExpectedTotalStableDebt(before.principalStableDebt, before.averageStableBorrowRate,
                              before.lastUpdateTimestamp, time)

StableDebtAt(before, time) ==
  calcExpectedTotalStableDebt(before.principalStableDebt, before.averageStableBorrowRate,
                              before.totalStableDebtLastUpdated, time)

UserStableDebtAt(user, time) ==
  calcExpectedStableDebtTokenBalance(user.principalStableDebt, user.stableBorrowRate,
                                     user.stableRateLastUpdated, time)

WithIndexes(before, time) ==
  [before EXCEPT
     !.liquidityIndex      = calcExpectedLiquidityIndex(before, time),
     !.variableBorrowIndex = calcExpectedVariableBorrowIndex(before, time)]

\* Indexes and debts brought up to the transaction's time.
Accrued(before, time) ==
  LET indexed == WithIndexes(before, time)
  IN  [indexed EXCEPT
         !.totalStableDebt   = StableDebtAt(before, time),
         !.totalVariableDebt =
            calcExpectedTotalVariableDebt(before, indexed.variableBorrowIndex)]

calcExpectedReserveDataAfterDeposit(amount, before, txTime) ==
  WithRates([Accrued(before, txTime) EXCEPT
               !.totalLiquidity     = @ + amount,
               !.availableLiquidity = @ + amount])

calcExpectedReserveDataAfterWithdraw(amount, before, user, txTime) ==
  LET withdrawn == IF amount = MAX_UINT_AMOUNT
                     THEN calcExpectedATokenBalance(before, user, txTime)
                     ELSE amount
  IN  WithRates(WithTotalLiquidity(
        [Accrued(before, txTime) EXCEPT !.availableLiquidity = @ - withdrawn]))

\* What the debts have grown to when the reserve is read again, at the new rates.
\* The rates stay those of the transaction.
GrownAfterBorrow(reserve, stableSince, time) ==
  LET grown == WithTotalLiquidity([reserve EXCEPT
        !.totalStableDebt =
            calcExpectedTotalStableDebt(reserve.principalStableDebt,
              reserve.averageStableBorrowRate, stableSince, time)])
  IN  [grown EXCEPT !.utilizationRate =
         calcExpectedUtilizationRate(grown.totalStableDebt, grown.totalVariableDebt,
                                     grown.totalLiquidity)]

BorrowStable(amount, before, txTime, time) ==
  LET debt  == StableDebtAt(before, txTime)
      rated == WithRates(WithTotalLiquidity([Accrued(before, txTime) EXCEPT
                 !.availableLiquidity  = @ - amount,
                 !.lastUpdateTimestamp = txTime,
                 !.principalStableDebt = debt + amount,
                 !.totalStableDebt     = debt + amount,
                 !.averageStableBorrowRate =
                    calcExpectedAverageStableBorrowRate(@, debt, amount,
                                                        before.stableBorrowRate)]))
      grown == [rated EXCEPT !.totalVariableDebt =
                 rayMul(before.scaledVariableDebt,
                        calcExpectedReserveNormalizedDebt(rated.variableBorrowRate,
                          rated.variableBorrowIndex, txTime, time))]
  IN  GrownAfterBorrow(grown, txTime, time)

BorrowVariable(amount, before, txTime, time) ==
  LET index  == calcExpectedVariableBorrowIndex(before, txTime)
      scaled == before.scaledVariableDebt + rayDiv(amount, index)
      rated  == WithRates(WithTotalLiquidity([Accrued(before, txTime) EXCEPT
                  !.availableLiquidity  = @ - amount,
                  !.lastUpdateTimestamp = txTime,
                  !.totalStableDebt     =
                     calcExpectedStableDebtTokenBalance(before.principalStableDebt,
                       before.averageStableBorrowRate, before.totalStableDebtLastUpdated,
                       txTime),
                  !.scaledVariableDebt  = scaled,
                  !.totalVariableDebt   = rayMul(scaled, index)]))
      grown  == [rated EXCEPT !.totalVariableDebt =
                  rayMul(scaled, calcExpectedReserveNormalizedDebt(
                                   rated.variableBorrowRate, index, txTime, time))]
  IN  GrownAfterBorrow(grown, before.totalStableDebtLastUpdated, time)

calcExpectedReserveDataAfterBorrow(amount, rateMode, before, txTime, time) ==
  IF rateMode = "Stable"
    THEN BorrowStable(amount, before, txTime, time)
    ELSE BorrowVariable(amount, before, txTime, time)

Repaid(amount, rateMode, before, user, time) ==
  CASE amount # MAX_UINT_AMOUNT -> amount
    [] rateMode = "Stable"      -> UserStableDebtAt(user, time)
    [] OTHER                    -> calcExpectedVariableDebtTokenBalance(before, user, time)

\* Accumulated rounding may leave less debt, or less interest, than is repaid:
\* the reserve then has none.
StableDebtAfterRepay(debt, repaid, averageRate) ==
  IF debt - repaid < 0 \/ averageRate < 0
    THEN [debt |-> 0, rate |-> 0]
    ELSE [debt |-> debt - repaid, rate |-> averageRate]

RepayStable(repaid, before, user, txTime) ==
  LET debt == StableDebtAt(before, txTime)
      left == StableDebtAfterRepay(debt, repaid,
                calcExpectedAverageStableBorrowRate(before.averageStableBorrowRate, debt,
                                                    -repaid, user.stableBorrowRate))
  IN  [Accrued(before, txTime) EXCEPT
         !.principalStableDebt     = left.debt,
         !.totalStableDebt         = left.debt,
         !.averageStableBorrowRate = left.rate]

\* The stable debt is left as it was read before.
RepayVariable(repaid, before, txTime) ==
  LET indexed == WithIndexes(before, txTime)
      scaled  == before.scaledVariableDebt - rayDiv(repaid, indexed.variableBorrowIndex)
  IN  [indexed EXCEPT
         !.scaledVariableDebt = scaled,
         !.totalVariableDebt  = rayMul(scaled, indexed.variableBorrowIndex)]

calcExpectedReserveDataAfterRepay(amount, rateMode, before, user, txTime) ==
  LET repaid == Repaid(amount, rateMode, before, user, txTime)
      after  == IF rateMode = "Stable"
                  THEN RepayStable(repaid, before, user, txTime)
                  ELSE RepayVariable(repaid, before, txTime)
  IN  WithRates(WithTotalLiquidity([after EXCEPT
        !.availableLiquidity  = @ + repaid,
        !.lastUpdateTimestamp = txTime]))

(***************************************************************************)
(* The user after an operation                                             *)
(***************************************************************************)

\* The principal is overwritten, at the end, with the variable debt.
calcExpectedUserDataAfterDeposit(amount, before, after, user, txTime) ==
  LET variableDebt == calcExpectedVariableDebtTokenBalance(before, user, txTime)
  IN  [user EXCEPT
         !.currentStableDebt        = UserStableDebtAt(user, txTime),
         !.principalStableDebt      = variableDebt,
         !.currentVariableDebt      = variableDebt,
         !.liquidityRate            = after.liquidityRate,
         !.scaledATokenBalance      =
            calcExpectedScaledATokenBalance(user, after.liquidityIndex, amount, 0),
         !.currentATokenBalance     = calcExpectedATokenBalance(before, user, txTime) + amount,
         !.usageAsCollateralEnabled = @ \/ user.currentATokenBalance = 0,
         !.walletBalance            = @ - amount]

\* Collateral ends with the balance; without a balance before it is expected to be on.
calcExpectedUserDataAfterWithdraw(amount, before, after, user, txTime) ==
  LET balance   == calcExpectedATokenBalance(before, user, txTime)
      withdrawn == IF amount = MAX_UINT_AMOUNT THEN balance ELSE amount
  IN  [user EXCEPT
         !.scaledATokenBalance      =
            calcExpectedScaledATokenBalance(user, after.liquidityIndex, 0, withdrawn),
         !.currentATokenBalance     = balance - withdrawn,
         !.currentStableDebt        = UserStableDebtAt(user, txTime),
         !.currentVariableDebt      =
            calcExpectedVariableDebtTokenBalance(before, user, txTime),
         !.liquidityRate            = after.liquidityRate,
         !.usageAsCollateralEnabled =
            user.currentATokenBalance = 0 \/ (@ /\ balance # withdrawn),
         !.walletBalance            = @ + withdrawn]

BorrowedStable(amount, before, user, txTime, time) ==
  LET debt == UserStableDebtAt(user, txTime)
      rate == calcExpectedUserStableRate(debt, user.stableBorrowRate, amount,
                                         before.stableBorrowRate)
  IN  [user EXCEPT
         !.principalStableDebt   = debt + amount,
         !.stableRateLastUpdated = txTime,
         !.stableBorrowRate      = rate,
         !.currentStableDebt     =
            calcExpectedStableDebtTokenBalance(debt + amount, rate, txTime, time)]

\* The loan is added to the reserve's variable debt, not to the user's.
BorrowedVariable(amount, before, after, user, time) ==
  [user EXCEPT
     !.scaledVariableDebt = before.scaledVariableDebt
                              + rayDiv(amount, after.variableBorrowIndex),
     !.currentStableDebt  = UserStableDebtAt(user, time)]

calcExpectedUserDataAfterBorrow(amount, rateMode, before, after, user, txTime, time) ==
  LET borrowed == IF rateMode = "Stable"
                    THEN BorrowedStable(amount, before, user, txTime, time)
                    ELSE BorrowedVariable(amount, before, after, user, time)
  IN  [borrowed EXCEPT
         !.currentVariableDebt  = calcExpectedVariableDebtTokenBalance(after, borrowed, time),
         !.liquidityRate        = after.liquidityRate,
         !.currentATokenBalance = calcExpectedATokenBalance(after, user, time),
         !.walletBalance        = @ + amount]

RepaidStable(repaid, before, user, txTime, time) ==
  LET left == UserStableDebtAt(user, time) - repaid
  IN  [user EXCEPT
         !.currentVariableDebt   = calcExpectedVariableDebtTokenBalance(before, user, time),
         !.principalStableDebt   = left,
         !.currentStableDebt     = left,
         !.stableBorrowRate      = IF left = 0 THEN 0 ELSE @,
         !.stableRateLastUpdated = IF left = 0 THEN 0 ELSE txTime]

\* The current stable debt and its principal are exchanged.
RepaidVariable(repaid, after, user, time) ==
  LET index  == after.variableBorrowIndex
      scaled == user.scaledVariableDebt - rayDiv(repaid, index)
  IN  [user EXCEPT
         !.currentStableDebt   = user.principalStableDebt,
         !.principalStableDebt = UserStableDebtAt(user, time),
         !.scaledVariableDebt  = scaled,
         !.currentVariableDebt = rayMul(scaled, index)]

calcExpectedUserDataAfterRepay(amount, rateMode, before, after, user, own, txTime, time) ==
  LET repaid == Repaid(amount, rateMode, before, user, time)
      left   == IF rateMode = "Stable"
                  THEN RepaidStable(repaid, before, user, txTime, time)
                  ELSE RepaidVariable(repaid, after, user, time)
  IN  [left EXCEPT
         !.liquidityRate        = after.liquidityRate,
         !.currentATokenBalance = calcExpectedATokenBalance(before, user, txTime),
         !.walletBalance        = IF own THEN @ - repaid ELSE @]

(***************************************************************************)
(* The comparison                                                          *)
(***************************************************************************)

\* almostEqualOrEqual, on the fields it does not skip and a field type at a time.
Tolerance == 3
AlmostEqual(a, b) == Magnitude(a - b) <= Tolerance

AlmostEqualOrEqual(expected, actual, fields) ==
  \A f \in fields :
    IF f = "usageAsCollateralEnabled"
      THEN expected[f] = actual[f]
      ELSE AlmostEqual(expected[f], actual[f])

AccessoryFields == {"lastUpdateTimestamp", "marketStableRate", "totalStableDebtLastUpdated"}
===============================================================================
