----------------------------- MODULE RateStrategy -----------------------------
(***************************************************************************)
(* DefaultReserveInterestRateStrategy.sol: the rates of a reserve as       *)
(* a function of how much of it is lent out.  Every reserve is given such  *)
(* a contract when it is initialised and the data provider reads it, but   *)
(* the pool takes its rates from the administrator and calls it nowhere.   *)
(*                                                                         *)
(* A curve is the record of the constructor's six parameters, in ray.      *)
(***************************************************************************)
EXTENDS MathUtils

Utilization(availableLiquidity, totalDebt) ==
  IF totalDebt = 0 THEN 0 ELSE RayDiv(totalDebt, availableLiquidity + totalDebt)

\* _getOverallBorrowRate: the mean of the two rates weighted by the debts.
OverallBorrowRate(stableDebt, variableDebt, variableRate, averageStableRate) ==
  IF stableDebt + variableDebt = 0
    THEN 0
    ELSE RayDiv(RayMul(WadToRay(variableDebt), variableRate)
                  + RayMul(WadToRay(stableDebt), averageStableRate),
                WadToRay(stableDebt + variableDebt))

\* Fault: above the optimum the second slope replaces the first.
ExcessRateDropsFirstSlope(slope1, slope2, ratio) == RayMul(slope2, ratio)

\* What a rate gains above the optimum: all of the first slope, and the second
\* one in proportion to the excess.
ExcessRate(slope1, slope2, ratio) == slope1 + RayMul(slope2, ratio)

\* calculateInterestRates, for a reserve whose market rate the oracle gives.
CalculateInterestRates(curve, market, cash, stableDebt, variableDebt, avg, factor) ==
  LET used  == Utilization(cash, stableDebt + variableDebt)
      ratio == RayDiv(used - curve.optimalUtilizationRate,
                      RAY - curve.optimalUtilizationRate)
      above == used > curve.optimalUtilizationRate
      stable ==
        market +
          (IF above
             THEN ExcessRate(curve.stableRateSlope1, curve.stableRateSlope2, ratio)
             ELSE RayMul(curve.stableRateSlope1,
                         RayDiv(used, curve.optimalUtilizationRate)))
      variable ==
        curve.baseVariableBorrowRate +
          (IF above
             THEN ExcessRate(curve.variableRateSlope1, curve.variableRateSlope2, ratio)
             ELSE RayDiv(RayMul(used, curve.variableRateSlope1),
                         curve.optimalUtilizationRate))
      overall == OverallBorrowRate(stableDebt, variableDebt, variable, avg)
  IN  [liquidityRate      |-> PercentMul(RayMul(overall, used),
                                         PERCENTAGE_FACTOR - factor),
       stableBorrowRate   |-> stable,
       variableBorrowRate |-> variable]
===============================================================================
