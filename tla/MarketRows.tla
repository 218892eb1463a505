------------------------------- MODULE MarketRows -------------------------------
(***************************************************************************)
(* What a market's files say of a reserve (IReserveParams of               *)
(* helpers/types.ts): the curve of its interest rates, its collateral      *)
(* parameters, the operations that are open, its decimals, its reserve     *)
(* factor.  The implementation of its tokens is left out: it is looked up  *)
(* by name and plays no part in the configuration.                         *)
(*                                                                         *)
(* Rates are in hundredths, everything else in the units of the source.    *)
(***************************************************************************)
EXTENDS Integers, Sequences

\* IInterestRateStrategyParams.  Curves are told apart by their name.
Curve(name, optimal, base, variable1, variable2, stable1, stable2) ==
  [name                   |-> name,
   optimalUtilizationRate |-> optimal,
   baseVariableBorrowRate |-> base,
   variableRateSlope1     |-> variable1,
   variableRateSlope2     |-> variable2,
   stableRateSlope1       |-> stable1,
   stableRateSlope2       |-> stable2]

\* IReserveParams; `enabled` holds the switches that are on.
Row(strategy, ltv, threshold, bonus, enabled, decimals, factor) ==
  [strategy             |-> strategy,
   baseLTVAsCollateral  |-> ltv,
   liquidationThreshold |-> threshold,
   liquidationBonus     |-> bonus,
   enabled              |-> enabled,
   reserveDecimals      |-> decimals,
   reserveFactor        |-> factor]

\* The three sets of switches the rows have: every row opens the reserve to
\* lenders, most of them to borrowers.
LendersOnly        == {"deposits", "withdrawals", "interestWithdrawals"}
Borrowable         == LendersOnly \cup {"borrowing"}
BorrowableAtStable == Borrowable \cup {"stableRate"}

\* An entry of a market's ReservesConfig: a symbol and its row.
Listed(project, row) == [project |-> project, row |-> row]
===============================================================================
