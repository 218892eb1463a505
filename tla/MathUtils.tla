------------------------------- MODULE MathUtils -------------------------------
(***************************************************************************)
(* Interest formulas of MathUtils.sol.  A timestamp earlier than the one   *)
(* interest is counted from makes SafeMath revert; callers state that as a *)
(* guard or keep it from happening.                                        *)
(***************************************************************************)
EXTENDS WadRayMath

CONSTANT SECONDS_PER_YEAR

ASSUME YearAssumption == SECONDS_PER_YEAR \in Nat \ {0}

\* Simple interest, in ray, of an annual rate between two timestamps.
LinearInterest(rate, from, to) ==
  (rate * (to - from)) \div SECONDS_PER_YEAR + RAY

\* (1 + rate) ^ seconds by the first four terms of the binomial series.  For
\* zero seconds every term but the first is zero, as in the early return.
CompoundedInterest(rate, from, to) ==
  LET exp            == to - from
      expMinusOne    == IF exp > 0 THEN exp - 1 ELSE 0
      expMinusTwo    == IF exp > 2 THEN exp - 2 ELSE 0
      ratePerSecond  == rate \div SECONDS_PER_YEAR
      basePowerTwo   == RayMul(ratePerSecond, ratePerSecond)
      basePowerThree == RayMul(basePowerTwo, ratePerSecond)
      secondTerm     == (exp * expMinusOne * basePowerTwo) \div 2
      thirdTerm      == (exp * expMinusOne * expMinusTwo * basePowerThree) \div 6
  IN  RAY + ratePerSecond * exp + secondTerm + thirdTerm
===============================================================================
