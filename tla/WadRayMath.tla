------------------------------ MODULE WadRayMath ------------------------------
(***************************************************************************)
(* Fixed-point arithmetic of the protocol: WadRayMath.sol and              *)
(* PercentageMath.sol.                                                     *)
(*                                                                         *)
(* The scales are constants, so that theorems hold for the deployed values *)
(* (RAY = 10^27, WAD_RAY_RATIO = 10^9, PERCENTAGE_FACTOR = 10^4) while TLC *)
(* works with scales of one digit, at which every rounding is visible.     *)
(* All functions round half up.  Their 256-bit overflow checks, which      *)
(* revert, are left out: the modelled amounts stay far below 2^256.        *)
(***************************************************************************)
EXTENDS Naturals

CONSTANTS
  RAY,               \* one unit of a rate or an index
  WAD_RAY_RATIO,     \* rays in a wad
  PERCENTAGE_FACTOR  \* one hundred per cent

ASSUME ScaleAssumption ==
  /\ RAY \in Nat \ {0}
  /\ WAD_RAY_RATIO \in Nat \ {0}
  /\ PERCENTAGE_FACTOR \in Nat \ {0}

HALF_RAY     == RAY \div 2
HALF_PERCENT == PERCENTAGE_FACTOR \div 2

\* Product of two rays.  The early return for a zero factor agrees with the
\* formula, because HALF_RAY is less than RAY.
RayMul(a, b) == (a * b + HALF_RAY) \div RAY

\* Fault: rounds up instead of half up.
RayDivUp(a, b) == (a * RAY + b - 1) \div b

\* Quotient of two rays; the caller guarantees b # 0, otherwise the code reverts.
RayDiv(a, b) == (a * RAY + b \div 2) \div b

RayToWad(a) == (WAD_RAY_RATIO \div 2 + a) \div WAD_RAY_RATIO

WadToRay(a) == a * WAD_RAY_RATIO

PercentMul(value, percentage) ==
  (value * percentage + HALF_PERCENT) \div PERCENTAGE_FACTOR

PercentDiv(value, percentage) ==
  (value * PERCENTAGE_FACTOR + percentage \div 2) \div percentage
===============================================================================
