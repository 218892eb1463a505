------------------------- MODULE StableDebtToken_proofs -------------------------
(***************************************************************************)
(* The fixed-point arithmetic, the token's invariants, and the exactness   *)
(* of what a loan or a repayment adds to the debts, for every scale, every *)
(* set of accounts and every rate and amount.                              *)
(*                                                                         *)
(* Of the arithmetic: its results are naturals, it is monotone, one ray is *)
(* neutral, and dividing undoes multiplying by an index of at least a ray. *)
(*                                                                         *)
(* DebtInv is inductive.  Its parts need each other: a balance is only a   *)
(* number if interest is counted forwards, and an account whose debt has   *)
(* been settled only keeps no terms if the deployment lies in the past.    *)
(***************************************************************************)
EXTENDS StableDebtToken, TLAPS

(***************************************************************************)
(* Products and quotients of naturals                                      *)
(***************************************************************************)

\* A product of naturals is a natural.
LEMMA ProductNat ==
  ASSUME NEW a \in Nat, NEW b \in Nat PROVE a * b \in Nat
OBVIOUS

\* A quotient of naturals is a natural.
LEMMA DivNat ==
  ASSUME NEW a \in Nat, NEW b \in Nat \ {0} PROVE a \div b \in Nat
OBVIOUS

\* The quotient is the largest number whose product with b does not exceed a.
LEMMA DivBounds ==
  ASSUME NEW a \in Nat, NEW b \in Nat \ {0}
  PROVE  b * (a \div b) <= a /\ a < b * (a \div b) + b
OBVIOUS

\* ... and the only one within b of it.
LEMMA DivUnique ==
  ASSUME NEW a \in Nat, NEW b \in Nat \ {0}, NEW q \in Nat, b * q <= a, a < b * q + b
  PROVE  a \div b = q
OBVIOUS

\* A number whose product with b does not exceed a is at most the quotient.
LEMMA DivAtLeast ==
  ASSUME NEW a \in Nat, NEW b \in Nat \ {0}, NEW q \in Int, b * q <= a
  PROVE  q <= a \div b
<1>1. a < b * (a \div b) + b /\ a \div b \in Nat BY DivBounds, DivNat
<1>2. q < a \div b + 1
  <2>1. SUFFICES ASSUME q >= a \div b + 1 PROVE FALSE BY <1>1
  <2>2. b * q >= b * (a \div b + 1) BY <1>1, <2>1
  <2>3. b * (a \div b + 1) = b * (a \div b) + b BY <1>1
  <2> QED BY <1>1, <2>2, <2>3
<1> QED BY <1>1, <1>2

\* Products are monotone.
LEMMA ProductMono ==
  ASSUME NEW a \in Nat, NEW b \in Nat, NEW c \in Nat, a <= b PROVE a * c <= b * c
OBVIOUS

\* Products are monotone in both factors.
LEMMA ProductMonoBoth ==
  ASSUME NEW a \in Nat, NEW b \in Nat, NEW c \in Nat, NEW d \in Nat, a <= c, b <= d
  PROVE  a * b <= c * d
<1>1. a * b <= c * b BY ProductMono
<1>2. b * c <= d * c BY ProductMono
<1> QED BY <1>1, <1>2

\* Quotients are monotone.
LEMMA DivMono ==
  ASSUME NEW a \in Nat, NEW b \in Nat, NEW c \in Nat \ {0}, a <= b
  PROVE  a \div c <= b \div c
OBVIOUS

(***************************************************************************)
(* WadRayMath and PercentageMath                                           *)
(***************************************************************************)

\* Half a ray is a natural less than a ray.
LEMMA HalfRay ==
  HALF_RAY \in Nat /\ 2 * HALF_RAY <= RAY /\ RAY <= 2 * HALF_RAY + 1 /\ HALF_RAY < RAY
BY ScaleAssumption DEF HALF_RAY

\* rayMul returns a natural.
LEMMA RayMulNat == ASSUME NEW a \in Nat, NEW b \in Nat PROVE RayMul(a, b) \in Nat
<1>1. a * b + HALF_RAY \in Nat BY HalfRay, ProductNat
<1> QED BY <1>1, ScaleAssumption, DivNat DEF RayMul

\* rayDiv returns a natural, when its divisor is not zero.
LEMMA RayDivNat == ASSUME NEW a \in Nat, NEW b \in Nat \ {0} PROVE RayDiv(a, b) \in Nat
<1>1. a * RAY \in Nat BY ProductNat, ScaleAssumption
<1>2. b \div 2 \in Nat OBVIOUS
<1>3. a * RAY + b \div 2 \in Nat BY <1>1, <1>2
<1> QED BY <1>3, DivNat DEF RayDiv

\* wadToRay returns a natural.
LEMMA WadToRayNat == ASSUME NEW a \in Nat PROVE WadToRay(a) \in Nat
BY ProductNat, ScaleAssumption DEF WadToRay

\* ... which is zero only for zero, so that it can be divided by.
LEMMA WadToRayPositive == ASSUME NEW a \in Nat \ {0} PROVE WadToRay(a) \in Nat \ {0}
BY ScaleAssumption DEF WadToRay

\* percentMul returns a natural.
LEMMA PercentMulNat == ASSUME NEW a \in Nat, NEW b \in Nat PROVE PercentMul(a, b) \in Nat
<1>1. HALF_PERCENT \in Nat BY ScaleAssumption DEF HALF_PERCENT
<1>2. a * b + HALF_PERCENT \in Nat BY <1>1, ProductNat
<1> QED BY <1>2, ScaleAssumption, DivNat DEF PercentMul

\* One ray is neutral on either side of rayMul.
LEMMA RayMulOne ==
  ASSUME NEW a \in Nat PROVE RayMul(a, RAY) = a /\ RayMul(RAY, a) = a
<1>1. a * RAY + HALF_RAY \in Nat BY HalfRay, ProductNat, ScaleAssumption
<1>2. RAY * a <= a * RAY + HALF_RAY /\ a * RAY + HALF_RAY < RAY * a + RAY
  BY HalfRay, ScaleAssumption
<1>3. (a * RAY + HALF_RAY) \div RAY = a BY <1>1, <1>2, ScaleAssumption, DivUnique
<1>4. a * RAY = RAY * a BY ScaleAssumption
<1> QED BY <1>3, <1>4 DEF RayMul

\* Nothing times an index is nothing.
LEMMA RayMulZero == ASSUME NEW a \in Nat PROVE RayMul(0, a) = 0
<1>1. 0 * a + HALF_RAY = HALF_RAY BY HalfRay
<1>2. HALF_RAY \div RAY = 0 BY HalfRay, ScaleAssumption, DivUnique
<1> QED BY <1>1, <1>2 DEF RayMul

\* rayMul is monotone in its second factor.
LEMMA RayMulMono ==
  ASSUME NEW a \in Nat, NEW b \in Nat, NEW c \in Nat, b <= c
  PROVE  RayMul(a, b) <= RayMul(a, c)
<1>1. b * a <= c * a BY ProductMono
<1>2. a * b + HALF_RAY <= a * c + HALF_RAY BY <1>1, HalfRay
<1>3. a * b + HALF_RAY \in Nat /\ a * c + HALF_RAY \in Nat BY ProductNat, HalfRay
<1> QED BY <1>2, <1>3, DivMono, ScaleAssumption DEF RayMul

\* Multiplying by an index of at least one ray never makes an amount smaller.
LEMMA RayMulAtLeast ==
  ASSUME NEW a \in Nat, NEW b \in Nat, b >= RAY
  PROVE  RayMul(a, b) >= a
<1>1. RayMul(a, RAY) <= RayMul(a, b) BY RayMulMono, ScaleAssumption
<1> QED BY <1>1, RayMulOne, RayMulNat

\* rayDiv undoes rayMul by the same index, when the index is at least one ray:
\* the error of at most half a ray is less than what half an index rounds away.
LEMMA RayRoundTrip ==
  ASSUME NEW s \in Nat, NEW i \in Nat, i >= RAY
  PROVE  RayDiv(RayMul(s, i), i) = s
<1> DEFINE m == RayMul(s, i)
<1>1. CASE i = RAY
  <2>1. m = s BY <1>1, RayMulOne
  <2>2. RAY \div 2 \in Nat /\ RAY \div 2 < RAY BY ScaleAssumption
  <2>3. s * RAY + RAY \div 2 \in Nat BY <2>2, ProductNat, ScaleAssumption
  <2>4. RAY * s <= s * RAY + RAY \div 2 /\ s * RAY + RAY \div 2 < RAY * s + RAY
    BY <2>2, ScaleAssumption
  <2> QED BY <1>1, <2>1, <2>3, <2>4, DivUnique, ScaleAssumption DEF RayDiv
<1>2. CASE i > RAY
  <2>1. i \in Nat \ {0} BY ScaleAssumption
  <2>2. i \div 2 \in Nat /\ 2 * (i \div 2) <= i /\ i <= 2 * (i \div 2) + 1 BY <2>1
  <2>3. s * i \in Nat BY ProductNat
  <2>4. m \in Nat BY RayMulNat
  <2>5. RAY * m <= s * i + HALF_RAY /\ s * i + HALF_RAY < RAY * m + RAY
    BY <2>3, HalfRay, DivBounds, ScaleAssumption DEF RayMul
  <2>6. m * RAY \in Nat /\ m * RAY = RAY * m BY <2>4, ProductNat, ScaleAssumption
  <2>7. i * s = s * i BY <2>1
  <2> HIDE DEF m
  <2>8. HALF_RAY <= i \div 2 /\ HALF_RAY + i \div 2 < i
    BY <1>2, <2>2, HalfRay, ScaleAssumption
  <2>9. RAY \in Nat BY ScaleAssumption
  <2>10. i * s <= m * RAY + i \div 2
    BY <2>2, <2>3, <2>5, <2>6, <2>7, <2>8, <2>9, HalfRay
  <2>11. m * RAY + i \div 2 < i * s + i
    BY <2>2, <2>3, <2>5, <2>6, <2>7, <2>8, <2>9, HalfRay
  <2>12. m * RAY + i \div 2 \in Nat BY <2>2, <2>6
  <2>13. (m * RAY + i \div 2) \div i = s BY <2>1, <2>10, <2>11, <2>12, DivUnique
  <2> QED BY <2>13 DEF RayDiv, m
<1> QED BY <1>1, <1>2, ScaleAssumption

\* Twice the error of rayMul, in units of a ray, is at most one ray.
LEMMA RayMulError ==
  ASSUME NEW a \in Nat, NEW b \in Nat
  PROVE  /\ 2 * (RAY * RayMul(a, b)) <= 2 * (a * b) + RAY
         /\ 2 * (a * b) <= 2 * (RAY * RayMul(a, b)) + RAY
<1> DEFINE m == RayMul(a, b)
           p == a * b
<1>1. p \in Nat /\ m \in Nat BY ProductNat, RayMulNat
<1>2. RAY * m <= p + HALF_RAY /\ p + HALF_RAY < RAY * m + RAY
  BY <1>1, HalfRay, DivBounds, ScaleAssumption DEF RayMul
<1>3. RAY * m \in Nat BY <1>1, ProductNat, ScaleAssumption
<1> HIDE DEF m, p
<1>4. 2 * (RAY * m) <= 2 * p + RAY /\ 2 * p <= 2 * (RAY * m) + RAY
  BY <1>1, <1>2, <1>3, HalfRay, ScaleAssumption
<1> QED BY <1>4 DEF m, p

\* Twice the error of rayDiv, in units of the divisor, is at most the divisor.
LEMMA RayDivError ==
  ASSUME NEW a \in Nat, NEW b \in Nat \ {0}
  PROVE  /\ 2 * (b * RayDiv(a, b)) <= 2 * (a * RAY) + b
         /\ 2 * (a * RAY) <= 2 * (b * RayDiv(a, b)) + b
<1> DEFINE d == RayDiv(a, b)
           p == a * RAY
           h == b \div 2
<1>1. p \in Nat /\ d \in Nat BY ProductNat, RayDivNat, ScaleAssumption
<1>2. h \in Nat /\ 2 * h <= b /\ b <= 2 * h + 1 OBVIOUS
<1>3. b * d <= p + h /\ p + h < b * d + b
  <2>1. d = (p + h) \div b BY DEF RayDiv
  <2>2. p + h \in Nat BY <1>1, <1>2
  <2> HIDE DEF d, p, h
  <2> QED BY <2>1, <2>2, DivBounds
<1>4. b * d \in Nat BY <1>1, ProductNat
<1> HIDE DEF d, p, h
<1>5. 2 * (b * d) <= 2 * p + b /\ 2 * p <= 2 * (b * d) + b
  BY <1>1, <1>2, <1>3, <1>4
<1> QED BY <1>5 DEF d, p

\* A share of nothing is nothing.
LEMMA RayDivZero == ASSUME NEW b \in Nat \ {0} PROVE RayDiv(0, b) = 0
<1>1. 0 * RAY + b \div 2 = b \div 2 /\ b \div 2 \in Nat /\ b \div 2 < b
  BY ScaleAssumption
<1>2. (b \div 2) \div b = 0 BY <1>1, DivUnique
<1> QED BY <1>1, <1>2 DEF RayDiv

\* A percentage of nothing is nothing.
LEMMA PercentMulZero == ASSUME NEW b \in Nat PROVE PercentMul(0, b) = 0
<1>1. HALF_PERCENT \in Nat /\ HALF_PERCENT < PERCENTAGE_FACTOR
  BY ScaleAssumption DEF HALF_PERCENT
<1>2. 0 * b + HALF_PERCENT = HALF_PERCENT BY <1>1
<1>3. HALF_PERCENT \div PERCENTAGE_FACTOR = 0 BY <1>1, ScaleAssumption, DivUnique
<1> QED BY <1>2, <1>3 DEF PercentMul

(***************************************************************************)
(* MathUtils                                                               *)
(***************************************************************************)

\* Simple interest is at least one ray, and exactly one for no time or no rate.
LEMMA LinearInterestBounds ==
  ASSUME NEW rate \in Nat, NEW from \in Nat, NEW to \in Nat, from <= to
  PROVE  /\ LinearInterest(rate, from, to) \in Nat
         /\ LinearInterest(rate, from, to) >= RAY
         /\ rate = 0 \/ from = to => LinearInterest(rate, from, to) = RAY
<1>1. to - from \in Nat OBVIOUS
<1>2. rate * (to - from) \in Nat BY <1>1, ProductNat
<1>3. (rate * (to - from)) \div SECONDS_PER_YEAR \in Nat
  BY <1>2, DivNat, YearAssumption
<1>4. rate = 0 \/ from = to => rate * (to - from) = 0 OBVIOUS
<1>5. 0 \div SECONDS_PER_YEAR = 0 BY YearAssumption
<1> QED BY <1>3, <1>4, <1>5, ScaleAssumption DEF LinearInterest

\* Compound interest is a natural of at least one ray, exactly one when no time
\* has passed.
LEMMA CompoundedInterestBounds ==
  ASSUME NEW rate \in Nat, NEW from \in Nat, NEW to \in Nat, from <= to
  PROVE  /\ CompoundedInterest(rate, from, to) \in Nat
         /\ CompoundedInterest(rate, from, to) >= RAY
         /\ from = to => CompoundedInterest(rate, from, to) = RAY
<1> DEFINE e1 == to - from
           e2 == IF e1 > 0 THEN e1 - 1 ELSE 0
           e3 == IF e1 > 2 THEN e1 - 2 ELSE 0
           r  == rate \div SECONDS_PER_YEAR
           r2 == RayMul(r, r)
           r3 == RayMul(r2, r)
<1>1. e1 \in Nat /\ e2 \in Nat /\ e3 \in Nat OBVIOUS
<1>2. r \in Nat BY DivNat, YearAssumption
<1>3. r2 \in Nat /\ r3 \in Nat BY <1>2, RayMulNat
<1> HIDE DEF e2, e3, r, r2, r3
<1>4. e1 * e2 \in Nat /\ e1 * e2 * r2 \in Nat /\ e1 * e2 * e3 \in Nat
      /\ e1 * e2 * e3 * r3 \in Nat /\ r * e1 \in Nat
  BY <1>1, <1>2, <1>3, ProductNat
<1>5. (e1 * e2 * r2) \div 2 \in Nat /\ (e1 * e2 * e3 * r3) \div 6 \in Nat
  BY <1>4, DivNat
<1>6. ASSUME from = to
      PROVE  r * e1 = 0 /\ (e1 * e2 * r2) \div 2 = 0 /\ (e1 * e2 * e3 * r3) \div 6 = 0
  <2>1. e1 = 0 BY <1>6
  <2>2. r * e1 = 0 /\ e1 * e2 = 0 BY <2>1, <1>1, <1>2
  <2>3. e1 * e2 * r2 = 0 /\ e1 * e2 * e3 * r3 = 0 BY <2>2, <1>1, <1>3
  <2> QED BY <2>2, <2>3
<1>7. CompoundedInterest(rate, from, to)
        = RAY + r * e1 + (e1 * e2 * r2) \div 2 + (e1 * e2 * e3 * r3) \div 6
  BY DEF CompoundedInterest, e1, e2, e3, r, r2, r3
<1> QED BY <1>4, <1>5, <1>6, <1>7, ScaleAssumption

\* Compound interest never falls as time passes, term by term.
LEMMA CompoundedInterestMono ==
  ASSUME NEW rate \in Nat, NEW from \in Nat, NEW to \in Nat, NEW later \in Nat,
         from <= to, to <= later
  PROVE  CompoundedInterest(rate, from, to) <= CompoundedInterest(rate, from, later)
<1> DEFINE e1 == to - from
           e2 == IF e1 > 0 THEN e1 - 1 ELSE 0
           e3 == IF e1 > 2 THEN e1 - 2 ELSE 0
           f1 == later - from
           f2 == IF f1 > 0 THEN f1 - 1 ELSE 0
           f3 == IF f1 > 2 THEN f1 - 2 ELSE 0
           r  == rate \div SECONDS_PER_YEAR
           r2 == RayMul(r, r)
           r3 == RayMul(r2, r)
<1>1. /\ {e1, e2, e3, f1, f2, f3} \subseteq Nat
      /\ e1 <= f1 /\ e2 <= f2 /\ e3 <= f3
  OBVIOUS
<1>2. r \in Nat BY DivNat, YearAssumption
<1>3. r2 \in Nat /\ r3 \in Nat BY <1>2, RayMulNat
<1>4. CompoundedInterest(rate, from, to)
        = RAY + r * e1 + (e1 * e2 * r2) \div 2 + (e1 * e2 * e3 * r3) \div 6
  BY DEF CompoundedInterest
<1>5. CompoundedInterest(rate, from, later)
        = RAY + r * f1 + (f1 * f2 * r2) \div 2 + (f1 * f2 * f3 * r3) \div 6
  BY DEF CompoundedInterest
<1> HIDE DEF e1, e2, e3, f1, f2, f3, r, r2, r3
<1>6. /\ r * e1 \in Nat /\ r * f1 \in Nat
      /\ e1 * e2 \in Nat /\ f1 * f2 \in Nat
      /\ e1 * e2 * e3 \in Nat /\ f1 * f2 * f3 \in Nat
  BY <1>1, <1>2, ProductNat
<1>7. /\ e1 * e2 * r2 \in Nat /\ f1 * f2 * r2 \in Nat
      /\ e1 * e2 * e3 * r3 \in Nat /\ f1 * f2 * f3 * r3 \in Nat
  BY <1>3, <1>6, ProductNat
<1>8. r * e1 <= r * f1 BY <1>1, <1>2, ProductMonoBoth
<1>9. e1 * e2 <= f1 * f2 BY <1>1, ProductMonoBoth
<1>10. e1 * e2 * e3 <= f1 * f2 * f3 BY <1>1, <1>6, <1>9, ProductMonoBoth
<1>11. e1 * e2 * r2 <= f1 * f2 * r2 BY <1>3, <1>6, <1>9, ProductMono
<1>12. e1 * e2 * e3 * r3 <= f1 * f2 * f3 * r3 BY <1>3, <1>6, <1>10, ProductMono
<1>13. (e1 * e2 * r2) \div 2 <= (f1 * f2 * r2) \div 2 BY <1>7, <1>11, DivMono
<1>14. (e1 * e2 * e3 * r3) \div 6 <= (f1 * f2 * f3 * r3) \div 6 BY <1>7, <1>12, DivMono
<1>15. /\ (e1 * e2 * r2) \div 2 \in Nat /\ (f1 * f2 * r2) \div 2 \in Nat
       /\ (e1 * e2 * e3 * r3) \div 6 \in Nat /\ (f1 * f2 * f3 * r3) \div 6 \in Nat
  BY <1>7, DivNat
<1> QED BY <1>4, <1>5, <1>6, <1>8, <1>13, <1>14, <1>15, ScaleAssumption

(***************************************************************************)
(* The invariant                                                           *)
(***************************************************************************)

DebtInv ==
  /\ DebtTypeOK
  /\ DebtClocksOrdered
  /\ SettledDebtLeavesNoTerms
  /\ NoSupplyNoAverageRate
  /\ DeployedAt <= now

(***************************************************************************)
(* The token's operators                                                   *)
(***************************************************************************)

\* A weighted mean of two rates is a natural, when the weights are not both zero.
LEMMA WeightedRateNat ==
  ASSUME NEW rateA \in Nat, NEW amountA \in Nat, NEW rateB \in Nat,
         NEW amountB \in Nat, amountA + amountB # 0
  PROVE  WeightedRate(rateA, amountA, rateB, amountB) \in Nat
<1>1. WadToRay(amountA) \in Nat /\ WadToRay(amountB) \in Nat BY WadToRayNat
<1>2. RayMul(rateA, WadToRay(amountA)) + RayMul(rateB, WadToRay(amountB)) \in Nat
  <2>1. RayMul(rateA, WadToRay(amountA)) \in Nat BY <1>1, RayMulNat
  <2>2. RayMul(rateB, WadToRay(amountB)) \in Nat BY <1>1, RayMulNat
  <2> QED BY <2>1, <2>2
<1>3. WadToRay(amountA + amountB) \in Nat \ {0} BY WadToRayPositive
<1> QED BY <1>2, <1>3, RayDivNat DEF WeightedRate

\* What an account owes is at least its principal, and exactly that when the
\* interest was settled in this block or there is no principal.
LEMMA DebtOfBounds ==
  ASSUME DebtInv, NEW a \in Accounts
  PROVE  /\ DebtOf(a) \in Nat
         /\ DebtOf(a) >= principal[a]
         /\ timestamps[a] = now \/ principal[a] = 0 => DebtOf(a) = principal[a]
<1> DEFINE c == CompoundedInterest(usersStableRate[a], timestamps[a], now)
<1>1. /\ principal[a] \in Nat /\ usersStableRate[a] \in Nat
      /\ timestamps[a] \in Nat /\ now \in Nat /\ timestamps[a] <= now
  BY DEF DebtInv, DebtTypeOK, DebtClocksOrdered
<1>2. c \in Nat /\ c >= RAY /\ (timestamps[a] = now => c = RAY)
  BY <1>1, CompoundedInterestBounds
<1>3. DebtOf(a) = RayMul(principal[a], c) BY DEF DebtOf
<1> HIDE DEF c
<1> QED BY <1>1, <1>2, <1>3, RayMulNat, RayMulAtLeast, RayMulOne, RayMulZero

\* The total supply at a time not before its timestamp is at least the supply
\* stored, exactly that at the timestamp itself, and never falls afterwards.
LEMMA DebtSupplyBounds ==
  ASSUME DebtInv, NEW time \in Nat, NEW later \in Nat,
         totalSupplyTimestamp <= time, time <= later
  PROVE  /\ DebtSupplyAt(time) \in Nat
         /\ DebtSupplyAt(time) >= debtSupply
         /\ time = totalSupplyTimestamp => DebtSupplyAt(time) = debtSupply
         /\ DebtSupplyAt(time) <= DebtSupplyAt(later)
<1> DEFINE c == CompoundedInterest(avgStableRate, totalSupplyTimestamp, time)
           d == CompoundedInterest(avgStableRate, totalSupplyTimestamp, later)
<1>1. debtSupply \in Nat /\ avgStableRate \in Nat /\ totalSupplyTimestamp \in Nat
  BY DEF DebtInv, DebtTypeOK
<1>2. c \in Nat /\ c >= RAY /\ (time = totalSupplyTimestamp => c = RAY)
  BY <1>1, CompoundedInterestBounds
<1>3. d \in Nat BY <1>1, CompoundedInterestBounds
<1>4. c <= d BY <1>1, CompoundedInterestMono
<1>5. DebtSupplyAt(time) = RayMul(debtSupply, c)
      /\ DebtSupplyAt(later) = RayMul(debtSupply, d)
  BY DEF DebtSupplyAt
<1> HIDE DEF c, d
<1> QED BY <1>1, <1>2, <1>3, <1>4, <1>5, RayMulNat, RayMulAtLeast, RayMulOne, RayMulMono

\* The total debt is a natural and at least the supply stored.
LEMMA TotalDebtBounds ==
  ASSUME DebtInv
  PROVE  /\ TotalDebt \in Nat
         /\ TotalDebt >= debtSupply
         /\ totalSupplyTimestamp = now => TotalDebt = debtSupply
<1>1. now \in Nat /\ totalSupplyTimestamp <= now
  BY DEF DebtInv, DebtTypeOK, DebtClocksOrdered
<1> QED BY <1>1, DebtSupplyBounds DEF TotalDebt

\* A burn leaves naturals: the average is only recomputed for a supply that
\* remains, from terms the larger of which is the minuend.
LEMMA SupplyAfterBurnBounds ==
  ASSUME DebtInv, NEW user \in Accounts, NEW amount \in Nat
  PROVE  LET after == SupplyAfterBurn(user, amount)
         IN  /\ after.supply \in Nat
             /\ after.rate \in Nat
             /\ after.supply = 0 => after.rate = 0
             /\ after.supply = TotalDebt - amount \/ after.supply = 0
<1> DEFINE firstTerm  == RayMul(avgStableRate, WadToRay(TotalDebt))
           secondTerm == RayMul(usersStableRate[user], WadToRay(amount))
           left       == WadToRay(TotalDebt - amount)
<1>1. TotalDebt \in Nat BY TotalDebtBounds
<1>2. firstTerm \in Nat /\ secondTerm \in Nat
  <2>1. avgStableRate \in Nat /\ usersStableRate[user] \in Nat BY DEF DebtInv, DebtTypeOK
  <2>2. WadToRay(TotalDebt) \in Nat /\ WadToRay(amount) \in Nat BY <1>1, WadToRayNat
  <2> QED BY <2>1, <2>2, RayMulNat
<1>3. SupplyAfterBurn(user, amount) =
        IF TotalDebt <= amount \/ secondTerm >= firstTerm
          THEN [supply |-> 0, rate |-> 0]
          ELSE [supply |-> TotalDebt - amount,
                rate   |-> RayDiv(firstTerm - secondTerm, left)]
  BY DEF SupplyAfterBurn
<1>4. CASE TotalDebt <= amount \/ secondTerm >= firstTerm
  BY <1>3, <1>4
<1>5. CASE ~(TotalDebt <= amount \/ secondTerm >= firstTerm)
  <2>1. TotalDebt - amount \in Nat \ {0} BY <1>1, <1>5
  <2>2. left \in Nat \ {0} BY <2>1, WadToRayPositive
  <2> HIDE DEF firstTerm, secondTerm, left
  <2>3. firstTerm - secondTerm \in Nat BY <1>2, <1>5
  <2>4. RayDiv(firstTerm - secondTerm, left) \in Nat BY <2>2, <2>3, RayDivNat
  <2> QED BY <1>3, <1>5, <2>1, <2>4
<1> QED BY <1>4, <1>5

(***************************************************************************)
(* The invariant                                                           *)
(***************************************************************************)

\* A token just deployed satisfies the invariant.
LEMMA DebtInitInv == DebtInit => DebtInv
BY EnvironmentAssumption
   DEF DebtInit, DebtInv, DebtTypeOK, DebtClocksOrdered, SettledDebtLeavesNoTerms,
       NoSupplyNoAverageRate

\* mint preserves the invariant, for a loan of something.
LEMMA MintPreserves ==
  ASSUME DebtInv, NEW user \in Accounts, NEW onBehalfOf \in Accounts,
         NEW amount \in Nat \ {0}, NEW rate \in Nat,
         MintDebt(user, onBehalfOf, amount, rate), now' = now
  PROVE  DebtInv'
<1> DEFINE owed == DebtOf(onBehalfOf)
<1>1. owed \in Nat BY DebtOfBounds
<1>2. TotalDebt \in Nat BY TotalDebtBounds
<1>3. WeightedRate(usersStableRate[onBehalfOf], owed, rate, amount) \in Nat
  <2>1. usersStableRate[onBehalfOf] \in Nat BY DEF DebtInv, DebtTypeOK
  <2>2. owed + amount # 0 BY <1>1
  <2> QED BY <1>1, <2>1, <2>2, WeightedRateNat
<1>4. WeightedRate(avgStableRate, TotalDebt, rate, amount) \in Nat
  <2>1. avgStableRate \in Nat BY DEF DebtInv, DebtTypeOK
  <2>2. TotalDebt + amount # 0 BY <1>2
  <2> QED BY <1>2, <2>1, <2>2, WeightedRateNat
<1>5. /\ principal' = [principal EXCEPT ![onBehalfOf] = owed + amount]
      /\ usersStableRate' =
           [usersStableRate EXCEPT ![onBehalfOf] =
              WeightedRate(usersStableRate[onBehalfOf], owed, rate, amount)]
      /\ timestamps' = [timestamps EXCEPT ![onBehalfOf] = now]
      /\ debtSupply' = TotalDebt + amount
      /\ avgStableRate' = WeightedRate(avgStableRate, TotalDebt, rate, amount)
      /\ totalSupplyTimestamp' = now
  BY DEF MintDebt, SupplyAfterMint, StampSupply
<1>6. borrowAllowances' \in [Accounts -> [Accounts -> Nat]]
  <2>1. borrowAllowances \in [Accounts -> [Accounts -> Nat]] BY DEF DebtInv, DebtTypeOK
  <2>2. CASE user = onBehalfOf BY <2>1, <2>2 DEF MintDebt
  <2>3. CASE user # onBehalfOf
    <3>1. DecreaseBorrowAllowance(onBehalfOf, user, amount) BY <2>3 DEF MintDebt
    <3>2. borrowAllowances[onBehalfOf][user] - amount \in Nat
      BY <2>1, <3>1 DEF DecreaseBorrowAllowance
    <3> QED BY <2>1, <3>1, <3>2 DEF DecreaseBorrowAllowance
  <2> QED BY <2>2, <2>3
<1> HIDE DEF owed
<1>7. DebtTypeOK'
  <2>1. owed + amount \in Nat /\ TotalDebt + amount \in Nat BY <1>1, <1>2
  <2>2. principal' \in [Accounts -> Nat] BY <1>5, <2>1 DEF DebtInv, DebtTypeOK
  <2>3. usersStableRate' \in [Accounts -> Nat] BY <1>3, <1>5 DEF DebtInv, DebtTypeOK
  <2>4. timestamps' \in [Accounts -> Nat] BY <1>5 DEF DebtInv, DebtTypeOK
  <2>5. now' \in Nat /\ totalSupplyTimestamp' \in Nat BY <1>5 DEF DebtInv, DebtTypeOK
  <2> QED BY <1>4, <1>5, <1>6, <2>1, <2>2, <2>3, <2>4, <2>5 DEF DebtTypeOK
<1>8. DebtClocksOrdered'
  BY <1>5 DEF DebtInv, DebtTypeOK, DebtClocksOrdered
<1>9. SettledDebtLeavesNoTerms'
  <2>1. owed + amount # 0 BY <1>1
  <2> QED BY <1>1, <1>5, <2>1, EnvironmentAssumption
          DEF DebtInv, DebtTypeOK, SettledDebtLeavesNoTerms
<1>10. NoSupplyNoAverageRate'
  BY <1>2, <1>5 DEF NoSupplyNoAverageRate
<1> QED BY <1>7, <1>8, <1>9, <1>10 DEF DebtInv

\* burn preserves the invariant.
LEMMA BurnPreserves ==
  ASSUME DebtInv, NEW user \in Accounts, NEW amount \in Nat,
         BurnDebt(user, amount), now' = now
  PROVE  DebtInv'
<1> DEFINE owed  == DebtOf(user)
           after == SupplyAfterBurn(user, amount)
<1>1. owed \in Nat BY DebtOfBounds
<1>2. after.supply \in Nat /\ after.rate \in Nat /\ (after.supply = 0 => after.rate = 0)
  BY SupplyAfterBurnBounds
<1>3. /\ amount <= owed
      /\ principal' = [principal EXCEPT ![user] = owed - amount]
      /\ usersStableRate' =
           [usersStableRate EXCEPT ![user] =
              IF amount = owed THEN 0 ELSE usersStableRate[user]]
      /\ timestamps' = [timestamps EXCEPT ![user] = IF amount = owed THEN 0 ELSE now]
      /\ debtSupply' = after.supply
      /\ avgStableRate' = after.rate
      /\ totalSupplyTimestamp' = now
      /\ borrowAllowances' = borrowAllowances
  BY DEF BurnDebt, SettlesDebt, PrincipalAfterBurn, StampSupply
<1> HIDE DEF owed, after
<1>4. owed - amount \in Nat BY <1>1, <1>3
<1>5. DebtTypeOK'
  BY <1>2, <1>3, <1>4 DEF DebtInv, DebtTypeOK
<1>6. DebtClocksOrdered'
  BY <1>3 DEF DebtInv, DebtTypeOK, DebtClocksOrdered
<1>7. SettledDebtLeavesNoTerms'
  BY <1>1, <1>3, EnvironmentAssumption
     DEF DebtInv, DebtTypeOK, SettledDebtLeavesNoTerms
<1>8. NoSupplyNoAverageRate'
  BY <1>2, <1>3 DEF NoSupplyNoAverageRate
<1> QED BY <1>5, <1>6, <1>7, <1>8 DEF DebtInv

\* Every step of the token preserves the invariant.
LEMMA DebtNextPreserves == DebtInv /\ [DebtNext]_<<now, debtVars>> => DebtInv'
<1> SUFFICES ASSUME DebtInv, [DebtNext]_<<now, debtVars>> PROVE DebtInv'
  OBVIOUS
<1>1. CASE UNCHANGED <<now, debtVars>>
  BY <1>1 DEF debtVars, loanVars, DebtInv, DebtTypeOK, DebtClocksOrdered,
              SettledDebtLeavesNoTerms, NoSupplyNoAverageRate
<1>2. CASE Tick /\ UNCHANGED debtVars
  BY <1>2, EnvironmentAssumption
     DEF Tick, debtVars, loanVars, DebtInv, DebtTypeOK, DebtClocksOrdered,
         SettledDebtLeavesNoTerms, NoSupplyNoAverageRate
<1>3. ASSUME NEW user \in Accounts, NEW onBehalfOf \in Accounts,
             NEW amount \in Amounts, NEW rate \in Rates,
             Lend(user, onBehalfOf, amount, rate)
      PROVE  DebtInv'
  BY <1>3, MintPreserves, EnvironmentAssumption DEF Lend
<1>4. ASSUME NEW user \in Accounts, NEW amount \in 1 .. DebtOf(user),
             Settle(user, amount)
      PROVE  DebtInv'
  <2>1. amount \in Nat BY <1>4, DebtOfBounds
  <2> QED BY <1>4, <2>1, BurnPreserves DEF Settle
<1>5. ASSUME NEW delegator \in Accounts, NEW delegatee \in Accounts,
             NEW amount \in Allowances, Delegate(delegator, delegatee, amount)
      PROVE  DebtInv'
  <2>1. amount \in Nat BY EnvironmentAssumption
  <2> QED BY <1>5, <2>1
          DEF Delegate, ApproveDelegation, loanVars, DebtInv, DebtTypeOK,
              DebtClocksOrdered, SettledDebtLeavesNoTerms, NoSupplyNoAverageRate
<1> QED BY <1>1, <1>2, <1>3, <1>4, <1>5 DEF DebtNext

\* The invariant holds in every state.
THEOREM DebtInvariant == DebtSpec => []DebtInv
<1> QED BY DebtInitInv, DebtNextPreserves, PTL DEF DebtSpec

\* The storage of the token keeps its types: no subtraction of mint or burn
\* underflows and no division of theirs is by zero.
THEOREM DebtTypeCorrect == DebtSpec => []DebtTypeOK
<1>1. DebtInv => DebtTypeOK BY DEF DebtInv
<1> QED BY <1>1, DebtInvariant, PTL

\* Interest is never counted backwards.
THEOREM DebtClocksCorrect == DebtSpec => []DebtClocksOrdered
<1>1. DebtInv => DebtClocksOrdered BY DEF DebtInv
<1> QED BY <1>1, DebtInvariant, PTL

\* A repaid account is left without a rate and a timestamp.
THEOREM SettledDebtCorrect == DebtSpec => []SettledDebtLeavesNoTerms
<1>1. DebtInv => SettledDebtLeavesNoTerms BY DEF DebtInv
<1> QED BY <1>1, DebtInvariant, PTL

\* No average rate outlives the supply it belongs to.
THEOREM AverageRateCorrect == DebtSpec => []NoSupplyNoAverageRate
<1>1. DebtInv => NoSupplyNoAverageRate BY DEF DebtInv
<1> QED BY <1>1, DebtInvariant, PTL

(***************************************************************************)
(* What a loan and a repayment move                                        *)
(***************************************************************************)

\* An amount stamped now, or of nothing, carries no interest.
LEMMA NoInterestYet ==
  ASSUME NEW amount \in Nat, NEW rate \in Nat, NEW from \in Nat, NEW to \in Nat,
         from <= to, from = to \/ amount = 0
  PROVE  RayMul(amount, CompoundedInterest(rate, from, to)) = amount
<1> DEFINE c == CompoundedInterest(rate, from, to)
<1>1. c \in Nat /\ (from = to => c = RAY) BY CompoundedInterestBounds
<1> HIDE DEF c
<1>2. RayMul(amount, c) = amount BY <1>1, RayMulOne, RayMulZero
<1> QED BY <1>2 DEF c

\* mint settles the interest of the debtor and of the supply, and adds the
\* amount to both.
LEMMA MintMoves ==
  ASSUME DebtInv, NEW user \in Accounts, NEW onBehalfOf \in Accounts,
         NEW amount \in Nat \ {0}, NEW rate \in Nat,
         MintDebt(user, onBehalfOf, amount, rate), now' = now
  PROVE  /\ DebtOf(onBehalfOf)' = DebtOf(onBehalfOf) + amount
         /\ \A other \in Accounts \ {onBehalfOf} : DebtOf(other)' = DebtOf(other)
         /\ TotalDebt' = TotalDebt + amount
<1>1. DebtInv' BY MintPreserves
<1>2. /\ now' \in Nat /\ principal'[onBehalfOf] \in Nat
      /\ usersStableRate'[onBehalfOf] \in Nat
      /\ debtSupply' \in Nat /\ avgStableRate' \in Nat
  BY <1>1 DEF DebtInv, DebtTypeOK
<1>3. /\ principal'[onBehalfOf] = DebtOf(onBehalfOf) + amount
      /\ timestamps'[onBehalfOf] = now'
  BY DEF MintDebt, DebtInv, DebtTypeOK
<1>4. DebtOf(onBehalfOf)' = principal'[onBehalfOf]
  BY <1>2, <1>3, NoInterestYet DEF DebtOf
<1>5. ASSUME NEW other \in Accounts \ {onBehalfOf}
      PROVE  DebtOf(other)' = DebtOf(other)
  BY DEF DebtOf, MintDebt, DebtInv, DebtTypeOK
<1>6. debtSupply' = TotalDebt + amount /\ totalSupplyTimestamp' = now'
  BY DEF MintDebt, SupplyAfterMint, StampSupply
<1>7. TotalDebt' = debtSupply'
  BY <1>2, <1>6, NoInterestYet DEF TotalDebt, DebtSupplyAt
<1> QED BY <1>3, <1>4, <1>5, <1>6, <1>7

\* burn settles the interest of the debtor and of the supply, and takes the
\* amount off both, or writes the supply off.
LEMMA BurnMoves ==
  ASSUME DebtInv, NEW user \in Accounts, NEW amount \in Nat,
         BurnDebt(user, amount), now' = now
  PROVE  /\ DebtOf(user)' = DebtOf(user) - amount
         /\ \A other \in Accounts \ {user} : DebtOf(other)' = DebtOf(other)
         /\ TotalDebt' = TotalDebt - amount \/ TotalDebt' = 0
<1>1. DebtInv' BY BurnPreserves
<1>2. /\ now' \in Nat /\ principal'[user] \in Nat /\ usersStableRate'[user] \in Nat
      /\ debtSupply' \in Nat /\ avgStableRate' \in Nat
  BY <1>1 DEF DebtInv, DebtTypeOK
<1>3. /\ principal'[user] = DebtOf(user) - amount
      /\ timestamps'[user] = IF amount = DebtOf(user) THEN 0 ELSE now'
  BY DEF BurnDebt, SettlesDebt, PrincipalAfterBurn, DebtInv, DebtTypeOK
<1>4. DebtOf(user) \in Nat BY DebtOfBounds
<1>5. timestamps'[user] = now' \/ principal'[user] = 0 BY <1>3, <1>4
<1>6. timestamps'[user] \in Nat /\ timestamps'[user] <= now'
  BY <1>1 DEF DebtInv, DebtTypeOK, DebtClocksOrdered
<1>7. DebtOf(user)' = principal'[user]
  BY <1>2, <1>5, <1>6, NoInterestYet DEF DebtOf
<1>8. ASSUME NEW other \in Accounts \ {user}
      PROVE  DebtOf(other)' = DebtOf(other)
  BY DEF DebtOf, BurnDebt, DebtInv, DebtTypeOK
<1>9. debtSupply' = SupplyAfterBurn(user, amount).supply /\ totalSupplyTimestamp' = now'
  BY DEF BurnDebt, StampSupply
<1>10. TotalDebt' = debtSupply'
  BY <1>2, <1>9, NoInterestYet DEF TotalDebt, DebtSupplyAt
<1> QED BY <1>3, <1>7, <1>8, <1>9, <1>10, SupplyAfterBurnBounds

\* Within a block a transaction moves one account's debt, and the supply with it.
THEOREM DebtMovesCorrect == DebtSpec => DebtAndSupplyMoveTogether
<1> DEFINE Moved(debtor) == DebtOf(debtor)' - DebtOf(debtor)
           Together(debtor) ==
             Moved(debtor) # 0 =>
               /\ \A other \in Accounts \ {debtor} : DebtOf(other)' = DebtOf(other)
               /\ \/ TotalDebt' = TotalDebt + Moved(debtor)
                  \/ Moved(debtor) < 0 /\ TotalDebt' = 0
<1>1. ASSUME DebtInv, [DebtNext]_<<now, debtVars>>, now' = now,
             NEW debtor \in Accounts
      PROVE  Together(debtor)
  <2>1. \A a \in Accounts : DebtOf(a) \in Nat BY <1>1, DebtOfBounds
  <2>2. TotalDebt \in Nat BY <1>1, TotalDebtBounds
  <2>3. CASE UNCHANGED loanVars
    <3>1. DebtOf(debtor)' = DebtOf(debtor) BY <1>1, <2>3 DEF DebtOf, loanVars
    <3> QED BY <2>1, <3>1
  <2>4. ASSUME NEW user \in Accounts, NEW onBehalfOf \in Accounts,
               NEW amount \in Amounts, NEW rate \in Rates,
               Lend(user, onBehalfOf, amount, rate)
        PROVE  Together(debtor)
    <3>1. amount \in Nat \ {0} /\ rate \in Nat BY <2>4, EnvironmentAssumption DEF Lend
    <3>2. /\ DebtOf(onBehalfOf)' = DebtOf(onBehalfOf) + amount
          /\ \A other \in Accounts \ {onBehalfOf} : DebtOf(other)' = DebtOf(other)
          /\ TotalDebt' = TotalDebt + amount
      BY <1>1, <2>4, <3>1, MintMoves DEF Lend
    <3> QED BY <2>1, <2>2, <3>1, <3>2
  <2>5. ASSUME NEW user \in Accounts, NEW amount \in 1 .. DebtOf(user),
               Settle(user, amount)
        PROVE  Together(debtor)
    <3>1. amount \in Nat \ {0} BY <2>1, <2>5
    <3>2. /\ DebtOf(user)' = DebtOf(user) - amount
          /\ \A other \in Accounts \ {user} : DebtOf(other)' = DebtOf(other)
          /\ TotalDebt' = TotalDebt - amount \/ TotalDebt' = 0
      BY <1>1, <2>5, <3>1, BurnMoves DEF Settle
    <3> QED BY <2>1, <2>2, <3>1, <3>2
  <2> HIDE DEF Together
  <2> QED BY <1>1, <2>3, <2>4, <2>5 DEF DebtNext, Delegate, debtVars
<1>2. DebtInv /\ [DebtNext]_<<now, debtVars>>
        => [now' = now => \A debtor \in Accounts : Together(debtor)]_<<now, debtVars>>
  <2> HIDE DEF Together
  <2> QED BY <1>1
<1>3. DebtInv /\ [DebtNext]_<<now, debtVars>>
        => [now' = now =>
             \A debtor \in Accounts :
               LET moved == DebtOf(debtor)' - DebtOf(debtor)
               IN  moved # 0 =>
                     /\ \A other \in Accounts \ {debtor} : DebtOf(other)' = DebtOf(other)
                     /\ \/ TotalDebt' = TotalDebt + moved
                        \/ moved < 0 /\ TotalDebt' = 0]_<<now, debtVars>>
  BY <1>2
<1> QED BY <1>3, DebtInvariant, PTL DEF DebtSpec, DebtAndSupplyMoveTogether
===============================================================================
