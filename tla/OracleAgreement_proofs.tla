------------------------ MODULE OracleAgreement_proofs ------------------------
(***************************************************************************)
(* The formulas in TypeScript and the contracts, for every scale and curve *)
(* and every state of the pool: the interest they work out is the one the  *)
(* contracts' views show, and so are the rates they read off the curve, up *)
(* to the order of the roundings.                                          *)
(***************************************************************************)
EXTENDS OracleAgreement, LendingPool_proofs

(***************************************************************************)
(* The oracle's arithmetic, on naturals                                    *)
(***************************************************************************)

\* Rounding towards zero is rounding down.
LEMMA DivOfNaturals ==
  ASSUME NEW a \in Nat, NEW b \in Nat \ {0} PROVE div(a, b) = a \div b
BY DEF div, Magnitude

\* The oracle's product of rays is the contracts', whichever factor comes first.
LEMMA OracleRayMul ==
  ASSUME NEW a \in Nat, NEW b \in Nat
  PROVE  rayMul(a, b) = RayMul(a, b) /\ RayMul(a, b) = RayMul(b, a)
<1>1. a * b \in Nat /\ a * b = b * a BY ProductNat
<1>2. HALF_RAY + a * b \in Nat /\ HALF_RAY + a * b = a * b + HALF_RAY BY <1>1, HalfRay
<1>3. rayMul(a, b) = (a * b + HALF_RAY) \div RAY
  BY <1>2, DivOfNaturals, ScaleAssumption DEF rayMul
<1> QED BY <1>1, <1>3 DEF RayMul

\* So is its quotient.
LEMMA OracleRayDiv ==
  ASSUME NEW a \in Nat, NEW b \in Nat \ {0} PROVE rayDiv(a, b) = RayDiv(a, b)
<1>1. div(b, 2) = b \div 2 /\ b \div 2 \in Nat BY DivOfNaturals
<1>2. a * RAY \in Nat BY ProductNat, ScaleAssumption
<1>3. b \div 2 + a * RAY \in Nat /\ b \div 2 + a * RAY = a * RAY + b \div 2
  BY <1>1, <1>2
<1> QED BY <1>1, <1>3, DivOfNaturals DEF rayDiv, RayDiv

\* So is its simple interest.
LEMMA OracleLinearInterest ==
  ASSUME NEW rate \in Nat, NEW from \in Nat, NEW to \in Nat, from <= to
  PROVE  calcLinearInterest(rate, to, from) = LinearInterest(rate, from, to)
<1>1. to - from \in Nat OBVIOUS
<1>2. rate * (to - from) \in Nat BY <1>1, ProductNat
<1> QED BY <1>2, DivOfNaturals, YearAssumption DEF calcLinearInterest, LinearInterest

\* So is its compound interest: for no time at all it returns early, otherwise it
\* adds the same four terms.
LEMMA OracleCompoundedInterest ==
  ASSUME NEW rate \in Nat, NEW from \in Nat, NEW to \in Nat, from <= to
  PROVE  calcCompoundedInterest(rate, to, from) = CompoundedInterest(rate, from, to)
<1>1. CASE from = to
  BY <1>1, CompoundedInterestBounds DEF calcCompoundedInterest
<1>2. CASE from # to
  <2> DEFINE e1 == to - from
             e2 == e1 - 1
             e3 == IF e1 > 2 THEN e1 - 2 ELSE 0
             r  == rate \div SECONDS_PER_YEAR
             r2 == RayMul(r, r)
             r3 == RayMul(r2, r)
  <2>1. e1 \in Nat /\ e1 > 0 /\ e2 \in Nat /\ e3 \in Nat BY <1>2
  <2>2. CompoundedInterest(rate, from, to)
          = RAY + r * e1 + (e1 * e2 * r2) \div 2 + (e1 * e2 * e3 * r3) \div 6
    BY <2>1 DEF CompoundedInterest
  <2>3. div(rate, SECONDS_PER_YEAR) = r /\ r \in Nat
    BY DivOfNaturals, DivNat, YearAssumption
  <2> HIDE DEF r
  <2>4. rayMul(r, r) = r2 /\ r2 \in Nat BY <2>3, OracleRayMul, RayMulNat
  <2> HIDE DEF r2
  <2>5. rayMul(r2, r) = r3 /\ r3 \in Nat BY <2>3, <2>4, OracleRayMul, RayMulNat
  <2> HIDE DEF r3
  <2>6. calcCompoundedInterest(rate, to, from)
          = RAY + r * e1 + div(e1 * e2 * r2, 2) + div(e1 * e2 * e3 * r3, 6)
    BY <2>1, <2>3, <2>4, <2>5 DEF calcCompoundedInterest
  <2> HIDE DEF e1, e2, e3
  <2>7. e1 * e2 \in Nat /\ e1 * e2 * r2 \in Nat /\ e1 * e2 * e3 \in Nat
        /\ e1 * e2 * e3 * r3 \in Nat
    BY <2>1, <2>4, <2>5, ProductNat
  <2>8. div(e1 * e2 * r2, 2) = (e1 * e2 * r2) \div 2
        /\ div(e1 * e2 * e3 * r3, 6) = (e1 * e2 * e3 * r3) \div 6
    BY <2>7, DivOfNaturals
  <2> QED BY <2>2, <2>6, <2>8
<1> QED BY <1>1, <1>2

\* A loan at no rate stays what it was.
LEMMA NoRateNoInterest ==
  ASSUME NEW from \in Nat, NEW to \in Nat, from <= to
  PROVE  CompoundedInterest(0, from, to) = RAY
<1> DEFINE e1 == to - from
           e2 == IF e1 > 0 THEN e1 - 1 ELSE 0
           e3 == IF e1 > 2 THEN e1 - 2 ELSE 0
<1>1. e1 \in Nat /\ e2 \in Nat /\ e3 \in Nat OBVIOUS
<1>2. 0 \div SECONDS_PER_YEAR = 0 BY YearAssumption
<1>3. RayMul(0, 0) = 0 BY RayMulZero
<1>4. CompoundedInterest(0, from, to)
        = RAY + 0 * e1 + (e1 * e2 * 0) \div 2 + (e1 * e2 * e3 * 0) \div 6
  BY <1>2, <1>3 DEF CompoundedInterest
<1> HIDE DEF e2, e3
<1>5. e1 * e2 \in Nat /\ e1 * e2 * e3 \in Nat BY <1>1, ProductNat
<1> HIDE DEF e1
<1>6. 0 * e1 = 0 /\ e1 * e2 * 0 = 0 /\ e1 * e2 * e3 * 0 = 0 BY <1>1, <1>5
<1> QED BY <1>4, <1>6, ScaleAssumption
(***************************************************************************)
(* Interest                                                                *)
(***************************************************************************)

\* What the formulas make of the stored data is what the views show.
LEMMA PoolInvMatches == ASSUME PoolInv PROVE FormulasMatchViews
<1> DEFINE reserve == StoredReserve
           growth == LinearInterest(currentLiquidityRate, lastUpdateTimestamp, now)
           supplied == CompoundedInterest(avgStableRate, totalSupplyTimestamp, now)
<1>1. /\ now \in Nat /\ lastUpdateTimestamp \in Nat /\ totalSupplyTimestamp \in Nat
      /\ lastUpdateTimestamp <= now /\ totalSupplyTimestamp <= now
  BY DEF PoolInv, PoolTypeOK, DebtInv, DebtTypeOK, ReserveClockFollowsDebt
<1>2. /\ liquidityIndex \in Nat /\ debtSupply \in Nat /\ avgStableRate \in Nat
      /\ currentLiquidityRate \in Nat
  BY RatesNat DEF PoolInv, PoolTypeOK, DebtTypeOK
<1>3. growth \in Nat /\ supplied \in Nat
  BY <1>1, <1>2, LinearInterestBounds, CompoundedInterestBounds
<1>4. calcExpectedReserveNormalizedIncome(reserve, now) = NormalizedIncome
  <2>1. calcExpectedReserveNormalizedIncome(reserve, now)
          = IF currentLiquidityRate = 0
              THEN liquidityIndex
              ELSE rayMul(calcLinearInterest(currentLiquidityRate, now,
                                             lastUpdateTimestamp),
                          liquidityIndex)
    BY DEF calcExpectedReserveNormalizedIncome, StoredReserve
  <2>2. calcLinearInterest(currentLiquidityRate, now, lastUpdateTimestamp) = growth
    BY <1>1, <1>2, OracleLinearInterest
  <2>3. Index = IF currentLiquidityRate > 0
                  THEN RayMul(growth, liquidityIndex) ELSE liquidityIndex
    BY DEF Index, IndexAt
  <2> HIDE DEF growth
  <2>4. rayMul(growth, liquidityIndex) = RayMul(growth, liquidityIndex)
    BY <1>2, <1>3, OracleRayMul
  <2> QED BY <1>2, <2>1, <2>2, <2>3, <2>4, ViewIsCommit
<1>5. StableDebtAt(reserve, now) = TotalDebt
  <2>1. StableDebtAt(reserve, now)
          = rayMul(calcCompoundedInterest(avgStableRate, now, totalSupplyTimestamp),
                   debtSupply)
    BY DEF StableDebtAt, calcExpectedTotalStableDebt, StoredReserve
  <2>2. calcCompoundedInterest(avgStableRate, now, totalSupplyTimestamp) = supplied
    BY <1>1, <1>2, OracleCompoundedInterest
  <2>3. TotalDebt = RayMul(debtSupply, supplied) BY DEF TotalDebt, DebtSupplyAt
  <2> HIDE DEF supplied
  <2> QED BY <1>2, <1>3, <2>1, <2>2, <2>3, OracleRayMul
<1>6. ASSUME NEW a \in Accounts
      PROVE  /\ UserStableDebtAt(StoredUser(a, a), now) = DebtOf(a)
             /\ calcExpectedATokenBalance(reserve, StoredUser(a, a), now) = BalanceOf(a)
  <2> DEFINE user == StoredUser(a, a)
             owed == CompoundedInterest(usersStableRate[a], timestamps[a], now)
  <2>1. /\ timestamps[a] \in Nat /\ timestamps[a] <= now
        /\ scaled[a] \in Nat /\ principal[a] \in Nat /\ usersStableRate[a] \in Nat
    BY <1>6 DEF PoolInv, PoolTypeOK, DebtInv, DebtTypeOK, DebtClocksOrdered
  <2>2. owed \in Nat BY <1>1, <2>1, CompoundedInterestBounds
  <2>3. UserStableDebtAt(user, now) = DebtOf(a)
    <3>1. UserStableDebtAt(user, now)
            = IF usersStableRate[a] = 0 \/ now = timestamps[a] \/ timestamps[a] = 0
                THEN principal[a]
                ELSE rayMul(principal[a],
                            calcCompoundedInterest(usersStableRate[a], now, timestamps[a]))
      BY DEF UserStableDebtAt, calcExpectedStableDebtTokenBalance, StoredUser
    <3>2. calcCompoundedInterest(usersStableRate[a], now, timestamps[a]) = owed
      BY <1>1, <2>1, OracleCompoundedInterest
    <3>3. DebtOf(a) = RayMul(principal[a], owed) BY DEF DebtOf
    <3>4. rayMul(principal[a], owed) = RayMul(principal[a], owed)
      BY <2>1, <2>2, OracleRayMul
    <3>5. timestamps[a] = 0 => principal[a] = 0
      BY <1>6, EnvironmentAssumption DEF PoolInv, DebtInv, SettledDebtLeavesNoTerms
    <3>6. usersStableRate[a] = 0 => owed = RAY BY <1>1, <2>1, NoRateNoInterest
    <3>7. now = timestamps[a] => owed = RAY BY <1>1, <2>1, CompoundedInterestBounds
    <3> HIDE DEF owed
    <3> QED BY <2>1, <2>2, <3>1, <3>2, <3>3, <3>4, <3>5, <3>6, <3>7, RayMulOne, RayMulZero
  <2>4. calcExpectedATokenBalance(reserve, user, now) = BalanceOf(a)
    <3>1. NormalizedIncome \in Nat
      BY RatesNat, IndexAtBounds, ViewIsCommit DEF Index
    <3>2. user.scaledATokenBalance = scaled[a] BY DEF StoredUser
    <3> HIDE DEF user
    <3> QED BY <1>4, <2>1, <3>1, <3>2, OracleRayMul
            DEF calcExpectedATokenBalance, BalanceOf
  <2> QED BY <2>3, <2>4
<1> QED BY <1>4, <1>5, <1>6 DEF FormulasMatchViews

\* Whatever history a state has, the formulas make of its data the income, the debts
\* and the balances the contracts' views show: exactly, for any curve, rates and scales.
THEOREM FormulasMatchViewsCorrect == Spec => []FormulasMatchViews
<1>1. Spec => []PoolInv BY PoolInvariant
<1> QED BY <1>1, PoolInvMatches, PTL

(***************************************************************************)
(* The interest rate curve, in the contract and in the oracle              *)
(***************************************************************************)

\* A part of an amount by a ratio, worked out in the contract's order, the product
\* first, and in the oracle's, the quotient first: they differ by what the four
\* roundings may leave.
LEMMA OrderOfRoundings ==
  ASSUME NEW a \in Nat, NEW b \in Nat \ {0}, NEW s \in Nat
  PROVE  LET left  == 2 * (RAY * (b * RayDiv(RayMul(a, s), b)))
             right == 2 * (RAY * (b * RayMul(RayDiv(a, b), s)))
             error == RAY * RAY + 2 * (RAY * b) + b * s
         IN  left <= right + error /\ right <= left + error
<1> DEFINE m == RayMul(a, s)
           x == RayDiv(m, b)
           y == RayDiv(a, b)
           z == RayMul(y, s)
           as == a * s
           ras == RAY * as
           rr == RAY * RAY
           rb == RAY * b
           bs == b * s
           rbx == RAY * (b * x)
           rbz == RAY * (b * z)
<1>1. m \in Nat /\ y \in Nat /\ as \in Nat /\ RAY \in Nat
  BY RayMulNat, RayDivNat, ProductNat, ScaleAssumption
<1>2. x \in Nat /\ z \in Nat BY <1>1, RayMulNat, RayDivNat
<1>3. 2 * (b * x) <= 2 * as + (RAY + b) /\ 2 * as <= 2 * (b * x) + (RAY + b)
  <2>1. 2 * (RAY * m) <= 2 * as + RAY /\ 2 * as <= 2 * (RAY * m) + RAY BY RayMulError
  <2>2. 2 * (b * x) <= 2 * (m * RAY) + b /\ 2 * (m * RAY) <= 2 * (b * x) + b
    BY <1>1, RayDivError
  <2>3. m * RAY = RAY * m /\ RAY * m \in Nat /\ b * x \in Nat BY <1>1, <1>2, ProductNat
  <2> QED BY <2>1, <2>2, <2>3, <1>1
<1>4. /\ ras \in Nat /\ rr \in Nat /\ rb \in Nat /\ bs \in Nat /\ rbx \in Nat /\ rbz \in Nat
      /\ b * x \in Nat /\ b * z \in Nat /\ y * s \in Nat /\ b * y \in Nat /\ a * RAY \in Nat
      /\ RAY * z \in Nat /\ s * (b * y) \in Nat
  BY <1>1, <1>2, ProductNat
<1>5. 2 * rbx <= 2 * ras + (rr + rb) /\ 2 * ras <= 2 * rbx + (rr + rb)
  <2>1. (2 * (b * x)) * RAY <= (2 * as + (RAY + b)) * RAY
        /\ (2 * as) * RAY <= (2 * (b * x) + (RAY + b)) * RAY
    BY <1>1, <1>3, <1>4, ProductMono
  <2>2. \A p \in Nat : /\ (2 * p + (RAY + b)) * RAY = 2 * (RAY * p) + (RAY * RAY + RAY * b)
                       /\ (2 * p) * RAY = 2 * (RAY * p)
    BY <1>1
  <2> QED BY <2>1, <2>2, <1>1, <1>4
<1>6. 2 * (s * (b * y)) <= 2 * ras + bs /\ 2 * ras <= 2 * (s * (b * y)) + bs
  <2>1. 2 * (b * y) <= 2 * (a * RAY) + b /\ 2 * (a * RAY) <= 2 * (b * y) + b BY RayDivError
  <2>2. (2 * (b * y)) * s <= (2 * (a * RAY) + b) * s
        /\ (2 * (a * RAY)) * s <= (2 * (b * y) + b) * s
    BY <1>4, <2>1, ProductMono
  <2>3. \A p \in Nat : (2 * p + b) * s = 2 * (s * p) + b * s /\ (2 * p) * s = 2 * (s * p)
    OBVIOUS
  <2>4. s * (a * RAY) = ras BY <1>1
  <2> QED BY <2>2, <2>3, <2>4, <1>4
<1>7. 2 * rbz <= 2 * (s * (b * y)) + rb /\ 2 * (s * (b * y)) <= 2 * rbz + rb
  <2>1. 2 * (RAY * z) <= 2 * (y * s) + RAY /\ 2 * (y * s) <= 2 * (RAY * z) + RAY
    BY <1>1, RayMulError
  <2>2. (2 * (RAY * z)) * b <= (2 * (y * s) + RAY) * b
        /\ (2 * (y * s)) * b <= (2 * (RAY * z) + RAY) * b
    BY <1>1, <1>4, <2>1, ProductMono
  <2>3. \A p \in Nat : (2 * p + RAY) * b = 2 * (b * p) + RAY * b /\ (2 * p) * b = 2 * (b * p)
    BY <1>1
  <2>4. b * (RAY * z) = rbz BY <1>1, <1>2
  <2>5. b * (y * s) = s * (b * y) BY <1>1
  <2> QED BY <2>2, <2>3, <2>4, <2>5, <1>4
<1> HIDE DEF m, x, y, z, as, ras, rr, rb, bs, rbx, rbz
<1>8. 2 * rbx <= 2 * rbz + (rr + 2 * rb + bs) /\ 2 * rbz <= 2 * rbx + (rr + 2 * rb + bs)
  BY <1>4, <1>5, <1>6, <1>7
<1> QED BY <1>8 DEF m, x, y, z, as, ras, rr, rb, bs, rbx, rbz

\* A curve as the strategy's constructor takes it, whose optimum is neither
\* nothing nor everything.
IsCurve(curve) ==
  /\ curve.optimalUtilizationRate \in 1..(RAY - 1)
  /\ {curve.baseVariableBorrowRate, curve.variableRateSlope1, curve.variableRateSlope2,
      curve.stableRateSlope1, curve.stableRateSlope2} \subseteq Nat

\* What the two orders of rounding may leave between the variable rates, times 2 * RAY * optimum.
VariableError(curve) ==
  RAY * RAY + 2 * (RAY * curve.optimalUtilizationRate)
    + curve.optimalUtilizationRate * curve.variableRateSlope1

Scaled(curve, rate) == 2 * (RAY * (curve.optimalUtilizationRate * rate))

\* Whatever is lent out, the oracle and the strategy find it the same part of the liquidity.
LEMMA UtilizationAgrees ==
  ASSUME NEW liquid \in Nat, NEW stable \in Nat, NEW variable \in Nat
  PROVE  /\ calcExpectedUtilizationRate(stable, variable, liquid + (stable + variable))
              = Utilization(liquid, stable + variable)
         /\ Utilization(liquid, stable + variable) \in Nat
<1>1. CASE stable + variable = 0
  <2>1. stable = 0 /\ variable = 0 BY <1>1
  <2> QED BY <1>1, <2>1 DEF calcExpectedUtilizationRate, Utilization
<1>2. CASE stable + variable # 0
  <2>1. ~(stable = 0 /\ variable = 0) /\ stable + variable \in Nat
        /\ liquid + (stable + variable) \in Nat \ {0}
    BY <1>2
  <2> QED BY <1>2, <2>1, OracleRayDiv, RayDivNat DEF calcExpectedUtilizationRate, Utilization
<1> QED BY <1>1, <1>2

\* The mean rate of the debts is the same at the same variable rate, and any
\* variable rate will do where nobody owes at one.
LEMMA OverallRateAgrees ==
  ASSUME NEW stable \in Nat, NEW variable \in Nat, NEW avg \in Nat,
         NEW r1 \in Nat, NEW r2 \in Nat, r1 = r2 \/ variable = 0
  PROVE  /\ calcExpectedOverallBorrowRate(stable, variable, r1, avg)
              = OverallBorrowRate(stable, variable, r2, avg)
         /\ OverallBorrowRate(stable, variable, r2, avg) \in Nat
<1> DEFINE v == WadToRay(variable)
           d == WadToRay(stable)
           t == WadToRay(stable + variable)
<1>1. CASE stable + variable = 0
  BY <1>1 DEF calcExpectedOverallBorrowRate, OverallBorrowRate
<1>2. CASE stable + variable # 0
  <2>1. /\ wadToRay(variable) = v /\ wadToRay(stable) = d /\ wadToRay(stable + variable) = t
        /\ stable + variable \in Nat
    BY DEF wadToRay, WadToRay
  <2>2. v \in Nat /\ d \in Nat /\ t \in Nat BY <2>1, WadToRayNat
  <2>3. t # 0
    <3>1. 1 * WAD_RAY_RATIO <= t BY <1>2, ProductMono, ScaleAssumption DEF WadToRay
    <3> QED BY <3>1, <2>2, ScaleAssumption
  <2>4. variable = 0 => v = 0 BY ScaleAssumption DEF WadToRay
  <2> HIDE DEF v, d, t
  <2>5. rayMul(v, r1) = RayMul(v, r2) /\ RayMul(v, r2) \in Nat
    <3>1. rayMul(v, r1) = RayMul(v, r1) /\ RayMul(v, r2) \in Nat
      BY <2>2, OracleRayMul, RayMulNat
    <3>2. CASE r1 = r2 BY <3>1, <3>2
    <3>3. CASE v = 0 BY <3>1, <3>3, RayMulZero
    <3> QED BY <3>2, <3>3, <2>4
  <2>6. rayMul(d, avg) = RayMul(d, avg) /\ RayMul(d, avg) \in Nat
    BY <2>2, OracleRayMul, RayMulNat
  <2>7. RayMul(v, r2) + RayMul(d, avg) \in Nat BY <2>5, <2>6
  <2>8. rayDiv(RayMul(v, r2) + RayMul(d, avg), t) = RayDiv(RayMul(v, r2) + RayMul(d, avg), t)
        /\ RayDiv(RayMul(v, r2) + RayMul(d, avg), t) \in Nat
    BY <2>2, <2>3, <2>7, OracleRayDiv, RayDivNat
  <2>9. calcExpectedOverallBorrowRate(stable, variable, r1, avg)
          = rayDiv(RayMul(v, r2) + RayMul(d, avg), t)
    BY <1>2, <2>1, <2>5, <2>6 DEF calcExpectedOverallBorrowRate
  <2>10. OverallBorrowRate(stable, variable, r2, avg)
           = RayDiv(RayMul(v, r2) + RayMul(d, avg), t)
    BY <1>2 DEF OverallBorrowRate, v, d, t
  <2> QED BY <2>8, <2>9, <2>10
<1> QED BY <1>1, <1>2

\* The share of the depositors, the reserve factor taken off.
LEMMA OraclePercentMul ==
  ASSUME NEW a \in Nat, NEW b \in Nat PROVE percentMul(a, b) = PercentMul(a, b)
<1>1. HALF_PERCENT \in Nat BY ScaleAssumption DEF HALF_PERCENT
<1>2. a * b \in Nat BY ProductNat
<1>3. HALF_PERCENT + a * b \in Nat /\ HALF_PERCENT + a * b = a * b + HALF_PERCENT
  BY <1>1, <1>2
<1> QED BY <1>3, DivOfNaturals, ScaleAssumption DEF percentMul, PercentMul

\* The oracle's copy of the interest rate curve is the contract's, for every
\* curve, debt and liquidity: the stable rate always, every rate above the optimum, and
\* what depositors earn where nobody owes at the variable rate, at which this pool does
\* not lend. Up to the optimum the copy multiplies what the contract
\* divides first, and the variable rates differ by the roundings alone.
THEOREM CurvesAgree ==
  ASSUME NEW curve, IsCurve(curve), NEW market \in Nat, NEW liquid \in Nat,
         NEW stable \in Nat, NEW variable \in Nat, NEW avg \in Nat,
         NEW factor \in 0..PERCENTAGE_FACTOR
  PROVE  LET used     == calcExpectedUtilizationRate(stable, variable, liquid + (stable + variable))
             onChain  == CalculateInterestRates(curve, market, liquid, stable, variable, avg, factor)
             expected == calcExpectedInterestRates(curve, factor, market, used,
                                                   stable, variable, avg)
             above    == used > curve.optimalUtilizationRate
             chain    == Scaled(curve, onChain.variableBorrowRate)
             copy     == Scaled(curve, expected.variableBorrowRate)
         IN  /\ expected.stableBorrowRate = onChain.stableBorrowRate
             /\ above => expected = onChain
             /\ variable = 0 => expected.liquidityRate = onChain.liquidityRate
             /\ chain <= copy + VariableError(curve) /\ copy <= chain + VariableError(curve)
<1> DEFINE o == curve.optimalUtilizationRate
           base == curve.baseVariableBorrowRate
           v1 == curve.variableRateSlope1
           v2 == curve.variableRateSlope2
           s1 == curve.stableRateSlope1
           s2 == curve.stableRateSlope2
           used == Utilization(liquid, stable + variable)
           excess == RayDiv(used - o, RAY - o)
           part == RayDiv(used, o)
           onStable == market + (IF used > o THEN s1 + RayMul(s2, excess) ELSE RayMul(s1, part))
           onVariable == base + (IF used > o THEN v1 + RayMul(v2, excess)
                                             ELSE RayDiv(RayMul(used, v1), o))
           copyVariable == IF used > o THEN base + v1 + RayMul(v2, excess)
                                       ELSE base + RayMul(part, v1)
           onOverall == OverallBorrowRate(stable, variable, onVariable, avg)
           copyOverall == calcExpectedOverallBorrowRate(stable, variable, copyVariable, avg)
           onChain == CalculateInterestRates(curve, market, liquid, stable, variable, avg, factor)
           expected == calcExpectedInterestRates(curve, factor, market, used,
                                                 stable, variable, avg)
<1>1. /\ o \in Nat \ {0} /\ RAY - o \in Nat \ {0} /\ base \in Nat
      /\ v1 \in Nat /\ v2 \in Nat /\ s1 \in Nat /\ s2 \in Nat
  BY ScaleAssumption DEF IsCurve
<1>2. used \in Nat
      /\ calcExpectedUtilizationRate(stable, variable, liquid + (stable + variable)) = used
  BY UtilizationAgrees
<1>3. part \in Nat /\ rayDiv(used, o) = part BY <1>1, <1>2, OracleRayDiv, RayDivNat
<1>4. used > o => excess \in Nat /\ rayDiv(used - o, RAY - o) = excess
  <2>1. used > o => used - o \in Nat BY <1>1, <1>2
  <2> QED BY <1>1, <2>1, OracleRayDiv, RayDivNat
<1>5. onChain = [liquidityRate |-> PercentMul(RayMul(onOverall, used), PERCENTAGE_FACTOR - factor),
                 stableBorrowRate |-> onStable, variableBorrowRate |-> onVariable]
  BY DEF CalculateInterestRates, ExcessRate
<1>6. expected.stableBorrowRate
        = IF used > o THEN market + s1 + rayMul(s2, rayDiv(used - o, RAY - o))
                      ELSE market + rayMul(s1, rayDiv(used, o))
  BY DEF calcExpectedInterestRates
<1>7. expected.variableBorrowRate
        = IF used > o THEN base + v1 + rayMul(v2, rayDiv(used - o, RAY - o))
                      ELSE base + rayMul(rayDiv(used, o), v1)
  BY DEF calcExpectedInterestRates
<1>8. expected = [liquidityRate |-> percentMul(rayMul(calcExpectedOverallBorrowRate(stable, variable,
                                                         expected.variableBorrowRate, avg), used),
                                               PERCENTAGE_FACTOR - factor),
                  stableBorrowRate |-> expected.stableBorrowRate,
                  variableBorrowRate |-> expected.variableBorrowRate]
  BY DEF calcExpectedInterestRates
<1> HIDE DEF o, base, v1, v2, s1, s2, used, excess, part, onChain, expected
<1>9. expected.stableBorrowRate = onStable
  <2>1. CASE used > o
    <3>1. rayMul(s2, excess) = RayMul(s2, excess) /\ RayMul(s2, excess) \in Nat
      BY <1>1, <1>4, <2>1, OracleRayMul, RayMulNat
    <3> QED BY <1>1, <1>4, <1>6, <2>1, <3>1
  <2>2. CASE ~(used > o)
    BY <1>1, <1>3, <1>6, <2>2, OracleRayMul, RayMulNat
  <2> QED BY <2>1, <2>2
<1>10. /\ expected.variableBorrowRate = copyVariable /\ copyVariable \in Nat
       /\ onVariable \in Nat /\ (used > o => copyVariable = onVariable)
  <2>1. CASE used > o
    <3>1. rayMul(v2, excess) = RayMul(v2, excess) /\ RayMul(v2, excess) \in Nat
      BY <1>1, <1>4, <2>1, OracleRayMul, RayMulNat
    <3> QED BY <1>1, <1>4, <1>7, <2>1, <3>1
  <2>2. CASE ~(used > o)
    <3>1. rayMul(part, v1) = RayMul(part, v1) /\ RayMul(part, v1) \in Nat
      BY <1>1, <1>3, OracleRayMul, RayMulNat
    <3>2. RayDiv(RayMul(used, v1), o) \in Nat BY <1>1, <1>2, RayMulNat, RayDivNat
    <3> QED BY <1>1, <1>3, <1>7, <2>2, <3>1, <3>2
  <2> QED BY <2>1, <2>2
<1>11. used > o \/ variable = 0 => expected.liquidityRate = onChain.liquidityRate
  <2>1. SUFFICES ASSUME used > o \/ variable = 0
                 PROVE  expected.liquidityRate = onChain.liquidityRate
    OBVIOUS
  <2>2. copyOverall = onOverall /\ onOverall \in Nat
    <3> HIDE DEF copyVariable, onVariable
    <3>1. copyVariable = onVariable \/ variable = 0 BY <1>10, <2>1
    <3>2. copyVariable \in Nat /\ onVariable \in Nat BY <1>10
    <3>3. OverallBorrowRate(stable, variable, onVariable, avg) \in Nat
      BY <3>2, OverallRateAgrees
    <3>4. calcExpectedOverallBorrowRate(stable, variable, copyVariable, avg)
            = OverallBorrowRate(stable, variable, onVariable, avg)
      BY <3>1, <3>2, OverallRateAgrees
    <3> QED BY <3>3, <3>4
  <2>3. rayMul(onOverall, used) = RayMul(onOverall, used) /\ RayMul(onOverall, used) \in Nat
    BY <1>2, <2>2, OracleRayMul, RayMulNat
  <2>4. PERCENTAGE_FACTOR - factor \in Nat BY ScaleAssumption
  <2>5. percentMul(RayMul(onOverall, used), PERCENTAGE_FACTOR - factor)
          = PercentMul(RayMul(onOverall, used), PERCENTAGE_FACTOR - factor)
    BY <2>3, <2>4, OraclePercentMul
  <2>6. expected.liquidityRate
          = percentMul(rayMul(copyOverall, used), PERCENTAGE_FACTOR - factor)
    BY <1>8, <1>10
  <2> QED BY <1>5, <2>2, <2>3, <2>5, <2>6
<1>12. used > o => expected = onChain
  <2>1. /\ expected = [liquidityRate |-> expected.liquidityRate,
                       stableBorrowRate |-> expected.stableBorrowRate,
                       variableBorrowRate |-> expected.variableBorrowRate]
        /\ onChain = [liquidityRate |-> onChain.liquidityRate,
                      stableBorrowRate |-> onChain.stableBorrowRate,
                      variableBorrowRate |-> onChain.variableBorrowRate]
    BY DEF expected, onChain, calcExpectedInterestRates, CalculateInterestRates
  <2>2. onChain.stableBorrowRate = onStable /\ onChain.variableBorrowRate = onVariable BY <1>5
  <2> HIDE DEF onStable, onVariable, copyVariable
  <2> QED BY <1>9, <1>10, <1>11, <2>1, <2>2
<1>13. Scaled(curve, onVariable) <= Scaled(curve, copyVariable) + VariableError(curve)
       /\ Scaled(curve, copyVariable) <= Scaled(curve, onVariable) + VariableError(curve)
  <2> DEFINE error == RAY * RAY + 2 * (RAY * o) + o * v1
  <2>1. RAY \in Nat /\ error \in Nat BY <1>1, ScaleAssumption, ProductNat
  <2>2. CASE used > o
    <3>1. copyVariable = onVariable BY <1>10, <2>2
    <3>2. 2 * (RAY * (o * onVariable)) \in Nat BY <1>1, <1>10, <2>1, ProductNat
    <3> HIDE DEF onVariable, copyVariable, error
    <3> QED BY <2>1, <3>1, <3>2 DEF Scaled, VariableError, o, v1, error
  <2>3. CASE ~(used > o)
    <3> DEFINE x == RayDiv(RayMul(used, v1), o)
               z == RayMul(part, v1)
               ob == RAY * (o * base)
               ox == RAY * (o * x)
               oz == RAY * (o * z)
    <3>1. onVariable = base + x /\ copyVariable = base + z BY <2>3
    <3>2. x \in Nat /\ z \in Nat BY <1>1, <1>2, <1>3, RayMulNat, RayDivNat
    <3>3. 2 * ox <= 2 * oz + error /\ 2 * oz <= 2 * ox + error
      BY <1>1, <1>2, OrderOfRoundings DEF part
    <3>4. ob \in Nat /\ ox \in Nat /\ oz \in Nat BY <1>1, <2>1, <3>2, ProductNat
    <3> HIDE DEF x, z, onVariable, copyVariable, error
    <3>5. RAY * (o * (base + x)) = ob + ox /\ RAY * (o * (base + z)) = ob + oz
      BY <1>1, <2>1, <3>2
    <3>6. 2 * (RAY * (o * onVariable)) = 2 * ob + 2 * ox
          /\ 2 * (RAY * (o * copyVariable)) = 2 * ob + 2 * oz
      BY <3>1, <3>4, <3>5
    <3> HIDE DEF ob, ox, oz
    <3>7. 2 * ob + 2 * ox <= 2 * ob + 2 * oz + error /\ 2 * ob + 2 * oz <= 2 * ob + 2 * ox + error
      BY <2>1, <3>3, <3>4
    <3> QED BY <3>6, <3>7 DEF Scaled, VariableError, o, v1, error
  <2> QED BY <2>2, <2>3
<1> HIDE DEF onStable, onVariable, copyVariable, onOverall, copyOverall
<1>14. onChain.stableBorrowRate = onStable /\ onChain.variableBorrowRate = onVariable BY <1>5
<1> QED BY <1>2, <1>9, <1>10, <1>11, <1>12, <1>13, <1>14 DEF o, used, onChain, expected
===============================================================================
