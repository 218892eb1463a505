------------------------ MODULE LendingPoolLedgers_proofs ------------------------
(***************************************************************************)
(* What the reserve's ledgers add up to, for every finite set of accounts, *)
(* every scale, rate and amount: totals are the sums of the balances, the  *)
(* underlying is neither made nor lost, and no transaction makes or loses  *)
(* money but by rounding.                                                  *)
(*                                                                         *)
(* Every step is first reduced to what it does to each ledger (ShareStep,  *)
(* CapitalStep, AssetStep); there are few such effects, and each has one   *)
(* lemma about the sums.                                                   *)
(***************************************************************************)
EXTENDS LendingPool_proofs, SumFunction_proofs

LedgerInv == PoolInv /\ LedgersBalanced

(***************************************************************************)
(* Sums of ledgers                                                         *)
(***************************************************************************)

\* A credit adds its amount to the sum of a ledger.
LEMMA CreditSum ==
  ASSUME NEW S, IsFiniteSet(S), NEW f \in [S -> Nat], NEW a \in S, NEW n \in Nat
  PROVE  SumFunction(Credit(f, a, n)) = SumFunction(f) + n
<1>1. /\ Credit(f, a, n) \in [S -> Nat] /\ Credit(f, a, n)[a] = f[a] + n
      /\ \A b \in S \ {a} : Credit(f, a, n)[b] = f[b]
  BY CreditNat
<1>2. f \in [S -> Int] /\ Credit(f, a, n) \in [S -> Int] BY <1>1
<1>3. SumFunction(Credit(f, a, n)) = SumFunction(f) + (Credit(f, a, n)[a] - f[a])
  BY <1>1, <1>2, SumChange
<1>4. f[a] \in Nat OBVIOUS
<1> QED BY <1>1, <1>3, <1>4

\* A debit covered by the balance takes its amount off the sum.
LEMMA DebitSum ==
  ASSUME NEW S, IsFiniteSet(S), NEW f \in [S -> Nat], NEW a \in S, NEW n \in Nat, n <= f[a]
  PROVE  SumFunction(Debit(f, a, n)) = SumFunction(f) - n
<1>1. /\ Debit(f, a, n) \in [S -> Nat] /\ Debit(f, a, n)[a] = f[a] - n
      /\ \A b \in S \ {a} : Debit(f, a, n)[b] = f[b]
  BY DebitNat
<1>2. f \in [S -> Int] /\ Debit(f, a, n) \in [S -> Int] BY <1>1
<1>3. SumFunction(Debit(f, a, n)) = SumFunction(f) + (Debit(f, a, n)[a] - f[a])
  BY <1>1, <1>2, SumChange
<1>4. f[a] \in Nat /\ SumFunction(f) \in Int BY <1>2, SumInt
<1> QED BY <1>1, <1>3, <1>4

\* A transfer covered by the sender's balance keeps the sum, also to oneself.
LEMMA MoveSum ==
  ASSUME NEW S, IsFiniteSet(S), NEW f \in [S -> Nat], NEW a \in S, NEW b \in S,
         NEW n \in Nat, n <= f[a]
  PROVE  SumFunction(Move(f, a, b, n)) = SumFunction(f)
<1>1. Debit(f, a, n) \in [S -> Nat] BY DebitNat
<1>2. SumFunction(Debit(f, a, n)) = SumFunction(f) - n BY DebitSum
<1>3. SumFunction(Move(f, a, b, n)) = SumFunction(Debit(f, a, n)) + n
  BY <1>1, CreditSum DEF Move
<1>4. SumFunction(f) \in Nat BY SumNat
<1> QED BY <1>2, <1>3, <1>4

(***************************************************************************)
(* What a step does to each ledger                                         *)
(***************************************************************************)

\* The amount a withdrawal pays is a natural, whether it is named or stands for
\* the whole balance.
LEMMA WithdrawnNat ==
  ASSUME PoolInv, NEW a \in Accounts, NEW amount \in Amounts \cup {MaxUint256}
  PROVE  (IF amount = MaxUint256 THEN BalanceOf(a) ELSE amount) \in Nat
<1>1. Index \in Nat BY RatesNat, IndexAtBounds DEF Index
<1>2. scaled[a] \in Nat BY DEF PoolInv, PoolTypeOK
<1>3. BalanceOf(a) \in Nat BY <1>1, <1>2, ViewIsCommit, RayMulNat DEF BalanceOf
<1> QED BY <1>3, EnvironmentAssumption, PoolAssumption

\* So is the interest a withdrawal of interest pays.
LEMMA InterestNat ==
  ASSUME PoolInv, NEW a \in Accounts, NEW b \in Accounts, WithdrawInterest(a, b)
  PROVE  AvailableInterest(a) \in Nat
<1>1. Index \in Nat \ {0} BY RatesNat, IndexAtBounds DEF Index
<1>2. AccruedScaled(Index)[a] \in Nat BY <1>1, AccruedNat
<1>3. RayMul(AccruedScaled(Index)[a], Index) \in Nat BY <1>1, <1>2, RayMulNat
<1>4. capital[a] \in Nat BY DEF PoolInv, PoolTypeOK
<1>5. AvailableInterest(a) >= 0 BY DEF WithdrawInterest
<1> QED BY <1>3, <1>4, <1>5 DEF AvailableInterest

\* So is what a repayment takes.
LEMMA PaybackNat ==
  ASSUME PoolInv, NEW b \in Accounts, NEW amount \in Amounts \cup {MaxUint256}
  PROVE  (IF amount < DebtOf(b) THEN amount ELSE DebtOf(b)) \in Nat
<1>1. DebtOf(b) \in Nat BY DebtOfBounds DEF PoolInv
<1> QED BY <1>1, EnvironmentAssumption, PoolAssumption

\* The aToken's shares are left alone, accrued to the treasury, and then minted
\* or burned for one account, or moved between two.
ShareStep ==
  \/ UNCHANGED aTokenVars
  \/ \E rate \in Nat : AccrueToTreasury(IndexAt(rate))
  \/ \E user \in Accounts, amount \in Nat : MintShare(user, amount)
  \/ \E user, to \in Accounts, amount \in Nat : Redeem(user, to, amount)
  \/ \E from, to \in Accounts, share \in Nat :
       /\ share <= scaled[from]
       /\ scaled' = Move(scaled, from, to, share)
       /\ UNCHANGED scaledSupply

\* Capital is left alone, minted or burned for one account, or moved.
CapitalStep ==
  \/ UNCHANGED pTokenVars
  \/ \E user \in Accounts, amount \in Nat : MintCapital(user, amount)
  \/ \E user \in Accounts, amount \in Nat : BurnCapital(user, amount)
  \/ \E from, to \in Accounts, amount \in Nat :
       /\ amount <= capital[from]
       /\ capital' = Move(capital, from, to, amount)
       /\ UNCHANGED capitalSupply

\* The underlying is left alone or moves between an account and the aToken.
AssetStep ==
  \/ UNCHANGED assetVars
  \/ \E user \in Accounts, amount \in Nat : PayIn(user, amount) \/ PayOut(user, amount)

\* There are no other steps.
LEMMA LedgerSteps ==
  ASSUME PoolInv, [Next]_vars PROVE ShareStep /\ CapitalStep /\ AssetStep
<1> DEFINE Steps == ShareStep /\ CapitalStep /\ AssetStep
<1>1. Amounts \subseteq Nat /\ TransferAmounts \subseteq Nat /\ currentLiquidityRate \in Nat
  BY EnvironmentAssumption, PoolAssumption, RatesNat
<1>2. ASSUME UNCHANGED vars PROVE Steps
  BY <1>2 DEF vars, aTokenVars, pTokenVars, assetVars, ShareStep, CapitalStep, AssetStep
<1>3. ASSUME \/ AdvanceTime
             \/ \E configuration \in Configurations : SetConfiguration(configuration)
             \/ \E val \in PauseValues : SetPause(val)
      PROVE  Steps
  BY <1>3 DEF AdvanceTime, SetConfiguration, SetPause,
              ShareStep, CapitalStep, AssetStep
<1>4. ASSUME NEW a \in Accounts, NEW b \in Accounts, NEW amount \in Amounts,
             Deposit(a, b, amount)
      PROVE  Steps
  <2>1. amount \in Nat BY <1>1
  <2> QED BY <1>4, <2>1 DEF Deposit, ShareStep, CapitalStep, AssetStep
<1>5. ASSUME NEW a \in Accounts, NEW b \in Accounts, NEW amount \in Amounts,
             Borrow(a, b, amount)
      PROVE  Steps
  <2>1. amount \in Nat BY <1>1
  <2> QED BY <1>1, <1>5, <2>1 DEF Borrow, Index, ShareStep, CapitalStep, AssetStep
<1>6. ASSUME NEW a \in Accounts, NEW b \in Accounts, NEW amount \in TransferAmounts,
             TransferAToken(a, b, amount)
      PROVE  Steps
  <2>1. amount \in Nat BY <1>1
  <2>2. NormalizedIncome \in Nat \ {0} BY ViewIsCommit, RatesNat, IndexAtBounds DEF Index
  <2>3. RayDiv(amount, NormalizedIncome) \in Nat BY <2>1, <2>2, RayDivNat
  <2> QED BY <1>6, <2>1, <2>3 DEF TransferAToken, ShareStep, CapitalStep, AssetStep
<1>7. ASSUME NEW a \in Accounts, NEW b \in Accounts, NEW amount \in TransferAmounts,
             TransferPToken(a, b, amount)
      PROVE  Steps
  <2>1. amount \in Nat BY <1>1
  <2> QED BY <1>7, <2>1 DEF TransferPToken, ShareStep, CapitalStep, AssetStep
<1>8. ASSUME NEW a \in Accounts, NEW b \in Accounts,
             NEW amount \in Amounts \cup {MaxUint256}, Withdraw(a, b, amount)
      PROVE  Steps
  <2> DEFINE paid == IF amount = MaxUint256 THEN BalanceOf(a) ELSE amount
  <2>1. paid \in Nat BY WithdrawnNat
  <2>2. Redeem(a, b, paid) /\ BurnCapital(a, RedeemedCapital(a, paid))
    BY <1>8 DEF Withdraw
  <2> HIDE DEF paid
  <2>3. RedeemedCapital(a, paid) \in Nat
    BY <2>1 DEF RedeemedCapital, PoolInv, PoolTypeOK
  <2>4. ShareStep BY <2>1, <2>2 DEF ShareStep
  <2>5. CapitalStep BY <2>2, <2>3 DEF CapitalStep
  <2>6. PayOut(b, paid) BY <2>2 DEF Redeem
  <2>7. AssetStep BY <2>1, <2>6 DEF AssetStep
  <2> QED BY <2>4, <2>5, <2>7
<1>9. ASSUME NEW a \in Accounts, NEW b \in Accounts,
             NEW amount \in Amounts \cup {MaxUint256}, Repay(a, b, amount)
      PROVE  Steps
  <2> DEFINE payback == IF amount < DebtOf(b) THEN amount ELSE DebtOf(b)
  <2>1. payback \in Nat BY PaybackNat
  <2>2. PayIn(a, payback) /\ AccrueToTreasury(Index) /\ UNCHANGED pTokenVars
    BY <1>9 DEF Repay
  <2> HIDE DEF payback
  <2> QED BY <1>1, <2>1, <2>2 DEF Index, ShareStep, CapitalStep, AssetStep
<1>10. ASSUME NEW a \in Accounts, NEW b \in Accounts, WithdrawInterest(a, b)
       PROVE  Steps
  <2>1. AvailableInterest(a) \in Nat BY <1>10, InterestNat
  <2>2. Redeem(a, b, AvailableInterest(a)) /\ UNCHANGED pTokenVars
    BY <1>10 DEF WithdrawInterest
  <2>3. ShareStep BY <2>1, <2>2 DEF ShareStep
  <2>4. PayOut(b, AvailableInterest(a)) BY <2>2 DEF Redeem
  <2> QED BY <2>1, <2>2, <2>3, <2>4 DEF CapitalStep, AssetStep
<1>11. ASSUME NEW depositRate \in DepositRates, NEW borrowRate \in Rates,
              UpdateInterestRates(depositRate, borrowRate)
       PROVE  Steps
  <2>1. depositRate \in Nat BY PoolAssumption
  <2> QED BY <1>11, <2>1 DEF UpdateInterestRates, ShareStep, CapitalStep, AssetStep
<1>12. ASSUME NEW borrower \in Borrowers, UpdateProjectBorrower(borrower)
       PROVE  Steps
  BY <1>1, <1>12 DEF UpdateProjectBorrower, Index, ShareStep, CapitalStep, AssetStep
<1>13. ASSUME NEW a \in Accounts, NEW b \in Accounts, NEW amount \in Allowances,
              DelegateCredit(a, b, amount)
       PROVE  Steps
  BY <1>13 DEF DelegateCredit, ShareStep, CapitalStep, AssetStep
<1> HIDE DEF Steps
<1>14. Steps
  BY <1>2, <1>3, <1>4, <1>5, <1>6, <1>7, <1>8, <1>9, <1>10, <1>11, <1>12,
     <1>13 DEF Next
<1> QED BY <1>14 DEF Steps

(***************************************************************************)
(* Totals                                                                  *)
(***************************************************************************)

\* updateState mints the same shares to the treasury and to the supply.
LEMMA AccrualBalanced ==
  ASSUME LedgerInv, NEW rate \in Nat
  PROVE  AccruedSupply(IndexAt(rate)) = SumFunction(AccruedScaled(IndexAt(rate)))
<1>1. TreasuryShare(IndexAt(rate)) \in Nat BY IndexAtBounds, AccruedNat DEF LedgerInv
<1>2. scaled \in [Accounts -> Nat] BY DEF LedgerInv, PoolInv, PoolTypeOK
<1>3. scaledSupply = SumFunction(scaled)
  BY DEF LedgerInv, LedgersBalanced, SharesBalanced
<1> QED BY <1>1, <1>2, <1>3, PoolAssumption, CreditSum DEF AccruedSupply, AccruedScaled

\* The aToken's total stays the sum of the shares.
LEMMA SharesStayBalanced ==
  ASSUME LedgerInv, ShareStep PROVE SharesBalanced'
<1>1. PoolInv /\ SharesBalanced BY DEF LedgerInv, LedgersBalanced
<1>2. scaled \in [Accounts -> Nat] /\ IsFiniteSet(Accounts)
  BY <1>1, PoolAssumption DEF PoolInv, PoolTypeOK
<1>3. CASE UNCHANGED aTokenVars BY <1>1, <1>3 DEF SharesBalanced, aTokenVars
<1>4. ASSUME NEW rate \in Nat, AccrueToTreasury(IndexAt(rate)) PROVE SharesBalanced'
  BY <1>4, AccrualBalanced DEF AccrueToTreasury, SharesBalanced
<1> DEFINE S == AccruedScaled(Index)
<1>5. Index \in Nat \ {0} /\ S \in [Accounts -> Nat] /\ AccruedSupply(Index) = SumFunction(S)
  <2>1. currentLiquidityRate \in Nat BY <1>1, RatesNat
  <2> QED BY <1>1, <2>1, IndexAtBounds, AccruedNat, AccrualBalanced DEF Index
<1> HIDE DEF S
<1>6. ASSUME NEW user \in Accounts, NEW amount \in Nat, MintShare(user, amount)
      PROVE  SharesBalanced'
  <2>1. RayDiv(amount, Index) \in Nat BY <1>5, RayDivNat
  <2>2. /\ scaled' = Credit(S, user, RayDiv(amount, Index))
        /\ scaledSupply' = AccruedSupply(Index) + RayDiv(amount, Index)
    BY <1>6 DEF MintShare, S
  <2> QED BY <1>2, <1>5, <2>1, <2>2, CreditSum DEF SharesBalanced
<1>7. ASSUME NEW user \in Accounts, NEW to \in Accounts, NEW amount \in Nat,
             Redeem(user, to, amount)
      PROVE  SharesBalanced'
  <2>1. RayDiv(amount, Index) \in Nat BY <1>5, RayDivNat
  <2>2. /\ RayDiv(amount, Index) <= S[user]
        /\ scaled' = Debit(S, user, RayDiv(amount, Index))
        /\ scaledSupply' = AccruedSupply(Index) - RayDiv(amount, Index)
    BY <1>7 DEF Redeem, S
  <2> QED BY <1>2, <1>5, <2>1, <2>2, DebitSum DEF SharesBalanced
<1>8. ASSUME NEW from \in Accounts, NEW to \in Accounts, NEW share \in Nat,
             share <= scaled[from], scaled' = Move(scaled, from, to, share),
             UNCHANGED scaledSupply
      PROVE  SharesBalanced'
  BY <1>1, <1>2, <1>8, MoveSum DEF SharesBalanced
<1> QED BY <1>3, <1>4, <1>6, <1>7, <1>8 DEF ShareStep

\* The pToken's total stays the sum of the capital.
LEMMA CapitalStaysBalanced ==
  ASSUME LedgerInv, CapitalStep PROVE CapitalBalanced'
<1>1. PoolInv /\ CapitalBalanced BY DEF LedgerInv, LedgersBalanced
<1>2. capital \in [Accounts -> Nat] /\ IsFiniteSet(Accounts)
  BY <1>1, PoolAssumption DEF PoolInv, PoolTypeOK
<1>3. CASE UNCHANGED pTokenVars BY <1>1, <1>3 DEF CapitalBalanced, pTokenVars
<1>4. ASSUME NEW user \in Accounts, NEW amount \in Nat, MintCapital(user, amount)
      PROVE  CapitalBalanced'
  BY <1>1, <1>2, <1>4, CreditSum DEF MintCapital, CapitalBalanced
<1>5. ASSUME NEW user \in Accounts, NEW amount \in Nat, BurnCapital(user, amount)
      PROVE  CapitalBalanced'
  BY <1>1, <1>2, <1>5, DebitSum DEF BurnCapital, CapitalBalanced
<1>6. ASSUME NEW from \in Accounts, NEW to \in Accounts, NEW amount \in Nat,
             amount <= capital[from], capital' = Move(capital, from, to, amount),
             UNCHANGED capitalSupply
      PROVE  CapitalBalanced'
  BY <1>1, <1>2, <1>6, MoveSum DEF CapitalBalanced
<1> QED BY <1>3, <1>4, <1>5, <1>6 DEF CapitalStep

\* What the accounts and the aToken hold of the underlying stays what there was.
LEMMA UnderlyingStaysConserved ==
  ASSUME LedgerInv, AssetStep PROVE UnderlyingConserved'
<1>1. PoolInv /\ UnderlyingConserved BY DEF LedgerInv, LedgersBalanced
<1>2. cash \in Nat /\ wallet \in [Accounts -> Nat] /\ IsFiniteSet(Accounts)
  BY <1>1, PoolAssumption DEF PoolInv, PoolTypeOK
<1>3. SumFunction(wallet) \in Nat BY <1>2, SumNat
<1>4. CASE UNCHANGED assetVars BY <1>1, <1>4 DEF UnderlyingConserved, assetVars
<1>5. ASSUME NEW user \in Accounts, NEW amount \in Nat, PayIn(user, amount)
      PROVE  UnderlyingConserved'
  <2>1. cash' = cash + amount /\ SumFunction(wallet') = SumFunction(wallet) - amount
    BY <1>2, <1>5, DebitSum DEF PayIn
  <2> QED BY <1>1, <1>2, <1>3, <2>1 DEF UnderlyingConserved
<1>6. ASSUME NEW user \in Accounts, NEW amount \in Nat, PayOut(user, amount)
      PROVE  UnderlyingConserved'
  <2>1. cash' = cash - amount /\ SumFunction(wallet') = SumFunction(wallet) + amount
    BY <1>2, <1>6, CreditSum DEF PayOut
  <2> QED BY <1>1, <1>2, <1>3, <2>1 DEF UnderlyingConserved
<1> QED BY <1>4, <1>5, <1>6 DEF AssetStep

\* The ledgers balance in every state.
LEMMA LedgerInvariant == Spec => []LedgerInv
<1>1. Init => LedgerInv
  <2>1. Init => PoolInv BY InitInv
  <2>2. IsFiniteSet(Accounts) /\ InitialWallets \in [Accounts -> Nat] BY PoolAssumption
  <2>3. SumFunction([a \in Accounts |-> 0]) = 0 /\ SumFunction(InitialWallets) \in Nat
    BY <2>2, SumZero, SumNat
  <2> QED BY <2>1, <2>3 DEF Init, LedgerInv, LedgersBalanced, SharesBalanced,
                            CapitalBalanced, UnderlyingConserved
<1>2. LedgerInv /\ [Next]_vars => LedgerInv'
  <2>1. PoolInv /\ [Next]_vars => PoolInv' BY NextPreserves
  <2>2. PoolInv /\ [Next]_vars => ShareStep /\ CapitalStep /\ AssetStep BY LedgerSteps
  <2> QED BY <2>1, <2>2, SharesStayBalanced, CapitalStaysBalanced,
             UnderlyingStaysConserved DEF LedgerInv, LedgersBalanced
<1> QED BY <1>1, <1>2, PTL DEF Spec

\* Each token's total is the sum of its balances, and the underlying is neither
\* made nor lost, whoever deposits, borrows, transfers or withdraws.
THEOREM LedgersCorrect == Spec => []LedgersBalanced
<1>1. LedgerInv => LedgersBalanced BY DEF LedgerInv
<1> QED BY <1>1, LedgerInvariant, PTL

(***************************************************************************)
(* Equity                                                                  *)
(***************************************************************************)

\* The treasury's part of the interest is a natural, and no share when it is nothing.
LEMMA MintBounds ==
  ASSUME PoolInv, NEW index \in Nat \ {0}
  PROVE  /\ AmountToMint \in Nat
         /\ TreasuryShare(index) \in Nat
         /\ AmountToMint = 0 => TreasuryShare(index) = 0
<1>1. DebtAccrued \in Nat BY AccrualOrdered DEF DebtAccrued
<1>2. config.reserveFactor \in Nat BY DEF PoolInv, PoolTypeOK
<1>3. AmountToMint \in Nat BY <1>1, <1>2, PercentMulNat DEF AmountToMint
<1> QED BY <1>3, RayDivNat, RayDivZero DEF TreasuryShare

\* Once a transaction has accrued, nothing is left to accrue in the same block.
LEMMA NothingLeftToMint ==
  ASSUME PoolInv', lastUpdateTimestamp' = now' PROVE AmountToMint' = 0
<1> DEFINE c == CompoundedInterest(avgStableRate', totalSupplyTimestamp', now')
<1>1. /\ debtSupply' \in Nat /\ avgStableRate' \in Nat /\ totalSupplyTimestamp' \in Nat
      /\ now' \in Nat /\ totalSupplyTimestamp' <= now'
  BY DEF PoolInv, DebtInv, DebtTypeOK, DebtClocksOrdered
<1>2. RayMul(debtSupply', c) \in Nat BY <1>1, CompoundedInterestBounds, RayMulNat
<1>3. DebtAccrued' = RayMul(debtSupply', c) - RayMul(debtSupply', c)
  BY DEF DebtAccrued, TotalDebt, PreviousStableDebt, DebtSupplyAt
<1>4. DebtAccrued' = 0 BY <1>2, <1>3
<1>5. config'.reserveFactor \in Nat BY DEF PoolInv, PoolTypeOK
<1> QED BY <1>4, <1>5, PercentMulZero DEF AmountToMint

\* The equity after an accrual, a payment of e and shares k for it that agree but
\* for half an index, differs by at most a rounding unit from the equity before.
LEMMA EquityRounding ==
  ASSUME NEW I \in Nat \ {0}, NEW S \in Nat, NEW S1 \in Nat, NEW T \in Nat, NEW M \in Nat,
         NEW k \in Int, NEW e \in Int,
         S1 = S + T + k,
         M = 0 => T = 0,
         2 * (I * T) <= 2 * (M * RAY) + I, 2 * (M * RAY) <= 2 * (I * T) + I,
         2 * (I * k) <= 2 * (e * RAY) + I, 2 * (e * RAY) <= 2 * (I * k) + I
  PROVE  LET moved == e - RayMul(S1, I) + RayMul(S, I) + M
             unit  == (I * (IF M = 0 THEN 1 ELSE 2)) \div (2 * RAY) + 1
         IN  moved \in -unit .. unit
<1> DEFINE m0 == RayMul(S, I)
           m1 == RayMul(S1, I)
           moved == e - m1 + m0 + M
           n == IF M = 0 THEN 1 ELSE 2
           q == (I * n) \div (2 * RAY)
<1>1. RAY \in Nat \ {0} BY ScaleAssumption
<1>2. m0 \in Nat /\ m1 \in Nat BY RayMulNat
<1>3. 2 * (RAY * m0) <= 2 * (S * I) + RAY /\ 2 * (S * I) <= 2 * (RAY * m0) + RAY
  BY RayMulError
<1>4. 2 * (RAY * m1) <= 2 * (S1 * I) + RAY /\ 2 * (S1 * I) <= 2 * (RAY * m1) + RAY
  BY RayMulError
<1>5. S1 * I = S * I + I * T + I * k OBVIOUS
<1> HIDE DEF m0, m1
<1>6. /\ S * I \in Int /\ I * T \in Int /\ I * k \in Int /\ S1 * I \in Int
      /\ RAY * m0 \in Int /\ RAY * m1 \in Int /\ M * RAY \in Int /\ e * RAY \in Int
  BY <1>1, <1>2
<1>7. RAY * moved = e * RAY - RAY * m1 + RAY * m0 + M * RAY BY <1>1, <1>2
<1>8. moved \in Int /\ RAY * moved \in Int BY <1>1, <1>2
<1> HIDE DEF moved
<1>9. 2 * (RAY * moved) <= 2 * RAY + I * n /\ -(2 * RAY + I * n) <= 2 * (RAY * moved)
  <2>1. CASE M = 0
    <3>1. M * RAY = 0 /\ I * T = 0 /\ I * n = I BY <1>1, <2>1
    <3> HIDE DEF n
    <3> QED BY <1>1, <1>3, <1>4, <1>5, <1>6, <1>7, <1>8, <3>1
  <2>2. CASE M # 0
    <3>1. I * n = 2 * I BY <2>2
    <3> HIDE DEF n
    <3> QED BY <1>1, <1>3, <1>4, <1>5, <1>6, <1>7, <1>8, <3>1
  <2> QED BY <2>1, <2>2
<1>10. I * n \in Nat /\ 2 * RAY \in Nat \ {0} BY <1>1
<1>11. 2 * RAY * (moved - 1) = 2 * (RAY * moved) - 2 * RAY
       /\ 2 * RAY * (-moved - 1) = -(2 * (RAY * moved)) - 2 * RAY
  BY <1>1, <1>8
<1> HIDE DEF n
<1>12. 2 * RAY * (moved - 1) <= I * n /\ 2 * RAY * (-moved - 1) <= I * n
  BY <1>1, <1>8, <1>9, <1>10, <1>11
<1>13. moved - 1 <= q /\ -moved - 1 <= q
  <2>1. moved - 1 \in Int /\ -moved - 1 \in Int BY <1>8
  <2> QED BY <1>10, <1>12, <2>1, DivAtLeast
<1>14. q \in Nat BY <1>10, DivNat
<1> HIDE DEF q
<1>15. moved \in -(q + 1) .. q + 1 BY <1>8, <1>13, <1>14
<1> QED BY <1>15 DEF moved, m0, m1, q, n

\* Shares of k are given for a payment of e, or taken for one to the user, at the
\* index, after the accrual; the price is right but for half an index.
Exchange(e, k) ==
  /\ AmountToMint' = 0
  /\ scaledSupply' = AccruedSupply(Index) + k
  /\ Owned' = Owned + e
  /\ 2 * (Index * k) <= 2 * (e * RAY) + Index
  /\ 2 * (e * RAY) <= 2 * (Index * k) + Index

\* The debts are naturals, and so is their sum.
LEMMA DebtsNat ==
  ASSUME PoolInv
  PROVE  /\ [a \in Accounts |-> DebtOf(a)] \in [Accounts -> Nat]
         /\ SumFunction([a \in Accounts |-> DebtOf(a)]) \in Nat
         /\ Owned \in Nat
<1>1. \A a \in Accounts : DebtOf(a) \in Nat BY DebtOfBounds DEF PoolInv
<1>2. [a \in Accounts |-> DebtOf(a)] \in [Accounts -> Nat] BY <1>1
<1>3. SumFunction([a \in Accounts |-> DebtOf(a)]) \in Nat BY <1>2, PoolAssumption, SumNat
<1>4. cash \in Nat BY DEF PoolInv, PoolTypeOK
<1> QED BY <1>2, <1>3, <1>4 DEF Owned

\* While no loan changes hands within a block, the loans are worth what they were.
LEMMA SameLoans ==
  ASSUME UNCHANGED loanVars, now' = now
  PROVE  [a \in Accounts |-> DebtOf(a)]' = [a \in Accounts |-> DebtOf(a)]
BY DEF DebtOf, loanVars

\* A loan or a repayment that changes one debt by e changes their sum by e.
LEMMA LoansChange ==
  ASSUME PoolInv, NEW debtor \in Accounts, NEW e \in Int,
         DebtOf(debtor)' = DebtOf(debtor) + e, DebtOf(debtor) + e \in Nat,
         \A other \in Accounts \ {debtor} : DebtOf(other)' = DebtOf(other)
  PROVE  SumFunction([a \in Accounts |-> DebtOf(a)]') =
           SumFunction([a \in Accounts |-> DebtOf(a)]) + e
<1> DEFINE f == [a \in Accounts |-> DebtOf(a)]
           h == [a \in Accounts |-> DebtOf(a)']
<1>1. f \in [Accounts -> Nat] BY DebtsNat
<1>2. f \in [Accounts -> Int] BY <1>1
<1>3. \A a \in Accounts : h[a] \in Int
  <2>1. h[debtor] \in Int OBVIOUS
  <2>2. \A a \in Accounts \ {debtor} : h[a] = f[a] OBVIOUS
  <2> HIDE DEF h, f
  <2> QED BY <1>2, <2>1, <2>2
<1>4. h \in [Accounts -> Int]
  <2>1. h = [a \in Accounts |-> h[a]] OBVIOUS
  <2> HIDE DEF h
  <2> QED BY <1>3, <2>1
<1>5. h[debtor] - f[debtor] = e
  <2>1. f[debtor] \in Int /\ h[debtor] = f[debtor] + e BY <1>2
  <2> HIDE DEF f, h
  <2> QED BY <2>1
<1>6. \A a \in Accounts \ {debtor} : h[a] = f[a] OBVIOUS
<1>7. h = [a \in Accounts |-> DebtOf(a)]' OBVIOUS
<1> HIDE DEF f, h
<1>8. SumFunction(h) = SumFunction(f) + (h[debtor] - f[debtor])
  BY <1>2, <1>4, <1>6, PoolAssumption, SumChange
<1> QED BY <1>5, <1>7, <1>8 DEF f

\* A deposit is an exchange of the amount for its share.
LEMMA DepositExchanges ==
  ASSUME PoolInv, PoolInv', NEW a \in Accounts, NEW b \in Accounts,
         NEW amount \in Amounts, Deposit(a, b, amount)
  PROVE  Exchange(amount, RayDiv(amount, Index))
<1>1. amount \in Nat /\ currentLiquidityRate \in Nat BY EnvironmentAssumption, RatesNat
<1>2. Index \in Nat \ {0} BY <1>1, IndexAtBounds DEF Index
<1>3. /\ lastUpdateTimestamp' = now' /\ now' = now /\ UNCHANGED loanVars
      /\ cash' = cash + amount
      /\ scaledSupply' = AccruedSupply(Index) + RayDiv(amount, Index)
  BY DEF Deposit, UpdateState, PayIn, MintShare, debtVars
<1>4. AmountToMint' = 0 BY <1>3, NothingLeftToMint
<1>5. Owned' = Owned + amount
  <2>1. cash \in Nat BY DEF PoolInv, PoolTypeOK
  <2> QED BY <1>1, <1>3, <2>1, SameLoans, DebtsNat DEF Owned
<1> QED BY <1>1, <1>2, <1>3, <1>4, <1>5, RayDivError DEF Exchange

\* A redemption is the same exchange the other way round.
LEMMA RedeemExchanges ==
  ASSUME PoolInv, PoolInv', NEW a \in Accounts, NEW b \in Accounts, NEW amount \in Nat,
         Redeem(a, b, amount), UpdateState(Index), UNCHANGED <<now, loanVars>>
  PROVE  Exchange(-amount, -RayDiv(amount, Index))
<1> DEFINE d == RayDiv(amount, Index)
<1>1. Index \in Nat \ {0} BY RatesNat, IndexAtBounds DEF Index
<1>2. d \in Nat BY <1>1, RayDivNat
<1>3. AccruedSupply(Index) \in Nat BY <1>1, AccruedNat
<1>4. /\ lastUpdateTimestamp' = now' /\ cash' = cash - amount
      /\ scaledSupply' = AccruedSupply(Index) - d
  BY DEF UpdateState, Redeem, PayOut
<1>5. AmountToMint' = 0 BY <1>4, NothingLeftToMint
<1>6. Owned' = Owned + (-amount)
  <2>1. cash \in Nat BY DEF PoolInv, PoolTypeOK
  <2> QED BY <1>4, <2>1, SameLoans, DebtsNat DEF Owned
<1>7. scaledSupply' = AccruedSupply(Index) + (-d) BY <1>2, <1>3, <1>4
<1>8. RAY \in Nat BY ScaleAssumption
<1>9. 2 * (Index * d) <= 2 * (amount * RAY) + Index
      /\ 2 * (amount * RAY) <= 2 * (Index * d) + Index
  BY <1>1, RayDivError
<1> HIDE DEF d
<1>10. Index * (-d) = -(Index * d) /\ (-amount) * RAY = -(amount * RAY)
       /\ Index * d \in Nat /\ amount * RAY \in Nat
  BY <1>1, <1>2, <1>8
<1>11. 2 * (Index * (-d)) <= 2 * ((-amount) * RAY) + Index
       /\ 2 * ((-amount) * RAY) <= 2 * (Index * (-d)) + Index
  BY <1>1, <1>9, <1>10
<1>12. Exchange(-amount, -d) BY <1>5, <1>6, <1>7, <1>11 DEF Exchange
<1> QED BY <1>12 DEF d

\* An accrual that leaves what the reserve owns alone exchanges nothing.
LEMMA AccrualExchanges ==
  ASSUME PoolInv, PoolInv', AccrueToTreasury(Index), UpdateState(Index), now' = now,
         Owned' = Owned
  PROVE  Exchange(0, 0)
<1>1. Index \in Nat \ {0} BY RatesNat, IndexAtBounds DEF Index
<1>2. AccruedSupply(Index) \in Nat BY <1>1, AccruedNat
<1>3. lastUpdateTimestamp' = now' /\ scaledSupply' = AccruedSupply(Index)
  BY DEF UpdateState, AccrueToTreasury
<1>4. AmountToMint' = 0 BY <1>3, NothingLeftToMint
<1>5. Owned' = Owned + 0 /\ scaledSupply' = AccruedSupply(Index) + 0
  BY <1>2, <1>3, DebtsNat
<1>6. Index * 0 = 0 /\ 0 * RAY = 0 BY <1>1, ScaleAssumption
<1> QED BY <1>1, <1>4, <1>5, <1>6 DEF Exchange

\* A loan leaves what the reserve owns alone: what was cash is owed now.
LEMMA BorrowExchanges ==
  ASSUME PoolInv, PoolInv', NEW a \in Accounts, NEW b \in Accounts,
         NEW amount \in Amounts, Borrow(a, b, amount)
  PROVE  Exchange(0, 0)
<1>1. /\ amount \in Nat \ {0} /\ currentStableBorrowRate \in Nat
  BY EnvironmentAssumption, RatesNat DEF Borrow, Lend
<1>2. /\ MintDebt(a, b, amount, currentStableBorrowRate) /\ now' = now
      /\ cash' = cash - amount /\ AccrueToTreasury(Index) /\ UpdateState(Index)
  BY DEF Borrow, Lend, PayOut
<1>3. DebtInv BY DEF PoolInv
<1>4. /\ DebtOf(b)' = DebtOf(b) + amount
      /\ \A other \in Accounts \ {b} : DebtOf(other)' = DebtOf(other)
  BY <1>1, <1>2, <1>3, MintMoves
<1>5. DebtOf(b) \in Nat BY <1>3, DebtOfBounds
<1>6. SumFunction([c \in Accounts |-> DebtOf(c)]') =
        SumFunction([c \in Accounts |-> DebtOf(c)]) + amount
  <2>1. DebtOf(b) + amount \in Nat /\ amount \in Int BY <1>1, <1>5
  <2> QED BY <1>4, <2>1, LoansChange
<1>7. Owned' = Owned
  <2>1. cash \in Nat BY DEF PoolInv, PoolTypeOK
  <2> QED BY <1>1, <1>2, <1>6, <2>1, DebtsNat DEF Owned
<1> QED BY <1>2, <1>7, AccrualExchanges

\* So does a repayment: what was owed is cash now.
LEMMA RepayExchanges ==
  ASSUME PoolInv, PoolInv', NEW a \in Accounts, NEW b \in Accounts,
         NEW amount \in Amounts \cup {MaxUint256}, Repay(a, b, amount)
  PROVE  Exchange(0, 0)
<1> DEFINE payback == IF amount < DebtOf(b) THEN amount ELSE DebtOf(b)
<1>1. payback \in Nat BY PaybackNat
<1>2. /\ BurnDebt(b, payback) /\ now' = now
      /\ cash' = cash + payback /\ AccrueToTreasury(Index) /\ UpdateState(Index)
  BY DEF Repay, Settle, PayIn
<1> HIDE DEF payback
<1>3. DebtInv BY DEF PoolInv
<1>4. /\ DebtOf(b)' = DebtOf(b) - payback
      /\ \A other \in Accounts \ {b} : DebtOf(other)' = DebtOf(other)
  BY <1>1, <1>2, <1>3, BurnMoves
<1>5. DebtOf(b) \in Nat /\ payback <= DebtOf(b)
  BY <1>2, <1>3, DebtOfBounds DEF BurnDebt
<1>6. SumFunction([c \in Accounts |-> DebtOf(c)]') =
        SumFunction([c \in Accounts |-> DebtOf(c)]) + (-payback)
  <2>1. DebtOf(b) + (-payback) \in Nat /\ -payback \in Int
        /\ DebtOf(b)' = DebtOf(b) + (-payback)
    BY <1>1, <1>4, <1>5
  <2> QED BY <1>4, <2>1, LoansChange
<1>7. Owned' = Owned
  <2>1. cash \in Nat BY DEF PoolInv, PoolTypeOK
  <2> QED BY <1>1, <1>2, <1>6, <2>1, DebtsNat DEF Owned
<1> QED BY <1>2, <1>7, AccrualExchanges

\* At fixed rates and settings, within a block, a step exchanges something or
\* leaves the equity alone.
LEMMA EquitySteps ==
  ASSUME PoolInv, PoolInv', [Next]_vars, now' = now, config' = config,
         currentLiquidityRate' = currentLiquidityRate
  PROVE  \/ UNCHANGED <<Owned, scaledSupply, AmountToMint>>
         \/ \E e, k \in Int : Exchange(e, k)
<1> DEFINE Still == UNCHANGED <<Owned, scaledSupply, AmountToMint>>
           Exchanged == \E e, k \in Int : Exchange(e, k)
<1>1. /\ now \in Nat /\ Index \in Nat \ {0} /\ Amounts \subseteq Nat
      /\ \A n \in Nat : RayDiv(n, Index) \in Nat
  BY RatesNat, IndexAtBounds, EnvironmentAssumption, RayDivNat
     DEF Index, PoolInv, PoolTypeOK, DebtTypeOK
<1>2. ASSUME UNCHANGED <<loanVars, indexVars, cash, scaledSupply>> PROVE Still
  <2>1. Owned' = Owned BY <1>2, SameLoans DEF Owned
  <2>2. AmountToMint' = AmountToMint
    BY <1>2 DEF AmountToMint, DebtAccrued, TotalDebt, PreviousStableDebt, DebtSupplyAt,
                loanVars, indexVars
  <2> QED BY <1>2, <2>1, <2>2
<1>3. ASSUME UNCHANGED vars PROVE Still
  BY <1>2, <1>3 DEF vars, debtVars, aTokenVars, assetVars
<1>4. ASSUME AdvanceTime PROVE FALSE BY <1>1, <1>4 DEF AdvanceTime, Tick
<1>5. ASSUME NEW a \in Accounts, NEW b \in Accounts, NEW amount \in Amounts,
             Deposit(a, b, amount)
      PROVE  Exchanged
  <2>1. Exchange(amount, RayDiv(amount, Index)) BY <1>5, DepositExchanges
  <2>2. amount \in Int /\ RayDiv(amount, Index) \in Int BY <1>1
  <2> QED BY <2>1, <2>2
<1>6. ASSUME NEW a \in Accounts, NEW b \in Accounts, NEW amount \in Amounts,
             Borrow(a, b, amount)
      PROVE  Exchanged
  <2>1. Exchange(0, 0) BY <1>6, BorrowExchanges
  <2> QED BY <2>1
<1>7. ASSUME NEW a \in Accounts, NEW b \in Accounts, NEW amount \in TransferAmounts,
             TransferAToken(a, b, amount) \/ TransferPToken(a, b, amount)
      PROVE  Still
  BY <1>2, <1>7 DEF TransferAToken, TransferPToken, debtVars, aTokenVars, assetVars
<1>8. ASSUME NEW a \in Accounts, NEW b \in Accounts, NEW amount \in Nat,
             Redeem(a, b, amount), UpdateState(Index), UNCHANGED loanVars
      PROVE  Exchanged
  <2>1. Exchange(-amount, -RayDiv(amount, Index)) BY <1>8, RedeemExchanges
  <2>2. -amount \in Int /\ -RayDiv(amount, Index) \in Int BY <1>1
  <2> QED BY <2>1, <2>2
<1>9. ASSUME NEW a \in Accounts, NEW b \in Accounts,
             NEW amount \in Amounts \cup {MaxUint256}, Withdraw(a, b, amount)
      PROVE  Exchanged
  <2> DEFINE paid == IF amount = MaxUint256 THEN BalanceOf(a) ELSE amount
  <2>1. paid \in Nat BY WithdrawnNat
  <2>2. Redeem(a, b, paid) /\ UpdateState(Index) /\ UNCHANGED loanVars
    BY <1>9 DEF Withdraw, debtVars
  <2> HIDE DEF paid
  <2> QED BY <1>8, <2>1, <2>2
<1>10. ASSUME NEW a \in Accounts, NEW b \in Accounts,
              NEW amount \in Amounts \cup {MaxUint256}, Repay(a, b, amount)
       PROVE  Exchanged
  <2>1. Exchange(0, 0) BY <1>10, RepayExchanges
  <2> QED BY <2>1
<1>11. ASSUME NEW a \in Accounts, NEW b \in Accounts, WithdrawInterest(a, b)
       PROVE  Exchanged
  <2>1. AvailableInterest(a) \in Nat BY <1>11, InterestNat
  <2>2. Redeem(a, b, AvailableInterest(a)) /\ UpdateState(Index) /\ UNCHANGED loanVars
    BY <1>11 DEF WithdrawInterest, debtVars
  <2> QED BY <1>8, <2>1, <2>2
<1>12. ASSUME NEW a \in Accounts, NEW b \in Accounts, NEW amount \in Allowances,
              DelegateCredit(a, b, amount)
       PROVE  Still
  BY <1>2, <1>12 DEF DelegateCredit, Delegate, aTokenVars, assetVars
<1>13. ASSUME \/ \E configuration \in Configurations : SetConfiguration(configuration)
              \/ \E val \in PauseValues : SetPause(val)
       PROVE  Still
  BY <1>2, <1>13 DEF SetConfiguration, SetPause, debtVars, aTokenVars, assetVars
<1>14. ASSUME NEW depositRate \in DepositRates, NEW borrowRate \in Rates,
              UpdateInterestRates(depositRate, borrowRate)
       PROVE  Exchanged
  <2>1. /\ AccrueToTreasury(Index) /\ UpdateState(Index) /\ UNCHANGED <<loanVars, cash>>
    BY <1>14 DEF UpdateInterestRates, Index, debtVars, assetVars
  <2>2. Owned' = Owned BY <2>1, SameLoans DEF Owned
  <2>3. Exchange(0, 0) BY <2>1, <2>2, AccrualExchanges
  <2> QED BY <2>3
<1>15. ASSUME NEW borrower \in Borrowers, UpdateProjectBorrower(borrower)
       PROVE  Exchanged
  <2>1. /\ AccrueToTreasury(Index) /\ UpdateState(Index) /\ UNCHANGED <<loanVars, cash>>
    BY <1>15 DEF UpdateProjectBorrower, debtVars, assetVars
  <2>2. Owned' = Owned BY <2>1, SameLoans DEF Owned
  <2>3. Exchange(0, 0) BY <2>1, <2>2, AccrualExchanges
  <2> QED BY <2>3
<1> HIDE DEF Still, Exchanged
<1>16. Still \/ Exchanged
  BY <1>3, <1>4, <1>5, <1>6, <1>7, <1>9, <1>10, <1>11, <1>12, <1>13, <1>14, <1>15 DEF Next
<1> QED BY <1>16 DEF Still, Exchanged

\* No transaction makes or loses money for the others, but for less than a rounding
\* unit: whatever the rates, the amounts and the number of accounts.
THEOREM EquityCorrect == Spec => EquityIsConserved
<1>1. ASSUME PoolInv, PoolInv', [Next]_vars, now' = now, config' = config,
             currentLiquidityRate' = currentLiquidityRate
      PROVE  Equity' - Equity \in -RoundingUnit .. RoundingUnit
  <2> DEFINE T == TreasuryShare(Index)
             M == AmountToMint
  <2>1. /\ Index \in Nat \ {0} /\ NormalizedIncome = Index /\ NormalizedIncome' = Index
    <3>1. NormalizedIncome' = NormalizedIncome BY <1>1, IncomeStep
    <3> QED BY <1>1, <3>1, ViewIsCommit, RatesNat, IndexAtBounds DEF Index
  <2>2. M \in Nat /\ T \in Nat /\ (M = 0 => T = 0) BY <1>1, <2>1, MintBounds
  <2>3. scaledSupply \in Nat /\ scaledSupply' \in Nat BY <1>1 DEF PoolInv, PoolTypeOK
  <2>4. Owned \in Nat BY <1>1, DebtsNat
  <2>5. Equity = Owned - RayMul(scaledSupply, Index) - M
    BY <2>1 DEF Equity, TotalSupply
  <2>6. Equity' = Owned' - RayMul(scaledSupply', Index) - AmountToMint'
    BY <2>1 DEF Equity, TotalSupply
  <2>7. RoundingUnit = (Index * (IF M = 0 THEN 1 ELSE 2)) \div (2 * RAY) + 1
    BY <2>1 DEF RoundingUnit
  <2>8. RayMul(scaledSupply, Index) \in Nat /\ RayMul(scaledSupply', Index) \in Nat
    BY <2>1, <2>3, RayMulNat
  <2>9. CASE UNCHANGED <<Owned, scaledSupply, AmountToMint>>
    <3>1. Equity' - Equity = 0 BY <2>2, <2>4, <2>5, <2>6, <2>8, <2>9
    <3>2. RoundingUnit \in Nat
      <4>1. Index * (IF M = 0 THEN 1 ELSE 2) \in Nat /\ 2 * RAY \in Nat \ {0}
        BY <2>1, ScaleAssumption
      <4> HIDE DEF M
      <4> QED BY <2>7, <4>1, DivNat
    <3> QED BY <3>1, <3>2
  <2>10. ASSUME NEW e \in Int, NEW k \in Int, Exchange(e, k)
         PROVE  Equity' - Equity \in -RoundingUnit .. RoundingUnit
    <3>1. scaledSupply' = scaledSupply + T + k
      BY <2>10 DEF Exchange, AccruedSupply
    <3>2. 2 * (Index * T) <= 2 * (M * RAY) + Index /\ 2 * (M * RAY) <= 2 * (Index * T) + Index
      BY <2>1, <2>2, RayDivError DEF TreasuryShare
    <3>3. 2 * (Index * k) <= 2 * (e * RAY) + Index /\ 2 * (e * RAY) <= 2 * (Index * k) + Index
      BY <2>10 DEF Exchange
    <3> HIDE DEF T, M
    <3>4. e - RayMul(scaledSupply', Index) + RayMul(scaledSupply, Index) + M
            \in -RoundingUnit .. RoundingUnit
      BY <2>1, <2>2, <2>3, <2>7, <3>1, <3>2, <3>3, EquityRounding
    <3>5. Owned' = Owned + e /\ AmountToMint' = 0 BY <2>10 DEF Exchange
    <3>6. Equity' - Equity =
            e - RayMul(scaledSupply', Index) + RayMul(scaledSupply, Index) + M
      BY <2>2, <2>4, <2>5, <2>6, <2>8, <3>5
    <3> QED BY <3>4, <3>6
  <2> QED BY <1>1, <2>9, <2>10, EquitySteps
<1> DEFINE Conserved ==
             /\ now' = now
             /\ config' = config
             /\ currentLiquidityRate' = currentLiquidityRate
             => Equity' - Equity \in -RoundingUnit .. RoundingUnit
<1>2. PoolInv /\ [Next]_vars => Conserved BY <1>1, NextPreserves
<1>3. PoolInv /\ [Next]_vars => [Conserved]_vars
  <2> HIDE DEF Conserved
  <2> QED BY <1>2
<1> QED BY <1>3, PoolInvariant, PTL DEF Spec, EquityIsConserved

(***************************************************************************)
(* Interest withdrawals                                                    *)
(***************************************************************************)

\* What is left of the balance m of a share S, when the share d of all but c of
\* it goes, differs from c by a rounding unit at most.
LEMMA InterestRounding ==
  ASSUME NEW I \in Nat \ {0}, NEW S \in Nat, NEW d \in Nat, NEW c \in Nat,
         NEW M \in Nat, d <= S, c <= RayMul(S, I), d = RayDiv(RayMul(S, I) - c, I)
  PROVE  LET left == RayMul(S - d, I) - c
             unit == (I * (IF M = 0 THEN 1 ELSE 2)) \div (2 * RAY) + 1
         IN  left \in -unit .. unit
<1> DEFINE m0 == RayMul(S, I)
           m1 == RayMul(S - d, I)
           left == m1 - c
           n == IF M = 0 THEN 1 ELSE 2
           q == (I * n) \div (2 * RAY)
<1>1. RAY \in Nat \ {0} BY ScaleAssumption
<1>2. S - d \in Nat OBVIOUS
<1>3. m0 \in Nat /\ m1 \in Nat BY <1>2, RayMulNat
<1>4. 2 * (RAY * m0) <= 2 * (S * I) + RAY /\ 2 * (S * I) <= 2 * (RAY * m0) + RAY
  BY RayMulError
<1>5. /\ 2 * (RAY * m1) <= 2 * ((S - d) * I) + RAY
      /\ 2 * ((S - d) * I) <= 2 * (RAY * m1) + RAY
  BY <1>2, RayMulError
<1>6. 2 * (I * d) <= 2 * ((m0 - c) * RAY) + I /\ 2 * ((m0 - c) * RAY) <= 2 * (I * d) + I
  <2>1. m0 - c \in Nat BY <1>3
  <2> QED BY <2>1, RayDivError
<1>7. (S - d) * I = S * I - I * d OBVIOUS
<1> HIDE DEF m0, m1
<1>8. (m0 - c) * RAY = RAY * m0 - RAY * c BY <1>1, <1>3
<1>9. RAY * left = RAY * m1 - RAY * c /\ left \in Int BY <1>1, <1>3
<1>10. /\ S * I \in Int /\ I * d \in Int /\ RAY * m0 \in Int /\ RAY * m1 \in Int
       /\ RAY * c \in Int
  BY <1>1, <1>3
<1> HIDE DEF left
<1>11. 2 * (RAY * left) <= 2 * RAY + I /\ -(2 * RAY + I) <= 2 * (RAY * left)
  BY <1>1, <1>4, <1>5, <1>6, <1>7, <1>8, <1>9, <1>10
<1>12. I <= I * n /\ I * n \in Nat /\ 2 * RAY \in Nat \ {0} BY <1>1
<1>13. /\ 2 * RAY * (left - 1) = 2 * (RAY * left) - 2 * RAY
       /\ 2 * RAY * (-left - 1) = -(2 * (RAY * left)) - 2 * RAY
       /\ RAY * left \in Int
  BY <1>1, <1>9
<1> HIDE DEF n
<1>14. 2 * RAY * (left - 1) <= I * n /\ 2 * RAY * (-left - 1) <= I * n
  BY <1>1, <1>11, <1>12, <1>13
<1>15. left - 1 <= q /\ -left - 1 <= q
  <2>1. left - 1 \in Int /\ -left - 1 \in Int BY <1>9
  <2> QED BY <1>12, <1>14, <2>1, DivAtLeast
<1>16. q \in Nat BY <1>12, DivNat
<1> HIDE DEF q
<1>17. left \in -(q + 1) .. q + 1 BY <1>9, <1>15, <1>16
<1> QED BY <1>17 DEF left, m1, q, n

\* An interest withdrawal leaves the capital, but for the rounding, at any index.
THEOREM InterestWithdrawalCorrect == Spec => InterestWithdrawalKeepsCapital
<1> DEFINE Kept == \A a, b \in Accounts :
             WithdrawInterest(a, b)
               => BalanceOf(a)' - capital[a] \in -RoundingUnit .. RoundingUnit
<1>1. ASSUME PoolInv, [Next]_vars, NEW a \in Accounts, NEW b \in Accounts,
             WithdrawInterest(a, b)
      PROVE  BalanceOf(a)' - capital[a] \in -RoundingUnit .. RoundingUnit
  <2> DEFINE S == AccruedScaled(Index)[a]
             d == RayDiv(AvailableInterest(a), Index)
             c == capital[a]
             M == AmountToMint
  <2>1. /\ Index \in Nat \ {0} /\ NormalizedIncome = Index /\ NormalizedIncome' = Index
    <3>1. now' = now /\ currentLiquidityRate' = currentLiquidityRate
      BY <1>1 DEF WithdrawInterest, adminVars
    <3>2. NormalizedIncome' = NormalizedIncome BY <1>1, <3>1, IncomeStep
    <3> QED BY <1>1, <3>2, ViewIsCommit, RatesNat, IndexAtBounds DEF Index
  <2>2. AccruedScaled(Index) \in [Accounts -> Nat] BY <1>1, <2>1, AccruedNat
  <2>3. S \in Nat /\ c \in Nat BY <1>1, <2>2 DEF PoolInv, PoolTypeOK
  <2>4. RayMul(S, Index) \in Nat BY <2>1, <2>3, RayMulNat
  <2>5. AvailableInterest(a) = RayMul(S, Index) - c BY DEF AvailableInterest
  <2>6. /\ AvailableInterest(a) >= 0 /\ d <= S
        /\ scaled' = Debit(AccruedScaled(Index), a, d)
    BY <1>1 DEF WithdrawInterest, Redeem
  <2>7. AvailableInterest(a) \in Nat /\ c <= RayMul(S, Index)
    BY <2>3, <2>4, <2>5, <2>6
  <2>8. d \in Nat BY <2>1, <2>7, RayDivNat
  <2>9. scaled'[a] = S - d BY <2>2, <2>6 DEF Debit
  <2>10. BalanceOf(a)' = RayMul(S - d, Index) BY <2>1, <2>9 DEF BalanceOf
  <2>11. M \in Nat BY <1>1, <2>1, MintBounds
  <2>12. RoundingUnit = (Index * (IF M = 0 THEN 1 ELSE 2)) \div (2 * RAY) + 1
    BY <2>1 DEF RoundingUnit
  <2>13. d = RayDiv(RayMul(S, Index) - c, Index) BY <2>5
  <2> HIDE DEF S, d, M
  <2>14. RayMul(S - d, Index) - c \in -RoundingUnit .. RoundingUnit
    BY <2>1, <2>3, <2>6, <2>7, <2>8, <2>11, <2>12, <2>13, InterestRounding
  <2> QED BY <2>10, <2>14
<1>2. PoolInv /\ [Next]_vars => Kept BY <1>1
<1>3. PoolInv /\ [Next]_vars => [Kept]_vars
  <2> HIDE DEF Kept
  <2> QED BY <1>2
<1> QED BY <1>3, PoolInvariant, PTL DEF Spec, InterestWithdrawalKeepsCapital

(***************************************************************************)
(* Leaving with the whole balance                                          *)
(***************************************************************************)

\* What an account leaving with its whole balance gives up and takes away.
WholeShare(a)   == RayDiv(BalanceOf(a), Index)
WholeCapital(a) == RedeemedCapital(a, BalanceOf(a))

\* Every condition of withdraw(type(uint256).max) by an account to itself, in the
\* order the code meets them: the pool, updateState, the aToken, the pToken.
LeavingAccepted(a) ==
  /\ ~paused
  /\ ValidateWithdraw(a, BalanceOf(a))
  /\ Index <= MaxUint128
  /\ config.reserveFactor # 0 => PreviousStableDebt <= TotalDebt
  /\ WholeShare(a) # 0
  /\ WholeShare(a) <= AccruedScaled(Index)[a]
  /\ WholeShare(a) <= AccruedSupply(Index)
  /\ BalanceOf(a) <= cash
  /\ WholeCapital(a) # 0
  /\ WholeCapital(a) <= capital[a]
  /\ WholeCapital(a) <= capitalSupply

\* ... and what it then does: one assignment for each variable.
LeavingDone(a) ==
  /\ liquidityIndex' = Index
  /\ lastUpdateTimestamp' = now
  /\ usingAsCollateral' = usingAsCollateral \ {a}
  /\ scaled' = Debit(AccruedScaled(Index), a, WholeShare(a))
  /\ scaledSupply' = AccruedSupply(Index) - WholeShare(a)
  /\ cash' = cash - BalanceOf(a)
  /\ wallet' = Credit(wallet, a, BalanceOf(a))
  /\ capital' = Debit(capital, a, WholeCapital(a))
  /\ capitalSupply' = capitalSupply - WholeCapital(a)
  /\ UNCHANGED <<now, debtVars, adminVars, isBorrowing>>

\* The transaction is these conditions and these assignments, and nothing else: it
\* is enabled exactly when the conditions hold.
LEMMA LeavingIsWithdraw ==
  ASSUME NEW a \in Accounts
  PROVE  Withdraw(a, a, MaxUint256) <=> LeavingAccepted(a) /\ LeavingDone(a)
BY DEF Withdraw, UpdateState, Redeem, PayOut, BurnCapital, LeavingAccepted, LeavingDone,
       WholeShare, WholeCapital

\* No condition of withdraw(type(uint256).max) refuses a holder of capital whose
\* balance the cash covers, whatever the index, the rounding and the bookkeeping.
THEOREM CapitalHolderIsAccepted ==
  Spec => [](\A a \in Accounts :
               HasCoveredBalance(a) /\ capital[a] > 0 => LeavingAccepted(a))
<1>1. ASSUME PoolInv, LedgersBalanced, NEW a \in Accounts, HasCoveredBalance(a),
             capital[a] > 0
      PROVE  LeavingAccepted(a)
  <2>1. /\ ~paused /\ Allowed("active") /\ Allowed("withdrawals")
        /\ BalanceOf(a) \in 1 .. cash /\ Index <= MaxUint128
    BY <1>1 DEF HasCoveredBalance
  <2>2. /\ scaled \in [Accounts -> Nat] /\ capital \in [Accounts -> Nat] /\ cash \in Nat
        /\ scaledSupply \in Nat /\ capitalSupply \in Nat
    BY <1>1 DEF PoolInv, PoolTypeOK
  <2>3. BalanceOf(a) \in Nat \ {0} /\ BalanceOf(a) <= cash BY <2>1, <2>2
  <2>4. /\ Index \in Nat \ {0} /\ Index >= RAY
        /\ BalanceOf(a) = RayMul(scaled[a], Index)
    BY <1>1, ViewIsCommit, RatesNat, IndexAtBounds DEF Index, BalanceOf
  <2>5. WholeShare(a) = scaled[a]
    BY <2>2, <2>4, RayRoundTrip DEF WholeShare
  <2>6. scaled[a] # 0 BY <2>3, <2>4, RayMulZero
  <2>7. TreasuryShare(Index) \in Nat BY <1>1, <2>4, AccruedNat
  <2>8. scaled[a] <= AccruedScaled(Index)[a]
    BY <2>2, <2>7 DEF AccruedScaled, Credit
  <2>9. scaled[a] <= scaledSupply /\ capital[a] <= capitalSupply
    BY <1>1, <2>2, PoolAssumption, SumNat
       DEF LedgersBalanced, SharesBalanced, CapitalBalanced
  <2>10. scaled[a] <= AccruedSupply(Index) BY <2>2, <2>7, <2>9 DEF AccruedSupply
  <2>11. /\ WholeCapital(a) # 0 /\ WholeCapital(a) <= capital[a]
         /\ WholeCapital(a) <= capitalSupply
    BY <1>1, <2>2, <2>3, <2>9 DEF WholeCapital, RedeemedCapital
  <2>12. PreviousStableDebt <= TotalDebt BY <1>1, AccrualOrdered
  <2>13. ValidateWithdraw(a, BalanceOf(a)) BY <2>1, <2>3 DEF ValidateWithdraw
  <2> QED BY <2>1, <2>3, <2>5, <2>6, <2>8, <2>10, <2>11, <2>12, <2>13
             DEF LeavingAccepted
<1>2. PoolInv /\ LedgersBalanced
        => \A a \in Accounts :
             HasCoveredBalance(a) /\ capital[a] > 0 => LeavingAccepted(a)
  BY <1>1
<1> QED BY <1>2, PoolInvariant, LedgersCorrect, PTL
===============================================================================
