--------------------------- MODULE LendingPool_proofs ---------------------------
(***************************************************************************)
(* The reserve's invariants for every scale, every set of accounts and     *)
(* every rate, amount and configuration.                                   *)
(*                                                                         *)
(* PoolInv is inductive.  It adds to the properties the runs check what    *)
(* they rest on: an index never falls below one ray, so that rounding      *)
(* cannot lose a share, and the debt token, driven by the pool, keeps its  *)
(* own invariant because each step of the pool is one of the token's.      *)
(***************************************************************************)
EXTENDS LendingPool, StableDebtToken_proofs

\* The borrowing bit, against the stored principal.
BorrowingBitMatchesPrincipal ==
  \A a \in Accounts : a \in isBorrowing <=> principal[a] > 0

PoolInv ==
  /\ DebtInv
  /\ PoolTypeOK
  /\ ReserveClockFollowsDebt
  /\ liquidityIndex >= RAY
  /\ BorrowingBitMatchesPrincipal

(***************************************************************************)
(* Ledgers                                                                 *)
(***************************************************************************)

\* A credit keeps a ledger of naturals.
LEMMA CreditNat ==
  ASSUME NEW S, NEW f \in [S -> Nat], NEW a \in S, NEW n \in Nat
  PROVE  /\ Credit(f, a, n) \in [S -> Nat]
         /\ Credit(f, a, n)[a] = f[a] + n
         /\ \A b \in S \ {a} : Credit(f, a, n)[b] = f[b]
BY DEF Credit

\* So does a debit covered by the balance.
LEMMA DebitNat ==
  ASSUME NEW S, NEW f \in [S -> Nat], NEW a \in S, NEW n \in Nat, n <= f[a]
  PROVE  /\ Debit(f, a, n) \in [S -> Nat]
         /\ Debit(f, a, n)[a] = f[a] - n
         /\ \A b \in S \ {a} : Debit(f, a, n)[b] = f[b]
BY DEF Debit

\* So does a transfer covered by the sender's balance, to oneself as well.
LEMMA MoveNat ==
  ASSUME NEW S, NEW f \in [S -> Nat], NEW a \in S, NEW b \in S, NEW n \in Nat, n <= f[a]
  PROVE  Move(f, a, b, n) \in [S -> Nat]
BY DebitNat, CreditNat DEF Move

(***************************************************************************)
(* Index and accrual                                                       *)
(***************************************************************************)

\* An index a transaction stores is at least the one before it, hence a ray.
LEMMA IndexAtBounds ==
  ASSUME PoolInv, NEW rate \in Nat
  PROVE  /\ IndexAt(rate) \in Nat \ {0}
         /\ IndexAt(rate) >= RAY
<1> DEFINE growth == LinearInterest(rate, lastUpdateTimestamp, now)
<1>1. /\ liquidityIndex \in Nat /\ liquidityIndex >= RAY
      /\ lastUpdateTimestamp \in Nat /\ now \in Nat /\ lastUpdateTimestamp <= now
  BY DEF PoolInv, PoolTypeOK, DebtTypeOK, ReserveClockFollowsDebt
<1>2. growth \in Nat /\ growth >= RAY BY <1>1, LinearInterestBounds
<1> HIDE DEF growth
<1>3. RayMul(growth, liquidityIndex) \in Nat /\ RayMul(growth, liquidityIndex) >= growth
  BY <1>1, <1>2, RayMulNat, RayMulAtLeast
<1>4. IndexAt(rate) = IF rate > 0 THEN RayMul(growth, liquidityIndex) ELSE liquidityIndex
  BY DEF IndexAt, growth
<1> QED BY <1>1, <1>2, <1>3, <1>4, ScaleAssumption

\* The index the views use is the one a transaction at the current rate stores.
LEMMA ViewIsCommit == ASSUME PoolInv PROVE NormalizedIncome = Index
<1> DEFINE growth == LinearInterest(currentLiquidityRate, lastUpdateTimestamp, now)
<1>1. /\ liquidityIndex \in Nat /\ lastUpdateTimestamp \in Nat /\ now \in Nat
      /\ lastUpdateTimestamp <= now /\ currentLiquidityRate \in Nat
  BY PoolAssumption DEF PoolInv, PoolTypeOK, DebtTypeOK, ReserveClockFollowsDebt
<1>2. currentLiquidityRate = 0 \/ lastUpdateTimestamp = now => growth = RAY
  BY <1>1, LinearInterestBounds
<1>3. RayMul(RAY, liquidityIndex) = liquidityIndex BY <1>1, RayMulOne
<1> HIDE DEF growth
<1>4. NormalizedIncome = IF lastUpdateTimestamp = now
                           THEN liquidityIndex ELSE RayMul(growth, liquidityIndex)
  BY DEF NormalizedIncome, growth
<1>5. Index = IF currentLiquidityRate > 0
                THEN RayMul(growth, liquidityIndex) ELSE liquidityIndex
  BY DEF Index, IndexAt, growth
<1> QED BY <1>1, <1>2, <1>3, <1>4, <1>5

\* The subtraction of _mintToTreasury does not revert.
LEMMA AccrualOrdered ==
  ASSUME PoolInv
  PROVE  /\ PreviousStableDebt \in Nat /\ TotalDebt \in Nat
         /\ PreviousStableDebt <= TotalDebt
<1>1. /\ lastUpdateTimestamp \in Nat /\ now \in Nat
      /\ totalSupplyTimestamp <= lastUpdateTimestamp /\ lastUpdateTimestamp <= now
  BY DEF PoolInv, PoolTypeOK, DebtTypeOK, ReserveClockFollowsDebt
<1>2. DebtInv BY DEF PoolInv
<1> QED BY <1>1, <1>2, DebtSupplyBounds, TotalDebtBounds DEF PreviousStableDebt, TotalDebt

\* What updateState mints to the treasury keeps the aToken's ledger one of naturals.
LEMMA AccruedNat ==
  ASSUME PoolInv, NEW index \in Nat \ {0}
  PROVE  /\ TreasuryShare(index) \in Nat
         /\ AccruedScaled(index) \in [Accounts -> Nat]
         /\ AccruedSupply(index) \in Nat
         /\ \A a \in Accounts \ {Treasury} : AccruedScaled(index)[a] = scaled[a]
<1>1. DebtAccrued \in Nat BY AccrualOrdered DEF DebtAccrued
<1>2. config.reserveFactor \in Nat BY DEF PoolInv, PoolTypeOK
<1>3. AmountToMint \in Nat BY <1>1, <1>2, PercentMulNat DEF AmountToMint
<1>4. TreasuryShare(index) \in Nat BY <1>3, RayDivNat DEF TreasuryShare
<1>5. scaled \in [Accounts -> Nat] /\ scaledSupply \in Nat BY DEF PoolInv, PoolTypeOK
<1>6. Treasury \in Accounts BY PoolAssumption
<1> QED BY <1>4, <1>5, <1>6, CreditNat DEF AccruedScaled, AccruedSupply

\* updateState leaves a reserve clock and an index the invariant allows.
LEMMA UpdateStatePreserves ==
  ASSUME PoolInv, NEW rate \in Nat, UpdateState(IndexAt(rate)), now' = now
  PROVE  /\ liquidityIndex' \in Nat /\ liquidityIndex' >= RAY
         /\ lastUpdateTimestamp' \in Nat /\ lastUpdateTimestamp' = now'
BY IndexAtBounds DEF UpdateState, PoolInv, DebtInv, DebtTypeOK

\* The current rates are naturals.
LEMMA RatesNat ==
  ASSUME PoolInv PROVE currentLiquidityRate \in Nat /\ currentStableBorrowRate \in Nat
BY PoolAssumption, EnvironmentAssumption DEF PoolInv, PoolTypeOK

(***************************************************************************)
(* Each step of the pool is a step of the debt token                       *)
(***************************************************************************)

\* A loan of the pool is one the token grants, at the rate for new loans.
LEMMA BorrowLends ==
  ASSUME PoolInv, NEW a \in Accounts, NEW b \in Accounts, NEW amount \in Amounts,
         Borrow(a, b, amount)
  PROVE  DebtNext
<1>1. currentStableBorrowRate \in Rates BY DEF PoolInv, PoolTypeOK
<1>2. Lend(a, b, amount, currentStableBorrowRate) BY DEF Borrow
<1> QED BY <1>1, <1>2 DEF DebtNext

\* A repayment of the pool settles something, and at most what is owed.
LEMMA RepaySettles ==
  ASSUME PoolInv, NEW a \in Accounts, NEW b \in Accounts,
         NEW amount \in Amounts \cup {MaxUint256}, Repay(a, b, amount)
  PROVE  DebtNext
<1> DEFINE payback == IF amount < DebtOf(b) THEN amount ELSE DebtOf(b)
<1>1. DebtOf(b) \in Nat BY DebtOfBounds DEF PoolInv
<1>2. amount \in Nat BY EnvironmentAssumption, PoolAssumption
<1>3. amount # 0 /\ DebtOf(b) # 0 /\ Settle(b, payback) BY DEF Repay, ValidateRepay
<1>4. payback \in 1 .. DebtOf(b) BY <1>1, <1>2, <1>3
<1> HIDE DEF payback
<1> QED BY <1>3, <1>4 DEF DebtNext

\* Every other step is a delegation, the passing of time, or does not concern the
\* token at all.
LEMMA StepRefinesDebt ==
  ASSUME PoolInv, [Next]_vars PROVE [DebtNext]_<<now, debtVars>>
<1>1. CASE UNCHANGED vars BY <1>1 DEF vars
<1>2. CASE AdvanceTime BY <1>2 DEF AdvanceTime, DebtNext
<1>3. ASSUME NEW a \in Accounts, NEW b \in Accounts, NEW amount \in Amounts,
             Deposit(a, b, amount) \/ Borrow(a, b, amount)
      PROVE  [DebtNext]_<<now, debtVars>>
  BY <1>3, BorrowLends DEF Deposit
<1>4. ASSUME NEW a \in Accounts, NEW b \in Accounts, NEW amount \in TransferAmounts,
             TransferAToken(a, b, amount) \/ TransferPToken(a, b, amount)
      PROVE  [DebtNext]_<<now, debtVars>>
  BY <1>4 DEF TransferAToken, TransferPToken
<1>5. ASSUME NEW a \in Accounts, NEW b \in Accounts,
             NEW amount \in Amounts \cup {MaxUint256},
             Withdraw(a, b, amount) \/ Repay(a, b, amount)
      PROVE  [DebtNext]_<<now, debtVars>>
  BY <1>5, RepaySettles DEF Withdraw
<1>6. ASSUME NEW a \in Accounts, NEW b \in Accounts, WithdrawInterest(a, b)
      PROVE  [DebtNext]_<<now, debtVars>>
  BY <1>6 DEF WithdrawInterest
<1>7. ASSUME NEW a \in Accounts, NEW b \in Accounts, NEW amount \in Allowances,
             DelegateCredit(a, b, amount)
      PROVE  [DebtNext]_<<now, debtVars>>
  BY <1>7 DEF DelegateCredit, DebtNext
<1>8. ASSUME NEW configuration \in Configurations, SetConfiguration(configuration)
      PROVE  [DebtNext]_<<now, debtVars>>
  BY <1>8 DEF SetConfiguration
<1>9. ASSUME NEW val \in PauseValues, SetPause(val)
      PROVE  [DebtNext]_<<now, debtVars>>
  BY <1>9 DEF SetPause
<1>10. ASSUME NEW depositRate \in DepositRates, NEW borrowRate \in Rates,
              UpdateInterestRates(depositRate, borrowRate)
       PROVE  [DebtNext]_<<now, debtVars>>
  BY <1>10 DEF UpdateInterestRates
<1>11. ASSUME NEW borrower \in Borrowers, UpdateProjectBorrower(borrower)
       PROVE  [DebtNext]_<<now, debtVars>>
  BY <1>11 DEF UpdateProjectBorrower
<1> QED BY <1>1, <1>2, <1>3, <1>4, <1>5, <1>6, <1>7, <1>8, <1>9, <1>10, <1>11 DEF Next

(***************************************************************************)
(* The invariant                                                           *)
(***************************************************************************)

\* A redemption leaves ledgers and balances of naturals.
LEMMA RedeemPreserves ==
  ASSUME PoolInv, NEW user \in Accounts, NEW to \in Accounts, NEW amount \in Nat,
         Redeem(user, to, amount)
  PROVE  /\ scaled' \in [Accounts -> Nat] /\ scaledSupply' \in Nat
         /\ cash' \in Nat /\ wallet' \in [Accounts -> Nat]
<1>1. Index \in Nat \ {0} BY RatesNat, IndexAtBounds DEF Index
<1>2. RayDiv(amount, Index) \in Nat BY <1>1, RayDivNat
<1>3. AccruedScaled(Index) \in [Accounts -> Nat] /\ AccruedSupply(Index) \in Nat
  BY <1>1, AccruedNat
<1>4. scaled' \in [Accounts -> Nat]
  BY <1>2, <1>3, DebitNat DEF Redeem
<1>5. scaledSupply' \in Nat BY <1>2, <1>3 DEF Redeem
<1>6. cash \in Nat /\ wallet \in [Accounts -> Nat] BY DEF PoolInv, PoolTypeOK
<1>7. cash' \in Nat BY <1>6 DEF Redeem, PayOut
<1>8. wallet' \in [Accounts -> Nat] BY <1>6, CreditNat DEF Redeem, PayOut
<1> QED BY <1>4, <1>5, <1>7, <1>8

\* updateState on its own keeps the aToken's ledger one of naturals.
LEMMA AccrueToTreasuryPreserves ==
  ASSUME PoolInv, NEW rate \in Nat, AccrueToTreasury(IndexAt(rate))
  PROVE  scaled' \in [Accounts -> Nat] /\ scaledSupply' \in Nat
BY IndexAtBounds, AccruedNat DEF AccrueToTreasury

\* What the invariant says of principal and borrowing bits carries over while
\* neither changes.
LEMMA BitsUnchanged ==
  ASSUME PoolInv, UNCHANGED <<isBorrowing, principal>>
  PROVE  BorrowingBitMatchesPrincipal'
BY DEF PoolInv, BorrowingBitMatchesPrincipal

\* deposit preserves the invariant.
LEMMA DepositPreserves ==
  ASSUME PoolInv, DebtInv', NEW a \in Accounts, NEW b \in Accounts,
         NEW amount \in Amounts, Deposit(a, b, amount)
  PROVE  PoolInv'
<1>1. amount \in Nat BY EnvironmentAssumption
<1>2. UpdateState(Index) /\ UNCHANGED <<now, debtVars, adminVars, userConfig>>
  BY DEF Deposit
<1>3. /\ liquidityIndex' \in Nat /\ liquidityIndex' >= RAY
      /\ lastUpdateTimestamp' \in Nat /\ lastUpdateTimestamp' = now'
  BY <1>2, RatesNat, UpdateStatePreserves DEF Index
<1>4. Index \in Nat \ {0} BY RatesNat, IndexAtBounds DEF Index
<1>5. RayDiv(amount, Index) \in Nat BY <1>1, <1>4, RayDivNat
<1>6. AccruedScaled(Index) \in [Accounts -> Nat] /\ AccruedSupply(Index) \in Nat
  BY <1>4, AccruedNat
<1>7. scaled' \in [Accounts -> Nat] /\ scaledSupply' \in Nat
  <2>1. /\ scaled' = Credit(AccruedScaled(Index), b, RayDiv(amount, Index))
        /\ scaledSupply' = AccruedSupply(Index) + RayDiv(amount, Index)
    BY DEF Deposit, MintShare
  <2>2. scaled' \in [Accounts -> Nat] BY <1>5, <1>6, <2>1, CreditNat
  <2> QED BY <1>5, <1>6, <2>1, <2>2
<1>8. PoolTypeOK BY DEF PoolInv
<1>9. capital' \in [Accounts -> Nat] /\ capitalSupply' \in Nat
  <2>1. capital' = Credit(capital, b, amount) /\ capitalSupply' = capitalSupply + amount
    BY DEF Deposit, MintCapital
  <2>2. capital \in [Accounts -> Nat] /\ capitalSupply \in Nat BY <1>8 DEF PoolTypeOK
  <2>3. capital' \in [Accounts -> Nat] BY <1>1, <2>1, <2>2, CreditNat
  <2> QED BY <1>1, <2>1, <2>2, <2>3
<1>10. cash' \in Nat /\ wallet' \in [Accounts -> Nat]
  BY <1>1, <1>8, DebitNat DEF Deposit, PayIn, PoolTypeOK
<1>11. PoolTypeOK'
  BY <1>2, <1>3, <1>7, <1>8, <1>9, <1>10 DEF DebtInv, PoolTypeOK, adminVars, userConfig
<1>12. ReserveClockFollowsDebt'
  BY <1>3 DEF ReserveClockFollowsDebt, DebtInv, DebtTypeOK, DebtClocksOrdered
<1>13. BorrowingBitMatchesPrincipal'
  BY <1>2, BitsUnchanged DEF userConfig, debtVars, loanVars
<1> QED BY <1>3, <1>11, <1>12, <1>13 DEF PoolInv

\* withdraw preserves the invariant.
LEMMA WithdrawPreserves ==
  ASSUME PoolInv, DebtInv', NEW a \in Accounts, NEW b \in Accounts,
         NEW amount \in Amounts \cup {MaxUint256}, Withdraw(a, b, amount)
  PROVE  PoolInv'
<1> DEFINE toWithdraw == IF amount = MaxUint256 THEN BalanceOf(a) ELSE amount
           redeemed   == RedeemedCapital(a, toWithdraw)
<1>1. PoolTypeOK BY DEF PoolInv
<1>2. Index \in Nat \ {0} BY RatesNat, IndexAtBounds DEF Index
<1>3. toWithdraw \in Nat
  <2>1. amount \in Nat BY EnvironmentAssumption, PoolAssumption
  <2>2. BalanceOf(a) \in Nat
    BY <1>1, <1>2, ViewIsCommit, RayMulNat DEF BalanceOf, PoolTypeOK
  <2> QED BY <2>1, <2>2
<1>4. /\ UpdateState(Index) /\ Redeem(a, b, toWithdraw)
      /\ redeemed <= capitalSupply
      /\ capital' = Debit(capital, a, redeemed)
      /\ capitalSupply' = capitalSupply - redeemed
      /\ usingAsCollateral' \in {usingAsCollateral, usingAsCollateral \ {a}}
      /\ UNCHANGED <<now, debtVars, adminVars, isBorrowing>>
  BY DEF Withdraw, BurnCapital
<1>5. redeemed \in Nat /\ redeemed <= capital[a]
  BY <1>1, <1>3 DEF RedeemedCapital, PoolTypeOK
<1> HIDE DEF toWithdraw, redeemed
<1>6. /\ liquidityIndex' \in Nat /\ liquidityIndex' >= RAY
      /\ lastUpdateTimestamp' \in Nat /\ lastUpdateTimestamp' = now'
  BY <1>4, RatesNat, UpdateStatePreserves DEF Index
<1>7. /\ scaled' \in [Accounts -> Nat] /\ scaledSupply' \in Nat
      /\ cash' \in Nat /\ wallet' \in [Accounts -> Nat]
  BY <1>3, <1>4, RedeemPreserves
<1>8. capital' \in [Accounts -> Nat] BY <1>1, <1>4, <1>5, DebitNat DEF PoolTypeOK
<1>9. capitalSupply' \in Nat BY <1>1, <1>4, <1>5 DEF PoolTypeOK
<1>10. PoolTypeOK'
  BY <1>1, <1>4, <1>6, <1>7, <1>8, <1>9 DEF DebtInv, PoolTypeOK, adminVars
<1>11. ReserveClockFollowsDebt'
  BY <1>6 DEF ReserveClockFollowsDebt, DebtInv, DebtTypeOK, DebtClocksOrdered
<1>12. BorrowingBitMatchesPrincipal'
  BY <1>4, BitsUnchanged DEF debtVars, loanVars
<1> QED BY <1>6, <1>10, <1>11, <1>12 DEF PoolInv

\* withdrawInterest preserves the invariant.
LEMMA WithdrawInterestPreserves ==
  ASSUME PoolInv, DebtInv', NEW a \in Accounts, NEW b \in Accounts,
         WithdrawInterest(a, b)
  PROVE  PoolInv'
<1>1. PoolTypeOK BY DEF PoolInv
<1>2. Index \in Nat \ {0} BY RatesNat, IndexAtBounds DEF Index
<1>3. AvailableInterest(a) \in Nat
  <2>1. AccruedScaled(Index)[a] \in Nat BY <1>2, AccruedNat
  <2>2. RayMul(AccruedScaled(Index)[a], Index) \in Nat BY <1>2, <2>1, RayMulNat
  <2>3. capital[a] \in Nat BY <1>1 DEF PoolTypeOK
  <2>4. AvailableInterest(a) >= 0 BY DEF WithdrawInterest
  <2> QED BY <2>2, <2>3, <2>4 DEF AvailableInterest
<1>4. /\ UpdateState(Index) /\ Redeem(a, b, AvailableInterest(a))
      /\ UNCHANGED <<now, debtVars, adminVars, userConfig, pTokenVars>>
  BY DEF WithdrawInterest
<1>5. /\ liquidityIndex' \in Nat /\ liquidityIndex' >= RAY
      /\ lastUpdateTimestamp' \in Nat /\ lastUpdateTimestamp' = now'
  BY <1>4, RatesNat, UpdateStatePreserves DEF Index
<1>6. /\ scaled' \in [Accounts -> Nat] /\ scaledSupply' \in Nat
      /\ cash' \in Nat /\ wallet' \in [Accounts -> Nat]
  BY <1>3, <1>4, RedeemPreserves
<1>7. PoolTypeOK'
  BY <1>1, <1>4, <1>5, <1>6 DEF DebtInv, PoolTypeOK, adminVars, userConfig, pTokenVars
<1>8. ReserveClockFollowsDebt'
  BY <1>5 DEF ReserveClockFollowsDebt, DebtInv, DebtTypeOK, DebtClocksOrdered
<1>9. BorrowingBitMatchesPrincipal'
  BY <1>4, BitsUnchanged DEF userConfig, debtVars, loanVars
<1> QED BY <1>5, <1>7, <1>8, <1>9 DEF PoolInv

\* borrow preserves the invariant: the bit is set for the first loan, and a later
\* loan finds it set.
LEMMA BorrowPreserves ==
  ASSUME PoolInv, DebtInv', NEW a \in Accounts, NEW b \in Accounts,
         NEW amount \in Amounts, Borrow(a, b, amount)
  PROVE  PoolInv'
<1>1. PoolTypeOK BY DEF PoolInv
<1>2. amount \in Nat \ {0} BY EnvironmentAssumption DEF Borrow, Lend
<1>3. /\ UpdateState(Index) /\ AccrueToTreasury(Index) /\ PayOut(a, amount)
      /\ isBorrowing' = IF DebtOf(b) = 0 THEN isBorrowing \cup {b} ELSE isBorrowing
      /\ MintDebt(a, b, amount, currentStableBorrowRate) /\ now' = now
      /\ UNCHANGED <<adminVars, usingAsCollateral, pTokenVars>>
  BY DEF Borrow, Lend
<1>4. /\ liquidityIndex' \in Nat /\ liquidityIndex' >= RAY
      /\ lastUpdateTimestamp' \in Nat /\ lastUpdateTimestamp' = now'
  BY <1>3, RatesNat, UpdateStatePreserves DEF Index
<1>5. scaled' \in [Accounts -> Nat] /\ scaledSupply' \in Nat
  BY <1>3, RatesNat, AccrueToTreasuryPreserves DEF Index
<1>6. cash' \in Nat /\ wallet' \in [Accounts -> Nat]
  BY <1>1, <1>2, <1>3, CreditNat DEF PayOut, PoolTypeOK
<1>7. PoolTypeOK'
  BY <1>1, <1>3, <1>4, <1>5, <1>6 DEF DebtInv, PoolTypeOK, adminVars, pTokenVars
<1>8. ReserveClockFollowsDebt'
  BY <1>4 DEF ReserveClockFollowsDebt, DebtInv, DebtTypeOK, DebtClocksOrdered
<1>9. BorrowingBitMatchesPrincipal'
  <2>1. DebtOf(b) \in Nat /\ (principal[b] = 0 => DebtOf(b) = 0)
    BY DebtOfBounds DEF PoolInv
  <2>2. principal \in [Accounts -> Nat] BY <1>1 DEF PoolTypeOK, DebtTypeOK
  <2>3. principal' = [principal EXCEPT ![b] = DebtOf(b) + amount]
    BY <1>3 DEF MintDebt
  <2>4. DebtOf(b) + amount > 0 BY <1>2, <2>1
  <2> QED BY <1>3, <2>1, <2>2, <2>3, <2>4 DEF PoolInv, BorrowingBitMatchesPrincipal
<1> QED BY <1>4, <1>7, <1>8, <1>9 DEF PoolInv

\* repay preserves the invariant: the bit is cleared exactly when the burn leaves
\* no principal.
LEMMA RepayPreserves ==
  ASSUME PoolInv, DebtInv', NEW a \in Accounts, NEW b \in Accounts,
         NEW amount \in Amounts \cup {MaxUint256}, Repay(a, b, amount)
  PROVE  PoolInv'
<1> DEFINE owed    == DebtOf(b)
           payback == IF amount < owed THEN amount ELSE owed
<1>1. PoolTypeOK BY DEF PoolInv
<1>2. owed \in Nat BY DebtOfBounds DEF PoolInv
<1>3. payback \in Nat /\ payback <= owed
  BY <1>2, EnvironmentAssumption, PoolAssumption
<1>4. /\ UpdateState(Index) /\ AccrueToTreasury(Index) /\ PayIn(a, payback)
      /\ isBorrowing' = BorrowingAfterRepay(b, owed - payback)
      /\ BurnDebt(b, payback) /\ now' = now
      /\ UNCHANGED <<adminVars, usingAsCollateral, pTokenVars>>
  BY DEF Repay, Settle
<1>5. principal' = [principal EXCEPT ![b] = owed - payback]
  BY <1>4 DEF BurnDebt, PrincipalAfterBurn
<1> HIDE DEF owed, payback
<1>6. /\ liquidityIndex' \in Nat /\ liquidityIndex' >= RAY
      /\ lastUpdateTimestamp' \in Nat /\ lastUpdateTimestamp' = now'
  BY <1>4, RatesNat, UpdateStatePreserves DEF Index
<1>7. scaled' \in [Accounts -> Nat] /\ scaledSupply' \in Nat
  BY <1>4, RatesNat, AccrueToTreasuryPreserves DEF Index
<1>8. cash' \in Nat /\ wallet' \in [Accounts -> Nat]
  BY <1>1, <1>3, <1>4, DebitNat DEF PayIn, PoolTypeOK
<1>9. isBorrowing' \in {isBorrowing, isBorrowing \ {b}} BY <1>4 DEF BorrowingAfterRepay
<1>10. PoolTypeOK'
  BY <1>1, <1>4, <1>6, <1>7, <1>8, <1>9 DEF DebtInv, PoolTypeOK, adminVars, pTokenVars
<1>11. ReserveClockFollowsDebt'
  BY <1>6 DEF ReserveClockFollowsDebt, DebtInv, DebtTypeOK, DebtClocksOrdered
<1>12. BorrowingBitMatchesPrincipal'
  <2>1. owed # 0 BY DEF Repay, ValidateRepay, owed
  <2>2. owed = DebtOf(b) /\ (principal[b] = 0 => owed = 0)
    BY DebtOfBounds DEF PoolInv, owed
  <2>3. principal \in [Accounts -> Nat] BY <1>1 DEF PoolTypeOK, DebtTypeOK
  <2>4. owed - payback \in Nat BY <1>2, <1>3
  <2> QED BY <1>4, <1>5, <2>1, <2>2, <2>3, <2>4
          DEF BorrowingAfterRepay, PoolInv, BorrowingBitMatchesPrincipal
<1> QED BY <1>6, <1>10, <1>11, <1>12 DEF PoolInv

\* The transfers of both tokens preserve the invariant.
LEMMA TransfersPreserve ==
  ASSUME PoolInv, DebtInv', NEW a \in Accounts, NEW b \in Accounts,
         NEW amount \in TransferAmounts,
         TransferAToken(a, b, amount) \/ TransferPToken(a, b, amount)
  PROVE  PoolInv'
<1>1. PoolTypeOK BY DEF PoolInv
<1>2. amount \in Nat BY PoolAssumption
<1>3. capital' \in [Accounts -> Nat]
  BY <1>1, <1>2, MoveNat DEF TransferAToken, TransferPToken, PoolTypeOK
<1>4. scaled' \in [Accounts -> Nat]
  <2>1. NormalizedIncome \in Nat \ {0}
    BY ViewIsCommit, RatesNat, IndexAtBounds DEF Index
  <2>2. RayDiv(amount, NormalizedIncome) \in Nat BY <1>2, <2>1, RayDivNat
  <2>3. CASE TransferAToken(a, b, amount)
    BY <1>1, <2>2, <2>3, MoveNat DEF TransferAToken, PoolTypeOK
  <2>4. CASE TransferPToken(a, b, amount)
    BY <1>1, <2>4 DEF TransferPToken, aTokenVars, PoolTypeOK
  <2> QED BY <2>3, <2>4
<1>5. usingAsCollateral' \subseteq Accounts
  BY <1>1 DEF TransferAToken, TransferPToken, FinalizeTransfer,
              CollateralAfterTransfer, userConfig, PoolTypeOK
<1>6. UNCHANGED <<now, debtVars, adminVars, indexVars, isBorrowing, scaledSupply,
                  capitalSupply, assetVars>>
  BY DEF TransferAToken, TransferPToken, userConfig, aTokenVars
<1>7. PoolTypeOK'
  BY <1>1, <1>3, <1>4, <1>5, <1>6
     DEF DebtInv, PoolTypeOK, adminVars, indexVars, assetVars
<1>8. ReserveClockFollowsDebt' /\ liquidityIndex' >= RAY
  BY <1>6 DEF PoolInv, ReserveClockFollowsDebt, indexVars, debtVars, loanVars
<1>9. BorrowingBitMatchesPrincipal'
  BY <1>6, BitsUnchanged DEF debtVars, loanVars
<1> QED BY <1>7, <1>8, <1>9 DEF PoolInv

\* What the configurator does preserves the invariant.
LEMMA ConfiguratorPreserves ==
  ASSUME PoolInv, DebtInv',
         \/ \E configuration \in Configurations : SetConfiguration(configuration)
         \/ \E val \in PauseValues : SetPause(val)
         \/ \E depositRate \in DepositRates, borrowRate \in Rates :
              UpdateInterestRates(depositRate, borrowRate)
         \/ \E borrower \in Borrowers : UpdateProjectBorrower(borrower)
  PROVE  PoolInv'
<1>1. PoolTypeOK BY DEF PoolInv
<1>2. ASSUME NEW configuration \in Configurations, SetConfiguration(configuration)
      PROVE  PoolInv'
  BY <1>1, <1>2, PoolAssumption, BitsUnchanged
     DEF SetConfiguration, PoolInv, PoolTypeOK, DebtInv, ReserveClockFollowsDebt,
         debtVars, loanVars, indexVars, userConfig, aTokenVars, pTokenVars, assetVars
<1>3. ASSUME NEW val \in PauseValues, SetPause(val)
      PROVE  PoolInv'
  BY <1>1, <1>3, PoolAssumption, BitsUnchanged
     DEF SetPause, PoolInv, PoolTypeOK, DebtInv, ReserveClockFollowsDebt,
         debtVars, loanVars, indexVars, userConfig, aTokenVars, pTokenVars, assetVars
<1>4. ASSUME NEW rate \in Nat, UpdateState(IndexAt(rate)),
             AccrueToTreasury(IndexAt(rate)),
             UNCHANGED <<now, debtVars, paused, config, userConfig, pTokenVars, assetVars>>,
             currentLiquidityRate' \in DepositRates, currentStableBorrowRate' \in Rates,
             projectBorrower' \in Accounts
      PROVE  PoolInv'
  <2>1. /\ liquidityIndex' \in Nat /\ liquidityIndex' >= RAY
        /\ lastUpdateTimestamp' \in Nat /\ lastUpdateTimestamp' = now'
    BY <1>4, UpdateStatePreserves
  <2>2. scaled' \in [Accounts -> Nat] /\ scaledSupply' \in Nat
    BY <1>4, AccrueToTreasuryPreserves
  <2>3. PoolTypeOK'
    BY <1>1, <1>4, <2>1, <2>2 DEF DebtInv, PoolTypeOK, userConfig, pTokenVars, assetVars
  <2>4. ReserveClockFollowsDebt'
    BY <2>1 DEF ReserveClockFollowsDebt, DebtInv, DebtTypeOK, DebtClocksOrdered
  <2>5. BorrowingBitMatchesPrincipal'
    BY <1>4, BitsUnchanged DEF userConfig, debtVars, loanVars
  <2> QED BY <2>1, <2>3, <2>4, <2>5 DEF PoolInv
<1>5. ASSUME NEW depositRate \in DepositRates, NEW borrowRate \in Rates,
             UpdateInterestRates(depositRate, borrowRate)
      PROVE  PoolInv'
  <2>1. depositRate \in Nat BY PoolAssumption
  <2> QED BY <1>1, <1>4, <1>5, <2>1 DEF UpdateInterestRates, PoolTypeOK
<1>6. ASSUME NEW borrower \in Borrowers, UpdateProjectBorrower(borrower)
      PROVE  PoolInv'
  BY <1>1, <1>4, <1>6, RatesNat, PoolAssumption
     DEF UpdateProjectBorrower, Index, PoolTypeOK
<1> QED BY <1>2, <1>3, <1>5, <1>6

\* A reserve just initialised satisfies the invariant.
LEMMA InitInv == Init => PoolInv
<1> SUFFICES ASSUME Init PROVE PoolInv
  OBVIOUS
<1>1. DebtInv BY DebtInitInv DEF Init
<1>2. PoolTypeOK
  BY <1>1, PoolAssumption, ScaleAssumption DEF Init, PoolTypeOK, DebtInv, Flags
<1>3. ReserveClockFollowsDebt /\ liquidityIndex >= RAY
  BY EnvironmentAssumption, ScaleAssumption DEF Init, DebtInit, ReserveClockFollowsDebt
<1>4. BorrowingBitMatchesPrincipal
  BY DEF Init, DebtInit, BorrowingBitMatchesPrincipal
<1> QED BY <1>1, <1>2, <1>3, <1>4 DEF PoolInv

\* Every step preserves the invariant.
LEMMA NextPreserves == PoolInv /\ [Next]_vars => PoolInv'
<1> SUFFICES ASSUME PoolInv, [Next]_vars PROVE PoolInv'
  OBVIOUS
<1>1. DebtInv' BY StepRefinesDebt, DebtNextPreserves DEF PoolInv
<1>2. CASE UNCHANGED vars
  BY <1>1, <1>2, BitsUnchanged
     DEF vars, PoolInv, PoolTypeOK, DebtInv, ReserveClockFollowsDebt, debtVars, loanVars,
         adminVars, indexVars, userConfig, aTokenVars, pTokenVars, assetVars
<1>3. ASSUME AdvanceTime \/ \E a, b \in Accounts, amount \in Allowances :
                              DelegateCredit(a, b, amount)
      PROVE  PoolInv'
  <2>1. UNCHANGED <<loanVars, adminVars, indexVars, userConfig, aTokenVars, pTokenVars,
                    assetVars>>
    BY <1>3 DEF AdvanceTime, DelegateCredit, Delegate, debtVars
  <2>2. now \in Nat /\ now' \in {now, now + 1}
    BY <1>3 DEF AdvanceTime, Tick, DelegateCredit, Delegate, PoolInv, DebtInv, DebtTypeOK
  <2>3. PoolTypeOK'
    BY <1>1, <2>1 DEF PoolInv, DebtInv, PoolTypeOK, adminVars, indexVars, userConfig,
                      aTokenVars, pTokenVars, assetVars
  <2>4. ReserveClockFollowsDebt' /\ liquidityIndex' >= RAY
    BY <2>1, <2>2 DEF PoolInv, PoolTypeOK, ReserveClockFollowsDebt, loanVars, indexVars
  <2>5. BorrowingBitMatchesPrincipal'
    BY <2>1, BitsUnchanged DEF loanVars, userConfig
  <2> QED BY <1>1, <2>3, <2>4, <2>5 DEF PoolInv
<1>4. ASSUME NEW a \in Accounts, NEW b \in Accounts, NEW amount \in Amounts,
             Deposit(a, b, amount) \/ Borrow(a, b, amount)
      PROVE  PoolInv'
  BY <1>1, <1>4, DepositPreserves, BorrowPreserves
<1>5. ASSUME NEW a \in Accounts, NEW b \in Accounts, NEW amount \in TransferAmounts,
             TransferAToken(a, b, amount) \/ TransferPToken(a, b, amount)
      PROVE  PoolInv'
  BY <1>1, <1>5, TransfersPreserve
<1>6. ASSUME NEW a \in Accounts, NEW b \in Accounts,
             NEW amount \in Amounts \cup {MaxUint256},
             Withdraw(a, b, amount) \/ Repay(a, b, amount)
      PROVE  PoolInv'
  BY <1>1, <1>6, WithdrawPreserves, RepayPreserves
<1>7. ASSUME NEW a \in Accounts, NEW b \in Accounts, WithdrawInterest(a, b)
      PROVE  PoolInv'
  BY <1>1, <1>7, WithdrawInterestPreserves
<1>8. CASE \/ \E configuration \in Configurations : SetConfiguration(configuration)
           \/ \E val \in PauseValues : SetPause(val)
           \/ \E depositRate \in DepositRates, borrowRate \in Rates :
                UpdateInterestRates(depositRate, borrowRate)
           \/ \E borrower \in Borrowers : UpdateProjectBorrower(borrower)
  BY <1>1, <1>8, ConfiguratorPreserves
<1> QED BY <1>2, <1>3, <1>4, <1>5, <1>6, <1>7, <1>8 DEF Next

\* The invariant holds in every state.
THEOREM PoolInvariant == Spec => []PoolInv
<1> QED BY InitInv, NextPreserves, PTL DEF Spec

(***************************************************************************)
(* What follows from it                                                    *)
(***************************************************************************)

\* The storage of the reserve and its tokens keeps its types: no balance, supply
\* or debt ever wraps below zero and no division is by zero.
THEOREM PoolTypeCorrect == Spec => []PoolTypeOK
<1>1. PoolInv => PoolTypeOK BY DEF PoolInv
<1> QED BY <1>1, PoolInvariant, PTL

\* The debt is never stamped after the reserve.
THEOREM ReserveClockCorrect == Spec => []ReserveClockFollowsDebt
<1>1. PoolInv => ReserveClockFollowsDebt BY DEF PoolInv
<1> QED BY <1>1, PoolInvariant, PTL

\* The accrual to the treasury never makes a transaction revert.
THEOREM AccrualCorrect == Spec => []AccrualNeverReverts
<1>1. PoolInv => AccrualNeverReverts BY AccrualOrdered DEF AccrualNeverReverts
<1> QED BY <1>1, PoolInvariant, PTL

\* The borrowing bits are exactly the debtors.
THEOREM BorrowingBitCorrect == Spec => []BorrowingBitMatchesDebt
<1>1. ASSUME PoolInv, NEW a \in Accounts
      PROVE  a \in isBorrowing <=> DebtOf(a) > 0
  <2>1. /\ DebtOf(a) \in Nat /\ DebtOf(a) >= principal[a]
        /\ principal[a] = 0 => DebtOf(a) = 0
    BY <1>1, DebtOfBounds DEF PoolInv
  <2>2. principal[a] \in Nat BY <1>1 DEF PoolInv, PoolTypeOK, DebtTypeOK
  <2> QED BY <1>1, <2>1, <2>2 DEF PoolInv, BorrowingBitMatchesPrincipal
<1>2. PoolInv => BorrowingBitMatchesDebt BY <1>1 DEF BorrowingBitMatchesDebt
<1> QED BY <1>2, PoolInvariant, PTL

\* A whole balance is worth the whole share, whatever the index.
THEOREM WholeBalanceCorrect == Spec => []WholeBalanceIsWholeShare
<1>1. ASSUME PoolInv, NEW a \in Accounts
      PROVE  RayDiv(BalanceOf(a), Index) = scaled[a]
  <2>1. BalanceOf(a) = RayMul(scaled[a], Index) BY <1>1, ViewIsCommit DEF BalanceOf
  <2>2. Index \in Nat /\ Index >= RAY BY <1>1, RatesNat, IndexAtBounds DEF Index
  <2>3. scaled[a] \in Nat BY <1>1 DEF PoolInv, PoolTypeOK
  <2> QED BY <2>1, <2>2, <2>3, RayRoundTrip
<1>2. PoolInv => WholeBalanceIsWholeShare BY <1>1 DEF WholeBalanceIsWholeShare
<1> QED BY <1>2, PoolInvariant, PTL

\* The reserve drives its debt token as DebtSpec allows: what is proved of the
\* token on its own holds of the token in the pool.
THEOREM PoolRefinesDebt == Spec => DebtSpec
<1>1. Init => DebtInit BY DEF Init
<1>2. PoolInv /\ [Next]_vars => [DebtNext]_<<now, debtVars>> BY StepRefinesDebt
<1> QED BY <1>1, <1>2, PoolInvariant, PTL DEF Spec, DebtSpec

(***************************************************************************)
(* What a step may never do                                                *)
(***************************************************************************)

\* A step that stores an index stores the one at the rate it leaves behind.
LEMMA IndexStored ==
  ASSUME PoolInv, [Next]_vars
  PROVE  UNCHANGED indexVars \/ UpdateState(IndexAt(currentLiquidityRate'))
<1>1. CASE UNCHANGED vars BY <1>1 DEF vars
<1>2. CASE AdvanceTime BY <1>2 DEF AdvanceTime
<1>3. ASSUME NEW a \in Accounts, NEW b \in Accounts, NEW amount,
             \/ Deposit(a, b, amount)  \/ Borrow(a, b, amount)
             \/ Withdraw(a, b, amount) \/ Repay(a, b, amount)
             \/ WithdrawInterest(a, b)
      PROVE  UpdateState(IndexAt(currentLiquidityRate'))
  BY <1>3 DEF Deposit, Borrow, Withdraw, Repay, WithdrawInterest, Index, adminVars
<1>4. ASSUME NEW a \in Accounts, NEW b \in Accounts, NEW amount,
             \/ TransferAToken(a, b, amount) \/ TransferPToken(a, b, amount)
             \/ DelegateCredit(a, b, amount)
      PROVE  UNCHANGED indexVars
  BY <1>4 DEF TransferAToken, TransferPToken, DelegateCredit
<1>5. CASE \/ \E configuration \in Configurations : SetConfiguration(configuration)
           \/ \E val \in PauseValues : SetPause(val)
  BY <1>5 DEF SetConfiguration, SetPause
<1>6. CASE \E depositRate \in DepositRates, borrowRate \in Rates :
             UpdateInterestRates(depositRate, borrowRate)
  BY <1>6 DEF UpdateInterestRates
<1>7. CASE \E borrower \in Borrowers : UpdateProjectBorrower(borrower)
  BY <1>7 DEF UpdateProjectBorrower, Index
<1> QED BY <1>1, <1>2, <1>3, <1>4, <1>5, <1>6, <1>7 DEF Next

\* Within a block, at one rate, a step leaves the index the views use.
LEMMA IncomeStep ==
  ASSUME PoolInv, [Next]_vars, now' = now, currentLiquidityRate' = currentLiquidityRate
  PROVE  NormalizedIncome' = NormalizedIncome
<1>1. CASE UNCHANGED indexVars BY <1>1 DEF NormalizedIncome, indexVars
<1>2. CASE UpdateState(Index)
  <2>1. NormalizedIncome' = Index BY <1>2 DEF UpdateState, NormalizedIncome
  <2> QED BY <2>1, ViewIsCommit
<1> QED BY <1>1, <1>2, IndexStored DEF Index

\* Within a block only a change of the rate reprices the balances.
THEOREM IncomeCorrect == Spec => IncomeRepricedOnlyByRates
<1>1. PoolInv /\ [Next]_vars
        => [now' = now /\ currentLiquidityRate' = currentLiquidityRate
              => NormalizedIncome' = NormalizedIncome]_vars
  BY IncomeStep
<1> QED BY <1>1, PoolInvariant, PTL DEF Spec, IncomeRepricedOnlyByRates

\* While the pool is paused nobody's money moves.
THEOREM PauseCorrect == Spec => PauseFreezesFunds
<1> DEFINE Frozen ==
      /\ UNCHANGED <<assetVars, principal, isBorrowing, usingAsCollateral>>
      /\ \A a \in Accounts \ {Treasury} : scaled'[a] = scaled[a]
<1>1. ASSUME PoolInv, [Next]_vars, paused PROVE Frozen
  <2>1. CASE UNCHANGED vars BY <2>1 DEF vars, debtVars, loanVars, userConfig, aTokenVars
  <2>2. CASE AdvanceTime
    BY <2>2 DEF AdvanceTime, debtVars, loanVars, userConfig, aTokenVars
  <2>3. ASSUME NEW a \in Accounts, NEW b \in Accounts, NEW amount,
               \/ Deposit(a, b, amount)  \/ Borrow(a, b, amount)
               \/ Withdraw(a, b, amount) \/ Repay(a, b, amount)
               \/ WithdrawInterest(a, b) \/ TransferAToken(a, b, amount)
        PROVE  FALSE
    BY <1>1, <2>3 DEF Deposit, Borrow, Withdraw, Repay, WithdrawInterest,
                      TransferAToken, FinalizeTransfer
  <2>4. ASSUME NEW a \in Accounts, NEW b \in Accounts, NEW amount,
               TransferPToken(a, b, amount) \/ DelegateCredit(a, b, amount)
        PROVE  Frozen
    BY <2>4 DEF TransferPToken, DelegateCredit, Delegate, debtVars, loanVars,
                userConfig, aTokenVars
  <2>5. CASE \/ \E configuration \in Configurations : SetConfiguration(configuration)
             \/ \E val \in PauseValues : SetPause(val)
    BY <2>5 DEF SetConfiguration, SetPause, debtVars, loanVars, userConfig, aTokenVars
  <2>6. ASSUME NEW rate \in Nat, AccrueToTreasury(IndexAt(rate)),
               UNCHANGED <<debtVars, userConfig, assetVars>>
        PROVE  Frozen
    <3>1. \A a \in Accounts \ {Treasury} : scaled'[a] = scaled[a]
      BY <1>1, <2>6, IndexAtBounds, AccruedNat DEF AccrueToTreasury
    <3> QED BY <2>6, <3>1 DEF debtVars, loanVars, userConfig
  <2>7. CASE \E depositRate \in DepositRates, borrowRate \in Rates :
               UpdateInterestRates(depositRate, borrowRate)
    BY <2>6, <2>7, PoolAssumption DEF UpdateInterestRates
  <2>8. CASE \E borrower \in Borrowers : UpdateProjectBorrower(borrower)
    BY <1>1, <2>6, <2>8, RatesNat DEF UpdateProjectBorrower, Index
  <2> HIDE DEF Frozen
  <2> QED BY <1>1, <2>1, <2>2, <2>3, <2>4, <2>5, <2>7, <2>8 DEF Next
<1>2. PoolInv /\ [Next]_vars => [paused => Frozen]_vars
  <2> HIDE DEF Frozen
  <2> QED BY <1>1
<1> QED BY <1>2, PoolInvariant, PTL DEF Spec, PauseFreezesFunds

\* Capital is recorded against payments, and erased against payouts.
THEOREM CapitalCorrect == Spec => CapitalFollowsPayments
<1> DEFINE recorded == capitalSupply' - capitalSupply
           paidIn   == cash' - cash
           Followed == /\ recorded > 0 => paidIn = recorded
                       /\ recorded < 0 => paidIn <= recorded
<1>1. ASSUME PoolInv, [Next]_vars PROVE Followed
  <2>1. cash \in Nat /\ capitalSupply \in Nat BY <1>1 DEF PoolInv, PoolTypeOK
  <2>2. CASE UNCHANGED capitalSupply BY <2>1, <2>2
  <2>3. ASSUME NEW a \in Accounts, NEW b \in Accounts, NEW amount \in Amounts,
               Deposit(a, b, amount)
        PROVE  Followed
    <3>1. capitalSupply' = capitalSupply + amount /\ cash' = cash + amount
      BY <2>3 DEF Deposit, PayIn, MintCapital
    <3>2. amount \in Nat BY EnvironmentAssumption
    <3> QED BY <2>1, <3>1, <3>2
  <2>4. ASSUME NEW a \in Accounts, NEW b \in Accounts,
               NEW amount \in Amounts \cup {MaxUint256}, Withdraw(a, b, amount)
        PROVE  Followed
    <3> DEFINE toWithdraw == IF amount = MaxUint256 THEN BalanceOf(a) ELSE amount
               redeemed   == RedeemedCapital(a, toWithdraw)
    <3>1. toWithdraw \in Nat
      <4>1. Index \in Nat BY <1>1, RatesNat, IndexAtBounds DEF Index
      <4>2. scaled[a] \in Nat BY <1>1 DEF PoolInv, PoolTypeOK
      <4>3. BalanceOf(a) \in Nat BY <1>1, <4>1, <4>2, ViewIsCommit, RayMulNat DEF BalanceOf
      <4> QED BY <4>3, EnvironmentAssumption, PoolAssumption
    <3>2. capitalSupply' = capitalSupply - redeemed /\ cash' = cash - toWithdraw
      BY <2>4 DEF Withdraw, Redeem, PayOut, BurnCapital
    <3>3. capital[a] \in Nat BY <1>1 DEF PoolInv, PoolTypeOK
    <3> HIDE DEF toWithdraw
    <3>4. redeemed \in Nat /\ redeemed <= toWithdraw BY <3>1, <3>3 DEF RedeemedCapital
    <3> QED BY <2>1, <3>1, <3>2, <3>4
  <2>5. [Next]_vars
          => \/ UNCHANGED capitalSupply
             \/ \E a, b \in Accounts, amount \in Amounts : Deposit(a, b, amount)
             \/ \E a, b \in Accounts, amount \in Amounts \cup {MaxUint256} :
                  Withdraw(a, b, amount)
    BY DEF Next, vars, AdvanceTime, Borrow, TransferAToken, TransferPToken, Repay,
           WithdrawInterest, DelegateCredit, SetConfiguration, SetPause,
           UpdateInterestRates, UpdateProjectBorrower, pTokenVars
  <2> HIDE DEF Followed
  <2> QED BY <1>1, <2>2, <2>3, <2>4, <2>5
<1>2. PoolInv /\ [Next]_vars
        => [LET r == capitalSupply' - capitalSupply
                p == cash' - cash
            IN  /\ r > 0 => p = r
                /\ r < 0 => p <= r]_vars
  BY <1>1
<1> QED BY <1>2, PoolInvariant, PTL DEF Spec, CapitalFollowsPayments

\* Debts only grow for those who may owe, and by what was delegated when somebody
\* else takes the money.
THEOREM LoansCorrect == Spec => LoansAreAuthorised
<1> DEFINE lent(debtor) == DebtOf(debtor)' - DebtOf(debtor)
           Authorised(debtor) ==
             lent(debtor) > 0 =>
               /\ debtor \in {projectBorrower, EmergencyAdmin}
               /\ \A a \in Accounts \ {debtor} :
                    wallet'[a] > wallet[a] =>
                      borrowAllowances'[debtor][a] =
                        borrowAllowances[debtor][a] - lent(debtor)
<1>1. ASSUME PoolInv, [Next]_vars, now' = now, NEW debtor \in Accounts
      PROVE  Authorised(debtor)
  <2>1. DebtInv BY <1>1 DEF PoolInv
  <2>2. \A a \in Accounts : DebtOf(a) \in Nat BY <2>1, DebtOfBounds
  <2>3. CASE UNCHANGED loanVars
    <3>1. DebtOf(debtor)' = DebtOf(debtor) BY <1>1, <2>3 DEF DebtOf, loanVars
    <3> QED BY <2>2, <3>1
  <2>4. ASSUME NEW sender \in Accounts, NEW onBehalfOf \in Accounts,
               NEW amount \in Amounts, Borrow(sender, onBehalfOf, amount)
        PROVE  Authorised(debtor)
    <3>1. /\ amount \in Nat \ {0}
          /\ MintDebt(sender, onBehalfOf, amount, currentStableBorrowRate)
          /\ wallet' = Credit(wallet, sender, amount)
          /\ onBehalfOf \in {projectBorrower, EmergencyAdmin}
      BY <2>4, EnvironmentAssumption DEF Borrow, ValidateBorrow, Lend, PayOut
    <3>2. currentStableBorrowRate \in Nat BY <1>1, RatesNat
    <3>3. /\ DebtOf(onBehalfOf)' = DebtOf(onBehalfOf) + amount
          /\ \A other \in Accounts \ {onBehalfOf} : DebtOf(other)' = DebtOf(other)
      BY <1>1, <2>1, <3>1, <3>2, MintMoves
    <3>4. debtor # onBehalfOf => ~(lent(debtor) > 0) BY <2>2, <3>3
    <3>5. lent(onBehalfOf) = amount BY <2>2, <3>1, <3>3
    <3>6. ASSUME NEW a \in Accounts \ {onBehalfOf}, wallet'[a] > wallet[a]
          PROVE  borrowAllowances'[onBehalfOf][a] = borrowAllowances[onBehalfOf][a] - amount
      <4>1. wallet \in [Accounts -> Nat] BY <1>1 DEF PoolInv, PoolTypeOK
      <4>2. a = sender BY <3>1, <3>6, <4>1 DEF Credit
      <4>3. DecreaseBorrowAllowance(onBehalfOf, a, amount) BY <3>1, <4>2 DEF MintDebt
      <4>4. borrowAllowances \in [Accounts -> [Accounts -> Nat]]
        BY <2>1 DEF DebtInv, DebtTypeOK
      <4> QED BY <4>3, <4>4 DEF DecreaseBorrowAllowance
    <3> HIDE DEF lent
    <3> QED BY <3>1, <3>4, <3>5, <3>6
  <2>5. ASSUME NEW sender \in Accounts, NEW onBehalfOf \in Accounts,
               NEW amount \in Amounts \cup {MaxUint256}, Repay(sender, onBehalfOf, amount)
        PROVE  Authorised(debtor)
    <3> DEFINE payback == IF amount < DebtOf(onBehalfOf) THEN amount ELSE DebtOf(onBehalfOf)
    <3>1. payback \in Nat BY <2>2, EnvironmentAssumption, PoolAssumption
    <3>2. BurnDebt(onBehalfOf, payback) BY <2>5 DEF Repay, Settle
    <3> HIDE DEF payback
    <3>3. /\ DebtOf(onBehalfOf)' = DebtOf(onBehalfOf) - payback
          /\ \A other \in Accounts \ {onBehalfOf} : DebtOf(other)' = DebtOf(other)
      BY <1>1, <2>1, <3>1, <3>2, BurnMoves
    <3>4. ~(lent(debtor) > 0) BY <2>2, <3>1, <3>3
    <3> QED BY <3>4
  <2>6. [Next]_vars
          => \/ UNCHANGED loanVars
             \/ \E a, b \in Accounts, amount \in Amounts : Borrow(a, b, amount)
             \/ \E a, b \in Accounts, amount \in Amounts \cup {MaxUint256} :
                  Repay(a, b, amount)
    BY DEF Next, vars, AdvanceTime, Deposit, TransferAToken, TransferPToken, Withdraw,
           WithdrawInterest, DelegateCredit, Delegate, SetConfiguration, SetPause,
           UpdateInterestRates, UpdateProjectBorrower, debtVars
  <2> HIDE DEF Authorised
  <2> QED BY <1>1, <2>3, <2>4, <2>5, <2>6
<1>2. PoolInv /\ [Next]_vars
        => [now' = now =>
              \A debtor \in Accounts :
                LET given == DebtOf(debtor)' - DebtOf(debtor)
                IN  given > 0 =>
                      /\ debtor \in {projectBorrower, EmergencyAdmin}
                      /\ \A a \in Accounts \ {debtor} :
                           wallet'[a] > wallet[a] =>
                             borrowAllowances'[debtor][a] =
                               borrowAllowances[debtor][a] - given]_vars
  BY <1>1
<1> QED BY <1>2, PoolInvariant, PTL DEF Spec, LoansAreAuthorised
===============================================================================
