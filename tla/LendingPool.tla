------------------------------ MODULE LendingPool ------------------------------
(***************************************************************************)
(* One reserve of the lending pool (LendingPool.sol, ReserveLogic.sol,     *)
(* ValidationLogic.sol) with the tokens it drives: the interest-bearing    *)
(* aToken, the pToken that records the capital paid in, and the stable     *)
(* debt token, whose module is extended.                                   *)
(*                                                                         *)
(* A reserve belongs to a project and touches no state of another one but  *)
(* the pause flag, so one reserve stands for each.  An action is one       *)
(* transaction: the EVM runs it to the end or reverts it, which here means *)
(* that the action is not enabled.  The model starts when the configurator *)
(* has just initialised the reserve.                                       *)
(*                                                                         *)
(* Nothing ever mints variable debt, so that side of the reserve (an index *)
(* that stays at one ray, an empty token) is left out.                     *)
(***************************************************************************)
EXTENDS StableDebtToken, FiniteSets, Functions

CONSTANTS
  Treasury,          \* address the reserve factor is paid to
  EmergencyAdmin,    \* address that may always borrow, beside the project's
  InitialBorrower,   \* projectBorrower given to initReserve
  Borrowers,         \* addresses an administrator may name as projectBorrower
  PauseValues,       \* values an administrator may give to _paused
  TransferAmounts,   \* amounts of aToken or pToken a holder may transfer
  DepositRates,      \* liquidity rates an administrator may set
  Configurations,    \* flags and reserve factors the configurator may store
  InitialWallets,    \* balances of the underlying token, per account
  MaxUint128,        \* type(uint128).max, the largest index
  MaxUint256,        \* type(uint256).max, which asks for the whole balance or debt
  MaxScaledSupply,   \* bound: no deposit takes the aToken's scaled supply over it
  MaxCapital         \* bound: no deposit takes the pToken's supply over it

Flags == {"active", "frozen", "borrowing", "deposits", "withdrawals",
          "interestWithdrawals"}

\* Addresses are numbers of 160 bits: there are finitely many.
ASSUME PoolAssumption ==
  /\ IsFiniteSet(Accounts)
  /\ {Treasury, EmergencyAdmin, InitialBorrower} \subseteq Accounts
  /\ Borrowers \subseteq Accounts
  /\ PauseValues \subseteq BOOLEAN
  /\ TransferAmounts \subseteq Nat
  /\ DepositRates \subseteq Nat
  /\ 0 \in Rates \cap DepositRates
  /\ Configurations \subseteq [flags : SUBSET Flags, reserveFactor : Nat]
  /\ InitialWallets \in [Accounts -> Nat]
  /\ MaxUint128 \in Nat
  /\ MaxUint256 \in Nat
  /\ MaxScaledSupply \in Nat
  /\ MaxCapital \in Nat

VARIABLES
  paused,                   \* _paused
  config,                   \* reserve.configuration
  liquidityIndex,           \* reserve.liquidityIndex
  lastUpdateTimestamp,      \* reserve.lastUpdateTimestamp
  currentLiquidityRate,     \* reserve.currentLiquidityRate
  currentStableBorrowRate,  \* reserve.currentStableBorrowRate
  projectBorrower,          \* reserve.projectBorrower
  usingAsCollateral,        \* accounts with the collateral bit of this reserve
  isBorrowing,              \* accounts with the borrowing bit of this reserve
  scaled,                   \* the aToken's _balances: balance / index
  scaledSupply,             \* the aToken's _totalSupply
  capital,                  \* the pToken's _balances
  capitalSupply,            \* the pToken's _totalSupply
  cash,                     \* underlying held by the aToken contract
  wallet                    \* underlying held by the accounts

adminVars   == <<paused, config, currentLiquidityRate, currentStableBorrowRate,
                 projectBorrower>>
indexVars   == <<liquidityIndex, lastUpdateTimestamp>>
userConfig  == <<usingAsCollateral, isBorrowing>>
aTokenVars  == <<scaled, scaledSupply>>
pTokenVars  == <<capital, capitalSupply>>
assetVars   == <<cash, wallet>>
vars == <<now, debtVars, adminVars, indexVars, userConfig, aTokenVars,
          pTokenVars, assetVars>>

Allowed(flag) == flag \in config.flags

(***************************************************************************)
(* ReserveLogic: what a transaction reads, and what it commits first       *)
(***************************************************************************)

\* Fault: the view shows the stored index.
StoredIncome == liquidityIndex

\* getNormalizedIncome: the index every view computes balances with.
NormalizedIncome ==
  IF lastUpdateTimestamp = now
    THEN liquidityIndex
    ELSE RayMul(LinearInterest(currentLiquidityRate, lastUpdateTimestamp, now),
                liquidityIndex)

\* _updateIndexes: the index a transaction stores, at the given liquidity rate.
IndexAt(rate) ==
  IF rate > 0
    THEN RayMul(LinearInterest(rate, lastUpdateTimestamp, now), liquidityIndex)
    ELSE liquidityIndex

Index == IndexAt(currentLiquidityRate)

\* Fault: compounds at the rate of new loans instead of the average one.
PreviousDebtAtCurrentRate ==
  RayMul(debtSupply, CompoundedInterest(currentStableBorrowRate,
                                        totalSupplyTimestamp, lastUpdateTimestamp))

\* The debt at the reserve's last update, and its interest since.
PreviousStableDebt == DebtSupplyAt(lastUpdateTimestamp)
DebtAccrued == TotalDebt - PreviousStableDebt

\* _mintToTreasury: the treasury's part of that interest, in underlying.
AmountToMint ==
  IF config.reserveFactor = 0
    THEN 0
    ELSE PercentMul(DebtAccrued, config.reserveFactor)

TreasuryShare(index) == RayDiv(AmountToMint, index)

\* The aToken's ledger after updateState, which every transaction starts from.
AccruedScaled(index) == Credit(scaled, Treasury, TreasuryShare(index))
AccruedSupply(index) == scaledSupply + TreasuryShare(index)

\* Fault: returns before the timestamp is stored when there is no income.
UpdateStateOnlyWithIncome(index) ==
  /\ liquidityIndex' = index
  /\ lastUpdateTimestamp' = IF currentLiquidityRate > 0 THEN now ELSE lastUpdateTimestamp

\* Fault: the timestamp is not stored.
UpdateIndexOnly(index) ==
  /\ liquidityIndex' = index
  /\ UNCHANGED lastUpdateTimestamp

\* updateState: the index must fit 128 bits, and the interest be no debt.
UpdateState(index) ==
  /\ index <= MaxUint128
  /\ config.reserveFactor # 0 => PreviousStableDebt <= TotalDebt
  /\ liquidityIndex' = index
  /\ lastUpdateTimestamp' = now

\* aToken balanceOf and totalSupply.
BalanceOf(user) == RayMul(scaled[user], NormalizedIncome)
TotalSupply == RayMul(scaledSupply, NormalizedIncome)

(***************************************************************************)
(* ValidationLogic                                                         *)
(***************************************************************************)

ValidateDeposit(amount) ==
  /\ amount # 0
  /\ Allowed("active") /\ ~Allowed("frozen") /\ Allowed("deposits")

ValidateWithdraw(user, amount) ==
  /\ amount # 0
  /\ amount <= BalanceOf(user)
  /\ Allowed("active") /\ Allowed("withdrawals")

ValidateInterestWithdraw == Allowed("active") /\ Allowed("interestWithdrawals")

\* Only the project's borrower and the emergency admin may owe.
ValidateBorrow(onBehalfOf, amount) ==
  /\ Allowed("active") /\ ~Allowed("frozen") /\ Allowed("borrowing")
  /\ amount # 0
  /\ onBehalfOf \in {projectBorrower, EmergencyAdmin}

\* Only the debtor may ask for the whole debt without naming the amount.
ValidateRepay(sender, onBehalfOf, amount) ==
  /\ Allowed("active")
  /\ amount # 0
  /\ DebtOf(onBehalfOf) # 0
  /\ amount = MaxUint256 => sender = onBehalfOf

(***************************************************************************)
(* Parts of the transactions                                               *)
(***************************************************************************)

\* Fault: the result of the token's transferFrom is ignored.
PayInUnchecked(sender, amount) ==
  /\ wallet' = Debit(wallet, sender, amount)
  /\ cash' = cash + amount

\* safeTransferFrom of the underlying, from an account to the aToken contract.
PayIn(sender, amount) ==
  /\ amount <= wallet[sender]
  /\ wallet' = Debit(wallet, sender, amount)
  /\ cash' = cash + amount

\* safeTransfer of the underlying, from the aToken contract to an account.
PayOut(to, amount) ==
  /\ amount <= cash
  /\ cash' = cash - amount
  /\ wallet' = Credit(wallet, to, amount)

\* The treasury's aTokens, and nobody else's, change with updateState.
AccrueToTreasury(index) ==
  /\ scaled' = AccruedScaled(index)
  /\ scaledSupply' = AccruedSupply(index)

\* Fault: the underlying is paid and the share stays.
RedeemForFree(user, to, amount) ==
  /\ PayOut(to, amount)
  /\ AccrueToTreasury(Index)

\* The aToken burns the share the amount is worth, which must not round to
\* nothing, and pays the amount out of its cash.
Redeem(user, to, amount) ==
  LET share == RayDiv(amount, Index)
  IN  /\ share # 0
      /\ share <= AccruedScaled(Index)[user]
      /\ share <= AccruedSupply(Index)
      /\ scaled' = Debit(AccruedScaled(Index), user, share)
      /\ scaledSupply' = AccruedSupply(Index) - share
      /\ PayOut(to, amount)

\* aToken mint: the share the amount is worth, which must not round to nothing.
MintShare(user, amount) ==
  LET share == RayDiv(amount, Index)
  IN  /\ share # 0
      /\ AccruedSupply(Index) + share <= MaxScaledSupply     \* bound
      /\ scaled' = Credit(AccruedScaled(Index), user, share)
      /\ scaledSupply' = AccruedSupply(Index) + share

\* pToken mint and burn.
MintCapital(user, amount) ==
  /\ amount # 0
  /\ capitalSupply + amount <= MaxCapital     \* bound
  /\ capital' = Credit(capital, user, amount)
  /\ capitalSupply' = capitalSupply + amount

BurnCapital(user, amount) ==
  /\ amount # 0
  /\ amount <= capital[user]
  /\ amount <= capitalSupply
  /\ capital' = Debit(capital, user, amount)
  /\ capitalSupply' = capitalSupply - amount

\* Fault: any withdrawal erases all of the capital.
AllCapital(user, amount) == capital[user]

\* The capital a withdrawal burns: the amount, or all there is of it.
RedeemedCapital(user, amount) ==
  IF amount >= capital[user] THEN capital[user] ELSE amount

\* Fault: the capital is paid out as well.
WholeBalance(user) == RayMul(AccruedScaled(Index)[user], Index)

\* What the balance, with the treasury's share already minted, exceeds the
\* capital by; SafeMath reverts if it does not.
AvailableInterest(user) == RayMul(AccruedScaled(Index)[user], Index) - capital[user]

\* Fault: the bit is never cleared.
BorrowingKept(user, remaining) == isBorrowing

BorrowingAfterRepay(user, remaining) ==
  IF remaining = 0 THEN isBorrowing \ {user} ELSE isBorrowing

\* The sender stops using the reserve as collateral when the whole balance goes,
\* the recipient starts when there was none.
CollateralAfterTransfer(from, to, amount) ==
  IF from = to
    THEN usingAsCollateral
    ELSE (usingAsCollateral \ (IF BalanceOf(from) = amount THEN {from} ELSE {}))
           \cup (IF BalanceOf(to) = 0 THEN {to} ELSE {})

\* Fault: the pause is not looked at.
FinalizeTransferUnpaused(from, to, amount) ==
  /\ from # to => amount <= BalanceOf(from)
  /\ usingAsCollateral' = CollateralAfterTransfer(from, to, amount)

\* finalizeTransfer, the call every aToken transfer makes back into the pool; the
\* amount is not zero.
FinalizeTransfer(from, to, amount) ==
  /\ ~paused
  /\ from # to => amount <= BalanceOf(from)
  /\ usingAsCollateral' = CollateralAfterTransfer(from, to, amount)

(***************************************************************************)
(* Users                                                                   *)
(***************************************************************************)

\* deposit: the sender pays, `onBehalfOf` receives aTokens and pTokens.
Deposit(sender, onBehalfOf, amount) ==
  /\ ~paused
  /\ ValidateDeposit(amount)
  /\ UpdateState(Index)
  /\ PayIn(sender, amount)
  /\ MintShare(onBehalfOf, amount)
  /\ MintCapital(onBehalfOf, amount)
  /\ UNCHANGED <<now, debtVars, adminVars, userConfig>>

\* withdraw: the largest amount stands for the whole balance.  The pToken refuses
\* to burn nothing, so somebody without capital cannot withdraw.
Withdraw(user, to, amount) ==
  LET toWithdraw == IF amount = MaxUint256 THEN BalanceOf(user) ELSE amount
  IN  /\ ~paused
      /\ ValidateWithdraw(user, toWithdraw)
      /\ UpdateState(Index)
      /\ usingAsCollateral' = IF toWithdraw = BalanceOf(user)
                                THEN usingAsCollateral \ {user}
                                ELSE usingAsCollateral
      /\ Redeem(user, to, toWithdraw)
      /\ BurnCapital(user, RedeemedCapital(user, toWithdraw))
      /\ UNCHANGED <<now, debtVars, adminVars, isBorrowing>>

\* withdrawInterest: refused to a user who has no capital.
WithdrawInterest(user, to) ==
  LET interest == AvailableInterest(user)
  IN  /\ ~paused
      /\ ValidateInterestWithdraw
      /\ UpdateState(Index)
      /\ interest >= 0
      /\ capital[user] > 0
      /\ Redeem(user, to, interest)
      /\ UNCHANGED <<now, debtVars, adminVars, userConfig, pTokenVars>>

\* borrow: the sender draws the loan, `onBehalfOf` owes it.
Borrow(sender, onBehalfOf, amount) ==
  /\ ~paused
  /\ ValidateBorrow(onBehalfOf, amount)
  /\ UpdateState(Index)
  /\ Lend(sender, onBehalfOf, amount, currentStableBorrowRate)
  /\ isBorrowing' = IF DebtOf(onBehalfOf) = 0
                      THEN isBorrowing \cup {onBehalfOf}
                      ELSE isBorrowing
  /\ PayOut(sender, amount)
  /\ AccrueToTreasury(Index)
  /\ UNCHANGED <<adminVars, usingAsCollateral, pTokenVars>>

\* repay: at most what is owed, by anybody.
Repay(sender, onBehalfOf, amount) ==
  LET owed    == DebtOf(onBehalfOf)
      payback == IF amount < owed THEN amount ELSE owed
  IN  /\ ~paused
      /\ ValidateRepay(sender, onBehalfOf, amount)
      /\ UpdateState(Index)
      /\ Settle(onBehalfOf, payback)
      /\ isBorrowing' = BorrowingAfterRepay(onBehalfOf, owed - payback)
      /\ PayIn(sender, payback)
      /\ AccrueToTreasury(Index)
      /\ UNCHANGED <<adminVars, usingAsCollateral, pTokenVars>>

\* The aToken's transfer: nothing is accrued, the amount is priced with the view,
\* and as much capital moves along.
TransferAToken(from, to, amount) ==
  LET share == RayDiv(amount, NormalizedIncome)
  IN  /\ share <= scaled[from]
      /\ scaled' = Move(scaled, from, to, share)
      /\ amount # 0
      /\ amount <= capital[from]
      /\ amount <= capitalSupply
      /\ capital' = Move(capital, from, to, amount)
      /\ FinalizeTransfer(from, to, amount)
      /\ UNCHANGED <<now, debtVars, adminVars, indexVars, isBorrowing, scaledSupply,
                     capitalSupply, assetVars>>

\* The pToken inherits an ERC20 transfer the pool knows nothing of.
TransferPToken(from, to, amount) ==
  /\ amount <= capital[from]
  /\ capital' = Move(capital, from, to, amount)
  /\ UNCHANGED <<now, debtVars, adminVars, indexVars, userConfig, aTokenVars,
                 capitalSupply, assetVars>>

\* approveDelegation on the debt token.
DelegateCredit(delegator, delegatee, amount) ==
  /\ Delegate(delegator, delegatee, amount)
  /\ UNCHANGED <<adminVars, indexVars, userConfig, aTokenVars, pTokenVars, assetVars>>

(***************************************************************************)
(* The configurator                                                        *)
(***************************************************************************)

\* setConfiguration stores the bitmap as a whole and accrues nothing.
SetConfiguration(configuration) ==
  /\ config' = configuration
  /\ UNCHANGED <<now, debtVars, paused, currentLiquidityRate,
                 currentStableBorrowRate, projectBorrower, indexVars, userConfig,
                 aTokenVars, pTokenVars, assetVars>>

SetPause(val) ==
  /\ paused' = val
  /\ UNCHANGED <<now, debtVars, config, currentLiquidityRate,
                 currentStableBorrowRate, projectBorrower, indexVars, userConfig,
                 aTokenVars, pTokenVars, assetVars>>

\* Fault: the new borrow rate is applied to the loans already granted.
UpdateInterestRatesRepricing(depositRate, borrowRate) ==
  /\ currentLiquidityRate' = depositRate
  /\ currentStableBorrowRate' = borrowRate
  /\ avgStableRate' = borrowRate
  /\ UpdateState(IndexAt(depositRate))
  /\ AccrueToTreasury(IndexAt(depositRate))
  /\ UNCHANGED <<now, principal, usersStableRate, timestamps, debtSupply,
                 totalSupplyTimestamp, borrowAllowances, paused, config,
                 projectBorrower, userConfig, pTokenVars, assetVars>>

\* updateInterestRates stores the rates first: updateState then applies the new
\* liquidity rate to all the time since the last update.
UpdateInterestRates(depositRate, borrowRate) ==
  LET index == IndexAt(depositRate)
  IN  /\ currentLiquidityRate' = depositRate
      /\ currentStableBorrowRate' = borrowRate
      /\ UpdateState(index)
      /\ AccrueToTreasury(index)
      /\ UNCHANGED <<now, debtVars, paused, config, projectBorrower, userConfig,
                     pTokenVars, assetVars>>

UpdateProjectBorrower(borrower) ==
  /\ projectBorrower' = borrower
  /\ UpdateState(Index)
  /\ AccrueToTreasury(Index)
  /\ UNCHANGED <<now, debtVars, paused, config, currentLiquidityRate,
                 currentStableBorrowRate, userConfig, pTokenVars, assetVars>>

(***************************************************************************)
(* Specification                                                           *)
(***************************************************************************)

\* The reserve as initReserve and the configurator's _initReserve leave it: active,
\* everything else switched off, indexes at one ray and never updated.
Init ==
  /\ DebtInit
  /\ paused = FALSE
  /\ config = [flags |-> {"active"}, reserveFactor |-> 0]
  /\ liquidityIndex = RAY
  /\ lastUpdateTimestamp = 0
  /\ currentLiquidityRate = 0
  /\ currentStableBorrowRate = 0
  /\ projectBorrower = InitialBorrower
  /\ usingAsCollateral = {}
  /\ isBorrowing = {}
  /\ scaled = [a \in Accounts |-> 0]
  /\ scaledSupply = 0
  /\ capital = [a \in Accounts |-> 0]
  /\ capitalSupply = 0
  /\ cash = 0
  /\ wallet = InitialWallets

AdvanceTime ==
  /\ Tick
  /\ UNCHANGED <<debtVars, adminVars, indexVars, userConfig, aTokenVars,
                 pTokenVars, assetVars>>

Next ==
  \/ AdvanceTime
  \/ \E a, b \in Accounts :
       \/ \E amount \in Amounts :
            \/ Deposit(a, b, amount)
            \/ Borrow(a, b, amount)
       \/ \E amount \in TransferAmounts :
            \/ TransferAToken(a, b, amount)
            \/ TransferPToken(a, b, amount)
       \/ \E amount \in Amounts \cup {MaxUint256} :
            \/ Withdraw(a, b, amount)
            \/ Repay(a, b, amount)
       \/ WithdrawInterest(a, b)
       \/ \E amount \in Allowances : DelegateCredit(a, b, amount)
  \/ \E configuration \in Configurations : SetConfiguration(configuration)
  \/ \E val \in PauseValues : SetPause(val)
  \/ \E depositRate \in DepositRates, borrowRate \in Rates :
       UpdateInterestRates(depositRate, borrowRate)
  \/ \E borrower \in Borrowers : UpdateProjectBorrower(borrower)

Spec == Init /\ [][Next]_vars

(***************************************************************************)
(* Invariants                                                              *)
(***************************************************************************)

\* Types of the reserve's and the tokens' storage.
PoolTypeOK ==
  /\ DebtTypeOK
  /\ paused \in BOOLEAN
  /\ config \in [flags : SUBSET Flags, reserveFactor : Nat]
  /\ liquidityIndex \in Nat
  /\ lastUpdateTimestamp \in Nat
  /\ currentLiquidityRate \in DepositRates
  /\ currentStableBorrowRate \in Rates
  /\ projectBorrower \in Accounts
  /\ usingAsCollateral \subseteq Accounts
  /\ isBorrowing \subseteq Accounts
  /\ scaled \in [Accounts -> Nat]
  /\ scaledSupply \in Nat
  /\ capital \in [Accounts -> Nat]
  /\ capitalSupply \in Nat
  /\ cash \in Nat
  /\ wallet \in [Accounts -> Nat]

\* The debt's supply is never stamped later than the reserve: each loan and
\* repayment updates the reserve first.  _mintToTreasury counts the debt's
\* interest from the supply's timestamp to the reserve's, and would revert.
ReserveClockFollowsDebt ==
  /\ totalSupplyTimestamp <= lastUpdateTimestamp
  /\ lastUpdateTimestamp <= now

\* The debt at the reserve's last update is at most the debt now.  _mintToTreasury
\* subtracts the one from the other with SafeMath; if it reverted, so would every
\* deposit, withdrawal, loan and repayment (ReserveLogic.sol, totalDebtAccrued).
AccrualNeverReverts == PreviousStableDebt <= TotalDebt

\* A user's borrowing bit, set by the first loan and cleared by the repayment
\* that settles the debt as the pool measured it before updateState, is set
\* exactly while the debt token says that something is owed.
BorrowingBitMatchesDebt ==
  \A a \in Accounts : a \in isBorrowing <=> DebtOf(a) > 0

\* The balance a user is shown, converted at the index the same transaction
\* stores, is the whole share and no more: withdrawing everything leaves no dust
\* and never fails for want of a fraction, although the view multiplies, the
\* burn divides, both round, and they compute the index in different places.
WholeBalanceIsWholeShare ==
  \A a \in Accounts : RayDiv(BalanceOf(a), Index) = scaled[a]

\* The account has a balance the cash covers, and withdrawals are allowed.
HasCoveredBalance(a) ==
  /\ ~paused /\ Allowed("active") /\ Allowed("withdrawals")
  /\ BalanceOf(a) \in 1 .. cash
  /\ Index <= MaxUint128

\* Somebody who has capital and a balance the cash covers can leave with all of
\* it while withdrawals are allowed: no rounding, accrual or pToken bookkeeping
\* stands in the way of withdraw(type(uint256).max).
CapitalHolderCanLeave ==
  \A a \in Accounts :
    HasCoveredBalance(a) /\ capital[a] > 0 => ENABLED Withdraw(a, a, MaxUint256)

\* What the comment of withdraw promises: the largest amount withdraws the whole
\* aToken balance, for whoever has one.
AnyHolderCanLeave ==
  \A a \in Accounts : HasCoveredBalance(a) => ENABLED Withdraw(a, a, MaxUint256)

SharesBalanced      == scaledSupply = SumFunction(scaled)
CapitalBalanced     == capitalSupply = SumFunction(capital)
UnderlyingConserved == cash + SumFunction(wallet) = SumFunction(InitialWallets)

\* The token contracts keep each total beside the balances it sums, and the
\* underlying neither appears nor disappears.
LedgersBalanced == SharesBalanced /\ CapitalBalanced /\ UnderlyingConserved

(***************************************************************************)
(* Action properties                                                       *)
(***************************************************************************)

\* Within a block nothing but a change of the liquidity rate changes the index
\* that balances are shown with: a transaction commits exactly the income the
\* views had already reported (getNormalizedIncome and _updateIndexes).
IncomeRepricedOnlyByRates ==
  [][now' = now /\ currentLiquidityRate' = currentLiquidityRate
       => NormalizedIncome' = NormalizedIncome]_vars

\* What the comment of the aToken's totalSupply says: as time passes and shares
\* are not burned, the total supply only increases.
TotalSupplyOnlyIncreases ==
  [][scaledSupply' >= scaledSupply => TotalSupply' >= TotalSupply]_vars

\* What the reserve owns: cash and loans.
Owned == cash + SumFunction([a \in Accounts |-> DebtOf(a)])

\* ... less what it owes, the aTokens and the treasury's part of the interest
\* since the last update.
Equity == Owned - TotalSupply - AmountToMint

\* Half an index where a share is minted or burned, as much again where one is
\* minted to the treasury, and one unit for the rounding of the total supply.
RoundingUnit ==
  (NormalizedIncome * (IF AmountToMint = 0 THEN 1 ELSE 2)) \div (2 * RAY) + 1

\* No user makes or loses money for the others: at fixed rates and settings,
\* within a block, a transaction moves the equity by less than a rounding unit,
\* whatever it mints, burns, lends or takes back (deposit, withdraw,
\* withdrawInterest, borrow, repay, transfers, the treasury's mint).
EquityIsConserved ==
  [][/\ now' = now
     /\ config' = config
     /\ currentLiquidityRate' = currentLiquidityRate
     => Equity' - Equity \in -RoundingUnit .. RoundingUnit]_vars

\* An interest withdrawal takes the interest and leaves the capital: what remains
\* of the balance differs from the pToken's balance by rounding only.
InterestWithdrawalKeepsCapital ==
  [][\A a, b \in Accounts :
       WithdrawInterest(a, b)
         => BalanceOf(a)' - capital[a] \in -RoundingUnit .. RoundingUnit]_vars

\* New debt is only ever owed by the project's borrower or the emergency admin,
\* and when somebody else walks away with the money, by using up a delegation.
LoansAreAuthorised ==
  [][now' = now =>
       \A debtor \in Accounts :
         LET lent == DebtOf(debtor)' - DebtOf(debtor)
         IN  lent > 0 =>
               /\ debtor \in {projectBorrower, EmergencyAdmin}
               /\ \A a \in Accounts \ {debtor} :
                    wallet'[a] > wallet[a] =>
                      borrowAllowances'[debtor][a] =
                        borrowAllowances[debtor][a] - lent]_vars

\* Capital is only recorded against money paid in, and only erased when at least
\* as much is paid out; moving aTokens or pTokens about creates none.
CapitalFollowsPayments ==
  [][LET recorded == capitalSupply' - capitalSupply
         paidIn   == cash' - cash
     IN  /\ recorded > 0 => paidIn = recorded
         /\ recorded < 0 => paidIn <= recorded]_vars

\* While the pool is paused nobody's money moves: no cash, no loan, no aToken of
\* anybody but the treasury, through the pool or through the aToken itself.
PauseFreezesFunds ==
  [][paused =>
       /\ UNCHANGED <<assetVars, principal, isBorrowing, usingAsCollateral>>
       /\ \A a \in Accounts \ {Treasury} : scaled'[a] = scaled[a]]_vars
===============================================================================
