---------------------------- MODULE StableDebtToken ----------------------------
(***************************************************************************)
(* StableDebtToken.sol and DebtTokenBase.sol: the only debt a borrower of  *)
(* the pool can have.                                                      *)
(*                                                                         *)
(* A borrower's balance grows at that borrower's own rate from the         *)
(* timestamp of the last mint or burn; the total supply grows separately,  *)
(* at one average rate, from a timestamp of its own.  Nothing recomputes   *)
(* one from the other, and all divisions round, so the two drift apart.    *)
(*                                                                         *)
(* Mint and Burn are the two calls the lending pool makes; LendingPool     *)
(* composes them with its own steps.  DebtSpec is the token on its own,    *)
(* under a pool that mints and burns at will: any borrower, any rate, any  *)
(* amount up to what is owed.                                              *)
(***************************************************************************)
EXTENDS Integers, MathUtils, TokenLedger

CONSTANTS
  Accounts,        \* the addresses that take part
  Amounts,         \* amounts a caller may name
  Allowances,      \* amounts a delegator may approve
  Rates,           \* annual rates, in ray, an administrator may set
  DeployedAt,      \* block timestamp at which the model starts
  MaxTime,         \* bound: the last block timestamp
  MaxDebt,         \* bound: no loan takes what its debtor owes over it
  MaxAverageRate   \* bound: no loan or repayment takes the average rate over it

ASSUME EnvironmentAssumption ==
  /\ Amounts \subseteq Nat
  /\ Allowances \subseteq Nat
  /\ Rates \subseteq Nat
  /\ DeployedAt \in Nat \ {0}
  /\ MaxTime \in Nat
  /\ MaxDebt \in Nat
  /\ MaxAverageRate \in Nat

VARIABLES
  now,                   \* block.timestamp
  principal,             \* _balances: debt at the borrower's own timestamp
  usersStableRate,       \* _usersStableRate
  timestamps,            \* _timestamps
  debtSupply,            \* _totalSupply, as of totalSupplyTimestamp
  avgStableRate,         \* _avgStableRate
  totalSupplyTimestamp,  \* _totalSupplyTimestamp
  borrowAllowances       \* _borrowAllowances[delegator][delegatee]

loanVars == <<principal, usersStableRate, timestamps, debtSupply,
              avgStableRate, totalSupplyTimestamp>>
debtVars == <<loanVars, borrowAllowances>>

(***************************************************************************)
(* Views                                                                   *)
(***************************************************************************)

\* balanceOf: the principal with the interest since the borrower's timestamp.
DebtOf(user) ==
  RayMul(principal[user],
         CompoundedInterest(usersStableRate[user], timestamps[user], now))

\* _calcTotalSupply, at an arbitrary time not before the last mint or burn.
DebtSupplyAt(time) ==
  RayMul(debtSupply,
         CompoundedInterest(avgStableRate, totalSupplyTimestamp, time))

TotalDebt == DebtSupplyAt(now)

(***************************************************************************)
(* Operations                                                              *)
(***************************************************************************)

\* approveDelegation: the delegator overwrites what the delegatee may borrow.
ApproveDelegation(delegator, delegatee, amount) ==
  borrowAllowances' = [borrowAllowances EXCEPT ![delegator][delegatee] = amount]

\* Fault: the allowance is checked and not used up.
CheckBorrowAllowance(delegator, delegatee, amount) ==
  /\ amount <= borrowAllowances[delegator][delegatee]
  /\ UNCHANGED borrowAllowances

\* _decreaseBorrowAllowance, called by mint when somebody else draws the loan.
DecreaseBorrowAllowance(delegator, delegatee, amount) ==
  /\ amount <= borrowAllowances[delegator][delegatee]
  /\ borrowAllowances' =
       [borrowAllowances EXCEPT ![delegator][delegatee] = @ - amount]

\* Mean of two rates weighted by the amounts they apply to.  Every term of the
\* code, for the borrower's rate and for the average, has this form.
WeightedRate(rateA, amountA, rateB, amountB) ==
  RayDiv(RayMul(rateA, WadToRay(amountA)) + RayMul(rateB, WadToRay(amountB)),
         WadToRay(amountA + amountB))

\* Fault: the supply keeps the timestamp of its first loan.
StampFirstLoan ==
  totalSupplyTimestamp' = IF totalSupplyTimestamp = 0 THEN now ELSE totalSupplyTimestamp

\* Every mint and burn restarts the clock of the total supply.
StampSupply == totalSupplyTimestamp' = now

\* Fault: the interest of the supply so far is lost.
SupplyAfterMintUnaccrued(amount) == debtSupply + amount

SupplyAfterMint(amount) == TotalDebt + amount

\* mint: `user` draws the loan, `onBehalfOf` owes it.
MintDebt(user, onBehalfOf, amount, rate) ==
  LET owed == DebtOf(onBehalfOf)
  IN  /\ IF user = onBehalfOf
           THEN UNCHANGED borrowAllowances
           ELSE DecreaseBorrowAllowance(onBehalfOf, user, amount)
      /\ principal' = [principal EXCEPT ![onBehalfOf] = owed + amount]
      /\ usersStableRate' =
           [usersStableRate EXCEPT ![onBehalfOf] =
              WeightedRate(@, owed, rate, amount)]
      /\ timestamps' = [timestamps EXCEPT ![onBehalfOf] = now]
      /\ debtSupply' = SupplyAfterMint(amount)
      /\ avgStableRate' = WeightedRate(avgStableRate, TotalDebt, rate, amount)
      /\ StampSupply

\* Fault: the supply is written off and the average rate stays.
SupplyAfterBurnKeepsRate(user, amount) ==
  [supply |-> IF TotalDebt <= amount THEN 0 ELSE TotalDebt - amount,
   rate   |-> avgStableRate]

\* The supply and the average rate that burn leaves: both are dropped to zero
\* when the supply, or its interest, would not cover what is being burned.
SupplyAfterBurn(user, amount) ==
  LET before     == TotalDebt
      firstTerm  == RayMul(avgStableRate, WadToRay(before))
      secondTerm == RayMul(usersStableRate[user], WadToRay(amount))
  IN  IF before <= amount \/ secondTerm >= firstTerm
        THEN [supply |-> 0, rate |-> 0]
        ELSE [supply |-> before - amount,
              rate   |-> RayDiv(firstTerm - secondTerm,
                                WadToRay(before - amount))]

\* Fault: the interest since the borrower's timestamp is forgotten.
PrincipalAfterBurnUnaccrued(user, amount) == principal[user] - amount

\* burn mints or burns the difference between the accrued interest and the
\* amount; either way the new principal is what was owed less the amount.
PrincipalAfterBurn(user, amount) == DebtOf(user) - amount

\* Fault: compares with the principal of the last mint or burn.
SettlesPrincipal(user, amount) == amount = principal[user]

SettlesDebt(user, amount) == amount = DebtOf(user)

\* burn: settling the whole debt also resets the borrower's rate and timestamp.
BurnDebt(user, amount) ==
  LET after == SupplyAfterBurn(user, amount)
  IN  /\ amount <= DebtOf(user)
      /\ debtSupply' = after.supply
      /\ avgStableRate' = after.rate
      /\ usersStableRate' =
           [usersStableRate EXCEPT ![user] = IF SettlesDebt(user, amount) THEN 0 ELSE @]
      /\ timestamps' =
           [timestamps EXCEPT ![user] = IF SettlesDebt(user, amount) THEN 0 ELSE now]
      /\ StampSupply
      /\ principal' = [principal EXCEPT ![user] = PrincipalAfterBurn(user, amount)]
      /\ UNCHANGED borrowAllowances

(***************************************************************************)
(* The token on its own                                                    *)
(***************************************************************************)

DebtInit ==
  /\ now = DeployedAt
  /\ principal = [a \in Accounts |-> 0]
  /\ usersStableRate = [a \in Accounts |-> 0]
  /\ timestamps = [a \in Accounts |-> 0]
  /\ debtSupply = 0
  /\ avgStableRate = 0
  /\ totalSupplyTimestamp = 0
  /\ borrowAllowances = [a \in Accounts |-> [b \in Accounts |-> 0]]

\* Time passes between transactions; several may share one block.
Tick ==
  /\ now < MaxTime
  /\ now' = now + 1

\* The pool grants a loan; it never grants one of nothing.
Lend(user, onBehalfOf, amount, rate) ==
  /\ amount # 0
  /\ DebtOf(onBehalfOf) + amount <= MaxDebt     \* bound
  /\ MintDebt(user, onBehalfOf, amount, rate)
  /\ avgStableRate' <= MaxAverageRate                \* bound
  /\ UNCHANGED now

\* The pool takes a repayment, only of a debt that exists.
Settle(user, amount) ==
  /\ amount # 0
  /\ BurnDebt(user, amount)
  /\ avgStableRate' <= MaxAverageRate     \* bound
  /\ UNCHANGED now

\* A delegation to oneself is legal and never consulted; it is left out.
Delegate(delegator, delegatee, amount) ==
  /\ delegator # delegatee
  /\ ApproveDelegation(delegator, delegatee, amount)
  /\ UNCHANGED <<now, loanVars>>

DebtNext ==
  \/ Tick /\ UNCHANGED debtVars
  \/ \E user, onBehalfOf \in Accounts, amount \in Amounts, rate \in Rates :
       Lend(user, onBehalfOf, amount, rate)
  \/ \E user \in Accounts : \E amount \in 1 .. DebtOf(user) : Settle(user, amount)
  \/ \E delegator, delegatee \in Accounts, amount \in Allowances :
       Delegate(delegator, delegatee, amount)

DebtSpec == DebtInit /\ [][DebtNext]_<<now, debtVars>>

(***************************************************************************)
(* Properties                                                              *)
(***************************************************************************)

\* Types of the token's storage.
DebtTypeOK ==
  /\ now \in Nat
  /\ principal \in [Accounts -> Nat]
  /\ usersStableRate \in [Accounts -> Nat]
  /\ timestamps \in [Accounts -> Nat]
  /\ debtSupply \in Nat
  /\ avgStableRate \in Nat
  /\ totalSupplyTimestamp \in Nat
  /\ borrowAllowances \in [Accounts -> [Accounts -> Nat]]

\* No clock is ahead of one it is later subtracted from: interest is counted
\* from a borrower's timestamp, and from the supply's, to a later moment.  The
\* supply's timestamp is never behind a borrower's, because both are written by
\* every mint and burn.  A subtraction the other way round reverts, and would
\* stop every repayment (StableDebtToken.sol, balanceOf and _calcTotalSupply).
DebtClocksOrdered ==
  /\ totalSupplyTimestamp <= now
  /\ \A a \in Accounts : timestamps[a] <= totalSupplyTimestamp

\* An account with no principal keeps no rate and no timestamp of the debt it
\* repaid, and one with a principal has a timestamp interest can be counted from
\* (the reset in burn, which depends on the amount being all that is owed).
SettledDebtLeavesNoTerms ==
  \A a \in Accounts :
    IF principal[a] = 0
      THEN usersStableRate[a] = 0 /\ timestamps[a] = 0
      ELSE timestamps[a] >= DeployedAt

\* The average rate belongs to a supply: when the supply is written off or
\* repaid, the next loan starts from no average (burn zeroes both together).
NoSupplyNoAverageRate == debtSupply = 0 => avgStableRate = 0

\* A loan or a repayment settles the interest of the debtor's account exactly:
\* within a block no transaction moves the debt of two accounts, what a loan adds
\* to a debt it adds to the total supply, and what a repayment takes off a debt it
\* takes off the supply, unless the supply is written off (mint and burn accrue
\* the two from different principals, rates and timestamps).
DebtAndSupplyMoveTogether ==
  [][now' = now =>
       \A debtor \in Accounts :
         LET moved == DebtOf(debtor)' - DebtOf(debtor)
         IN  moved # 0 =>
               /\ \A other \in Accounts \ {debtor} : DebtOf(other)' = DebtOf(other)
               /\ \/ TotalDebt' = TotalDebt + moved
                  \/ moved < 0 /\ TotalDebt' = 0
    ]_<<now, debtVars>>

\* Consequence of what the token's rule file says, that the total supply is the
\* sum of the users' balances: a total of nothing means that nobody owes.
NoDebtOutsideTheSupply ==
  TotalDebt = 0 => \A a \in Accounts : DebtOf(a) = 0
===============================================================================
