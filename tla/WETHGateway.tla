----------------------------- MODULE WETHGateway -----------------------------
(***************************************************************************)
(* WETHGateway.sol before the pool: users pay and are paid ether, and the  *)
(* contract wraps it, calls the pool in its own name and unwraps.          *)
(*                                                                         *)
(* The reserve is the one the gateway names: WETH is its asset and, as the *)
(* gateway passes WETH's address for both, also its project.  `wallet`     *)
(* holds WETH.  Each call names the pool to use: the model has the one.    *)
(* A transaction passes through several contracts; what it leaves is one   *)
(* step, worked out in the order of the calls.                             *)
(*                                                                         *)
(* Users go on calling the pool and the tokens directly.                   *)
(***************************************************************************)
EXTENDS TokenAllowances

CONSTANTS
  Gateway,       \* the contract's address
  InitialEther,  \* native balances, the gateway's from before its deployment
  EtherValues,   \* amounts of ether a caller may send
  MaxCalls       \* bound: transactions of users and owners, changes of rates included

ASSUME GatewayAssumption ==
  /\ Gateway \in Accounts \ {Treasury, EmergencyAdmin, InitialBorrower}
  /\ Gateway \notin Borrowers
  /\ InitialEther \in [Accounts -> Nat]
  /\ EtherValues \subseteq Nat
  /\ MaxCalls \in Nat

VARIABLES
  ether,       \* native balances
  authorized,  \* WETH's allowance from the gateway to the pool is infinite
  calls        \* transactions so far

gatewayVars == <<ether, authorized>>
allVars == <<vars, allowanceVars, gatewayVars, calls>>

Users == Accounts \ {Gateway}

(***************************************************************************)
(* Users                                                                   *)
(***************************************************************************)

\* depositETH: what is wrapped goes on to the aToken.
depositETH(user, onBehalfOf, value) ==
  /\ value <= ether[user]
  /\ ether' = Debit(ether, user, value)
  /\ authorized
  /\ ~paused
  /\ ValidateDeposit(value)
  /\ UpdateState(Index)
  /\ cash' = cash + value
  /\ MintShare(onBehalfOf, value)
  /\ MintCapital(onBehalfOf, value)
  /\ UNCHANGED <<now, debtVars, adminVars, userConfig, wallet, allowanceVars, authorized>>

\* withdrawETH: the gateway takes the aTokens, and their capital with them, redeems
\* them in its own name and pays in ether.  It cannot pay itself.
withdrawETH(user, amount, to) ==
  LET value == IF amount = MaxUint256 THEN BalanceOf(user) ELSE amount
      sent  == Move(scaled, user, Gateway, RayDiv(value, NormalizedIncome))
      held  == RayMul(sent[Gateway], NormalizedIncome)
      share == RayDiv(value, Index)
      accrued == Credit(sent, Treasury, TreasuryShare(Index))
      entrusted == Move(capital, user, Gateway, value)
      burned == IF value >= entrusted[Gateway] THEN entrusted[Gateway] ELSE value
      collateral == CollateralAfterTransfer(user, Gateway, value)
  IN  \* transferFrom
      /\ RayDiv(value, NormalizedIncome) <= scaled[user]
      /\ value # 0
      /\ value <= capital[user]
      /\ value <= capitalSupply
      /\ ~paused
      /\ value <= BalanceOf(user)
      /\ SpendAllowance("aToken", user, Gateway, value)
      \* withdraw
      /\ Allowed("active") /\ Allowed("withdrawals")
      /\ value <= held
      /\ UpdateState(Index)
      /\ usingAsCollateral' = IF value = held THEN collateral \ {Gateway} ELSE collateral
      /\ share # 0
      /\ share <= accrued[Gateway]
      /\ share <= AccruedSupply(Index)
      /\ scaled' = Debit(accrued, Gateway, share)
      /\ scaledSupply' = AccruedSupply(Index) - share
      /\ value <= cash
      /\ cash' = cash - value
      /\ capital' = Debit(entrusted, Gateway, burned)
      /\ capitalSupply' = capitalSupply - burned
      \* and pay
      /\ to # Gateway
      /\ ether' = Credit(ether, to, value)
      /\ UNCHANGED <<now, debtVars, adminVars, isBorrowing, wallet, nonces, authorized>>

\* Fault: all of the ether sent is wrapped.
WrappedAll(value, payback) == value

\* What repayETH wraps: the payment as it works it out, not the ether it was sent.
Wrapped(value, payback) == payback

\* repayETH: the pool is offered all of `value`, although only the payment was
\* wrapped, and takes from the gateway what is owed of it; the rest is returned.
repayETH(user, amount, onBehalfOf, value) ==
  LET owed    == DebtOf(onBehalfOf)
      payback == IF amount < owed THEN amount ELSE owed
      taken   == IF value < owed THEN value ELSE owed
      weth    == wallet[Gateway] + Wrapped(value, payback)
  IN  /\ payback <= value
      /\ value <= ether[user]
      /\ ether' = Debit(ether, user, payback)
      /\ authorized
      /\ ~paused
      /\ ValidateRepay(Gateway, onBehalfOf, value)
      /\ UpdateState(Index)
      /\ Settle(onBehalfOf, taken)
      /\ isBorrowing' = BorrowingAfterRepay(onBehalfOf, owed - taken)
      /\ taken <= weth
      /\ wallet' = [wallet EXCEPT ![Gateway] = weth - taken]
      /\ cash' = cash + taken
      /\ AccrueToTreasury(Index)
      /\ UNCHANGED <<adminVars, usingAsCollateral, pTokenVars, allowanceVars, authorized>>

\* borrowETH: the debt is the user's, who has delegated credit to the gateway.
borrowETH(user, amount) ==
  /\ ~paused
  /\ ValidateBorrow(user, amount)
  /\ UpdateState(Index)
  /\ Lend(Gateway, user, amount, currentStableBorrowRate)
  /\ isBorrowing' = IF DebtOf(user) = 0 THEN isBorrowing \cup {user} ELSE isBorrowing
  /\ amount <= cash
  /\ cash' = cash - amount
  /\ ether' = Credit(ether, user, amount)
  /\ AccrueToTreasury(Index)
  /\ UNCHANGED <<adminVars, usingAsCollateral, pTokenVars, wallet, allowanceVars,
                 authorized>>

(***************************************************************************)
(* The owner                                                               *)
(***************************************************************************)

authorizeLendingPool ==
  /\ authorized' = TRUE
  /\ UNCHANGED <<vars, allowanceVars, ether>>

\* emergencyTokenTransfer: whatever of WETH or of the reserve's tokens was sent here.
emergencyTokenTransfer(to, amount) ==
  /\ \/ /\ amount <= wallet[Gateway]
        /\ wallet' = Move(wallet, Gateway, to, amount)
        /\ UNCHANGED <<now, debtVars, adminVars, indexVars, userConfig, aTokenVars,
                       pTokenVars, cash>>
     \/ TransferAToken(Gateway, to, amount)
     \/ TransferPToken(Gateway, to, amount)
  /\ UNCHANGED <<allowanceVars, gatewayVars>>

\* It takes no ether from anybody but WETH, not even from itself.
emergencyEtherTransfer(to, amount) ==
  /\ amount <= ether[Gateway]
  /\ to # Gateway
  /\ ether' = Move(ether, Gateway, to, amount)
  /\ UNCHANGED <<vars, allowanceVars, authorized>>

(***************************************************************************)
(* Specification                                                           *)
(***************************************************************************)

GatewayInit ==
  /\ Init
  /\ AllowanceInit
  /\ ether = InitialEther
  /\ authorized = FALSE
  /\ calls = 0

\* What a user asks of the pool and of the debt token directly.
PoolCall(user) ==
  \E other \in Accounts :
    \/ \E amount \in Amounts :
         \/ Deposit(user, other, amount)
         \/ Borrow(user, other, amount)
    \/ \E amount \in Amounts \cup {MaxUint256} :
         \/ Withdraw(user, other, amount)
         \/ Repay(user, other, amount)
    \/ WithdrawInterest(user, other)
    \/ other \in Spenders /\ \E amount \in Allowances : DelegateCredit(user, other, amount)

\* ... and of the aToken and the pToken.
TokenCall(user) ==
  \/ \E other \in Accounts, amount \in TransferAmounts :
       /\ TransferAToken(user, other, amount) \/ TransferPToken(user, other, amount)
       /\ UNCHANGED allowanceVars
  \/ \E token \in Tokens :
       \/ \E spender \in Spenders, amount \in ApprovedAmounts :
            \/ Approve(token, user, spender, amount)
            \/ IncreaseAllowance(token, user, spender, amount)
            \/ DecreaseAllowance(token, user, spender, amount)
       \/ \E owner, to \in Accounts, amount \in TransferAmounts :
            TransferFrom(token, user, owner, to, amount)
  \/ \E message \in Permits : Permit(message)

\* A user's transaction through the gateway, to somebody's benefit.
GatewayCall(user, other) ==
  \/ \E value \in EtherValues : depositETH(user, other, value)
  \/ \E amount \in Amounts \cup {MaxUint256} :
       \/ withdrawETH(user, amount, other)
       \/ \E value \in EtherValues : repayETH(user, amount, other, value)
  \/ user = other /\ \E amount \in Amounts : borrowETH(user, amount)

Rescue ==
  \E to \in Accounts, amount \in TransferAmounts :
    emergencyTokenTransfer(to, amount) \/ emergencyEtherTransfer(to, amount)

Transaction ==
  \/ \E user \in Users :
       \/ PoolCall(user) /\ UNCHANGED <<allowanceVars, gatewayVars>>
       \/ TokenCall(user) /\ UNCHANGED gatewayVars
       \/ \E other \in Accounts : GatewayCall(user, other)
  \/ Rescue

\* What goes on without being counted: the owner's authorisation of the pool, the
\* reserve's settings, and time.
Surroundings ==
  \/ authorizeLendingPool
  \/ /\ \/ \E configuration \in Configurations : SetConfiguration(configuration)
        \/ AdvanceTime
     /\ UNCHANGED <<allowanceVars, gatewayVars>>

SetRates ==
  /\ \E depositRate \in DepositRates, borrowRate \in Rates :
       UpdateInterestRates(depositRate, borrowRate)
  /\ UNCHANGED <<allowanceVars, gatewayVars>>

GatewayNext ==
  \/ /\ calls < MaxCalls     \* bound
     /\ calls' = calls + 1
     /\ Transaction \/ SetRates
  \/ Surroundings /\ UNCHANGED calls

GatewaySpec == GatewayInit /\ [][GatewayNext]_allVars

(***************************************************************************)
(* Properties                                                              *)
(***************************************************************************)

\* The gateway passes on what it is given.  A transaction a user sends through it
\* leaves it no ether, aTokens or capital but its own, and no WETH that is new; and
\* unless it pays with WETH somebody had left there, the pool receives to the unit
\* what users pay in ether, or pays what they are paid.  The share it is sent is
\* priced by the aToken and the one it redeems by the pool, each with its rounding,
\* and what a repayment wraps is worked out apart from what the pool takes of it.
GatewayPassesOn ==
  [][\A user, other \in Users :
       ether' # ether /\ GatewayCall(user, other) =>
         /\ UNCHANGED <<scaled[Gateway], capital[Gateway], ether[Gateway]>>
         /\ wallet'[Gateway] <= wallet[Gateway]
         /\ (cash' + wallet'[Gateway]) - (cash + wallet[Gateway])
              = SumFunction(ether) - SumFunction(ether)']_allVars
===============================================================================
