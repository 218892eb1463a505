---------------------------- MODULE TokenAllowances ----------------------------
(***************************************************************************)
(* What the aToken and the pToken inherit from IncentivizedERC20.sol for   *)
(* third parties: allowances and transferFrom; and the aToken's permit, an *)
(* allowance given by a signature anybody may submit.                      *)
(***************************************************************************)
EXTENDS LendingPool

CONSTANTS
  Spenders,         \* accounts an owner may allow, or delegate credit to
  ApprovedAmounts,  \* amounts an owner may approve
  Permits           \* messages owners have signed: owner, spender, value, nonce, deadline

Tokens == {"aToken", "pToken"}

ASSUME AllowanceAssumption ==
  /\ Spenders \subseteq Accounts
  /\ ApprovedAmounts \subseteq Nat
  /\ Permits \subseteq [owner : Accounts, spender : Accounts, value : Nat, nonce : Nat,
                        deadline : Nat]

VARIABLES
  allowances,  \* _allowances of each token, by owner and spender
  nonces       \* the aToken's _nonces: how many permits of an owner were used

allowanceVars == <<allowances, nonces>>

\* _approve: whatever was allowed before is overwritten.
Allow(token, owner, spender, amount) ==
  allowances' = [allowances EXCEPT ![token][owner][spender] = amount]

\* Fault: the allowance is checked and not used up.
CheckAllowance(token, owner, spender, amount) ==
  /\ amount <= allowances[token][owner][spender]
  /\ UNCHANGED allowances

\* What transferFrom leaves of an allowance; there is no infinite one.
SpendAllowance(token, owner, spender, amount) ==
  /\ amount <= allowances[token][owner][spender]
  /\ Allow(token, owner, spender, allowances[token][owner][spender] - amount)

Approve(token, owner, spender, amount) ==
  /\ Allow(token, owner, spender, amount)
  /\ UNCHANGED <<vars, nonces>>

IncreaseAllowance(token, owner, spender, added) ==
  Approve(token, owner, spender, allowances[token][owner][spender] + added)

DecreaseAllowance(token, owner, spender, subtracted) ==
  /\ subtracted <= allowances[token][owner][spender]
  /\ Approve(token, owner, spender, allowances[token][owner][spender] - subtracted)

\* permit: a signature is good for the nonce it names, and up to its deadline.
Permit(message) ==
  /\ message.owner # message.spender
  /\ now <= message.deadline
  /\ message.nonce = nonces[message.owner]
  /\ nonces' = [nonces EXCEPT ![message.owner] = @ + 1]
  /\ Allow("aToken", message.owner, message.spender, message.value)
  /\ UNCHANGED vars

TransferFrom(token, spender, owner, to, amount) ==
  /\ SpendAllowance(token, owner, spender, amount)
  /\ \/ token = "aToken" /\ TransferAToken(owner, to, amount)
     \/ token = "pToken" /\ TransferPToken(owner, to, amount)
  /\ UNCHANGED nonces

AllowanceInit ==
  /\ allowances = [t \in Tokens |-> [a \in Accounts |-> [b \in Accounts |-> 0]]]
  /\ nonces = [a \in Accounts |-> 0]
===============================================================================
