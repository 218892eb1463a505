------------------------------ MODULE TokenLedger ------------------------------
(***************************************************************************)
(* The balance bookkeeping every token of the protocol inherits from       *)
(* IncentivizedERC20.sol: _mint, _burn and _transfer on one map of         *)
(* balances.  The callers state the SafeMath checks as guards (a debit     *)
(* larger than the balance reverts) and keep the total supply beside it.   *)
(* The incentives controller is not configured and is left out.            *)
(***************************************************************************)
EXTENDS Naturals

Credit(balances, account, amount) ==
  [balances EXCEPT ![account] = @ + amount]

Debit(balances, account, amount) ==
  [balances EXCEPT ![account] = @ - amount]

\* Fault: both balances are read before either is written.
MoveFromStaleReads(balances, from, to, amount) ==
  [balances EXCEPT ![from] = @ - amount, ![to] = balances[to] + amount]

\* The recipient's balance is read after the sender's was written, so that a
\* transfer to oneself changes nothing.
Move(balances, from, to, amount) ==
  Credit(Debit(balances, from, amount), to, amount)
===============================================================================
