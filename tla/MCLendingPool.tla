---------------------------- MODULE MCLendingPool ----------------------------
(***************************************************************************)
(* Small instances of LendingPool.  The accounts are a lender, the         *)
(* project's borrower and, where a run has three, a treasury that is also  *)
(* the emergency admin.                                                    *)
(***************************************************************************)
EXTENDS LendingPool, TLC

CONSTANTS lender, builder, dao

TwoAccounts   == {lender, builder}
ThreeAccounts == {lender, builder, dao}

Wallets    == [a \in Accounts |-> IF a = lender THEN 2 ELSE 1]
OnlyLender == [a \in Accounts |-> IF a = lender THEN 2 ELSE 0]

Open(factor) == [flags |-> Flags \ {"frozen"}, reserveFactor |-> factor]

Savings == {[flags |-> {"active", "deposits", "withdrawals", "interestWithdrawals"},
             reserveFactor |-> 0]}
Lending(factor) ==
  {[flags |-> {"active", "deposits", "borrowing"}, reserveFactor |-> factor]}
LendingWithFee == Lending(1)
LendingNoFee   == Lending(0)
NoFee   == {Open(0)}
WithFee == {Open(1)}

OneOrTwo   == {1, 2}
Zero       == {0}
ZeroOrTwo  == {0, 2}
ZeroToTwo  == 0 .. 2
JustOne    == {1}
JustLender == {lender}
None       == {}
EitherPause == BOOLEAN
===============================================================================
