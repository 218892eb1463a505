---------------------------- MODULE UserConfiguration ----------------------------
(***************************************************************************)
(* UserConfiguration.sol: two bits of one word for each reserve, at twice  *)
(* its id: whether the user owes it, and whether the user's deposit in it  *)
(* is used as collateral.  The word is the set of the bits that are one.   *)
(***************************************************************************)
EXTENDS Integers

BorrowingBit(id) == 2 * id

CollateralBit(id) == 2 * id + 1

SetBit(data, bit, on) == IF on THEN data \cup {bit} ELSE data \ {bit}

SetBorrowing(data, id, borrowing) == SetBit(data, BorrowingBit(id), borrowing)

SetUsingAsCollateral(data, id, using) == SetBit(data, CollateralBit(id), using)
===============================================================================
