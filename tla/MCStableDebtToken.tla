--------------------------- MODULE MCStableDebtToken ---------------------------
(***************************************************************************)
(* Small instance of StableDebtToken: two borrowers, three rates (none, a  *)
(* low and a high one), and a ray of 4, so that each interest and average  *)
(* is rounded.                                                             *)
(***************************************************************************)
EXTENDS StableDebtToken, TLC

CONSTANTS alice, bob

MCAccounts == {alice, bob}
MCAmounts  == 1 .. 2
MCAllowances == {1}
MCRates    == {0, 2}

Borrowers == Permutations(MCAccounts)
===============================================================================
