----------------------- MODULE MCDieselTransactions -----------------------
(***************************************************************************)
(* DieselTransactions for TLC.                                             *)
(***************************************************************************)
EXTENDS DieselTransactions, TLC

\* Works are interchangeable in every property.
Symmetry == Permutations(Works)
============================================================================
