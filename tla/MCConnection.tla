--------------------------- MODULE MCConnection ---------------------------
(***************************************************************************)
(* Connection for TLC: three executions of statements over two             *)
(* configurations and three transaction handles, one more than a           *)
(* Connection can hold, so that a leak has room.                           *)
(***************************************************************************)
EXTENDS Connection, TLC

\* Executions and handles are interchangeable in every invariant.
Symmetry == Permutations(Works) \cup Permutations(TrHandles)
============================================================================
