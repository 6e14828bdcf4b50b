---------------------------- MODULE MCStmtCache ----------------------------
(***************************************************************************)
(* StmtCache for TLC: three texts, one of them a select, compete for a     *)
(* cache of two entries over four server handles.                          *)
(***************************************************************************)
EXTENDS StmtCache

\* The handles are interchangeable; no liveness property is checked with it.
Symmetry == Permutations(Handles)
============================================================================
