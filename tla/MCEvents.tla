----------------------------- MODULE MCEvents -----------------------------
(***************************************************************************)
(* Events for TLC.                                                         *)
(***************************************************************************)
EXTENDS Events
============================================================================
