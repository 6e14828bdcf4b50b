--------------------------- MODULE MCWireClient ---------------------------
(* WireClient on small bounds, which the .cfg files name. *)
EXTENDS WireClient
============================================================================
