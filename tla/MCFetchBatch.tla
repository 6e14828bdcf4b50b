--------------------------- MODULE MCFetchBatch ---------------------------
(* FetchBatch for TLC: the second and the third row have a blob column. *)
EXTENDS FetchBatch

MCBlobRows == {2, 3}
============================================================================
