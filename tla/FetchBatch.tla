---------------------------- MODULE FetchBatch ----------------------------
(***************************************************************************)
(* Reading a cursor in batches (fetch and fetch_batch of                   *)
(* rsfbclient-rust/src/client.rs): the rows of one op_fetch are kept in    *)
(* `prefetched` and delivered one at a time.  A batch is read to its       *)
(* terminator first, then the blobs of its rows are read, row by row.      *)
(*                                                                         *)
(* Abstraction: a row is its number, with the execution it came from; the  *)
(* responses themselves are module WireClient.                             *)
(***************************************************************************)
EXTENDS Naturals, Sequences, FiniteSets

CONSTANTS
  Rows,         \* rows of the cursor
  Batch,        \* FB_FETCH_BATCH
  BlobRows,     \* rows with a blob column, whose reading may fail
  MaxEmpty      \* empty batches a fetch puts up with

ASSUME SizesAssumption == Rows \in Nat /\ Batch \in Nat \ {0} /\ MaxEmpty \in Nat
ASSUME BlobRowsAssumption == BlobRows \subseteq 1 .. Rows

VARIABLES
  prefetched,       \* StmtHandleData.prefetched
  cursor_eof,       \* StmtHandleData.cursor_eof
  cursor,           \* the StatementFetch or iterator: "none" or "open"
  empty_batches,    \* batches asked for by the fetch running, or Idle
  run,              \* server: the number of the execution, modulo two
  pos,              \* server: rows sent of it
  given,            \* history: the rows delivered of this execution
  last,             \* history: what the last fetch returned
  failed            \* history: a fetch of this execution failed

vars == <<prefetched, cursor_eof, cursor, empty_batches, run, pos, given, last, failed>>

Idle == MaxEmpty + 2
Row(n) == [run |-> run, n |-> n]
AllRows == [run : {0, 1}, n : 1 .. Rows]

\* Rows a .. b - 1 of this execution.
Sent(a, b) == [i \in 1 .. b - a |-> Row(a + i - 1)]

Promise == INSTANCE Cursor WITH
  given <- [i \in DOMAIN given |-> given[i].n],
  over <- last = "end"

---------------------------------------------------------------------------

\* Mutant of Execute: what is left of the previous execution stays.
ExecuteKeepsBuffer ==
  /\ cursor = "none"
  /\ cursor' = "open" /\ run' = 1 - run /\ pos' = 0
  /\ given' = <<>> /\ last' = "none" /\ failed' = FALSE
  /\ UNCHANGED <<prefetched, cursor_eof, empty_batches>>

\* execute: the batch state is reset, then the server opens the cursor.
Execute ==
  /\ cursor = "none"
  /\ prefetched' = <<>>
  /\ cursor_eof' = FALSE
  /\ cursor' = "open"
  /\ run' = 1 - run
  /\ pos' = 0
  /\ given' = <<>>
  /\ last' = "none"
  /\ failed' = FALSE
  /\ UNCHANGED empty_batches

\* execute, when the server refuses: the batch state was reset before.
ExecuteFails ==
  /\ cursor = "none"
  /\ prefetched' = <<>>
  /\ cursor_eof' = FALSE
  /\ UNCHANGED <<cursor, empty_batches, run, pos, given, last, failed>>

\* Dropping the reader closes the cursor; nothing of the batch is touched.
CloseCursor ==
  /\ cursor = "open"
  /\ empty_batches = Idle
  /\ cursor' = "none"
  /\ UNCHANGED <<prefetched, cursor_eof, empty_batches, run, pos, given, last, failed>>

---------------------------------------------------------------------------

FetchBegin ==
  /\ cursor = "open"
  /\ empty_batches = Idle
  /\ empty_batches' = 0
  /\ UNCHANGED <<prefetched, cursor_eof, cursor, run, pos, given, last, failed>>

Fetching == empty_batches # Idle

NeedsBatch == prefetched = <<>> /\ ~cursor_eof

Return(res) ==
  /\ empty_batches' = Idle
  /\ last' = res
  /\ failed' = (failed \/ res = "error")

\* The loop of fetch ends: a row, or the end of the cursor.
FetchDone ==
  /\ Fetching
  /\ ~NeedsBatch
  /\ IF prefetched = <<>>
     THEN Return("end") /\ UNCHANGED <<prefetched, given>>
     ELSE /\ Return("row")
          /\ given' = Append(given, Head(prefetched))
          /\ prefetched' = Tail(prefetched)
  /\ UNCHANGED <<cursor_eof, cursor, run, pos>>

\* Mutant of Count: the batches are counted without a limit, in a counter that wraps.
CountWraps == empty_batches' = (empty_batches + 1) % (MaxEmpty + 1) /\ UNCHANGED <<last, failed>>

\* One more batch was read: too many empty ones end the fetch.
Count ==
  IF empty_batches + 1 > MaxEmpty THEN Return("error")
  ELSE empty_batches' = empty_batches + 1 /\ UNCHANGED <<last, failed>>

\* The terminator of a batch of k rows: End, which sets the flag, once the server
\* has sent its last row; BatchEnd otherwise, or when it has not noticed yet.
Terminated(k) == cursor_eof' \in {FALSE} \cup {b \in {TRUE} : pos + k = Rows}

\* fetch_batch, when every blob could be read.
FetchBatchRead ==
  /\ Fetching /\ NeedsBatch
  /\ \E k \in 0 .. Batch :
       /\ pos + k =< Rows
       /\ Terminated(k)
       /\ pos' = pos + k
       /\ prefetched' = prefetched \o Sent(pos + 1, pos + k + 1)
  /\ Count
  /\ UNCHANGED <<cursor, run, given>>

\* fetch_batch, when the blob of row n cannot be read: the rows before it are
\* kept, it and those behind it are not.
FetchBatchBlobFails ==
  /\ Fetching /\ NeedsBatch
  /\ \E k \in 1 .. Batch :
       /\ pos + k =< Rows
       /\ Terminated(k)
       /\ pos' = pos + k
       /\ \E n \in BlobRows :
            /\ n \in pos + 1 .. pos + k
            /\ prefetched' = prefetched \o Sent(pos + 1, n)
  /\ Return("error")
  /\ UNCHANGED <<cursor, run, given>>

\* Mutant of FetchBatchFails: the failure is taken for the end.
FetchBatchFailsQuietly ==
  /\ Fetching /\ NeedsBatch
  /\ \E k \in 0 .. Batch : pos + k =< Rows /\ pos' = pos + k
  /\ cursor_eof' = TRUE
  /\ Count
  /\ UNCHANGED <<prefetched, cursor, run, given>>

\* fetch_batch, when the server answers with an error behind k rows: they are lost.
FetchBatchFails ==
  /\ Fetching /\ NeedsBatch
  /\ \E k \in 0 .. Batch : pos + k =< Rows /\ pos' = pos + k
  /\ Return("error")
  /\ UNCHANGED <<prefetched, cursor_eof, cursor, run, given>>

---------------------------------------------------------------------------

Init ==
  /\ prefetched = <<>>
  /\ cursor_eof = FALSE
  /\ cursor = "none"
  /\ empty_batches = Idle
  /\ run = 0
  /\ pos = 0
  /\ given = <<>>
  /\ last = "none"
  /\ failed = FALSE

FetchStep == FetchDone \/ FetchBatchRead \/ FetchBatchBlobFails \/ FetchBatchFails

Next ==
  \/ Execute
  \/ ExecuteFails
  \/ CloseCursor
  \/ FetchBegin
  \/ FetchStep

\* A fetch that began runs to its end.
Spec == Init /\ [][Next]_vars /\ WF_vars(FetchStep)

---------------------------------------------------------------------------
(***************************************************************************)
(* Properties                                                              *)
(***************************************************************************)

\* The types of the variables, a part of NothingLostQuietly; "memory bounded to one
\* batch".
TypeOK ==
  /\ prefetched \in Seq(AllRows)
  /\ Len(prefetched) =< Batch
  /\ cursor_eof \in BOOLEAN
  /\ cursor \in {"none", "open"}
  /\ empty_batches \in 0 .. MaxEmpty \cup {Idle}
  /\ run \in {0, 1}
  /\ pos \in 0 .. Rows
  /\ given \in Seq(AllRows)
  /\ last \in {"none", "row", "end", "error"}
  /\ failed \in BOOLEAN

\* The variables have their types, and the rows waiting are one batch at most.  The
\* rows delivered and those waiting are together the rows the server has sent
\* of this very execution, until a failure is reported: nothing is lost between
\* the batches, and nothing is left of the execution before.
NothingLostQuietly ==
  /\ TypeOK
  /\ cursor = "open" /\ ~failed => given \o prefetched = Sent(1, pos + 1)

\* Every fetch returns, whatever batches the server sends.
FetchReturns == Fetching ~> ~Fetching

\* Reading in batches implements reading the cursor.
ImplementsCursor == Promise!Spec

============================================================================
