---------------------------- MODULE NativeClient ----------------------------
(***************************************************************************)
(* NativeFbClient (rsfbclient-native/src/connection.rs, params.rs, row.rs):*)
(* the client over the C library.  The library hands out handles, which    *)
(* the code must keep and give back, and the data of blobs, which goes     *)
(* segment by segment.  Any call of the library may fail.                  *)
(*                                                                         *)
(* Abstraction: one attachment, one transaction and one statement at a     *)
(* time, which stores or reads one column; the bytes of a value are their  *)
(* positions.  The lengths are those of the code, divided by some 10000.   *)
(***************************************************************************)
EXTENDS Naturals, Sequences, SequencesExt, FiniteSets

CONSTANTS
  Values,           \* parameters: records [kind, utf8, enc], lengths in either encoding
  MAX_TEXT_LENGTH,  \* of a text sent in the row
  Chunk,            \* of a segment written (65535)
  Slice,            \* of a segment read (255)
  MaxHandles,       \* handles of a kind
  MaxRows           \* rows and blobs stored

ASSUME LengthsAssumption ==
  /\ {MAX_TEXT_LENGTH, MaxHandles, MaxRows} \subseteq Nat
  /\ {Chunk, Slice} \subseteq Nat \ {0}
ASSUME ValuesAssumption == Values \subseteq [kind : {"Text", "Binary"}, utf8 : Nat, enc : Nat]

VARIABLES
  db, tr,    \* the handles of the caller, Null when zero
  stmt,      \* StmtHandleData: handle, the statement, and its cursor
  waiting,   \* wait_for_event: "no", or which of its waits it is in
  open,      \* library: handles open, of any kind
  blobs,     \* library: segments of the blobs created
  table,     \* server: rows
  work,      \* server: those not committed
  read,      \* history: the last value read, the one stored, and whether a read failed
  sent,      \* history: type and data of the last parameter given to the library
  lost       \* history: handles the code gave up

vars == <<db, tr, stmt, waiting, open, blobs, table, work, read, sent, lost>>
data == <<blobs, table, work, read, sent>>

Null == <<"null", 0>>
NoStmt == [handle |-> Null, sql |-> "none", rows |-> <<>>]

\* A handle the library has not given out.
New(kind) == <<kind, CHOOSE n \in 1..MaxHandles : <<kind, n>> \notin open>>
CanOpen(kind) == \E n \in 1..MaxHandles : <<kind, n>> \notin open
OfKind(kinds) == {h \in open : h[1] \in kinds}

\* Between two calls.
Idle == waiting = "no"
Unchanged(rest) == UNCHANGED <<rest, waiting>>

---------------------------------------------------------------------------
(* Attachments and transactions                                            *)

\* attach_database, create_database: a handle, or an error.
Attach ==
  /\ Idle /\ db = Null /\ CanOpen("db")
  /\ db' = New("db") /\ open' = open \cup {db'}
  /\ Unchanged(<<tr, stmt, data, lost>>)

\* detach_database and drop_database: the library zeroes the handle, and lets go
\* of what belongs to the attachment.  (The caller is Connection::close, which has
\* dropped its statements.)  What fails changes nothing.
Detach ==
  /\ Idle /\ db # Null /\ tr = Null /\ stmt = NoStmt
  /\ db' = Null /\ open' = {} /\ lost' = {}
  /\ Unchanged(<<tr, stmt, data>>)

BeginTransaction ==
  /\ Idle /\ db # Null /\ tr = Null /\ CanOpen("tr")
  /\ tr' = New("tr") /\ open' = open \cup {tr'}
  /\ Unchanged(<<db, stmt, data, lost>>)

\* transaction_operation, without Retaining: the handle is zeroed, cursors and
\* blobs of the transaction are closed.
EndTransaction(op) ==
  /\ Idle /\ tr # Null
  /\ tr' = Null /\ open' = open \ ({tr} \cup OfKind({"blob"}))
  /\ stmt' = [stmt EXCEPT !.rows = <<>>]
  /\ table' = IF op = "Rollback" THEN SubSeq(table, 1, Len(table) - work) ELSE table
  /\ work' = 0 /\ lost' = lost \cap open'
  /\ Unchanged(<<db, blobs, read, sent>>)

\* CommitRetaining and RollbackRetaining: the handle stays.
RetainTransaction(op) ==
  /\ Idle /\ tr # Null
  /\ table' = IF op = "RollbackRetaining" THEN SubSeq(table, 1, Len(table) - work) ELSE table
  /\ work' = 0
  /\ Unchanged(<<db, tr, stmt, open, blobs, read, sent, lost>>)

---------------------------------------------------------------------------
(* Statements                                                              *)

\* prepare_statement: allocate, prepare, describe what did not fit in one
\* XSQLVAR, ask for the statement type, make a buffer for each column.
PrepareOk(sql) ==
  /\ Idle /\ tr # Null /\ stmt = NoStmt /\ CanOpen("stmt")
  /\ stmt' = [handle |-> New("stmt"), sql |-> sql, rows |-> <<>>]
  /\ open' = open \cup {stmt'.handle}
  /\ Unchanged(<<db, tr, data, lost>>)

\* Any of these steps fails: but for the first, the statement was allocated, and
\* nobody has its handle any more.
PrepareFails(step) ==
  /\ Idle /\ tr # Null /\ stmt = NoStmt
  /\ IF step = "allocate" THEN UNCHANGED <<open, lost>>
     ELSE /\ CanOpen("stmt")
          /\ open' = open \cup {New("stmt")} /\ lost' = lost \cup {New("stmt")}
  /\ Unchanged(<<db, tr, stmt, data>>)

\* free_statement with DSQL_drop, which zeroes the handle: the caller forgets it.
Drop ==
  /\ Idle /\ stmt # NoStmt
  /\ stmt' = NoStmt
  /\ open' = open \ {stmt.handle}
  /\ Unchanged(<<db, tr, data, lost>>)

\* free_statement with DSQL_close.
CloseCursor ==
  /\ Idle /\ stmt.handle \in open
  /\ stmt' = [stmt EXCEPT !.rows = <<>>]
  /\ Unchanged(<<db, tr, open, data, lost>>)

---------------------------------------------------------------------------
(* Parameters                                                              *)

\* Mutant of chunks: the last, shorter chunk is left out.
chunksDropsRest(bytes) ==
  [i \in 1..(Len(bytes) \div Chunk) |-> SubSeq(bytes, (i - 1) * Chunk + 1, i * Chunk)]

\* [u8]::chunks.
chunks(bytes) ==
  [i \in 1..((Len(bytes) + Chunk - 1) \div Chunk) |->
     SubSeq(bytes, (i - 1) * Chunk + 1, IF i * Chunk < Len(bytes) THEN i * Chunk ELSE Len(bytes))]

encode(v) == [i \in 1..v.enc |-> i]

\* SqlType::sql_type_and_subtype: by the length of the string in memory.
sql_type(v) ==
  IF v.kind = "Binary" \/ v.utf8 > MAX_TEXT_LENGTH THEN "blob" ELSE "text"

\* ParamBuffer::from_parameter: what the buffer holds, by the length encoded.
AsBlob(v) == v.kind = "Binary" \/ Len(encode(v)) > MAX_TEXT_LENGTH

\* Where the data of the parameter goes, when every call succeeds.
Stored(v) == blobs' = IF AsBlob(v) THEN Append(blobs, chunks(encode(v))) ELSE blobs
Buffer(v) == IF AsBlob(v) THEN [holds |-> "blob", data |-> Len(blobs')]
                          ELSE [holds |-> "text", data |-> encode(v)]

\* binary_to_blob fails on a segment or in closing: the handle of the blob is
\* given up.  (Failing to create it, to describe the parameters or to encode the
\* text changes nothing.)
BlobWriteFails(v) ==
  /\ Idle /\ tr # Null /\ stmt.handle \in open
  /\ AsBlob(v) /\ CanOpen("blob")
  /\ open' = open \cup {New("blob")} /\ lost' = lost \cup {New("blob")}
  /\ Unchanged(<<db, tr, stmt, data>>)

\* The library takes a parameter by its type: bytes are no identifier of a blob.
Accepts(v) == sql_type(v) = Buffer(v).holds

---------------------------------------------------------------------------
(* Columns                                                                 *)

\* What isc_get_segment returns, call after call: slices of the segments, with
\* isc_segment when the segment goes on.
Slices(segment) ==
  LET n == (Len(segment) + Slice - 1) \div Slice
  IN [i \in 1..n |->
        [bytes |-> SubSeq(segment, (i - 1) * Slice + 1,
                          IF i < n THEN i * Slice ELSE Len(segment)),
         status |-> IF i < n THEN "isc_segment" ELSE "ok"]]
Segments(blob) == FlattenSeq([i \in DOMAIN blob |-> Slices(blob[i])])

\* Mutant of read_blob: an unfinished segment ends the loop.
read_blobStops(calls) ==
  LET stops == {i \in DOMAIN calls : calls[i].status # "ok"}
      last == IF stops = {} THEN Len(calls) ELSE CHOOSE i \in stops : \A j \in stops : i =< j
  IN FlattenSeq([i \in 1..last |-> calls[i].bytes])

\* read_blob: until a status is neither zero nor isc_segment.
read_blob(calls) == FlattenSeq([i \in DOMAIN calls |-> calls[i].bytes])

\* to_column.  The library serves the blob for `good' calls; what it answers then
\* is its end, or an error, which the loop takes for it.
Column(store, row, good) ==
  IF row.cell.holds = "text" THEN [stored |-> row.value, got |-> row.cell.data, failed |-> FALSE]
  ELSE LET calls == Segments(store[row.cell.data])
       IN [stored |-> row.value, got |-> read_blob(SubSeq(calls, 1, good)),
           failed |-> good < Len(calls)]

\* A row with a value as its parameter; how many calls its column may take.
Row(v) == [value |-> encode(v), cell |-> Buffer(v)]
Calls(store, row) == IF row.cell.holds = "text" THEN 0 ELSE Len(Segments(store[row.cell.data]))

---------------------------------------------------------------------------
(* Execution                                                               *)

\* Params::new: what the library is told the parameter is, and what it is given.
Bind(v) ==
  /\ Idle /\ tr # Null /\ stmt.handle \in open /\ stmt.sql = "insert"
  /\ Len(blobs) < MaxRows /\ Stored(v)
  /\ sent' = [type |-> sql_type(v), holds |-> Buffer(v).holds]

Insert(v) ==
  /\ Len(table) < MaxRows /\ Accepts(v)
  /\ table' = Append(table, Row(v)) /\ work' = work + 1

\* execute of an insert.  isc_dsql_sql_info comes next, and may fail: the row is
\* there.
Execute(v) ==
  /\ Bind(v) /\ Insert(v)
  /\ Unchanged(<<db, tr, stmt, open, read, lost>>)

\* The parameters are sent, and the execution fails.
ExecuteFails(v) ==
  /\ Bind(v)
  /\ Unchanged(<<db, tr, stmt, open, table, work, read, lost>>)

\* execute of a select: a cursor over the rows.
OpenCursor ==
  /\ Idle /\ tr # Null /\ stmt.handle \in open /\ stmt.sql = "select" /\ stmt.rows = <<>>
  /\ stmt' = [stmt EXCEPT !.rows = table]
  /\ Unchanged(<<db, tr, open, data, lost>>)

\* fetch, which gives a row.
Fetch ==
  /\ Idle /\ tr # Null /\ stmt.rows # <<>>
  /\ LET row == Head(stmt.rows) IN \E good \in 0..Calls(blobs, row) : read' = Column(blobs, row, good)
  /\ stmt' = [stmt EXCEPT !.rows = Tail(@)]
  /\ Unchanged(<<db, tr, open, blobs, table, work, sent, lost>>)

\* fetch, when the blob is read and not closed: the row is passed over, and the
\* handle of the blob given up.  (Failing to open it passes over the row too.)
FetchFails ==
  /\ Idle /\ tr # Null /\ stmt.rows # <<>>
  /\ \/ UNCHANGED <<open, lost>>
     \/ /\ Head(stmt.rows).cell.holds = "blob" /\ CanOpen("blob")
        /\ open' = open \cup {New("blob")} /\ lost' = lost \cup {New("blob")}
  /\ stmt' = [stmt EXCEPT !.rows = Tail(@)]
  /\ Unchanged(<<db, tr, data>>)

\* execute2: the row that was stored comes back at once.
Execute2(v) ==
  /\ Bind(v) /\ Insert(v)
  /\ \E good \in 0..Calls(blobs', Row(v)) : read' = Column(blobs', Row(v), good)
  /\ Unchanged(<<db, tr, stmt, open, lost>>)

---------------------------------------------------------------------------
(* Events                                                                  *)

EventBuffers == {<<"event", 1>>, <<"event", 2>>}

\* wait_for_event: both buffers from isc_event_block, then a first wait.
WaitForEvent ==
  /\ Idle /\ db # Null
  /\ open' = open \cup EventBuffers /\ waiting' = "first"
  /\ UNCHANGED <<db, tr, stmt, data, lost>>

\* The first wait returns, and the second one begins.
WaitAgain ==
  /\ waiting = "first" /\ waiting' = "second"
  /\ UNCHANGED <<db, tr, stmt, open, data, lost>>

\* Mutant of WaitReturns: an error of the first wait returns at once.
WaitReturnsEarly ==
  /\ waiting # "no" /\ waiting' = "no"
  /\ open' = IF waiting = "first" THEN open ELSE open \ EventBuffers
  /\ UNCHANGED <<db, tr, stmt, data, lost>>

\* The second wait is over, or either of them fails: both buffers are freed.
WaitReturns ==
  /\ waiting # "no" /\ waiting' = "no"
  /\ open' = open \ EventBuffers
  /\ UNCHANGED <<db, tr, stmt, data, lost>>

---------------------------------------------------------------------------

Init ==
  /\ db = Null /\ tr = Null /\ stmt = NoStmt /\ waiting = "no"
  /\ open = {} /\ blobs = <<>> /\ table = <<>> /\ work = 0
  /\ read = [stored |-> <<>>, got |-> <<>>, failed |-> FALSE]
  /\ sent = [type |-> "text", holds |-> "text"]
  /\ lost = {}

Next ==
  \/ Attach \/ Detach \/ BeginTransaction
  \/ \E op \in {"Commit", "Rollback"} : EndTransaction(op)
  \/ \E op \in {"CommitRetaining", "RollbackRetaining"} : RetainTransaction(op)
  \/ \E sql \in {"insert", "select"} : PrepareOk(sql)
  \/ \E step \in {"allocate", "prepare", "describe", "sql_info", "column"} : PrepareFails(step)
  \/ Drop \/ CloseCursor
  \/ \E v \in Values : BlobWriteFails(v) \/ Execute(v) \/ ExecuteFails(v) \/ Execute2(v)
  \/ OpenCursor \/ Fetch \/ FetchFails
  \/ WaitForEvent \/ WaitAgain \/ WaitReturns

Spec == Init /\ [][Next]_vars

---------------------------------------------------------------------------

\* Whatever calls succeed and fail, in whatever order: what the library has open
\* is what the code holds (so that nothing it holds was closed), the buffers of a
\* wait that is going on, and the handles given up on the two error paths that
\* give them up: blobs until the transaction ends, statements until the
\* attachment does.
HandlesAreOwned ==
  /\ open = ({db, tr, stmt.handle} \ {Null}) \cup lost
              \cup (IF waiting = "no" THEN {} ELSE EventBuffers)
  /\ \A h \in lost : h[1] \in {"blob", "stmt"} /\ (h[1] = "blob" => tr # Null)

\* The types of the variables, a part of ValuesAreWhole.  No segment is empty, or
\* longer than its length can say.
Handles(kinds) == kinds \X (1..MaxHandles)
TypeOK ==
  /\ db \in Handles({"db"}) \cup {Null} /\ tr \in Handles({"tr"}) \cup {Null}
  /\ stmt.handle \in Handles({"stmt"}) \cup {Null} /\ stmt.sql \in {"none", "insert", "select"}
  /\ waiting \in {"no", "first", "second"}
  /\ open \subseteq Handles({"db", "tr", "stmt", "blob"}) \cup EventBuffers
  /\ lost \subseteq Handles({"stmt", "blob"})
  /\ Len(blobs) =< MaxRows
  /\ \A i \in DOMAIN blobs : \A j \in DOMAIN blobs[i] : Len(blobs[i][j]) \in 1..Chunk
  /\ Len(table) =< MaxRows /\ work \in 0..Len(table)
  /\ sent \in [type : {"text", "blob"}, holds : {"text", "blob"}]

\* The variables have their types.  What is read is what was stored, byte for byte,
\* over the segments of writing and the smaller slices of reading; or what came before
\* a read that failed, which the loop takes for the end of the blob.  row.rs:249-264,
\* params.rs:248-260.
ValuesAreWhole ==
  /\ TypeOK
  /\ IF read.failed THEN IsPrefix(read.got, read.stored) ELSE read.got = read.stored

\* "Holds the data in the format expected by the `fbclient`" (params.rs:117): a
\* parameter given as a blob is the identifier of one, a text is a text.
ParamsAreInFormat == sent.type = sent.holds

===========================================================================
