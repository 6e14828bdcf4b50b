----------------------------- MODULE StmtCache -----------------------------
(***************************************************************************)
(* The prepared statements of one `Connection`: the statement cache of     *)
(* src/connection/stmt_cache.rs, the calls that take a statement out of it *)
(* and give it back, and the statement handles the server keeps open for   *)
(* the attachment.                                                         *)
(*                                                                         *)
(* A `Connection` is used through `&mut self`, so a call runs alone: each  *)
(* action is one whole call of the API.  What survives between calls is    *)
(* the cache, and the one statement a live iterator or `Statement` object  *)
(* still holds.                                                            *)
(*                                                                         *)
(* Abstraction: rows, parameters and results are left out.  Any prepare,   *)
(* any execution and any closing, of a cursor or of a statement, may fail; *)
(* the server refuses to run a statement whose cursor is already open.     *)
(***************************************************************************)
EXTENDS Naturals, FiniteSets, SequencesExt

CONSTANTS
  Sqls,       \* the texts the application runs
  Selects,    \* those that open a cursor (StmtType::Select)
  Handles,    \* the statement handles the server can give out
  Capacity,   \* stmt_cache_size
  NoSql       \* the text of a handle allocated but never prepared

ASSUME SelectsAssumption == Selects \subseteq Sqls
ASSUME CapacityAssumption == Capacity \in Nat
ASSUME NoSqlAssumption == NoSql \notin Sqls

VARIABLES
  lru,        \* StmtCache.cache, least recently used entry first
  sqls,       \* StmtCache.sqls
  held,       \* the statement a live iterator or Statement owns: at most one
  open,       \* server: the allocated statement handles
  text,       \* server: what each handle was prepared for
  cursors,    \* server: the handles with an open cursor
  phase,      \* "open", or "closed" once the Connection is gone
  stuck,      \* history: open cursors whose closing failed, or was never tried
              \* because the call that opened them reported an error
  unclosed    \* history: allocated handles whose closing failed

vars == <<lru, sqls, held, open, text, cursors, phase, stuck, unclosed>>

---------------------------------------------------------------------------
(***************************************************************************)
(* The cache as a data structure                                           *)
(***************************************************************************)

StmtCacheData == [sql : Sqls, stmt : Handles]

Keys(c) == {d.sql : d \in Range(c)}

\* Mutant of LruInsert: the list is never cut back to its capacity.
LruInsertUnbounded(c, d) ==
  [lru |-> Append(SelectSeq(c, LAMBDA e : e.sql # d.sql), d),
   old |-> {e.stmt : e \in {x \in Range(c) : x.sql = d.sql}}]

\* LruCache::insert: an entry of the same key is replaced and returned, the
\* new one becomes the most recent, and a list grown past its capacity loses
\* its oldest entry, which nobody gets back.
LruInsert(c, d) ==
  LET same == {i \in DOMAIN c : c[i].sql = d.sql}
      rest == IF same = {} THEN c ELSE RemoveAt(c, CHOOSE i \in same : TRUE)
      full == Append(rest, d)
  IN  [lru |-> IF Len(full) > Capacity THEN Tail(full) ELSE full,
       old |-> {c[i].stmt : i \in same}]

\* StmtCache::insert; `old` holds the statement returned to the caller, if any.
Insert(c, s, d) ==
  LET evict == Len(c) = Capacity /\ c # <<>>
  IN  IF d.sql \in s
      THEN [lru  |-> LruInsert(c, d).lru,
            sqls |-> s,
            old  |-> LruInsert(c, d).old]
      ELSE [lru  |-> LruInsert(IF evict THEN Tail(c) ELSE c, d).lru,
            sqls |-> (s \cup {d.sql}) \ (IF evict THEN {Head(c).sql} ELSE {}),
            old  |-> IF evict THEN {Head(c).stmt} ELSE {}]

\* Mutant of InsertMarked: the text is never added to `sqls`.
InsertUnmarked(c, s, d) ==
  [lru |-> LruInsert(c, d).lru, sqls |-> s, old |-> LruInsert(c, d).old]

\* How insert_and_close calls it: the text is added to `sqls` beforehand.
InsertMarked(c, s, d) == Insert(c, s \cup {d.sql}, d)

Cached == {d.stmt : d \in Range(lru)}
Held == {m.stmt : m \in held}

---------------------------------------------------------------------------
(***************************************************************************)
(* The steps the calls are made of.  A "served" record is the statement a  *)
(* call works on, with what is left of the cache and of the server's       *)
(* handles.                                                                *)
(***************************************************************************)

\* StatementData::prepare, when the server accepts the text.
Prepare(q) ==
  {[stmt |-> h, lru |-> lru, sqls |-> sqls,
    open |-> open \cup {h}, text |-> [text EXCEPT ![h] = q]] :
     h \in Handles \ open}

\* Mutant of Get: the statement is read without leaving the cache.
GetPeek(q) ==
  {[stmt |-> lru[i].stmt, lru |-> lru, sqls |-> sqls, open |-> open, text |-> text] :
     i \in {j \in DOMAIN lru : lru[j].sql = q}}

\* StmtCache::get: a cached statement leaves the cache and the set of texts.
Get(q) ==
  {[stmt |-> lru[i].stmt, lru |-> RemoveAt(lru, i), sqls |-> sqls \ {q},
    open |-> open, text |-> text] :
     i \in {j \in DOMAIN lru : lru[j].sql = q}}

\* StmtCache::get_or_prepare, when it succeeds.
GetOrPrepare(q) == IF q \in Keys(lru) THEN Get(q) ELSE Prepare(q)

\* The cursors at the server, with those of them nobody will close.
Cursors == [cursors |-> cursors, stuck |-> stuck]

\* h ran: a select leaves its cursor open.
OpenCursor(h, q, c) ==
  IF q \in Selects THEN [c EXCEPT !.cursors = @ \cup {h}] ELSE c

\* A cursor of h stays open behind an error.
LeftOpen(h, c) == [c EXCEPT !.stuck = @ \cup ({h} \cap c.cursors)]

\* StatementData::close_cursor, which may fail; every caller goes on all the same.
CloseCursorNever(h, c) == {c}    \* mutant of CloseCursor
CloseCursor(h, c) ==
  {[cursors |-> c.cursors \ {h}, stuck |-> c.stuck \ {h}], LeftOpen(h, c)}

\* StmtCache::insert_and_close of h, with the cursors c: a statement that comes
\* back displaced is closed, unless that fails.
InsertAndClose(r, q, c) ==
  LET ins == InsertMarked(r.lru, r.sqls, [sql |-> q, stmt |-> r.stmt])
  IN  /\ lru' = ins.lru
      /\ sqls' = ins.sqls
      /\ text' = r.text
      /\ \/ /\ open' = r.open \ ins.old
            /\ cursors' = c.cursors \ ins.old
            /\ stuck' = c.stuck \ ins.old
            /\ unclosed' = unclosed \ ins.old
         \/ /\ ins.old # {}
            /\ open' = r.open /\ cursors' = c.cursors /\ stuck' = c.stuck
            /\ unclosed' = unclosed \cup ins.old

Idle == phase = "open" /\ held = {}

---------------------------------------------------------------------------
(***************************************************************************)
(* The calls of Connection and Transaction, which use the cache            *)
(***************************************************************************)

\* execute and execute_returnable: the statement is given back whether it was
\* refused, or ran.  The cursor of a select that ran is closed before; when that
\* fails, or the call fails after the cursor was opened (asking for the affected
\* rows), the statement is given back with its cursor open.
Execute(q) ==
  /\ Idle
  /\ \E r \in GetOrPrepare(q) :
       \/ InsertAndClose(r, q, Cursors)
       \/ /\ r.stmt \notin cursors
          /\ \E c \in CloseCursor(r.stmt, OpenCursor(r.stmt, q, Cursors)) :
               InsertAndClose(r, q, c)
  /\ UNCHANGED <<held, phase>>

\* query_iter when the execution succeeds: the iterator keeps the statement.
QueryIter(q) ==
  /\ Idle
  /\ \E r \in GetOrPrepare(q) :
       /\ r.stmt \notin cursors
       /\ held' = {[sql |-> q, stmt |-> r.stmt, from |-> "cache"]}
       /\ cursors' = OpenCursor(r.stmt, q, Cursors).cursors
       /\ lru' = r.lru /\ sqls' = r.sqls /\ open' = r.open /\ text' = r.text
  /\ UNCHANGED <<phase, stuck, unclosed>>

\* Mutant of QueryIterFails: the error returns before the statement is given back.
QueryIterForgets(q) ==
  /\ Idle
  /\ \E r \in GetOrPrepare(q) :
       lru' = r.lru /\ sqls' = r.sqls /\ open' = r.open /\ text' = r.text
  /\ UNCHANGED <<held, cursors, phase, stuck, unclosed>>

\* query_iter when it fails: the statement goes back to the cache at once, with
\* its cursor open if the error came after the server had opened it.
QueryIterFails(q) ==
  /\ Idle
  /\ \E r \in GetOrPrepare(q) :
       \/ InsertAndClose(r, q, Cursors)
       \/ /\ r.stmt \notin cursors
          /\ InsertAndClose(r, q, LeftOpen(r.stmt, OpenCursor(r.stmt, q, Cursors)))
  /\ UNCHANGED <<held, phase>>

\* Dropping the iterator: closing its cursor is tried, the statement given back.
StmtIterDrop ==
  /\ \E m \in held :
       /\ m.from = "cache"
       /\ \E c \in CloseCursor(m.stmt, Cursors) :
            InsertAndClose([stmt |-> m.stmt, lru |-> lru, sqls |-> sqls,
                            open |-> open, text |-> text], m.sql, c)
  /\ held' = {}
  /\ UNCHANGED phase

\* Any of these calls, or Transaction::prepare, when the text is rejected: the
\* handle was allocated first, and no structure of the client remembers it.
PrepareFails(q) ==
  /\ Idle
  /\ \E h \in Handles \ open :
       /\ open' = open \cup {h}
       /\ text' = [text EXCEPT ![h] = NoSql]
  /\ UNCHANGED <<lru, sqls, held, cursors, phase, stuck, unclosed>>

\* Transaction::commit or rollback: the server may close the cursors that were
\* opened in the transaction that ends.
TransactionEnds ==
  /\ Idle
  /\ \E gone \in SUBSET cursors : cursors' = cursors \ gone /\ stuck' = stuck \ gone
  /\ UNCHANGED <<lru, sqls, held, open, text, phase, unclosed>>

---------------------------------------------------------------------------
(***************************************************************************)
(* A Statement of Transaction::prepare, which bypasses the cache           *)
(***************************************************************************)

PrepareStatement(q) ==
  /\ Idle
  /\ \E r \in Prepare(q) :
       /\ held' = {[sql |-> q, stmt |-> r.stmt, from |-> "prepare"]}
       /\ open' = r.open /\ text' = r.text
  /\ UNCHANGED <<lru, sqls, cursors, phase, stuck, unclosed>>

\* Statement::query: the StatementFetch it returns keeps the cursor.
StatementQuery ==
  /\ \E m \in held :
       /\ m.from = "prepare"
       /\ m.stmt \notin cursors
       /\ cursors' = OpenCursor(m.stmt, m.sql, Cursors).cursors
       /\ held' = {[m EXCEPT !.from = "fetch"]}
  /\ UNCHANGED <<lru, sqls, open, text, phase, stuck, unclosed>>

\* Statement::execute, or a Statement::query that fails after the cursor was
\* opened: the cursor is closed, or stays behind with the Statement.
StatementExecute ==
  /\ \E m \in held :
       /\ m.from = "prepare"
       /\ m.stmt \notin cursors
       /\ \E c \in CloseCursor(m.stmt, OpenCursor(m.stmt, m.sql, Cursors)) :
            cursors' = c.cursors /\ stuck' = c.stuck
  /\ UNCHANGED <<lru, sqls, held, open, text, phase, unclosed>>

\* Dropping the StatementFetch, whose failure to close the cursor is ignored.
StatementFetchDrop ==
  /\ \E m \in held :
       /\ m.from = "fetch"
       /\ \E c \in CloseCursor(m.stmt, Cursors) :
            cursors' = c.cursors /\ stuck' = c.stuck
       /\ held' = {[m EXCEPT !.from = "prepare"]}
  /\ UNCHANGED <<lru, sqls, open, text, phase, unclosed>>

\* Dropping the Statement, which no StatementFetch borrows any more: it is closed,
\* or that fails, which nobody hears of, and the handle stays at the server.
StatementDrop ==
  /\ \E m \in held :
       /\ m.from = "prepare"
       /\ \/ /\ open' = open \ {m.stmt}
             /\ cursors' = cursors \ {m.stmt}
             /\ stuck' = stuck \ {m.stmt}
             /\ unclosed' = unclosed \ {m.stmt}
          \/ unclosed' = unclosed \cup {m.stmt} /\ UNCHANGED <<open, cursors, stuck>>
  /\ held' = {}
  /\ UNCHANGED <<lru, sqls, text, phase>>

---------------------------------------------------------------------------
(***************************************************************************)
(* The Connection itself                                                   *)
(***************************************************************************)

\* Mutant of Close: the attachment goes, close_all is never called.
CloseWithoutCloseAll ==
  /\ Idle
  /\ open' = {} /\ cursors' = {} /\ stuck' = {} /\ unclosed' = {} /\ phase' = "closed"
  /\ UNCHANGED <<lru, sqls, held, text>>

\* close_all, by Connection::close or by dropping it, then the detachment.  Closing
\* each statement may fail, and so may the detachment; the server frees every
\* handle of an attachment it lets go.
Close ==
  /\ Idle
  /\ lru' = <<>>
  /\ sqls' = {}
  /\ \/ open' = {} /\ cursors' = {} /\ stuck' = {} /\ unclosed' = {}
     \/ \E failed \in SUBSET Cached :
          /\ open' = open \ (Cached \ failed)
          /\ cursors' = cursors \ (Cached \ failed)
          /\ stuck' = stuck \ (Cached \ failed)
          /\ unclosed' = (unclosed \ Cached) \cup failed
  /\ phase' = "closed"
  /\ UNCHANGED <<held, text>>

\* A new Connection, with an attachment and a cache of its own.
Open ==
  /\ phase = "closed"
  /\ phase' = "open"
  /\ open' = {} /\ cursors' = {} /\ stuck' = {} /\ unclosed' = {}
  /\ UNCHANGED <<lru, sqls, held, text>>

Init ==
  /\ lru = <<>>
  /\ sqls = {}
  /\ held = {}
  /\ open = {}
  /\ text = [h \in Handles |-> NoSql]
  /\ cursors = {}
  /\ phase = "open"
  /\ stuck = {}
  /\ unclosed = {}

Next ==
  \/ \E q \in Sqls :
       \/ Execute(q)
       \/ QueryIter(q)
       \/ QueryIterFails(q)
       \/ PrepareFails(q)
       \/ PrepareStatement(q)
  \/ StmtIterDrop
  \/ TransactionEnds
  \/ StatementQuery
  \/ StatementExecute
  \/ StatementFetchDrop
  \/ StatementDrop
  \/ Close
  \/ Open

Spec == Init /\ [][Next]_vars

---------------------------------------------------------------------------
(***************************************************************************)
(* Properties                                                              *)
(***************************************************************************)

\* The variables have the types the structures have; the cache respects its
\* capacity, and at most one statement is checked out.
TypeOK ==
  /\ lru \in Seq(StmtCacheData)
  /\ Len(lru) =< Capacity
  /\ sqls \subseteq Sqls
  /\ held \subseteq [sql : Sqls, stmt : Handles, from : {"cache", "prepare", "fetch"}]
  /\ \A m, n \in held : m = n
  /\ open \subseteq Handles
  /\ text \in [Handles -> Sqls \cup {NoSql}]
  /\ cursors \subseteq Handles
  /\ phase \in {"open", "closed"}
  /\ stuck \subseteq cursors
  /\ unclosed \subseteq open

\* StmtCache::get unwraps `sqls.take(sql)` whenever the cache has the text: every
\* cached text is in `sqls`, so taking a statement out never panics.
TakeNeverPanics == Keys(lru) \subseteq sqls

\* A handle the client still works with is allocated at the server, and was
\* prepared for the very text it is used for: nothing runs a closed statement,
\* or the statement of another text.
HandlesLive ==
  \A d \in Range(lru) \cup held : d.stmt \in open /\ text[d.stmt] = d.sql

\* No two owners share a statement handle, and the cache has one statement for a
\* text: closing or running it through one owner never disturbs another.
HeldOnce ==
  /\ \A i, j \in DOMAIN lru :
       lru[i].stmt = lru[j].stmt \/ lru[i].sql = lru[j].sql => i = j
  /\ Held \cap Cached = {}
  /\ \A m \in held : m.from = "cache" => m.sql \notin Keys(lru)

\* A statement waits in the cache with its cursor closed, so the next call that
\* gets it can execute it; but for a cursor whose closing failed, or that was left
\* open by an execution that reported an error, which the callers ignore.
CachedCursorsClosed == Cached \cap cursors \subseteq stuck

\* A call makes the client forget an allocated handle only when the server
\* rejected its text, by adding a statement to a full cache, or when it tried to
\* close the handle and failed.  Every other path, failed executions and failed
\* closings of a cursor included, keeps or closes its statement.
OnlyEvictionForgets ==
  [][ \A h \in open' \ (Cached' \cup Held') :
        \/ h \in open \ (Cached \cup Held)
        \/ text'[h] = NoSql
        \/ Len(lru) = Capacity
        \/ h \in unclosed' ]_vars

\* insert_and_close is documented to close "the previous one for this sql or
\* another if the cache is full": a statement that leaves the cache, other than
\* to be used, is closed, or closing it is tried and fails.  The code marks the
\* text before it inserts, takes the branch of a known text, and the evicted
\* statement is dropped without a try.
EvictionCloses ==
  [][ \A h \in Cached \ (Cached' \cup Held') : h \notin open' \ unclosed' ]_vars

============================================================================
