# A verification project for rsfbclient

rsfbclient is a Firebird client in Rust: a connection API with transactions and
prepared statements, over two interchangeable clients (a pure-rust
implementation of the wire protocol and bindings of the native library), with a
diesel backend and an r2d2 pool on top.  This directory holds TLA+ models of its
parts, the TLC runs that check them on small instances, and proofs that
TLAPS checks for every instance.  Paths below are relative to the repository
root.

## Inventory

| part | state it keeps | operations | hard behaviour |
|---|---|---|---|
| statement cache (`src/connection/stmt_cache.rs`, `src/statement.rs`) | an LRU list of prepared statements, a set of their texts, the statement checked out | take, give back, close all; prepare, execute, query, drop | two copies of one key set; a handle given back from many error paths; a cache at its limit |
| connection and transactions (`src/connection/mod.rs`, `src/transaction/mod.rs`) | the default transaction, a flag for an explicit one, the live `Transaction` or iterator | begin, commit, rollback, closures, automatic calls, iterators, close, drop | the transaction is taken out and put back around fallible calls; failures during commit; drops that ignore errors; panics |
| wire client (`rsfbclient-rust/src/client.rs`, `wire.rs`) | socket, receive buffer, version, charset, count of lazy responses | connect, authenticate, attach, prepare, execute, fetch, free, events | responses owed by earlier calls; partial reads parsed again; errors in the middle of a sequence |
| row batches (`client.rs` `fetch`, `fetch_batch`) | prefetched rows, end-of-cursor flag | fetch, fetch a batch, close cursor | rows, end and errors arrive together; blob look-ups in the middle of a batch |
| stream cipher (`arc4.rs`) | two key streams, a buffer | read, write | short writes against a key stream that already advanced |
| authentication (`client.rs` `connect`, `srp_auth`, `srp.rs`) | plugin named by the server, keys, cipher | connect, attach, detach | four kinds of answer, plugins swapped, a cipher switched on between two messages |
| events (`rsfbclient-rust/src/events.rs`, `src/events.rs`) | auxiliary socket, event counts, listener thread | wait, listen, stop | stale and cancelled notifications, two-phase registration, a thread to stop |
| diesel backend (`rsfbclient-diesel/src/fb`) | transaction depth, error status | begin, commit, rollback, nested savepoints | a depth that must follow the server through errors |
| pool (`r2d2_firebird`, diesel `r2d2`) | the connections r2d2 keeps | connect, check | state left in a connection by its previous user |
| native client (`rsfbclient-native`) | handles of the C library, buffers of parameters and columns | as the wire client | any call may fail with a handle half acquired; blobs in segments; two lengths of one text |
| services (`src/services.rs`, native client) | service handle | attach, backup, restore, output, detach | output that looks like its end, a server that waits for a reader, length fields of a fixed width |
| conversions (`rsfbclient-core`, `blr.rs`, `xsqlda.rs`, `conn_string.rs`, `params.rs`) | none | dates, parameters, rows, connection strings | calendar arithmetic, widths, truncation |
| builders (`src/connection/builders`) | configuration | setters, strings, connect | what a string overrides and what it keeps |

Components call downwards: diesel and the pool call `Connection`; `Connection`
owns the cache and a `FirebirdClient`; the wire client owns a stream that may be
the cipher.  Only the event listener runs a thread of its own.  Everything else
is `&mut self`, so the interleavings that matter are those of the client with the
server, with the link, and with the errors either one returns.


## Plan

In the order of importance of what the parts promise; each step has its modules,
its runs and what is worth proving about it.

| step | modules | abstract specification | proofs | state |
|---|---|---|---|---|
| 1. prepared statements | `StmtCache` | | type, ownership and liveness of handles; only a full cache, or a failed closing, forgets one | done |
| 2. transactions of a connection | `Connection` | `UnitsOfWork` | the handles kept are alive; what was told committed is durable; refinement of the units of work | done |
| 3. requests and responses | `WireClient` | | the client waits only for what it is owed; every answer is its own | done |
| 4. row batches | `FetchBatch` | `Cursor` | nothing lost quietly; refinement of the cursor | done |
| 5. diesel's nested transactions | `DieselTransactions` | `NestedTransactions` | depth and savepoints agree; refinement of the levels | done |
| 6. events | `Events` | | no spurious wake, ids identify registrations | done |
| 7. connecting, with the stream cipher | `Srp`, `Session` | | the two ends compute one key; the right password is accepted; the streams stay in step | done |
| 8. services | `Services` | | the service handle is given back once; `Ok` means that the action is over | done |
| 9. native client | `NativeClient` | | what the library has open is what the code owns; what is read is what was stored | done |
| 10. computations without state | `Blocks`, `Rows`, `Describe`, `Texts`, composed by `Encodings` | reference definitions in each | what is written in a block is read back; connection strings mean what they were written for; both clients count the same rows | blocks, connection strings, columns, counts, named parameters and messages of errors proved; rows and descriptions for TLC only |

`Connection` uses the other parts through what they show: that giving a statement
back never fails (`StmtCache`), that a call's answer is its own (`WireClient`).
`DieselTransactions` contains the raw `Connection` reduced to its explicit
transaction.  `Session` contains `Srp`, and ends where `WireClient` begins.  The
operators of step 10 are definitions without state; `Encodings` gives them their
inputs, one to a step.

## The modules

Names follow the source: an action has the name of the function it models, a
variable the name of the field.  A comment says so where they differ.  The map in
`PROJECT.json` gives the lines of every definition.  A definition whose comment
says "Mutant of" is a plausible bug in the definition behind it; no specification
uses it, and each makes one property fail when put in place of the original.  Each
module with state says the types of its variables in `TypeOK`, which is checked by
itself or as the first part of an invariant.

### StmtCache

One action per call that takes a statement out of the cache or gives one back:
`Execute` stands for `execute`, `execute_returnable` and their transaction
variants, which all go through `get_or_prepare` and `insert_and_close`;
`QueryIter` and `StmtIterDrop` for a result iterator; `PrepareStatement`,
`StatementQuery`, `StatementExecute`, `StatementFetchDrop`, `StatementDrop` for
`Statement` objects, which bypass the cache; `Close` and `Open` for the end of a
connection and the next one; `TransactionEnds` for the cursors that go with their
transaction.  As the API takes `&mut self`, a call is one step.  `lru` and `sqls` are
the two collections of `StmtCache`; `open`, `text` and `cursors` are the server's side.
The LRU crate is external, and modelled by what the code relies on.

Closing fails too.  The drops of the iterators ignore that a cursor did not close, as
`Statement` ignores that its handle did not; `execute` returns the failure, after which
its caller gives the statement back all the same; and an execution can fail when its
cursor is already open, because the affected rows are asked for in a second request.
`CloseCursor` and `LeftOpen` give both outcomes, and two history variables remember the
failures: `stuck`, the cursors left open behind one, and `unclosed`, the handles whose
closing failed.  A cached statement with a stuck cursor is refused by the server each
time its text is run, until it is evicted or its transaction ends: the properties do
not deny it, they say that nothing but such a failure leads there.

*Run `stmt_cache`* (three texts, one a select; cache of two; four handles, so that a
statement lost by eviction leaves room for the next call): the two collections never
disagree in the direction that panics; every handle in use is allocated, for that
text, and has one owner; cached cursors are closed, but for stuck ones; only a full
cache, a text the server rejects, or a closing that fails loses a handle.  One text more than the
cache holds is what an eviction followed by a return of the evicted text takes.
A text evicted stays in `sqls` for as long as it is not run again, so that set grows with
the texts run: no property bounds it.
*Run `stmt_cache_evict`* (cache of one) finds the eviction that closes nothing: see
Findings.

### Connection and UnitsOfWork

`Connection` has the default transaction `def_tr`, the flag `in_transaction`, the live
`Transaction` (a closure's or an application's), the live iterator, and the server:
which transactions are active and what each did.  Each request may be refused, may
succeed, or may meet a link that breaks before or after the server performed it.  A
closure is the span between `WithTransaction` and `ClosureReturn` or
`ClosurePanics`, in which its transaction is the application's to use; so commits,
rollbacks and executions of a closure interleave with failures in every order.
`told` records what the application knows of each execution: the invariants relate
it to what the server made durable.

The detachment that ends a `Connection` is a request like the others: it may be refused, or
its link may break, after a rollback of the default transaction whose outcome is ignored.
The attachment and what it holds then live on.  `Close` forgets the client with its socket
open, `DropConnection` closes the socket, and only `LinkLost`, which goes on happening to a
closed connection, ends what the server kept; until then a transaction whose rollback was
refused as well is among the `orphans`, and the properties are asked of these states too.

`UnitsOfWork` states the promise without transactions or server: every execution
belongs to a unit, a unit ends as a whole, and only a failed end leaves doubt.

*Run `connection`*: three executions, two configurations, three transaction handles.
A connection holds at most two transactions at once (the default one and an
object), so three handles leave room for a leak; three executions let a unit of two
be torn or a third be mixed with it.  All refusals, that of the
detachment included, and a link loss at every request are among its steps.  Some of what goes wrong is a state of the promise
and not a violation of it.  Work is `doubtful` once a commit or rollback failed, also when
the drop of an iterator ignored that failure (`mod.rs:335`) and the application heard
nothing; a later call may commit it, and `DefaultIsClean` names it as what a default
transaction may hold.  A closure that panics tells its work `undone`, as its transaction is
rolled back by its drop; when that was an explicit one, `in_transaction` stays set, and the
calls behind it work in a new transaction that nobody began and nobody commits.

### WireClient

The protocol has neither framing nor request identifiers: a response belongs to a
request by its position.  `stream` is what the server sent and the client has not
consumed; `arrived` what is in `pending`.  A call is a sequence of rounds, a round
one `read_with`; `Parse` gives all outcomes of one attempt of its closure on what
has arrived, with what it consumed.  `Receive` is the incomplete attempt, whose
effect is rolled back, `Take` the one that ends.  The history variable `skewed` names
the first of the causes that leave the client out of step with the stream: a lazy
response with an error, a refused allocation, a text that does not encode, a row
that does not decode, and a status vector with an item the client does not know, a
warning for instance, behind which the rest of the response stays unread
(`wire.rs:1047`).  Any response may have such a vector, one that reports a success
included (`says`).  Once a read starts inside a response the model stops (`garbled`), as
nothing can be said of what follows.

*Run `wire_client`*: two lazy responses, batches of two rows, up to two responses in
the stream when a call begins and calls of up to three rounds.  Two lazy responses are
what it takes to have one consumed and one missing in the same attempt; with one left over
and one lazy, the answer to a call comes behind a response of either kind.  What arrives
may end between any two responses, between a row and the one that closes it too, where
`execute2` undoes its attempt and reads on (`ParseSql`).  The property `AnswersOwn` says
the five causes are the only ones.  Liveness: `CallsReturn`.

### FetchBatch and Cursor

`prefetched`, `cursor_eof` and the count of empty batches are the code's.  A batch may
end short, empty, exactly at the last row with or without the end reported, with an
error behind some rows, or with a blob that cannot be read in its middle.  Rows carry
the execution they came from, so that a row left over by an earlier execution of the
cached statement is told apart.  `Cursor` is the promise: rows in order and once, an
end only behind the last one, unless a failure was reported.

*Run `fetch_batch`*: five rows in batches of three (a full batch and a short one, or
any shorter ones), blobs in the second and third row, up to three empty batches in
a row where the code allows a thousand.

### DieselTransactions and NestedTransactions

`status` is the manager's: a depth or `InError`.  The server's transaction is a log of
works and savepoints; rolling back to a savepoint cuts the log behind it and keeps it,
setting one of an existing name moves it.  These two rules are the server's, and the
only ones taken from outside the repository.  `IsValid` is the pool's check, which a
broken connection passes.

`NestedTransactions` keeps the work of each level apart.  The refinement mapping reads
the levels off the log: level d is what lies between the d-th savepoint and the next.
That a committed level leaves its savepoint behind, to be moved by the next level of
the same depth, is what makes the refinement more than a renaming.

*Run `diesel_transactions`*: four works, four levels: a level that commits, a second
of the same depth that rolls back, and work on both sides of each.  A broken
connection is not exempt: its open work still ends as one unit (`BrokenWork`).

### Events

`wait_for_event` as the steps it takes on the two connections: open the channel,
register with a counter of zero to be told the current one, register with that one,
wait.  `registered` and `wire` are the server's registrations and its notifications
in flight; a registration carries a number beside its id, which only the properties
look at.  `ListenEvent`, `ListenerWoken` and `HandlerReturns` are the listener thread,
which owns its connection.

The server's rule (a registration is answered once the counter has reached its own,
with the counter of the next post) is the one the comments at
`rsfbclient-rust/src/client.rs:595` and `events.rs:100` give.  Posts made while the
handler runs wake nobody by themselves: the next synchronization absorbs them.

*Run `events`*: four registrations, that is two waits, four ids beginning anywhere, so
that the ids wrap between and inside the waits, and two posts.

### Srp and Session

`Srp` is the arithmetic of the client (`powm`, `calc_key`, `parse_srp_auth_data`) over a
group as small as TLC can count in, and the server's side of the exchange, from the
protocol the client's comments cite.  Digests are tuples; those used as numbers are
operators of a small range, whose product stays below the modulus as it does with
SHA-1 and 1024 bits.

`Session` is a connection from `connect` to `detach_database`: what the client sends,
what it does with each of the answers `accept`, `accept_data`, `cond_accept` and
`cont_auth`, the loop over plugins, the proof in the connection or in the attachment,
the switch to the cipher, and attachments that fail and are tried again.  Two byte
streams connect it to the server.  A message is two bytes, so that it can arrive in
parts and a write can be cut; a byte carries the key and the place in the key stream
it was encrypted with, and decrypts to garbage with any other.  `skew` names the two
known causes for garbage: a short write (the key stream has gone on past what the
socket took) and a server that refuses the cipher the client has switched on already.

*Run `session`*: a group modulo 23, two client secrets, four server secrets, among
them one whose key the subtraction of `calc_key` takes below zero and one whose key is
zero; two requests; as many swaps of plugins as the server likes.  The right password is
accepted wherever and by whichever plugin it is asked for; the streams stay in step.  The
loop over plugins has no limit in the code, so that a server which names plugins and never
sends its key keeps `connect` in it: `CallsReturn` says that every call returns unless the
server does that for ever (`<>[][~ServerSwaps]_vars`), which makes it the only way not to.

### Services

One action per call of `ServiceManager` and one per way `drain_output` goes on or ends
(`DrainLine`, `DrainOver`, `DrainStops`, `DrainFails`); the server runs the action in a
process of its own, which waits while its output is not read.  A line is text, empty,
or too long for the reply.

*Run `services`*: three actions of three lines, of which the server keeps two unread.
`Ok` means that the action is over and its lines were handed on, or that a line looked
like the end: that is the exception `OkMeansOver` names, and what the code does with an
empty line.  Lines of an action that outlived its call do not reach the next one.

### NativeClient

The operations of `NativeFbClient`, over a library each call of which may fail:
handles (`open` is what the library has open, `lost` what the code gave up), parameters
and their buffers, blobs written in segments and read in slices, cursors, and
`wait_for_event` with its two event buffers.  The lengths are those of the code divided
by some ten thousand; a value is the positions of its bytes.

*Run `native`*: six values around the text limit, in encodings of one and two bytes a
character; two handles of a kind; two rows.  What the library has open is what the code
owns, the event buffers of a wait, and the handles given up on two error paths of the
client itself (a statement whose preparation fails behind its allocation, a blob that fails
before it is closed).  A statement whose `DSQL_drop` is refused stays open and in the
caller's hands, as a refused call changes nothing here; that the caller may then forget it
is the concern of `StmtCache` (`unclosed`).  What is read is what was stored, or a part of it when a read failed.
*Run `native_format`*: see Findings.

### Blocks, Rows, Describe, Texts and Encodings

Definitions without state, each the translation of a function, next to the server's
reading of what it writes:

- `Blocks`: attachment, identification, service, transaction and event blocks of both
  clients.
- `Rows`: parameters to a BLR message, a message to a row and back, padding and null
  bitmaps of both versions of the protocol, integer widths, affected rows, and the
  coercion of a column by either client.
- `Describe`: the description of a statement in replies of 1024 bytes, each asked for
  where the last one stopped; status vectors.
- `Texts`: named parameters, connection strings and what the builders take from them,
  dates and times.

*Run `encodings`* gives each of them its inputs, at the boundaries: lengths 0, 1, 255,
256, 65536; up to three calls of a transaction builder in any order; rows of up to two
values of any kind, and of 8, 9, 32 and 33; columns of every type, subtype and scale;
descriptions of up to three columns of up to 252 bytes of names and up to 1000
parameters; two errors with up to two arguments; every text of six characters over
names, apostrophes, colons and blanks; connection strings in every combination of
parts; every day of twelve years around centuries.  `MAX_DATA_LENGTH` is 5 in place of
32767, which only decides where a text becomes a blob.  A property that does not hold of
every input has its condition as an equivalence where that is possible: the blocks of
services and of the native client are right *if and only if* each text fits its length.

## Fairness

Five modules state liveness, and what is fair is what a running program cannot
refrain from.  A thread blocked in `read` proceeds when bytes are there
(`WF(Receive \/ Take)`, `WF(FetchStep)`, `WF(WaitStep)`, `WF(ClientStep)`).  A server
sends the notifications it owes (`WF(Notify)`); during the handshake it answers what it
can read, and hangs up on what it cannot (`WF(ServerStep \/ ServerHangsUp)`), which leaves
it free to answer with another plugin each time; that it does not for ever is a premise of
the property and not of the specification.  In
`WireClient` an answer is in the stream as soon as its request is, so that the first of
these includes that the server answers or hangs up.  In `Services` each query of the
library is answered and an action of the server goes on while it has room.  Nobody has
to call, post, break or cancel anything.  The other modules state safety only, and
their specifications have no fairness.

Some runs switch the deadlock check off: a closed `Connection` does nothing more, and
neither do a client of `Events` that has made all the registrations of the bound, a
failed or finished `Session`, a dropped service manager, and an input of `Encodings`
that has been computed.

## Findings

Two runs end in a counterexample, each to a statement of the repository.

| run | statement | what the code does |
|---|---|---|
| `stmt_cache_evict` | `stmt_cache.rs:98` "closing the previous one for this sql or another if the cache is full" | the evicted statement is never closed |
| `native_format` | `rsfbclient-native/src/params.rs:117` "Holds the data in the format expected by the `fbclient`" | a text on either side of the limit before and after encoding is sent as a blob identifier made of text |

The passing properties of a module name what is known to go wrong as their only
exceptions, which says that nothing else does; they do not catch these themselves: `OnlyEvictionForgets` the eviction; `AnswersOwn` five causes for a client
out of step with the stream; `StreamsAreInStep`, `OkMeansOver`, `HandlesAreOwned`,
`ValuesAreWhole`, `ClientsAgree`, `ErrorsAreTold` and `ConnStringsMean` theirs.

### Observations

Met while modelling, at the lines given; the models have each of them as a step or a
branch unless a line says otherwise.

- `connection/mod.rs:267`: `begin_transaction_config` goes on in a default transaction
  left by earlier calls, in the configuration that one has (`BeginTransaction`).
- `connection/mod.rs:157`: `close` forgets the value it closes, so the client's socket is
  never closed, and an attachment the server did not let go stays (`Close` leaves `socket`
  alone).
- `client.rs:393`: the loop over plugins ends when the server sends its key, accepts or
  refuses, and at no number of plugins named (`ServerSwaps`).
- `client.rs:1271`: an error in a lazy response ends the call before its own response is
  read, and the next call takes that for its own (cause `lazy`).  `client.rs:1243` with
  `wire.rs:815`: a text that does not decode ends the parse inside a row (cause `decode`).
- `client.rs:1100`: a blob that cannot be read is reported before the rows that precede
  it in the batch (`FetchBatchBlobFails`).
- `r2d2_firebird/src/lib.rs:88`: a connection whose manager is in error, or with a
  transaction open, passes the pool's check (`IsValid`).
- `events.rs:63` (listener): posts made while the handler runs wake nobody by
  themselves; the next synchronization absorbs them.
- `arc4.rs:113`: after a short write the key stream is ahead of the bytes (`Written`).
- `wire.rs:225-229`: the page size of an attachment goes out big-endian, where the native
  client writes it little-endian (`rsfbclient-native/src/connection.rs:177-180`).  The
  native client's fields and the service attachment have lengths of one byte, and the
  strings of a service request of two: longer texts are cut silently.
- `stmt_cache.rs:88`: the cache is looked up by text alone, so a statement prepared with
  named parameters is found by a call without them.  Not modelled: the texts of
  `StmtCache` are the pairs of text and flag.
- `rsfbclient-core/src/row.rs:96`: reading an `INT64` column into a narrower integer
  truncates it.  `ValuesSurvive` reads at the width written.
- Blobs of the application's own (negative) subtypes are text in one client and bytes in
  the other.
- `client.rs:837`: a column whose names have no room in a reply of 1024 bytes makes
  `prepare_statement` ask for it for ever; with more than some 940 parameters the reply
  has no room for its header's columns and is invalid.
- `wire.rs:1007`: arguments that read like places, and those missing, are put into the
  message of another error.  A warning is no item the client knows (`wire.rs:1047`): the
  message is lost, and the rest of the response stays in the stream (cause `status`).
- `conn_string.rs:74`: a server whose name is one letter is taken for a drive.  The
  library's path is percent-decoded twice.  The native builder's `from_string` puts the
  defaults back for a port and a password the string does not name, and ignores a user
  without a host, where the wire client's keeps what it had.
- `date_time.rs:97`: chrono's leap second at 23:59:59 encodes to 24:00:00, which decoding
  refuses with a panic.  Not among the inputs of `encodings`.
- `rsfbclient-core/src/params.rs:259`: a quoted identifier with a colon in it is taken
  for a name; only apostrophes are looked at.  The inputs of `encodings` have no quotes.

## Proofs

TLC checks small instances; eight modules hold the theorems TLAPS proves for all values
of the constants, from the assumptions their modules name: `Connection_proofs`,
`WireClient_proofs`, `DieselTransactions_proofs`, `NativeClient_proofs`, `Session_proofs`,
`Encodings_proofs`, and two that have two parts each, which share no state:
`StmtCacheServices_proofs` (what the library lends to a caller and has to have back) and
`FetchBatchEvents_proofs` (what the wire client builds on its calls).  Those about a
state machine follow the same argument: an inductive invariant, which TLC checked on the
component's run first, that the initial states have it, one step of proof per action, and
then each property from the invariant alone.  An action property follows
from the invariant and one more look at the actions; a refinement from the invariant,
each step of the module being one of the abstract specification or none.

**StmtCache** (any set of texts, any handles, any capacity, zero included).
`CacheInv` strengthens the properties by what the cache's structures need to keep
them: the entries of `lru` have distinct texts and distinct handles, every entry's
handle is open for its text, with its cursor closed or stuck, and the statement held is open,
apart from the cache, and of a text the cache does not have when it was taken from
there.  Without the last of these a returned statement could meet another of its
text.  The lemmas on `LruInsert` and on taking an entry out carry the argument.
Theorems: `TypeCorrect`, `TakingNeverPanics`, `HandlesStayLive`, `HandlesHaveOneOwner`,
`CachedStatementsAreReusable`; and of each step `OnlyAFullCacheForgets`: every error path
of `execute`, `query_iter` and the iterator, those behind a cursor that did not close
included, gives its statement back or tries to close it, unless the cache is full or the
server rejected the text.  What closing a cursor does, whether it succeeds or not, is one
lemma (`ClosingSettles`): it concerns the cursor of the statement at hand, which ends closed
or stuck.

**Connection** (any executions, handles and configurations). The properties say what is
true of transactions together, and none is inductive: whether a handle on the server is
held by somebody depends on who began it, and what it contains on who executed there.
`ConnectionInv` keeps two transactions apart: the default one, which does the work of
calls and of the connection's explicit transaction, and that of a `Transaction` object.
Each is `Tended`: its handle is alive and holds the work of its open units, whole, and
beyond that only work whose end was left in doubt; what the server has besides these two
are orphans, the handles whose rollback was refused when they were dropped. A server
that lost the attachment holds nothing. The replies of the server are one lemma each
(`AskOutcome` and its like), so that an action is proved from what it may be told and
not from what the server does. Theorems: `HandlesStayLive`, `TransactionsAreHeld`,
`OpenWorkStaysHeld`, `DefaultStaysClean`, and the refinement `ConnectionIsUnitsOfWork`:
whatever is refused and wherever the link breaks, a unit ends as a whole, and what was
told committed is durable.

**WireClient** (any batch size, any number of lazy responses, rounds and responses
owed).  The invariant has two layers, since the two properties hold under different
conditions.  `Enough` holds of a live link whatever happened before: the stream has at
least the responses the waiting call will consume, and does not end in the middle of a
batch, nor with a row whose closing response is not to come.  It alone gives `NoReadHangs`, for a client out of step as well.  `InStep` holds
until one of the five causes: the stream is the lazy responses, in number
`lazy_count`, and then exactly the answer to the round that runs.  It gives
`EveryAnswerIsOwn` and `OnlyLazyIsOwed`.  What a round may be answered, and what one
attempt of its closure consumes of that, are lemmas of their own.

**FetchBatch** (any number of rows, batch size, set of rows with blobs, limit on empty
batches). That nothing is lost quietly says nothing once a failure was reported, but the
rows that come behind one must still be newer than those before. `FetchInv` therefore
has two degrees, for what was given followed by what waits in `prefetched`: in order
always, the whole of what the server sent until a failure; and the end flag is set only
at the last row, although it is reported fetches later. Theorems:
`NothingIsLostQuietly`, and the refinement `FetchIsCursor`: reading in batches is
reading the cursor row by row.

**DieselTransactions** (any works, any depth).  `DepthAssumption` says that at least the
outermost level exists.  That depth and savepoints agree is not enough to roll back
to the right place.  `DieselInv` adds that the savepoints of the open levels stand in
the log in the order of their depth (`Nested`); that no name stands there twice
(`SetOnce`), which is what a committed level's leftover savepoint would break if setting it
again did not move it; and that manager, connection and server agree on whether there is
a transaction at all.  The lemmas are about logs: setting a savepoint opens a level
that is empty (`SavepointOpens`), rolling back to one leaves the outer levels
(`RollbackLeavesOuter`), a level that commits goes into the one outside it
(`CommitMerges`), and the levels together are the log (`LevelsCover`).  Theorems:
`DepthsAreReal`, and the refinement `DieselIsNestedTransactions`.

**Events** (any `MaxId` at least one, any number of registrations up to it, any number
of posts).  No property of a wait is inductive by itself: that a wake was earned
depends on the counters in the channel, and those on which registration they answer.
`EventsInv` says so in three parts: the ids in use are consecutive from some starting
id, zero skipped (`Numbered`), so that equal ids are the same registration; what is
registered is not also in the channel (`OneShot`); and what the wait may receive
carries a counter above the one it began with (`Counted`).  Most steps disturb none of
this, which `StepsAreQuiet` says once; the parts are then proved for the remaining
ones.  The assumption `MaxRegistrations =< MaxId` is needed: once the ids have gone
round, a cancellation refused four billion registrations earlier could be taken for
the one waited for.  Theorems: `TypeCorrect`, `WakesAreEarned`, `AnswersAreIdentified`,
`ServerIsLeftClean`.

**NativeClient** (any values, lengths and numbers of handles and rows).  `HandlesAreOwned`
is an equation between what the library has open and what the code has, so it breaks
when two owners could name the same handle.  `OwnersInv` adds that they cannot: handles
of different kinds differ, the statement held is not among those given up, and no wait
goes on between calls.  With it a step is one of four sorts, each a lemma: it leaves the
handles alone, opens one and keeps it, gives one up, or closes those of a kind.
Theorem: `HandlesStayOwned`.

`WholeInv` follows a value from its parameter into the row or the blob, and from there
through a cursor that may have been opened before other values were stored: each row has
its value, or the number of a blob whose segments, joined, are the value (`Served`).  A
blob is never changed, so what is stored later disturbs no row.  The rest is about
cutting and joining, by lemmas that hold for any sequence and any length of a piece:
`ChunksJoin` (the segments written), `SlicesJoin` (the slices read, which are cut from
each segment anew), `SegmentsJoin` (the slices of all segments, in one row) and
`FlattenUpto` (a read that stops early gives a beginning).  `FlattenSeq` is a recursive
function, on which `Counting` does the inductions: a set of numbers that has zero and
with a number the next.  Theorem: `ValuesStayWhole`, which contains the types of the
variables.  `ValuesAssumption` says what a parameter is; that pieces have a length is
`LengthsAssumption`.

**Services** (any number of actions and lines).  `HandleInv` ties the handle of the
manager to the server's attachment and to what was detached so far, by the state of the
object; that a dropped manager is in no call keeps its last result.  Theorem:
`ReleasesOnce`, which contains the types of the variables.  `DrainInv` follows the lines
of a draining call: those handed on and those in the server's buffer are, in order and
without a gap, the lines of its action and of no earlier one.  From it, of each step:
`OkIsOver`.

**Session** (any group, digests, secrets and number of attachments).  Two
theorems are about `Srp`.  `KeysAgree`: client and server compute the same key from the
right password, for any secrets.  `PowmIsPower` takes the squarings of `powm` to the
power they stand for, the laws of powers modulo `N` do the rest; the exponent
`u * x` is reduced modulo `N` in the code and not on the server, which is harmless because
the digests are small beside the modulus (`HashAssumption`).  That `N` is prime is not
needed.  `PublicSurvives`: a public key written as hexadecimal digits, the leading zero left
out, is read as the number it was.

`SessionInv` says of each state which stage of the conversation it is in: `New`,
`Connecting`, `Naming` (a plugin is asked for its key), `Proving`, `Ciphering`, `Idle`,
`Requesting` or `Failed`.  A stage is one phase of the client with those phases of the server
that go with it, at most one message on its way, whole or in part, and the places of the
two key streams.  Neither property is inductive without it: that the right password is
accepted says nothing of the public keys each end has heard by then, and that the streams
are in step nothing of the message that was sent with the key of a moment ago.  What the
invariant leaves open is what `skew` names: a short write, a cipher the server refused.
Theorems: `RightPasswordIsTaken`, `BothEndsInStep`.  Assumptions: `GroupAssumption`,
`HashAssumption`, `SecretsAssumption` (secrets are numbers), `BoundsAssumption`.

**Encodings** (any text of bytes, of any length; any number of fields, calls of a builder,
blanks and counts; any statement).  The state machine only takes inputs, so its invariant `InputInv` says
what an input is: a text of bytes, a public key of at most 256 pieces, builder calls with
any timeout, a name that does not end in a blank, a connection string whose drive is a drive, a
statement of the characters told apart, errors of a code other than zero whose arguments are
texts or the one number the property is about (-104).
The work is in the readers, which are recursive functions of a place in the bytes.  That
such a function exists is proved from a rank on its domain (`Recursion`, and `Backwards` for
those that look ahead only); what it gives at a place is then its defining equation.  A
reader does not see what lies before its place (`Shifted`), so fields written one behind the
other are read one behind the other.  From these:

- `ClumpletsSurviveIfFit`: fields are read back *if and only if* the data of each fits its
  length, and hence `AttachmentSurvives`, `IdentificationSurvives` (the pieces of the key are
  put together by their numbers), `BackupSurvives` and `RestoreSurvives`;
- `LastCallCounts`: a transaction builder has, of each kind of option, what the last call
  said or the default; and `TransactionSurvives`: the server reads that and nothing else;
- `EventSurvives`: an event block has the name without the blanks behind it and the counter,
  or is refused;
- `RowsAreCounted`: both clients add up the counts of changed rows, any number of them in any
  order; `ColumnsAgree`: both make the same of a column of any subtype and scale;
- `NamesGoBack`: the names taken out of a statement, put back, give the statement again; and
  `NamesAreFound`: its question marks are outside the literals and every colon before a letter
  is inside one, if its apostrophes are in pairs.  Both come from one induction, from the end
  of the statement to its front.  What is taken at a place is a name, a literal or one
  character (`TakesOneOfThree`); what stands for it puts back that part and leaves the
  apostrophes behind it in pairs, which an apostrophe that opens no literal cannot; and the
  result begins with a letter only where the statement does, so that no colon comes to stand
  before a letter (`Kept`);
- `ErrorsAreHeard`: the errors of a status vector are told one behind the other, each with its
  own arguments.  The state the client carries from item to item is followed through the
  arguments of one error (`TellingNext`) and then from error to error (`FareNext`).  That the
  next argument goes to places of its own error only needs the message before it to have no
  place left (`Free`): the errors there are told whole, and no argument reads like a place.

The properties follow: `BlocksAreRead`, `StringsMean`, `BothAgree`, `NamesAreInOrder`,
`FailuresAreTold`.

Inductions are over sets in every module (`Counting`: a set of numbers that has zero and
with a number the next), through the library's `WellFoundedInduction`, because the prover
cannot instantiate an induction theorem with a predicate.

Only model-checked:

- Two properties of `Encodings`.  `ValuesSurvive` follows a row through four functions that
  are recursive over pairs of a place and the rest of the bytes, null bitmaps that are sums
  of powers of two, and the calendar; `DescriptionIsWhole` is about replies cut at any item
  and a client that asks again from where it was.  Each would take a proof like that of the
  blocks.
- All liveness (`CallsReturn`, and that of `FetchBatch`, `Events`, `Session`,
  `Services`): the prover handles neither ENABLED nor fairness.  The safety half of
  each is proved where one is: `NoReadHangs` for the calls of `WireClient`.
- The statements of the two runs that end in a counterexample.

## What is left out

- The contents of requests and responses, in `WireClient`; they are in `Blocks`, `Rows`
  and `Describe`.  The layout of a response is the one the code reads, `execute2`'s
  closing response (`client.rs:997`) included.
- What follows a read that starts inside a response.
- Savepoints, event counters, service output and the server's side of SRP are the
  server's; the rules assumed are named above.
- `drop_database` and `create_database` in `Connection`, which end and begin what its
  properties are about; the clients' side of them is in `Session` and `NativeClient`.
- The digests of SRP and the key stream of RC4 as functions of their bits: that two
  equal keys give equal streams is all that is used.  The system calls, the C library.
- The tables of the character sets and of error texts, the binding tables, derive
  macros, the simple connection (it forwards), diesel's query builder and row loading,
  plain setters of the builders, examples.

## Bounds

| name | module | what it bounds |
|---|---|---|
| `Handles`, `TrHandles` | StmtCache, Connection | handles the server can give out |
| `MaxLazy`, `MaxOwed`, `MaxRounds` | WireClient | responses left unread, responses in the stream, rounds of a call |
| `Rows`, `Batch`, `MaxEmpty` | FetchBatch | the cursor, a batch, empty batches before an error (the code has such a limit) |
| `MaxDepth` | DieselTransactions | nesting, at least one |
| `MaxId`, `MaxRegistrations`, `MaxPosts` | Events | ids (u32 in the code), registrations, posts |
| `N`, `MaxHash` | Srp | the group, digests used as numbers |
| `Secrets`, `ServerSecrets`, `MaxRequests` | Session | random keys, attachments tried |
| `MaxActions`, `Lines`, `Room` | Services | actions, the lines of one, those the server keeps unread |
| `MAX_TEXT_LENGTH`, `Chunk`, `Slice` | NativeClient | the code's 32767, 65535 and 255, divided |
| `MaxHandles`, `MaxRows` | NativeClient | handles of a kind, rows and blobs stored |
| `MAX_DATA_LENGTH` | Rows | the code's 32767 |


## Running

    tlc -config MCConnection.cfg MCConnection
    tlapm StmtCacheServices_proofs.tla

Every MC module extends the module it checks and adds the symmetry of its model
values; its `.cfg` files are the runs.
