---------------------------- MODULE WireClient ----------------------------
(***************************************************************************)
(* How the pure-rust client pairs requests with responses                  *)
(* (rsfbclient-rust/src/client.rs): the protocol has no packet framing and *)
(* no request identifiers, so a response belongs to a request only by its  *)
(* position in the stream.  The client counts the responses it has not     *)
(* asked for yet (lazy_count), keeps the bytes it read too many (pending), *)
(* and parses a response again from its start when it was incomplete.      *)
(*                                                                         *)
(* Abstraction: a call is a sequence of rounds, a round one request with   *)
(* the responses one read_with (or one per row, for a fetch) waits for.    *)
(* Of its contents a response keeps what decides how a parse ends.  Bytes  *)
(* of an incomplete response are not told apart from none, as a parse      *)
(* consumes neither.                                                       *)
(***************************************************************************)
EXTENDS Naturals, Sequences, FiniteSetsExt

CONSTANTS
  Batch,        \* rows asked for by one op_fetch
  MaxLazy,      \* bound: responses left unread by free_statement
  MaxOwed,      \* bound: responses in the stream when a round starts
  MaxRounds     \* bound: rounds of one call

ASSUME BoundsAssumption ==
  /\ Batch \in Nat /\ MaxLazy \in Nat /\ MaxOwed \in Nat /\ MaxRounds \in Nat \ {0}

VARIABLES
  stream,       \* the responses the client has not consumed, in order
  arrived,      \* how many of them are in `pending` already
  lazy_count,   \* FirebirdWireConnection.lazy_count
  call,         \* the round being waited for, and what the call does after it
  link,         \* "live", "closed", or "garbled" once a read starts inside a response
  skewed,       \* history: the first cause of the stream running ahead of the client
  mixed         \* history: a response was taken for another request's

vars == <<stream, arrived, lazy_count, call, link, skewed, mixed>>

Causes == {"lazy", "alloc", "encode", "decode", "status"}

\* "Row", "End" and "BatchEnd" are op_fetch_response, "Sql" is op_sql_response.
Ops == {"Response", "Sql", "Row", "End", "BatchEnd"}

\* What a response says.  "unreadable" is a status vector with an item the client does
\* not know, a warning for instance, whether it reports a success or a refusal; or a
\* row that does not decode.
Contents == {"ok", "refused", "unreadable"}
Responses == [op : Ops, says : Contents, whose : {"own", "lazy", "stale"}]

Resp(says, whose) == [op |-> "Response", says |-> says, whose |-> whose]
Data(op, says) == [op |-> op, says |-> says, whose |-> "own"]

---------------------------------------------------------------------------
(***************************************************************************)
(* Rounds: what the client waits for, and what may follow a success        *)
(***************************************************************************)

Wants == {"one", "pair", "sql", "row"}
Plans == {"end", "info", "more", "exec", "exec2"}

Round(want, plan, left) == [want |-> want, plan |-> plan, left |-> left]
NoCall == Round("none", "end", 0)
Rounds == {NoCall} \cup [want : Wants, plan : Plans, left : 0 .. MaxRounds]

\* The rounds a call may begin with:
\*   one/end    begin, end and immediate execution, attach, detach, blob operations
\*   one/more   put_segments
\*   pair/more  prepare_statement, then info_sql while the description is truncated
\*   one/info   execute, then info_sql for the affected rows
\*   sql/more   execute2, then open, get and close for each blob of its row
\*   row/more   fetch_batch, then the same for each blob of its rows
\*   one/exec   the blobs of the parameters, before execute or execute2
FirstRounds ==
  {Round(k[1], k[2], MaxRounds) :
     k \in {<<"one", "end">>, <<"one", "more">>, <<"pair", "more">>, <<"one", "info">>,
            <<"sql", "more">>, <<"row", "more">>, <<"one", "exec">>, <<"one", "exec2">>}}

\* After a round that succeeded.
Following(c) ==
  LET left == c.left - 1
      some == {p \in {"more", "exec", "exec2"} : p = c.plan}
  IN  IF c.left = 0 THEN {NoCall}
      ELSE {Round("one", p, left) : p \in some} \cup
           (CASE c.plan = "info"           -> {Round("one", "end", left)}
              [] c.plan = "exec"           -> {Round("one", "info", left)}
              [] c.plan = "exec2"          -> {Round("sql", "more", left)}
              [] c.plan \in {"end", "more"} -> {NoCall})

\* What the server answers to a round: a response, those to an allocation and the
\* preparation that came with it, a row with the response that closes it, and n rows
\* with what ends them.
Refusals == {Resp(e, "own") : e \in {"refused", "unreadable"}}
Successes == {Resp(e, "own") : e \in {"ok", "unreadable"}}
OneAnswers == {<<r>> : r \in Refusals \cup Successes}
PairAnswers == {<<r, q>> : r, q \in Refusals \cup Successes}
               \ {<<Resp("refused", "own"), Resp("ok", "own")>>}
SqlAnswers == {<<r>> : r \in Refusals} \cup
              {<<Data("Sql", d), r>> : d \in {"ok", "unreadable"}, r \in Successes}
Rows == {Data("Row", d) : d \in {"ok", "unreadable"}}
Lasts == Refusals \cup {Data("End", "ok"), Data("BatchEnd", "ok")}
RowAnswers(n) == {Append(rows, last) : rows \in [1 .. n -> Rows], last \in Lasts}

Answers(want) ==
  CASE want = "one"  -> OneAnswers
    [] want = "pair" -> PairAnswers
    [] want = "sql"  -> SqlAnswers
    [] want = "row"  -> UNION {RowAnswers(n) : n \in 0 .. Batch}

\* What nobody waits for any more once a round is over.
Stale(s) == [i \in DOMAIN s |-> IF s[i].whose = "own" THEN [s[i] EXCEPT !.whose = "stale"]
                                ELSE s[i]]

---------------------------------------------------------------------------
(***************************************************************************)
(* Parsing.  An outcome is how many responses a successful or failed parse *)
(* consumed, with the lazy_count it leaves; no outcome means incomplete.   *)
(***************************************************************************)

Out(used, lazy, end, cause) == [used |-> used, lazy |-> lazy, end |-> end, cause |-> cause]

\* Of a response of another kind only the op code is consumed, of a status vector only
\* what comes before the unknown item.  What lazy_count is then says nothing any more.
Garble(i, cause) == Out(i, 0, "garbled", cause)

\* A row that does not decode: the parse stops inside it, or just behind it.
Undecodable(i) == {Garble(i, "decode"), Out(i, 0, "error", "decode")}

\* A response whose parse returns nothing: an op_response that says "ok".
Passes(i) == stream[i].op = "Response" /\ stream[i].says = "ok"

\* The first response skip_lazy_responses stops at: missing, refused, not to be read,
\* or the one behind the lazy ones.
FirstUnskipped == Min({i \in 1 .. lazy_count : i > arrived \/ ~Passes(i)} \cup {lazy_count + 1})

\* A response that ends the call, where it can be read to its end: what is left in the
\* stream by leaving after it is the damage `cause`.
Refused(i, lazy, cause) ==
  IF stream[i].says = "unreadable" THEN {Garble(i, "status")} ELSE {Out(i, lazy, "error", cause)}

\* parse_response at i, of one op code.
ParseResponse(i, cause) ==
  CASE Passes(i)                 -> {Out(i, 0, "ok", "none")}
    [] stream[i].op # "Response" -> {Garble(i, "none")}
    [] OTHER                     -> Refused(i, 0, cause)

\* prepare_statement: the allocation's response, then the preparation's.
ParsePair(i) ==
  IF ~Passes(i) THEN ParseResponse(i, "alloc")
  ELSE IF i + 1 > arrived THEN {}
  ELSE ParseResponse(i + 1, "none")

\* execute2: an error, or the row and the response that closes it, which may still
\* have to arrive.
ParseSql(i) ==
  CASE stream[i].op = "Response"               -> Refused(i, 0, "none")
    [] stream[i].op \notin {"Response", "Sql"} -> {Garble(i, "none")}
    [] stream[i].op = "Sql" /\ stream[i].says = "unreadable" -> Undecodable(i)
    [] OTHER -> IF i + 1 > arrived THEN {} ELSE ParseResponse(i + 1, "none")

\* parse_one_fetch_response
ParseRow(i) ==
  CASE stream[i].op = "Response" -> Refused(i, 0, "none")
    [] stream[i].op = "Sql"      -> {Garble(i, "none")}
    [] stream[i].op = "Row"      -> IF stream[i].says = "unreadable" THEN Undecodable(i)
                                    ELSE {Out(i, 0, "row", "none")}
    [] OTHER                     -> {Out(i, 0, "ok", "none")}

\* One attempt of read_with's closure on what has arrived.
Parse ==
  LET i == FirstUnskipped
  IN  CASE i > arrived     -> {}
        [] i =< arrived /\ i =< lazy_count ->
             IF stream[i].op = "Response" THEN Refused(i, lazy_count - i, "lazy")
             ELSE {Garble(i, "none")}
        [] OTHER ->
             CASE call.want = "one"  -> ParseResponse(i, "none")
               [] call.want = "pair" -> ParsePair(i)
               [] call.want = "sql"  -> ParseSql(i)
               [] call.want = "row"  -> ParseRow(i)

Idle == link = "live" /\ call = NoCall
Waiting == link = "live" /\ call # NoCall

\* Whether consuming n responses takes one for what it is not.
Mismatch(n) ==
  \E i \in 1 .. n : stream[i].whose # (IF i =< lazy_count THEN "lazy" ELSE "own")

---------------------------------------------------------------------------
(***************************************************************************)
(* Steps                                                                   *)
(***************************************************************************)

\* A request is written; the server's answer will follow whatever is owed.
Send(c) == \E a \in Answers(c.want) : call' = c /\ stream' = Stale(stream) \o a

Begin ==
  /\ Idle
  /\ Len(stream) =< MaxOwed
  /\ \E c \in FirstRounds : Send(c)
  /\ UNCHANGED <<arrived, lazy_count, link, skewed, mixed>>

\* prepare_statement of a text the charset cannot encode: the allocation is
\* already written when the request is given up.
PrepareUnencodable ==
  /\ Idle
  /\ Len(stream) =< MaxOwed
  /\ \E e \in Contents : stream' = Append(stream, Resp(e, "stale"))
  /\ skewed' = IF skewed = "none" THEN "encode" ELSE skewed
  /\ UNCHANGED <<arrived, lazy_count, call, link, mixed>>

\* free_statement reads nothing.
FreeStatement ==
  /\ Idle
  /\ lazy_count < MaxLazy /\ Len(stream) =< MaxOwed
  /\ \E e \in Contents : stream' = Append(stream, Resp(e, "lazy"))
  /\ lazy_count' = lazy_count + 1
  /\ UNCHANGED <<arrived, call, link, skewed, mixed>>

\* Mutant of Receive: a failed attempt is not rolled back.
ReceiveKeepsLazy ==
  /\ Waiting
  /\ Parse = {}
  /\ arrived' \in arrived + 1 .. Len(stream)
  /\ lazy_count' = lazy_count - (FirstUnskipped - 1)
  /\ UNCHANGED <<stream, call, link, skewed, mixed>>

\* read_with: the parse was incomplete, its effect is undone and more is read.
Receive ==
  /\ Waiting
  /\ Parse = {}
  /\ arrived' \in arrived + 1 .. Len(stream)
  /\ UNCHANGED <<stream, lazy_count, call, link, skewed, mixed>>

\* Mutant of Consumed: an error leaves its bytes in `pending`.
ConsumedOnlyOnSuccess(o) == IF o.end = "error" THEN 0 ELSE o.used

\* Mutant of Consumed: what was read beyond the response is dropped with it.
ConsumedWithSurplus(o) == arrived

\* The parse commits what it read, an error's bytes included.
Consumed(o) == o.used

\* Mutant of AfterRound: fetch_batch reads on after the end of a batch.
AfterRoundReadsOn(o, rest) ==
  IF o.end = "row" \/ (o.end = "ok" /\ call.want = "row")
  THEN call' = call /\ stream' = rest
  ELSE call' = NoCall /\ stream' = Stale(rest)

\* What the call does next: a fetch waits for the next row, a success may be
\* followed by another round, an error ends the call.
AfterRound(o, rest) ==
  CASE o.end = "row" -> call' = call /\ stream' = rest
    [] o.end = "ok"  -> \E c \in Following(call) :
                          IF c = NoCall THEN call' = c /\ stream' = Stale(rest)
                          ELSE \E a \in Answers(c.want) : call' = c /\ stream' = Stale(rest) \o a
    [] OTHER         -> call' = NoCall /\ stream' = Stale(rest)

\* read_with: the parse succeeded, or failed for good.
Take ==
  /\ Waiting
  /\ \E o \in Parse :
       /\ AfterRound(o, SubSeq(stream, Consumed(o) + 1, Len(stream)))
       /\ arrived' = arrived - Consumed(o)
       /\ lazy_count' = o.lazy
       /\ link' = IF o.end = "garbled" THEN "garbled" ELSE link
       /\ skewed' = IF skewed = "none" THEN o.cause ELSE skewed
       /\ mixed' = (mixed \/ Mismatch(o.used))

\* The server goes: a read returns nothing, or the next write fails.
Hangup ==
  /\ link = "live"
  /\ Waiting => Parse = {}
  /\ link' = "closed"
  /\ call' = NoCall
  /\ stream' = SubSeq(stream, 1, arrived)
  /\ UNCHANGED <<arrived, lazy_count, skewed, mixed>>

Init ==
  /\ stream = <<>>
  /\ arrived = 0
  /\ lazy_count = 0
  /\ call = NoCall
  /\ link = "live"
  /\ skewed = "none"
  /\ mixed = FALSE

\* The client is dropped and another one connects.
Reconnect ==
  /\ Idle \/ link # "live"
  /\ stream' = <<>>
  /\ arrived' = 0
  /\ lazy_count' = 0
  /\ call' = NoCall
  /\ link' = "live"
  /\ skewed' = "none"
  /\ mixed' = FALSE

Next ==
  \/ Begin
  \/ PrepareUnencodable
  \/ FreeStatement
  \/ Receive
  \/ Take
  \/ Hangup
  \/ Reconnect

\* A reading client runs, and the server answers every request or hangs up.
Spec == Init /\ [][Next]_vars /\ WF_vars(Receive \/ Take)

---------------------------------------------------------------------------
(***************************************************************************)
(* Properties                                                              *)
(***************************************************************************)

\* The types of the variables, a part of IdleOwesOnlyLazy.
TypeOK ==
  /\ stream \in Seq(Responses)
  /\ arrived \in 0 .. Len(stream)
  /\ lazy_count \in 0 .. MaxLazy
  /\ call \in Rounds
  /\ link \in {"live", "closed", "garbled"}
  /\ skewed \in Causes \cup {"none"}
  /\ mixed \in BOOLEAN

\* As long as none of the five known causes occurred (a lazy response refused, an
\* allocation refused, a text that does not encode, a row that does not decode, an
\* unknown item in a status vector), every response is taken for the request it
\* answers, and every read starts at the first byte of a response, however the bytes
\* were cut, between a row and its closing response as well, and however many lazy
\* responses were owed.
AnswersOwn == mixed \/ link = "garbled" => skewed # "none"

\* The variables have their types, and between calls the client owes the stream
\* exactly the lazy responses.
IdleOwesOnlyLazy ==
  /\ TypeOK
  /\ Idle /\ skewed = "none" =>
       /\ Len(stream) = lazy_count
       /\ \A i \in DOMAIN stream : stream[i].whose = "lazy"

\* The client never blocks on a read when nothing is left to come, whatever was
\* refused before: it waits for no response that was not asked for.
WaitsOnlyForOwed == Waiting /\ Parse = {} => arrived < Len(stream)

\* Every call returns.
CallsReturn == (call # NoCall) ~> (call = NoCall)

============================================================================
