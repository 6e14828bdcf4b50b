------------------------- MODULE WireClient_proofs -------------------------
(***************************************************************************)
(* Proofs about WireClient: the client waits for no response it did not    *)
(* ask for, and until one of the five known causes occurs it takes every   *)
(* response for the request it answers, for any sizes of batches and any   *)
(* number of lazy responses, of rounds and of responses owed.              *)
(***************************************************************************)
EXTENDS WireClient, SequenceTheorems, WellFoundedInduction, TLAPS

(***************************************************************************)
(* The inductive invariant.  It has two layers.  Whatever happened before, *)
(* a live stream is long enough for the call that waits on it (Enough):    *)
(* this alone rules out a read that hangs.  Without one of the causes, the *)
(* stream is made of the lazy responses and the answer to the round that   *)
(* runs, and nothing else (InStep).                                        *)
(***************************************************************************)

\* How many responses of its own a call waits for, at least.
Owed(want) == CASE want = "none" -> 0 [] want = "pair" -> 2 [] OTHER -> 1

\* Behind `lazy` responses there are as many as the call waits for: a row has its
\* closing response behind it, and rows are not the last of what a fetch waits for.
Enough(s, lazy, want) ==
  /\ Len(s) >= lazy + Owed(want)
  /\ want = "sql" /\ s[lazy + 1].op = "Sql" => Len(s) >= lazy + 2
  /\ want = "row" => s[Len(s)].op # "Row"

\* What is behind `lazy` responses is an answer to a round.
Answered(s, lazy, want) ==
  LET own == Len(s) - lazy IN
  /\ want = "none" => own = 0
  /\ want = "one"  => own = 1 /\ s[lazy + 1].op = "Response"
  /\ want = "pair" => own = 2 /\ s[lazy + 1].op = "Response" /\ s[lazy + 2].op = "Response"
  /\ want = "sql"  => \/ own = 1 /\ s[lazy + 1].op = "Response"
                      \/ own = 2 /\ s[lazy + 1].op = "Sql" /\ s[lazy + 2].op = "Response"
  /\ want = "row"  => /\ own > 0
                      /\ \A i \in lazy + 1 .. Len(s) - 1 : s[i].op = "Row"
                      /\ s[Len(s)].op \in {"End", "BatchEnd", "Response"}

\* The stream is the lazy responses, then the answer to the round that runs.
InStep(s, lazy, want) ==
  /\ \A i \in 1 .. lazy : s[i].op = "Response" /\ s[i].whose = "lazy"
  /\ \A i \in lazy + 1 .. Len(s) : s[i].whose = "own"
  /\ Answered(s, lazy, want)

WireInv ==
  /\ TypeOK
  /\ link = "live" => Enough(stream, lazy_count, call.want)
  /\ skewed = "none" => /\ ~mixed
                        /\ link # "garbled"
                        /\ link = "live" => InStep(stream, lazy_count, call.want)

---------------------------------------------------------------------------
(***************************************************************************)
(* Rounds and their answers                                                *)
(***************************************************************************)

\* A set of numbers has a least one.
LEMMA LeastNumber ==
  ASSUME NEW T \in SUBSET Nat, T # {}
  PROVE  Min(T) \in T /\ \A y \in T : Min(T) =< y
<1> DEFINE Below == {ss \in Nat \X Nat : ss[1] < ss[2]}
<1>1. IsWellFoundedOn(Below, Nat)
  BY NatLessThanWellFounded DEF OpToRel
<1>2. PICK x \in T : \A y \in T : ~ (<<y, x>> \in Below)
  <2> HIDE DEF Below
  <2> QED BY <1>1, WFMin
<1>3. ASSUME NEW y \in T PROVE x =< y
  <2>1. <<y, x>> \in Nat \X Nat /\ <<y, x>>[1] = y /\ <<y, x>>[2] = x
    OBVIOUS
  <2>2. ~ (y < x)
    BY <1>2, <2>1
  <2> QED BY <2>2
<1> QED BY <1>3 DEF Min

\* A round waits for something, unless there is no call.
LEMMA CallWants ==
  ASSUME NEW c \in Rounds
  PROVE  c = NoCall <=> c.want = "none"
BY DEF Rounds, NoCall, Round, Wants

\* The rounds a call begins with are rounds.
LEMMA FirstAreRounds ==
  ASSUME NEW c \in FirstRounds
  PROVE  c \in Rounds /\ c.want \in Wants
<1>1. MaxRounds \in 0 .. MaxRounds
  BY BoundsAssumption
<1>2. PICK k \in {<<"one", "end">>, <<"one", "more">>, <<"pair", "more">>, <<"one", "info">>,
                  <<"sql", "more">>, <<"row", "more">>, <<"one", "exec">>, <<"one", "exec2">>} :
        c = Round(k[1], k[2], MaxRounds)
  BY DEF FirstRounds
<1>3. k[1] \in Wants /\ k[2] \in Plans
  BY <1>2 DEF Wants, Plans
<1> QED BY <1>1, <1>2, <1>3 DEF Round, Rounds

\* So are those that follow one that succeeded.
LEMMA FollowingAreRounds ==
  ASSUME NEW c \in Rounds, c # NoCall, NEW d \in Following(c)
  PROVE  d = NoCall \/ (d \in Rounds /\ d.want \in Wants)
<1>1. c.left \in 0 .. MaxRounds /\ c.plan \in Plans /\ MaxRounds \in Nat
  BY BoundsAssumption DEF Rounds
<1>2. CASE c.left = 0
  BY <1>2 DEF Following
<1>3. CASE c.left # 0
  <2> DEFINE left == c.left - 1
  <2>1. left \in 0 .. MaxRounds
    BY <1>1, <1>3
  <2> HIDE DEF left
  <2>2. d \in {Round("one", p, left) : p \in {q \in {"more", "exec", "exec2"} : q = c.plan}} \cup
              (CASE c.plan = "info"            -> {Round("one", "end", left)}
                 [] c.plan = "exec"            -> {Round("one", "info", left)}
                 [] c.plan = "exec2"           -> {Round("sql", "more", left)}
                 [] c.plan \in {"end", "more"} -> {NoCall})
    BY <1>3 DEF Following, left
  <2>3. d = NoCall \/ \E w \in Wants, p \in Plans : d = Round(w, p, left)
    BY <1>1, <2>2 DEF Wants, Plans
  <2> QED BY <2>1, <2>3 DEF Round, Rounds
<1> QED BY <1>2, <1>3

\* What nobody waits for any more is still there.
LEMMA StaleKeeps ==
  ASSUME NEW s \in Seq(Responses)
  PROVE  /\ Stale(s) \in Seq(Responses)
         /\ Len(Stale(s)) = Len(s)
         /\ \A i \in 1 .. Len(s) : /\ Stale(s)[i].op = s[i].op /\ Stale(s)[i].says = s[i].says
                                   /\ s[i].whose = "lazy" => Stale(s)[i].whose = "lazy"
<1>1. Len(s) \in Nat /\ DOMAIN s = 1 .. Len(s) /\ \A i \in 1 .. Len(s) : s[i] \in Responses
  BY LenProperties, ElementOfSeq
<1> DEFINE r(i) == IF s[i].whose = "own" THEN [s[i] EXCEPT !.whose = "stale"] ELSE s[i]
<1>2. ASSUME NEW i \in 1 .. Len(s)
      PROVE  /\ r(i) \in Responses
             /\ r(i).op = s[i].op /\ r(i).says = s[i].says
             /\ s[i].whose = "lazy" => r(i).whose = "lazy"
  BY <1>1 DEF Responses
<1>3. Stale(s) = [i \in 1 .. Len(s) |-> r(i)]
  BY <1>1 DEF Stale
<1> HIDE DEF r
<1>4. Stale(s) \in [1 .. Len(s) -> Responses]
  BY <1>2, <1>3
<1> QED BY <1>1, <1>2, <1>3, <1>4

\* One response, and two, as sequences.
LEMMA OneAndTwo ==
  ASSUME NEW x \in Responses, NEW y \in Responses
  PROVE  /\ <<x>> \in Seq(Responses) /\ Len(<<x>>) = 1 /\ <<x>>[1] = x
         /\ <<x, y>> \in Seq(Responses) /\ Len(<<x, y>>) = 2 /\ <<x, y>>[1] = x /\ <<x, y>>[2] = y
OBVIOUS

\* The answers of the server are what the rounds wait for.
LEMMA AnswerFits ==
  ASSUME NEW want \in Wants, NEW a \in Answers(want)
  PROVE  a \in Seq(Responses) /\ Enough(a, 0, want) /\ InStep(a, 0, want)
<1>1. ASSUME NEW r \in Refusals \cup Successes
      PROVE  r \in Responses /\ r.op = "Response" /\ r.whose = "own"
  BY DEF Refusals, Successes, Resp, Responses, Ops, Contents
<1>2. ASSUME NEW op \in Ops, NEW e \in Contents
      PROVE  Data(op, e) \in Responses /\ Data(op, e).op = op /\ Data(op, e).whose = "own"
  BY DEF Data, Responses
<1>3. CASE want = "one"
  <2>1. a \in OneAnswers
    BY <1>3 DEF Answers
  <2>2. PICK r \in Refusals \cup Successes : a = <<r>>
    BY <2>1 DEF OneAnswers
  <2>3. a \in Seq(Responses) /\ Len(a) = 1 /\ a[1].op = "Response" /\ a[1].whose = "own"
    BY <1>1, <2>2, OneAndTwo
  <2> QED BY <1>3, <2>3 DEF Enough, Owed, InStep, Answered
<1>4. CASE want = "pair"
  <2>1. a \in PairAnswers
    BY <1>4 DEF Answers
  <2>2. PICK r \in Refusals \cup Successes, q \in Refusals \cup Successes : a = <<r, q>>
    BY <2>1 DEF PairAnswers
  <2>3. /\ a \in Seq(Responses) /\ Len(a) = 2
        /\ a[1].op = "Response" /\ a[1].whose = "own"
        /\ a[2].op = "Response" /\ a[2].whose = "own"
    BY <1>1, <2>2, OneAndTwo
  <2>4. \A i \in 1 .. Len(a) : a[i].whose = "own"
    BY <2>3
  <2> QED BY <1>4, <2>3, <2>4 DEF Enough, Owed, InStep, Answered
<1>5. CASE want = "sql"
  <2>1. a \in SqlAnswers
    BY <1>5 DEF Answers
  <2>2. ASSUME NEW r \in Refusals, a = <<r>>
        PROVE  a \in Seq(Responses) /\ Enough(a, 0, want) /\ InStep(a, 0, want)
    <3>1. /\ a \in Seq(Responses) /\ Len(a) = 1
          /\ a[1].op = "Response" /\ a[1].whose = "own"
      BY <1>1, <2>2, OneAndTwo
    <3> QED BY <1>5, <3>1 DEF Enough, Owed, InStep, Answered
  <2>3. ASSUME NEW d \in {"ok", "unreadable"}, NEW r \in Successes, a = <<Data("Sql", d), r>>
        PROVE  a \in Seq(Responses) /\ Enough(a, 0, want) /\ InStep(a, 0, want)
    <3>1. "Sql" \in Ops /\ d \in Contents
      BY DEF Ops, Contents
    <3>2. /\ a \in Seq(Responses) /\ Len(a) = 2
          /\ a[1].op = "Sql" /\ a[1].whose = "own"
          /\ a[2].op = "Response" /\ a[2].whose = "own"
      BY <1>1, <1>2, <2>3, <3>1, OneAndTwo
    <3>3. \A i \in 1 .. Len(a) : a[i].whose = "own"
      BY <3>2
    <3> QED BY <1>5, <3>2, <3>3 DEF Enough, Owed, InStep, Answered
  <2> QED BY <2>1, <2>2, <2>3 DEF SqlAnswers
<1>6. CASE want = "row"
  <2>1. PICK n \in 0 .. Batch : a \in RowAnswers(n)
    BY <1>6 DEF Answers
  <2>2. PICK rows \in [1 .. n -> Rows], last \in Lasts : a = Append(rows, last)
    BY <2>1 DEF RowAnswers
  <2>3. n \in Nat
    BY BoundsAssumption
  <2>4. \A r \in Rows : r \in Responses /\ r.op = "Row" /\ r.whose = "own"
    <3>1. "Row" \in Ops /\ "ok" \in Contents /\ "unreadable" \in Contents
      BY DEF Ops, Contents
    <3> QED BY <1>2, <3>1 DEF Rows
  <2>5. /\ last \in Responses /\ last.whose = "own"
        /\ last.op \in {"End", "BatchEnd", "Response"}
    <3>1. "End" \in Ops /\ "BatchEnd" \in Ops /\ "ok" \in Contents
      BY DEF Ops, Contents
    <3> QED BY <1>1, <1>2, <3>1 DEF Lasts
  <2>6. \A i \in 1 .. n : rows[i] \in Responses /\ rows[i].op = "Row" /\ rows[i].whose = "own"
    BY <2>4
  <2>7. rows \in Seq(Responses) /\ Len(rows) = n
    BY <2>3, <2>6
  <2>8. /\ a \in Seq(Responses) /\ Len(a) = n + 1 /\ a[n + 1] = last
        /\ \A i \in 1 .. n : a[i] = rows[i]
    BY <2>2, <2>5, <2>7, AppendProperties
  <2>9. \A i \in 1 .. n : a[i].op = "Row" /\ a[i].whose = "own"
    BY <2>6, <2>8
  <2> QED BY <1>6, <2>3, <2>5, <2>8, <2>9 DEF Enough, Owed, InStep, Answered
<1> QED BY <1>3, <1>4, <1>5, <1>6 DEF Wants

\* A request's answer goes behind what is owed already.
LEMMA AnswerBehind ==
  ASSUME NEW s \in Seq(Responses), NEW L \in Nat, Len(s) >= L, NEW want \in Wants, NEW a \in Answers(want)
  PROVE  /\ Stale(s) \o a \in Seq(Responses)
         /\ Len(Stale(s) \o a) >= Len(s)
         /\ Enough(Stale(s) \o a, L, want)
         /\ InStep(s, L, "none") => InStep(Stale(s) \o a, L, want)
<1>1. a \in Seq(Responses) /\ Enough(a, 0, want) /\ InStep(a, 0, want)
  BY AnswerFits
<1> DEFINE t == Stale(s)
<1> DEFINE n == Len(s)
<1>2. /\ t \in Seq(Responses) /\ Len(t) = n /\ n \in Nat
      /\ \A i \in 1 .. n : /\ t[i].op = s[i].op
                           /\ s[i].whose = "lazy" => t[i].whose = "lazy"
  BY StaleKeeps, LenProperties
<1> HIDE DEF t, n
<1> DEFINE u == t \o a
<1>3. /\ u \in Seq(Responses) /\ Len(u) = n + Len(a) /\ Len(a) \in Nat
      /\ \A i \in 1 .. n : u[i] = t[i]
      /\ \A i \in 1 .. Len(a) : u[n + i] = a[i]
  <2>1. /\ u \in Seq(Responses) /\ Len(u) = n + Len(a) /\ Len(a) \in Nat
        /\ \A i \in 1 .. n + Len(a) : u[i] = IF i <= n THEN t[i] ELSE a[i - n]
    BY <1>1, <1>2, ConcatProperties, LenProperties
  <2>2. ASSUME NEW i \in 1 .. n PROVE u[i] = t[i]
    BY <1>2, <2>1
  <2>3. ASSUME NEW i \in 1 .. Len(a) PROVE u[n + i] = a[i]
    <3>1. n + i \in 1 .. n + Len(a) /\ ~(n + i <= n) /\ (n + i) - n = i
      BY <1>2, <2>1
    <3> QED BY <2>1, <3>1
  <2> QED BY <2>1, <2>2, <2>3
<1> HIDE DEF u
<1>4. Len(a) >= 1 /\ (want = "pair" => Len(a) >= 2) /\ (want = "row" => a[Len(a)].op # "Row")
  BY <1>1, <1>3 DEF Enough, Owed, Wants
<1>5. n >= L
  BY DEF n
<1>6. Enough(u, L, want)
  <2>1. u[Len(u)] = a[Len(a)]
    BY <1>3, <1>4
  <2>2. ASSUME want = "sql", u[L + 1].op = "Sql" PROVE Len(u) >= L + 2
    <3>1. CASE n >= L + 1
      BY <1>2, <1>3, <1>4, <3>1
    <3>2. CASE n = L
      <4>1. u[L + 1] = a[1]
        BY <1>3, <1>4, <3>2
      <4>2. Len(a) >= 2
        BY <1>1, <2>2, <4>1 DEF Enough
      <4> QED BY <1>3, <3>2, <4>2
    <3> QED BY <1>2, <1>5, <3>1, <3>2
  <2>3. Len(u) >= L + Owed(want)
    BY <1>2, <1>3, <1>4, <1>5 DEF Owed, Wants
  <2>4. want = "row" => u[Len(u)].op # "Row"
    BY <1>4, <2>1
  <2> QED BY <2>2, <2>3, <2>4 DEF Enough
<1>7. ASSUME InStep(s, L, "none") PROVE InStep(u, L, want)
  <2>1. n = L
    BY <1>2, <1>7 DEF InStep, Answered, n
  <2>2. \A i \in 1 .. L : u[i].op = "Response" /\ u[i].whose = "lazy"
    BY <1>2, <1>3, <1>7, <2>1 DEF InStep
  <2>3. \A i \in 1 .. Len(a) : u[L + i] = a[i] /\ a[i].whose = "own"
    BY <1>1, <1>3, <2>1 DEF InStep
  <2>4. \A i \in L + 1 .. Len(u) : /\ i - L \in 1 .. Len(a) /\ u[i] = a[i - L]
    <3>1. ASSUME NEW i \in L + 1 .. Len(u) PROVE i - L \in 1 .. Len(a) /\ L + (i - L) = i
      BY <1>3, <2>1
    <3> QED BY <2>3, <3>1
  <2>5. Answered(u, L, want)
    <3>1. Len(u) - L = Len(a) /\ Len(a) - 0 = Len(a) /\ 0 + 1 = 1 /\ 0 + 2 = 2
      BY <1>3, <2>1
    <3>2. Answered(a, 0, want)
      BY <1>1 DEF InStep
    <3>3. CASE want = "one"
      <4>1. Len(a) = 1 /\ a[1].op = "Response"
        BY <3>1, <3>2, <3>3 DEF Answered
      <4> QED BY <2>3, <3>1, <3>3, <4>1 DEF Answered
    <3>4. CASE want = "pair"
      <4>1. Len(a) = 2 /\ a[1].op = "Response" /\ a[2].op = "Response"
        BY <3>1, <3>2, <3>4 DEF Answered
      <4> QED BY <2>3, <3>1, <3>4, <4>1 DEF Answered
    <3>5. CASE want = "sql"
      <4>1. \/ Len(a) = 1 /\ a[1].op = "Response"
            \/ Len(a) = 2 /\ a[1].op = "Sql" /\ a[2].op = "Response"
        BY <3>1, <3>2, <3>5 DEF Answered
      <4> QED BY <2>3, <3>1, <3>5, <4>1 DEF Answered
    <3>6. CASE want = "row"
      <4>1. /\ Len(a) > 0 /\ a[Len(a)].op \in {"End", "BatchEnd", "Response"}
            /\ \A i \in 1 .. Len(a) - 1 : a[i].op = "Row"
        BY <3>1, <3>2, <3>6 DEF Answered
      <4>2. \A i \in L + 1 .. Len(u) - 1 : u[i].op = "Row"
        <5>1. ASSUME NEW i \in L + 1 .. Len(u) - 1
              PROVE  i \in L + 1 .. Len(u) /\ i - L \in 1 .. Len(a) - 1
          BY <1>3, <2>1
        <5> QED BY <2>4, <4>1, <5>1
      <4>3. u[Len(u)] = a[Len(a)]
        BY <1>3, <2>1, <4>1
      <4> QED BY <3>1, <3>6, <4>1, <4>2, <4>3 DEF Answered
    <3> QED BY <3>3, <3>4, <3>5, <3>6 DEF Wants
  <2> QED BY <2>2, <2>3, <2>4, <2>5 DEF InStep
<1> QED BY <1>2, <1>3, <1>6, <1>7 DEF t, n, u

---------------------------------------------------------------------------
(***************************************************************************)
(* Parses                                                                  *)
(***************************************************************************)

\* The first response that is not skipped is the one behind the lazy ones, or one of
\* them.
LEMMA Unskipped ==
  ASSUME TypeOK
  PROVE  FirstUnskipped \in 1 .. lazy_count + 1
<1> DEFINE T == {i \in 1 .. lazy_count : i > arrived \/ ~Passes(i)} \cup {lazy_count + 1}
<1>1. lazy_count \in Nat
  BY BoundsAssumption DEF TypeOK
<1>2. T \in SUBSET Nat /\ T # {} /\ T \subseteq 1 .. lazy_count + 1
  BY <1>1
<1>3. FirstUnskipped = Min(T)
  BY DEF FirstUnskipped
<1> HIDE DEF T
<1>4. FirstUnskipped \in T
  BY <1>2, <1>3, LeastNumber
<1> QED BY <1>2, <1>4

\* The outcomes of a parse behind the lazy responses, at position i: how far it reads,
\* and what it says of what it read.
Own(i, o) ==
  /\ o.lazy = 0
  /\ o.used \in {i, i + 1} /\ o.used =< arrived
  /\ o.end \in {"ok", "error", "row", "garbled"}
  /\ o.cause \in Causes \cup {"none"}
  /\ o.end = "row" => call.want = "row" /\ o.used = i /\ stream[i].op = "Row"
  /\ o.cause = "none" =>
       CASE call.want = "one"  -> o.used = i /\ (o.end = "garbled" => stream[i].op # "Response")
         [] call.want = "pair" -> \/ o.end = "garbled" /\ o.used = i /\ stream[i].op # "Response"
                                  \/ /\ o.used = i + 1
                                     /\ o.end = "garbled" => stream[i + 1].op # "Response"
         [] call.want = "sql"  -> \/ o.used = i /\ o.end = "error" /\ stream[i].op = "Response"
                                  \/ o.used = i /\ stream[i].op \notin {"Response", "Sql"}
                                  \/ /\ o.used = i + 1 /\ stream[i].op = "Sql"
                                     /\ o.end = "garbled" => stream[i + 1].op # "Response"
         [] call.want = "row"  -> /\ o.used = i
                                  /\ o.end = "row" <=> stream[i].op = "Row"
                                  /\ o.end = "garbled" => stream[i].op = "Sql"

\* parse_response, and where it may stop.
LEMMA ParsedResponse ==
  ASSUME NEW i, NEW cause, NEW o \in ParseResponse(i, cause)
  PROVE  /\ o.used = i /\ o.lazy = 0 /\ o.end \in {"ok", "error", "garbled"}
         /\ o.cause \in {cause, "none", "status"}
         /\ o.cause = "none" /\ o.end = "garbled" => stream[i].op # "Response"
         /\ stream[i].op = "Response" /\ ~Passes(i) => o.cause \in {cause, "status"}
         /\ stream[i].op # "Response" => o.end = "garbled" /\ o.cause = "none"
<1>1. CASE Passes(i)
  <2>1. o = Out(i, 0, "ok", "none")
    BY <1>1 DEF ParseResponse, Passes
  <2> QED BY <1>1, <2>1 DEF Out, Passes
<1>2. CASE stream[i].op # "Response"
  <2>1. ~Passes(i)
    BY <1>2 DEF Passes
  <2>2. o = Out(i, 0, "garbled", "none")
    BY <1>2, <2>1 DEF ParseResponse, Garble
  <2> QED BY <1>2, <2>2 DEF Out
<1>3. CASE ~Passes(i) /\ stream[i].op = "Response"
  <2>1. o \in Refused(i, 0, cause)
    BY <1>3 DEF ParseResponse
  <2>2. o = Out(i, 0, "garbled", "status") \/ o = Out(i, 0, "error", cause)
    BY <2>1 DEF Refused, Garble
  <2> QED BY <1>3, <2>2 DEF Out
<1> QED BY <1>1, <1>2, <1>3

\* A parse of the call's own response.
LEMMA ParsedOwn ==
  ASSUME TypeOK, NEW i \in Nat, i =< arrived, call.want \in Wants, NEW o,
         call.want = "one"  => o \in ParseResponse(i, "none"),
         call.want = "pair" => o \in ParsePair(i),
         call.want = "sql"  => o \in ParseSql(i),
         call.want = "row"  => o \in ParseRow(i)
  PROVE  Own(i, o)
<1>0. arrived \in Nat /\ i \in {i, i + 1}
  BY LenProperties DEF TypeOK
<1>1. CASE call.want = "one"
  <2>1. o \in ParseResponse(i, "none")
    BY <1>1
  <2> QED BY <1>0, <1>1, <2>1, ParsedResponse DEF Own, Causes
<1>2. CASE call.want = "pair"
  <2>0. o \in ParsePair(i)
    BY <1>2
  <2>1. CASE ~Passes(i)
    <3>1. o \in ParseResponse(i, "alloc")
      BY <2>0, <2>1 DEF ParsePair
    <3> QED BY <1>0, <1>2, <2>1, <3>1, ParsedResponse DEF Own, Causes
  <2>2. CASE Passes(i) /\ ~(i + 1 > arrived)
    <3>1. o \in ParseResponse(i + 1, "none") /\ i + 1 =< arrived
      BY <1>0, <2>0, <2>2 DEF ParsePair
    <3> QED BY <1>0, <1>2, <2>2, <3>1, ParsedResponse DEF Own, Causes
  <2> QED BY <2>0, <2>1, <2>2 DEF ParsePair
<1>3. CASE call.want = "sql"
  <2>0. o \in ParseSql(i)
    BY <1>3
  <2>1. CASE stream[i].op = "Response"
    <3>1. o = Out(i, 0, "error", "none") \/ o = Out(i, 0, "garbled", "status")
      BY <2>0, <2>1 DEF ParseSql, Refused, Garble
    <3> QED BY <1>0, <1>3, <2>1, <3>1 DEF Own, Out, Causes
  <2>2. CASE stream[i].op \notin {"Response", "Sql"}
    <3>1. o = Out(i, 0, "garbled", "none")
      BY <2>0, <2>2 DEF ParseSql, Garble
    <3> QED BY <1>0, <1>3, <2>2, <3>1 DEF Own, Out
  <2>3. CASE stream[i].op = "Sql"
    <3>1. o \in Undecodable(i) \/ (o \in ParseResponse(i + 1, "none") /\ ~(i + 1 > arrived))
      BY <2>0, <2>3 DEF ParseSql
    <3>2. CASE o \in Undecodable(i)
      BY <1>0, <1>3, <3>2 DEF Own, Undecodable, Garble, Out, Causes
    <3>3. CASE o \in ParseResponse(i + 1, "none") /\ ~(i + 1 > arrived)
      <4>1. i + 1 =< arrived
        BY <1>0, <3>3
      <4> QED BY <1>0, <1>3, <2>3, <3>3, <4>1, ParsedResponse DEF Own, Causes
    <3> QED BY <3>1, <3>2, <3>3
  <2> QED BY <2>1, <2>2, <2>3
<1>4. CASE call.want = "row"
  <2>0. o \in ParseRow(i)
    BY <1>4
  <2>1. CASE stream[i].op = "Response"
    <3>1. o = Out(i, 0, "error", "none") \/ o = Out(i, 0, "garbled", "status")
      BY <2>0, <2>1 DEF ParseRow, Refused, Garble
    <3> QED BY <1>0, <1>4, <2>1, <3>1 DEF Own, Out, Causes
  <2>2. CASE stream[i].op = "Sql"
    <3>1. o = Out(i, 0, "garbled", "none")
      BY <2>0, <2>2 DEF ParseRow, Garble
    <3> QED BY <1>0, <1>4, <2>2, <3>1 DEF Own, Out
  <2>3. CASE stream[i].op = "Row"
    <3>1. o = Out(i, 0, "row", "none") \/ o \in Undecodable(i)
      BY <2>0, <2>3 DEF ParseRow
    <3> QED BY <1>0, <1>4, <2>3, <3>1 DEF Own, Out, Undecodable, Garble, Causes
  <2>4. CASE stream[i].op \notin {"Response", "Sql", "Row"}
    <3>1. o = Out(i, 0, "ok", "none")
      BY <2>0, <2>4 DEF ParseRow
    <3> QED BY <1>0, <1>4, <2>4, <3>1 DEF Own, Out
  <2> QED BY <2>1, <2>2, <2>3, <2>4
<1> QED BY <1>1, <1>2, <1>3, <1>4 DEF Wants

\* A parse ends in a lazy response that is refused or of another kind, or in the
\* call's own.
LEMMA Parsed ==
  ASSUME TypeOK, Waiting, NEW o \in Parse
  PROVE  \/ /\ o.used \in 1 .. lazy_count /\ o.used =< arrived
            /\ \/ o.lazy = lazy_count - o.used /\ o.end = "error" /\ o.cause = "lazy"
               \/ o.lazy = 0 /\ o.end = "garbled" /\ o.cause = "status"
               \/ /\ o.lazy = 0 /\ o.end = "garbled" /\ o.cause = "none"
                  /\ stream[o.used].op # "Response"
         \/ lazy_count + 1 =< arrived /\ Own(lazy_count + 1, o)
<1> DEFINE i == FirstUnskipped
<1>1. i \in 1 .. lazy_count + 1 /\ lazy_count \in Nat /\ arrived \in Nat
  BY Unskipped, LenProperties, BoundsAssumption DEF TypeOK
<1>2. call.want \in Wants
  BY DEF TypeOK, Waiting, Rounds, NoCall, Round
<1>3. i =< arrived
  BY <1>1 DEF Parse
<1>4. CASE i =< lazy_count
  <2>1. o \in IF stream[i].op = "Response" THEN Refused(i, lazy_count - i, "lazy")
              ELSE {Garble(i, "none")}
    BY <1>1, <1>3, <1>4 DEF Parse
  <2> HIDE DEF i
  <2>2. \/ o = Out(i, lazy_count - i, "error", "lazy")
        \/ o = Out(i, 0, "garbled", "status")
        \/ o = Out(i, 0, "garbled", "none") /\ stream[i].op # "Response"
    BY <2>1 DEF Garble, Refused
  <2>3. i \in 1 .. lazy_count
    BY <1>1, <1>4
  <2> QED BY <1>3, <2>2, <2>3 DEF Out
<1>5. ASSUME ~(i =< lazy_count)
      PROVE  lazy_count + 1 =< arrived /\ Own(lazy_count + 1, o)
  <2>1. i = lazy_count + 1 /\ ~(i > arrived)
    BY <1>1, <1>3, <1>5
  <2>2. /\ call.want = "one"  => o \in ParseResponse(i, "none")
        /\ call.want = "pair" => o \in ParsePair(i)
        /\ call.want = "sql"  => o \in ParseSql(i)
        /\ call.want = "row"  => o \in ParseRow(i)
    BY <1>3, <1>5, <2>1 DEF Parse
  <2> HIDE DEF i
  <2>3. Own(i, o)
    BY <1>1, <1>2, <1>3, <2>2, ParsedOwn
  <2>4. lazy_count + 1 =< arrived
    BY <1>3, <2>1
  <2> QED BY SMTT(20), <2>1, <2>3, <2>4
<1> QED BY <1>4, <1>5

\* What is left of the stream behind the first `used` responses.
LEMMA Rest ==
  ASSUME TypeOK, NEW used \in Nat, used =< Len(stream)
  PROVE  LET r == SubSeq(stream, used + 1, Len(stream)) IN
         /\ r \in Seq(Responses) /\ Len(r) = Len(stream) - used
         /\ \A i \in 1 .. Len(stream) - used : r[i] = stream[used + i]
<1>1. stream \in Seq(Responses) /\ Len(stream) \in Nat
  BY LenProperties DEF TypeOK
<1> DEFINE r == SubSeq(stream, used + 1, Len(stream))
<1>2. used + 1 \in 1 .. Len(stream) + 1 /\ Len(stream) \in used + 1 - 1 .. Len(stream)
  BY <1>1
<1>3. /\ r \in Seq(Responses)
      /\ Len(r) = Len(stream) - (used + 1) + 1
      /\ \A i \in 1 .. Len(stream) - (used + 1) + 1 : r[i] = stream[(used + 1) + i - 1]
  BY <1>1, <1>2, SubSeqProperties
<1>4. Len(stream) - (used + 1) + 1 = Len(stream) - used
  BY <1>1
<1>5. ASSUME NEW i \in 1 .. Len(stream) - used PROVE r[i] = stream[used + i]
  <2>1. (used + 1) + i - 1 = used + i
    OBVIOUS
  <2> QED BY <1>3, <1>4, <2>1
<1> QED BY <1>3, <1>4, <1>5

\* While the stream is in step and the parse is not one of the causes, it takes the
\* lazy responses and the call's own for what they are, and all of them but the rows
\* still to come.
LEMMA TakenInStep ==
  ASSUME TypeOK, Waiting, InStep(stream, lazy_count, call.want), NEW o \in Parse, o.cause = "none"
  PROVE  /\ o.end # "garbled" /\ o.lazy = 0
         /\ o.used > lazy_count /\ o.used =< Len(stream) /\ o.used \in Nat
         /\ ~Mismatch(o.used)
         /\ o.end = "row" => o.used = lazy_count + 1
         /\ o.end # "row" => o.used = Len(stream)
<1> DEFINE i == lazy_count + 1
<1>1. lazy_count \in Nat /\ arrived \in Nat /\ Len(stream) \in Nat /\ arrived =< Len(stream)
  BY LenProperties, BoundsAssumption DEF TypeOK
<1>2. call.want \in Wants
  BY DEF TypeOK, Waiting, Rounds, NoCall, Round
<1>3. i =< arrived /\ Own(i, o)
  BY Parsed DEF InStep
<1>4. /\ \A j \in 1 .. lazy_count : stream[j].whose = "lazy"
      /\ \A j \in i .. Len(stream) : stream[j].whose = "own"
      /\ Answered(stream, lazy_count, call.want)
  BY DEF InStep
<1>5. i \in Nat /\ i = lazy_count + 1
  BY <1>1
<1> HIDE DEF i
<1>6. o.used \in {i, i + 1} /\ o.used =< arrived /\ o.lazy = 0
  BY <1>3 DEF Own
<1>7. o.end # "garbled" /\ (o.end = "row" => o.used = i) /\ (o.end # "row" => o.used = Len(stream))
  <2>1. CASE call.want = "one"
    BY <1>1, <1>3, <1>4, <1>5, <2>1 DEF Own, Answered
  <2>2. CASE call.want = "pair"
    <3>1. Len(stream) = i + 1 /\ stream[i].op = "Response" /\ stream[i + 1].op = "Response"
      BY <1>1, <1>4, <1>5, <2>2 DEF Answered
    <3> QED BY <1>3, <2>2, <3>1 DEF Own
  <2>3. CASE call.want = "sql"
    <3>1. \/ Len(stream) = i /\ stream[i].op = "Response"
          \/ Len(stream) = i + 1 /\ stream[i].op = "Sql" /\ stream[i + 1].op = "Response"
      BY <1>1, <1>4, <1>5, <2>3 DEF Answered
    <3> QED BY <1>3, <2>3, <3>1 DEF Own
  <2>4. CASE call.want = "row"
    <3>1. /\ o.used = i
          /\ o.end = "row" <=> stream[i].op = "Row"
          /\ o.end = "garbled" => stream[i].op = "Sql"
      BY <1>3, <2>4 DEF Own
    <3>2. i = Len(stream) \/ i \in i .. Len(stream) - 1
      BY <1>1, <1>3, <1>5
    <3>3. /\ \A j \in i .. Len(stream) - 1 : stream[j].op = "Row"
          /\ stream[Len(stream)].op \in {"End", "BatchEnd", "Response"}
      BY <1>4, <1>5, <2>4 DEF Answered
    <3> QED BY <3>1, <3>2, <3>3
  <2> QED BY <1>2, <2>1, <2>2, <2>3, <2>4 DEF Wants
<1>8. ~Mismatch(o.used)
  <2> SUFFICES ASSUME NEW j \in 1 .. o.used
               PROVE  stream[j].whose = IF j =< lazy_count THEN "lazy" ELSE "own"
    BY DEF Mismatch
  <2>1. j \in 1 .. lazy_count \/ j \in i .. Len(stream)
    BY <1>1, <1>5, <1>6
  <2>2. j \in i .. Len(stream) => ~(j =< lazy_count)
    BY <1>1, <1>5
  <2> QED BY <1>4, <2>1, <2>2
<1> QED BY <1>1, <1>5, <1>6, <1>7, <1>8

---------------------------------------------------------------------------
(***************************************************************************)
(* Every step keeps the invariant                                          *)
(***************************************************************************)

\* The numbers the steps count with.
LEMMA Counts ==
  ASSUME TypeOK
  PROVE  /\ Len(stream) \in Nat /\ arrived \in Nat /\ arrived =< Len(stream)
         /\ lazy_count \in Nat /\ lazy_count =< MaxLazy /\ MaxLazy \in Nat
BY LenProperties, BoundsAssumption DEF TypeOK

\* A request is written between two calls.
LEMMA BeginStep ==
  ASSUME WireInv, Begin
  PROVE  WireInv'
<1>1. PICK c \in FirstRounds : Send(c)
  BY DEF Begin
<1>2. PICK a \in Answers(c.want) : call' = c /\ stream' = Stale(stream) \o a
  BY <1>1 DEF Send
<1>3. c \in Rounds /\ c.want \in Wants
  BY FirstAreRounds
<1>4. TypeOK /\ link = "live" /\ call.want = "none" /\ Enough(stream, lazy_count, "none")
  BY CallWants DEF WireInv, Begin, Idle, TypeOK
<1>5. Len(stream) >= lazy_count
  BY <1>4, Counts DEF Enough, Owed
<1>6. /\ stream' \in Seq(Responses) /\ Len(stream') >= Len(stream)
      /\ Enough(stream', lazy_count, c.want)
      /\ InStep(stream, lazy_count, "none") => InStep(stream', lazy_count, c.want)
  BY <1>2, <1>3, <1>4, <1>5, Counts, AnswerBehind DEF TypeOK
<1>7. UNCHANGED <<arrived, lazy_count, link, skewed, mixed>>
  BY DEF Begin
<1>8. arrived \in 0 .. Len(stream')
  BY <1>4, <1>6, Counts, LenProperties
<1>9. TypeOK'
  BY <1>2, <1>3, <1>4, <1>6, <1>7, <1>8 DEF TypeOK
<1>10. skewed = "none" => ~mixed /\ link # "garbled" /\ InStep(stream, lazy_count, "none")
  BY <1>4 DEF WireInv
<1> QED BY <1>2, <1>6, <1>7, <1>9, <1>10 DEF WireInv

\* One response more, that nobody will ask for or that is asked for later.
LEMMA OneMore ==
  ASSUME TypeOK, NEW r \in Responses
  PROVE  /\ Append(stream, r) \in Seq(Responses)
         /\ Len(Append(stream, r)) = Len(stream) + 1
         /\ arrived \in 0 .. Len(stream) + 1
         /\ \A i \in 1 .. Len(stream) : Append(stream, r)[i] = stream[i]
         /\ Append(stream, r)[Len(stream) + 1] = r
BY AppendProperties, Counts DEF TypeOK

\* An allocation is written and its request given up.
LEMMA PrepareUnencodableStep ==
  ASSUME WireInv, PrepareUnencodable
  PROVE  WireInv'
<1>1. PICK e \in Contents : stream' = Append(stream, Resp(e, "stale"))
  BY DEF PrepareUnencodable
<1>2. Resp(e, "stale") \in Responses
  BY DEF Resp, Responses, Ops
<1>3. TypeOK /\ link = "live" /\ call.want = "none" /\ Enough(stream, lazy_count, "none")
  BY CallWants DEF WireInv, PrepareUnencodable, Idle, TypeOK
<1>4. stream' \in Seq(Responses) /\ Len(stream') = Len(stream) + 1 /\ arrived \in 0 .. Len(stream')
  BY <1>1, <1>2, <1>3, OneMore
<1>5. UNCHANGED <<arrived, lazy_count, call, link, mixed>>
  BY DEF PrepareUnencodable
<1>6. skewed' \in Causes /\ skewed' # "none"
  BY <1>3 DEF PrepareUnencodable, TypeOK, Causes
<1>7. TypeOK'
  BY <1>3, <1>4, <1>5, <1>6 DEF TypeOK
<1>8. Enough(stream', lazy_count, "none")
  BY <1>3, <1>4, Counts DEF Enough, Owed
<1> QED BY <1>3, <1>5, <1>6, <1>7, <1>8 DEF WireInv

\* A statement is freed: one lazy response more is owed.
LEMMA FreeStatementStep ==
  ASSUME WireInv, FreeStatement
  PROVE  WireInv'
<1>1. PICK e \in Contents : stream' = Append(stream, Resp(e, "lazy"))
  BY DEF FreeStatement
<1> DEFINE r == Resp(e, "lazy")
<1>2. r \in Responses /\ r.op = "Response" /\ r.whose = "lazy"
  BY DEF Resp, Responses, Ops
<1>3. TypeOK /\ link = "live" /\ call.want = "none" /\ Enough(stream, lazy_count, "none")
  BY CallWants DEF WireInv, FreeStatement, Idle, TypeOK
<1> HIDE DEF r
<1>4. /\ stream' \in Seq(Responses) /\ Len(stream') = Len(stream) + 1 /\ arrived \in 0 .. Len(stream')
      /\ \A i \in 1 .. Len(stream) : stream'[i] = stream[i]
      /\ stream'[Len(stream) + 1] = r
  BY <1>1, <1>2, <1>3, OneMore DEF r
<1>5. lazy_count' = lazy_count + 1 /\ lazy_count < MaxLazy /\ UNCHANGED <<arrived, call, link, skewed, mixed>>
  BY DEF FreeStatement
<1>6. lazy_count' \in 0 .. MaxLazy
  BY <1>3, <1>5, Counts
<1>7. TypeOK'
  BY <1>3, <1>4, <1>5, <1>6 DEF TypeOK
<1>8. Enough(stream', lazy_count', "none")
  BY <1>3, <1>4, <1>5, Counts DEF Enough, Owed
<1>9. ASSUME InStep(stream, lazy_count, "none") PROVE InStep(stream', lazy_count', "none")
  <2>1. Len(stream) = lazy_count
    BY <1>3, <1>9, Counts DEF InStep, Answered
  <2>2. \A i \in 1 .. lazy_count' : i \in 1 .. lazy_count \/ i = Len(stream) + 1
    BY <1>3, <1>5, <2>1, Counts
  <2>3. \A i \in 1 .. lazy_count' : stream'[i].op = "Response" /\ stream'[i].whose = "lazy"
    BY <1>2, <1>4, <1>9, <2>1, <2>2 DEF InStep
  <2>4. Len(stream') = lazy_count' /\ Len(stream') - lazy_count' = 0
    BY <1>3, <1>4, <1>5, <2>1, Counts
  <2> QED BY <1>3, <1>5, <2>3, <2>4, Counts DEF InStep, Answered
<1>10. skewed = "none" => ~mixed /\ link # "garbled" /\ InStep(stream, lazy_count, "none")
  BY <1>3 DEF WireInv
<1> QED BY <1>3, <1>5, <1>7, <1>8, <1>9, <1>10 DEF WireInv

\* A parse that was incomplete is undone and more is read.
LEMMA ReceiveStep ==
  ASSUME WireInv, Receive
  PROVE  WireInv'
<1>1. /\ TypeOK /\ arrived' \in arrived + 1 .. Len(stream)
      /\ UNCHANGED <<stream, lazy_count, call, link, skewed, mixed>>
  BY DEF WireInv, Receive
<1>2. arrived' \in 0 .. Len(stream)
  BY <1>1, Counts
<1>3. TypeOK'
  BY <1>1, <1>2 DEF TypeOK
<1> QED BY <1>1, <1>3 DEF WireInv

\* The server goes: what has not arrived is lost.
LEMMA HangupStep ==
  ASSUME WireInv, Hangup
  PROVE  WireInv'
<1>1. /\ TypeOK /\ link = "live" /\ link' = "closed" /\ call' = NoCall
      /\ stream' = SubSeq(stream, 1, arrived)
      /\ UNCHANGED <<arrived, lazy_count, skewed, mixed>>
  BY DEF WireInv, Hangup
<1>2. stream' \in Seq(Responses) /\ Len(stream') = arrived
  <2>1. 1 \in 1 .. Len(stream) + 1 /\ arrived \in 1 - 1 .. Len(stream) /\ arrived - 1 + 1 = arrived
    BY <1>1, Counts
  <2>2. stream \in Seq(Responses)
    BY <1>1 DEF TypeOK
  <2> QED BY <1>1, <2>1, <2>2, SubSeqProperties
<1>3. arrived \in 0 .. arrived
  BY <1>1, Counts
<1>4. TypeOK'
  BY <1>1, <1>2, <1>3 DEF TypeOK, Rounds
<1> QED BY <1>1, <1>4 DEF WireInv

\* Nothing is owed on a new link.
LEMMA Fresh ==
  ASSUME stream = <<>>, arrived = 0, lazy_count = 0, call = NoCall, link = "live",
         skewed = "none", mixed = FALSE
  PROVE  WireInv
<1>1. TypeOK
  <2>1. stream \in Seq(Responses) /\ Len(stream) = 0 /\ arrived \in 0 .. Len(stream)
    OBVIOUS
  <2>2. lazy_count \in 0 .. MaxLazy
    BY BoundsAssumption
  <2>3. call \in Rounds
    BY DEF Rounds
  <2> QED BY <2>1, <2>2, <2>3 DEF TypeOK
<1>2. Enough(<<>>, 0, "none") /\ InStep(<<>>, 0, "none")
  BY DEF Enough, Owed, InStep, Answered
<1>3. call.want = "none"
  BY DEF NoCall, Round
<1> QED BY <1>1, <1>2, <1>3 DEF WireInv

\* A parse succeeds or fails for good: a row leaves the call waiting for the next
\* one, a success starts the call's next round or ends it, an error ends it.
LEMMA TakeStep ==
  ASSUME WireInv, Take
  PROVE  WireInv'
<1>1. PICK o \in Parse :
        /\ AfterRound(o, SubSeq(stream, Consumed(o) + 1, Len(stream)))
        /\ arrived' = arrived - Consumed(o)
        /\ lazy_count' = o.lazy
        /\ link' = IF o.end = "garbled" THEN "garbled" ELSE link
        /\ skewed' = IF skewed = "none" THEN o.cause ELSE skewed
        /\ mixed' = (mixed \/ Mismatch(o.used))
  BY DEF Take
<1>2. TypeOK /\ Waiting /\ link = "live" /\ Enough(stream, lazy_count, call.want)
  BY DEF Take, WireInv, Waiting
<1>3. Len(stream) \in Nat /\ arrived \in Nat /\ arrived =< Len(stream) /\ lazy_count \in Nat
      /\ lazy_count =< MaxLazy /\ MaxLazy \in Nat
  BY <1>2, Counts
<1>4. call \in Rounds /\ call # NoCall
  BY <1>2 DEF TypeOK, Waiting
<1> DEFINE r == SubSeq(stream, o.used + 1, Len(stream))
\* How far the parse read, and how many lazy responses it leaves.
<1>5. /\ o.used \in Nat /\ o.used =< arrived
      /\ o.lazy \in 0 .. lazy_count /\ Len(stream) - o.used >= o.lazy
      /\ o.end # "error" => o.lazy = 0
      /\ o.end \in {"ok", "error", "row", "garbled"} /\ o.cause \in Causes \cup {"none"}
      /\ o.end = "row" => call.want = "row" /\ o.used + 1 =< Len(stream)
  <2>1. CASE /\ o.used \in 1 .. lazy_count /\ o.used =< arrived
             /\ \/ o.lazy = lazy_count - o.used /\ o.end = "error" /\ o.cause = "lazy"
                \/ o.lazy = 0 /\ o.end = "garbled" /\ o.cause = "status"
                \/ /\ o.lazy = 0 /\ o.end = "garbled" /\ o.cause = "none"
                   /\ stream[o.used].op # "Response"
    <3>1. Len(stream) >= lazy_count
      BY <1>2, <1>3 DEF Enough, Owed
    <3> QED BY <1>3, <2>1, <3>1 DEF Causes
  <2>2. CASE lazy_count + 1 =< arrived /\ Own(lazy_count + 1, o)
    <3>1. /\ o.lazy = 0 /\ o.used \in {lazy_count + 1, lazy_count + 1 + 1} /\ o.used =< arrived
          /\ o.end \in {"ok", "error", "row", "garbled"} /\ o.cause \in Causes \cup {"none"}
          /\ o.end = "row" => call.want = "row" /\ o.used = lazy_count + 1
                              /\ stream[lazy_count + 1].op = "Row"
      BY <2>2 DEF Own
    <3>2. ASSUME o.end = "row" PROVE o.used + 1 =< Len(stream)
      <4>1. stream[Len(stream)].op # "Row"
        BY <1>2, <3>1, <3>2 DEF Enough
      <4>2. o.used # Len(stream)
        BY <3>1, <3>2, <4>1
      <4> QED BY <1>3, <3>1, <4>2
    <3> QED BY <1>3, <3>1, <3>2
  <2> QED BY <1>2, <2>1, <2>2, Parsed
<1>6. /\ r \in Seq(Responses) /\ Len(r) = Len(stream) - o.used /\ Len(r) \in Nat
      /\ \A i \in 1 .. Len(r) : r[i] = stream[o.used + i]
  <2>1. o.used =< Len(stream)
    BY <1>3, <1>5
  <2>2. /\ r \in Seq(Responses) /\ Len(r) = Len(stream) - o.used
        /\ \A i \in 1 .. Len(stream) - o.used : r[i] = stream[o.used + i]
    BY <1>2, <1>5, <2>1, Rest
  <2>3. Len(stream) - o.used \in Nat
    BY <1>3, <1>5, <2>1
  <2> HIDE DEF r
  <2> QED BY <2>2, <2>3
<1>7. AfterRound(o, r) /\ arrived' = arrived - o.used
  BY <1>1 DEF Consumed
<1>8. arrived' \in Nat /\ arrived' =< Len(r)
  BY <1>3, <1>5, <1>6, <1>7
\* What the parse took, while the stream is in step.
<1>9. ASSUME skewed' = "none"
      PROVE  /\ skewed = "none" /\ o.cause = "none" /\ ~mixed' /\ o.lazy = 0
             /\ o.end # "garbled"
             /\ InStep(stream, lazy_count, call.want)
             /\ o.end = "row" => o.used = lazy_count + 1
             /\ o.end # "row" => o.used = Len(stream)
  <2>1. skewed = "none" /\ o.cause = "none"
    BY <1>1, <1>9
  <2>2. ~mixed /\ InStep(stream, lazy_count, call.want)
    BY <1>2, <2>1 DEF WireInv
  <2>3. /\ o.end # "garbled" /\ o.lazy = 0 /\ ~Mismatch(o.used)
        /\ o.end = "row" => o.used = lazy_count + 1
        /\ o.end # "row" => o.used = Len(stream)
    BY <1>2, <2>1, <2>2, TakenInStep
  <2> QED BY <1>1, <2>1, <2>2, <2>3
<1> HIDE DEF r
\* The stream, the call and what they owe each other afterwards.
<1>10. /\ stream' \in Seq(Responses) /\ Len(stream') >= Len(r) /\ call' \in Rounds
       /\ Enough(stream', o.lazy, call'.want)
       /\ skewed' = "none" => InStep(stream', 0, call'.want)
  <2>1. CASE o.end = "row"
    <3>1. call' = call /\ stream' = r
      BY <1>7, <2>1 DEF AfterRound
    <3>2. /\ o.lazy = 0 /\ call.want = "row" /\ Len(r) >= 1
          /\ r[Len(r)] = stream[Len(stream)]
      <4>1. Len(r) >= 1 /\ Len(r) \in 1 .. Len(r) /\ o.used + Len(r) = Len(stream)
        BY <1>3, <1>5, <1>6, <2>1
      <4> QED BY <1>5, <1>6, <2>1, <4>1
    <3>3. Enough(r, 0, "row")
      BY <1>2, <1>6, <3>2 DEF Enough, Owed
    <3>4. ASSUME skewed' = "none" PROVE InStep(r, 0, "row")
      <4>1. o.used = lazy_count + 1 /\ InStep(stream, lazy_count, "row")
        BY <1>9, <2>1, <3>2, <3>4
      <4>2. ASSUME NEW i \in 1 .. Len(r)
            PROVE  r[i] = stream[o.used + i] /\ o.used + i \in lazy_count + 1 .. Len(stream)
        BY <1>3, <1>6, <4>1
      <4>3. \A i \in 1 .. Len(r) : r[i].whose = "own"
        BY <4>1, <4>2 DEF InStep
      <4>4. ASSUME NEW i \in 1 .. Len(r) - 1
            PROVE  r[i].op = "Row"
        <5>1. i \in 1 .. Len(r) /\ o.used + i \in lazy_count + 1 .. Len(stream) - 1
          BY <1>3, <1>6, <4>1
        <5> QED BY <4>1, <4>2, <5>1 DEF InStep, Answered
      <4>5. stream[Len(stream)].op \in {"End", "BatchEnd", "Response"}
        BY <4>1 DEF InStep, Answered
      <4> QED BY <1>6, <3>2, <4>3, <4>4, <4>5 DEF InStep, Answered
    <3> QED BY <1>4, <1>6, <3>1, <3>2, <3>3, <3>4
  <2>2. ASSUME call' = NoCall, stream' = Stale(r), o.end # "row"
        PROVE  /\ stream' \in Seq(Responses) /\ Len(stream') >= Len(r) /\ call' \in Rounds
               /\ Enough(stream', o.lazy, call'.want)
               /\ skewed' = "none" => InStep(stream', 0, call'.want)
    <3>1. stream' \in Seq(Responses) /\ Len(stream') = Len(r)
      BY <1>6, <2>2, StaleKeeps
    <3>2. call' \in Rounds /\ call'.want = "none"
      BY <2>2 DEF NoCall, Round, Rounds
    <3>3. Enough(stream', o.lazy, "none")
      BY <1>3, <1>5, <1>6, <3>1 DEF Enough, Owed
    <3>4. ASSUME skewed' = "none" PROVE InStep(stream', 0, "none")
      <4>1. Len(stream') = 0
        BY <1>3, <1>6, <1>9, <2>2, <3>1, <3>4
      <4> QED BY <4>1 DEF InStep, Answered
    <3> QED BY <1>6, <3>1, <3>2, <3>3, <3>4
  <2>3. CASE o.end = "ok"
    <3>1. PICK c \in Following(call) :
            IF c = NoCall THEN call' = c /\ stream' = Stale(r)
            ELSE \E a \in Answers(c.want) : call' = c /\ stream' = Stale(r) \o a
      BY <1>7, <2>3 DEF AfterRound
    <3>2. CASE c = NoCall
      BY <2>2, <2>3, <3>1, <3>2
    <3>3. CASE c # NoCall
      <4>1. PICK a \in Answers(c.want) : call' = c /\ stream' = Stale(r) \o a
        BY <3>1, <3>3
      <4>2. c \in Rounds /\ c.want \in Wants
        BY <1>4, <3>3, FollowingAreRounds
      <4>3. o.lazy = 0 /\ 0 \in Nat /\ Len(r) >= 0
        BY <1>5, <1>6, <2>3
      <4>4. /\ stream' \in Seq(Responses) /\ Len(stream') >= Len(r)
            /\ Enough(stream', 0, c.want)
            /\ InStep(r, 0, "none") => InStep(stream', 0, c.want)
        BY <1>6, <4>1, <4>2, <4>3, AnswerBehind
      <4>5. ASSUME skewed' = "none" PROVE InStep(r, 0, "none")
        <5>1. Len(r) = 0
          BY <1>3, <1>6, <1>9, <2>3, <4>5
        <5> QED BY <5>1 DEF InStep, Answered
      <4> QED BY <4>1, <4>2, <4>3, <4>4, <4>5
    <3> QED BY <3>2, <3>3
  <2>4. CASE o.end \in {"error", "garbled"}
    <3>1. call' = NoCall /\ stream' = Stale(r)
      BY <1>7, <2>4 DEF AfterRound
    <3> QED BY <2>2, <2>4, <3>1
  <2> QED BY <1>5, <2>1, <2>3, <2>4
<1>11. TypeOK'
  <2>1. arrived' \in 0 .. Len(stream')
    BY <1>6, <1>8, <1>10, LenProperties
  <2>2. lazy_count' \in 0 .. MaxLazy
    BY <1>1, <1>3, <1>5
  <2>3. link' \in {"live", "garbled"}
    BY <1>1, <1>2
  <2>4. skewed' \in Causes \cup {"none"} /\ mixed' \in BOOLEAN
    <3>1. skewed \in Causes \cup {"none"} /\ mixed \in BOOLEAN /\ Mismatch(o.used) \in BOOLEAN
      BY <1>2 DEF TypeOK, Mismatch
    <3>2. skewed' \in Causes \cup {"none"}
      BY <1>1, <1>5, <3>1
    <3> QED BY <1>1, <3>1, <3>2
  <2> QED BY <1>10, <2>1, <2>2, <2>3, <2>4 DEF TypeOK
<1>12. Enough(stream', lazy_count', call'.want)
  BY <1>1, <1>10
<1>13. ASSUME skewed' = "none"
       PROVE  ~mixed' /\ link' # "garbled" /\ InStep(stream', lazy_count', call'.want)
  BY <1>1, <1>2, <1>9, <1>10, <1>13
<1> QED BY <1>11, <1>12, <1>13 DEF WireInv

\* The invariant holds at the start.
LEMMA InitInv == Init => WireInv
BY Fresh DEF Init

\* Every step keeps it.
LEMMA NextInv == WireInv /\ [Next]_vars => WireInv'
<1> SUFFICES ASSUME WireInv, [Next]_vars PROVE WireInv'
  OBVIOUS
<1>1. CASE Begin
  BY <1>1, BeginStep
<1>2. CASE PrepareUnencodable
  BY <1>2, PrepareUnencodableStep
<1>3. CASE FreeStatement
  BY <1>3, FreeStatementStep
<1>4. CASE Receive
  BY <1>4, ReceiveStep
<1>5. CASE Take
  BY <1>5, TakeStep
<1>6. CASE Hangup
  BY <1>6, HangupStep
<1>7. CASE Reconnect
  <2>1. /\ stream' = <<>> /\ arrived' = 0 /\ lazy_count' = 0 /\ call' = NoCall
        /\ link' = "live" /\ skewed' = "none" /\ mixed' = FALSE
    BY <1>7 DEF Reconnect
  <2>2. TypeOK'
    <3>1. stream' \in Seq(Responses) /\ Len(stream') = 0 /\ arrived' \in 0 .. Len(stream')
      BY <2>1
    <3>2. lazy_count' \in 0 .. MaxLazy
      BY <2>1, BoundsAssumption
    <3>3. call' \in Rounds
      BY <2>1 DEF Rounds
    <3> QED BY <2>1, <3>1, <3>2, <3>3 DEF TypeOK
  <2>3. Enough(<<>>, 0, "none") /\ InStep(<<>>, 0, "none")
    BY DEF Enough, Owed, InStep, Answered
  <2>4. call'.want = "none"
    BY <2>1 DEF NoCall, Round
  <2> QED BY <2>1, <2>2, <2>3, <2>4 DEF WireInv
<1>8. CASE UNCHANGED vars
  BY <1>8 DEF vars, WireInv, TypeOK
<1> QED BY <1>1, <1>2, <1>3, <1>4, <1>5, <1>6, <1>7, <1>8 DEF Next

---------------------------------------------------------------------------
(***************************************************************************)
(* The theorems                                                            *)
(***************************************************************************)

\* In every behaviour the stream holds at least what the running call waits for,
\* and until one of the known causes occurs exactly that, behind the lazy responses.
THEOREM WireInvariant == Spec => []WireInv
BY InitInv, NextInv, PTL DEF Spec

\* An incomplete parse means that what it needs has not arrived, and the stream owes it.
LEMMA IncompleteMeansOwed ==
  ASSUME WireInv
  PROVE  WaitsOnlyForOwed
<1> SUFFICES ASSUME Waiting, Parse = {}, arrived = Len(stream)
             PROVE  FALSE
  <2>1. arrived \in Nat /\ Len(stream) \in Nat /\ arrived =< Len(stream)
    BY Counts DEF WireInv
  <2> QED BY <2>1 DEF WaitsOnlyForOwed
<1>1. TypeOK /\ Enough(stream, lazy_count, call.want) /\ call.want \in Wants
  BY DEF WireInv, Waiting, TypeOK, Rounds, NoCall, Round
<1>2. Len(stream) \in Nat /\ lazy_count \in Nat /\ arrived \in Nat
  BY <1>1, Counts
<1> DEFINE i == FirstUnskipped
<1>3. i \in 1 .. lazy_count + 1
  BY <1>1, Unskipped
<1>4. /\ lazy_count + 1 =< arrived
      /\ call.want = "pair" => lazy_count + 2 =< arrived
      /\ call.want = "sql" /\ stream[lazy_count + 1].op = "Sql" => lazy_count + 2 =< arrived
      /\ call.want # "none"
  BY <1>1, <1>2 DEF Enough, Owed, Wants
<1>5. ~(i > arrived) /\ i =< arrived
  BY <1>2, <1>3, <1>4
<1>6. CASE i =< lazy_count
  <2>1. Parse = IF stream[i].op = "Response" THEN Refused(i, lazy_count - i, "lazy")
                ELSE {Garble(i, "none")}
    BY <1>5, <1>6 DEF Parse
  <2> QED BY <2>1 DEF Refused
<1>7. CASE ~(i =< lazy_count)
  <2>0. i = lazy_count + 1
    BY <1>2, <1>3, <1>7
  <2>1. /\ call.want = "one"  => Parse = ParseResponse(i, "none")
        /\ call.want = "pair" => Parse = ParsePair(i)
        /\ call.want = "sql"  => Parse = ParseSql(i)
        /\ call.want = "row"  => Parse = ParseRow(i)
    BY <1>5, <1>7 DEF Parse
  <2>2. /\ call.want = "pair" => ~(i + 1 > arrived)
        /\ call.want = "sql" /\ stream[i].op = "Sql" => ~(i + 1 > arrived)
    BY <1>2, <1>4, <2>0
  <2> HIDE DEF i
  <2>3. \A j, lazy, cause : Refused(j, lazy, cause) # {}
    BY DEF Refused
  <2>4. \A j, cause : ParseResponse(j, cause) # {}
    BY <2>3 DEF ParseResponse, Passes
  <2>5. call.want = "pair" => ParsePair(i) # {}
    BY <2>2, <2>4 DEF ParsePair
  <2>6. call.want = "sql" => ParseSql(i) # {}
    BY <2>2, <2>3, <2>4 DEF ParseSql, Undecodable
  <2>7. ParseRow(i) # {}
    BY <2>3 DEF ParseRow, Undecodable
  <2> QED BY <1>1, <2>1, <2>4, <2>5, <2>6, <2>7 DEF Wants
<1> QED BY <1>6, <1>7

\* The client never blocks on a read when nothing is left to come, whatever was
\* refused before (read_with behind every call).
THEOREM NoReadHangs == Spec => []WaitsOnlyForOwed
BY WireInvariant, IncompleteMeansOwed, PTL

\* Without one of the five known causes, every response is taken for the request it
\* answers, and every read starts at the first byte of a response.
THEOREM EveryAnswerIsOwn == Spec => []AnswersOwn
<1>1. WireInv => AnswersOwn
  BY DEF WireInv, AnswersOwn
<1> QED BY <1>1, WireInvariant, PTL

\* Between calls the client owes the stream exactly the responses that
\* free_statement left, and knows how many they are.
THEOREM OnlyLazyIsOwed == Spec => []IdleOwesOnlyLazy
<1>1. ASSUME WireInv PROVE IdleOwesOnlyLazy
  <2>1. TypeOK
    BY <1>1 DEF WireInv
  <2>2. ASSUME Idle, skewed = "none"
        PROVE  Len(stream) = lazy_count /\ \A i \in DOMAIN stream : stream[i].whose = "lazy"
    <3>1. InStep(stream, lazy_count, "none")
      BY <1>1, <2>1, <2>2, CallWants DEF WireInv, Idle, TypeOK
    <3>2. Len(stream) = lazy_count
      BY <2>1, <3>1, Counts DEF InStep, Answered
    <3>3. DOMAIN stream = 1 .. lazy_count
      BY <2>1, <3>2, LenProperties DEF TypeOK
    <3> QED BY <3>1, <3>2, <3>3 DEF InStep
  <2> QED BY <2>1, <2>2 DEF IdleOwesOnlyLazy
<1> QED BY <1>1, WireInvariant, PTL


============================================================================
