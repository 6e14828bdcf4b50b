------------------------- MODULE FetchBatchEvents_proofs -------------------------
(***************************************************************************)
(* Proofs about the two parts of the wire client that sit on its calls,    *)
(* and share no state: FetchBatch, where nothing is lost between the       *)
(* batches without a failure being reported and reading in batches         *)
(* implements reading the cursor, for any number of rows, size of a batch, *)
(* set of rows with blobs and limit on empty batches; and Events, for      *)
(* every number of ids, registrations and posts its assumptions allow.     *)
(***************************************************************************)
EXTENDS FetchBatch, Events, SequenceTheorems, TLAPS

(***************************************************************************)
(* FetchBatch                                                              *)
(***************************************************************************)

(***************************************************************************)
(* The inductive invariant.  What NothingLostQuietly says of the rows is   *)
(* not enough: after a failure rows may be missing, yet the next one must  *)
(* still be newer than all those delivered; and the end of the cursor is   *)
(* reported by a flag set one or several fetches before.                   *)
(***************************************************************************)

\* The rows of s are of the execution running, in order, and the server has sent p.
InOrder(s, p) ==
  \A i \in 1 .. Len(s) : /\ s[i].run = run
                         /\ s[i].n \in 1 .. p
                         /\ \A j \in 1 .. i - 1 : s[j].n < s[i].n

\* They are all the rows the server has sent.
Whole(s, p) == Len(s) = p /\ \A i \in 1 .. p : s[i] = Row(i)

\* What is delivered and what waits, while the cursor is open.
OpenInv ==
  /\ InOrder(given \o prefetched, pos)
  /\ ~failed => Whole(given \o prefetched, pos)
  /\ cursor_eof => pos = Rows
  /\ last = "end" => prefetched = <<>> /\ cursor_eof

FetchInv ==
  /\ TypeOK
  /\ Fetching => cursor = "open"
  /\ cursor = "open" => OpenInv

---------------------------------------------------------------------------
(***************************************************************************)
(* Sequences of rows                                                       *)
(***************************************************************************)

\* The constants are numbers, and Idle is no count of batches.
LEMMA Sizes == /\ Rows \in Nat /\ Batch \in Nat /\ Batch > 0 /\ MaxEmpty \in Nat
               /\ Idle \notin 0 .. MaxEmpty
BY SizesAssumption DEF Idle

\* Sent(a, b) has the rows a .. b - 1.
LEMMA SentRows ==
  ASSUME run \in {0, 1}, NEW a \in 1 .. Rows + 1, NEW b \in a .. Rows + 1
  PROVE  /\ Sent(a, b) \in Seq(AllRows)
         /\ Len(Sent(a, b)) = b - a
         /\ \A i \in 1 .. b - a : Sent(a, b)[i] = Row(a + i - 1)
<1>1. b - a \in Nat /\ Rows \in Nat
  BY Sizes
<1>2. \A i \in 1 .. b - a : Row(a + i - 1) \in AllRows
  BY <1>1 DEF Row, AllRows
<1>3. Sent(a, b) \in [1 .. b - a -> AllRows]
  BY <1>2 DEF Sent
<1> QED BY <1>1, <1>3 DEF Sent

\* A sequence that is whole is what was sent.
LEMMA WholeIsSent ==
  ASSUME run \in {0, 1}, NEW s \in Seq(AllRows), NEW p \in 0 .. Rows, Whole(s, p)
  PROVE  s = Sent(1, p + 1)
<1>1. p \in Nat /\ Rows \in Nat /\ p + 1 \in 1 .. Rows + 1 /\ 1 \in 1 .. Rows + 1 /\ (p + 1) - 1 = p
  BY Sizes
<1>2. /\ Sent(1, p + 1) \in Seq(AllRows)
      /\ Len(Sent(1, p + 1)) = p
      /\ \A i \in 1 .. p : Sent(1, p + 1)[i] = Row(1 + i - 1)
  BY <1>1, SentRows
<1>3. Len(s) = p /\ \A i \in 1 .. p : s[i] = Row(i) /\ 1 + i - 1 = i
  BY <1>1 DEF Whole
<1> QED BY <1>2, <1>3, SeqEqual

\* The rows of a batch, up to one that cannot be read, go behind those there are.
LEMMA Grown ==
  ASSUME run \in {0, 1}, NEW g \in Seq(AllRows), NEW p \in 0 .. Rows, InOrder(g, p),
         NEW m \in p + 1 .. Rows + 1, NEW q \in m - 1 .. Rows
  PROVE  /\ Sent(p + 1, m) \in Seq(AllRows)
         /\ Len(Sent(p + 1, m)) = m - (p + 1)
         /\ InOrder(g \o Sent(p + 1, m), q)
         /\ Whole(g, p) => Whole(g \o Sent(p + 1, m), m - 1)
<1>1. p \in Nat /\ Rows \in Nat /\ p + 1 \in 1 .. Rows + 1 /\ m \in Nat /\ q \in Nat /\ p =< q
  BY Sizes
<1>2. /\ Sent(p + 1, m) \in Seq(AllRows)
      /\ Len(Sent(p + 1, m)) = m - (p + 1)
      /\ \A i \in 1 .. m - (p + 1) : Sent(p + 1, m)[i] = Row(p + 1 + i - 1)
  BY <1>1, SentRows
<1> DEFINE t == Sent(p + 1, m)
<1> DEFINE s == g \o t
<1>3. /\ s \in Seq(AllRows) /\ Len(g) \in Nat
      /\ Len(s) = Len(g) + (m - (p + 1))
      /\ \A i \in 1 .. Len(g) : s[i] = g[i]
      /\ \A i \in Len(g) + 1 .. Len(s) : s[i] = Row(p + (i - Len(g)))
  <2>1. Len(g) \in Nat
    BY LenProperties
  <2>2. /\ s \in Seq(AllRows) /\ Len(s) = Len(g) + Len(t)
        /\ \A i \in 1 .. Len(g) + Len(t) : s[i] = IF i <= Len(g) THEN g[i] ELSE t[i - Len(g)]
    BY <1>2, ConcatProperties
  <2>3. ASSUME NEW i \in Len(g) + 1 .. Len(s) PROVE s[i] = Row(p + (i - Len(g)))
    <3>1. i - Len(g) \in 1 .. m - (p + 1) /\ ~(i <= Len(g)) /\ i \in 1 .. Len(g) + Len(t)
      BY <1>1, <1>2, <2>1, <2>2
    <3>2. t[i - Len(g)] = Row(p + 1 + (i - Len(g)) - 1)
      BY <1>2, <3>1
    <3>3. p + 1 + (i - Len(g)) - 1 = p + (i - Len(g))
      BY <1>1, <2>1
    <3> QED BY <2>2, <3>1, <3>2, <3>3
  <2>4. ASSUME NEW i \in 1 .. Len(g) PROVE s[i] = g[i]
    <3>1. Len(t) \in Nat /\ i \in 1 .. Len(g) + Len(t) /\ i <= Len(g)
      BY <1>1, <1>2, <2>1
    <3> QED BY <2>2, <3>1
  <2>5. Len(s) = Len(g) + (m - (p + 1))
    BY <1>2, <2>2
  <2> QED BY <2>1, <2>2, <2>3, <2>4, <2>5
<1> HIDE DEF s, t
<1>4. \A i \in Len(g) + 1 .. Len(s) : s[i].run = run /\ s[i].n = p + (i - Len(g))
  <2>1. \A x : Row(x).run = run /\ Row(x).n = x
    BY DEF Row
  <2> QED BY <1>3, <2>1
<1>5. InOrder(s, q)
  <2> SUFFICES ASSUME NEW i \in 1 .. Len(s)
               PROVE  /\ s[i].run = run
                      /\ s[i].n \in 1 .. q
                      /\ \A j \in 1 .. i - 1 : s[j].n < s[i].n
    BY DEF InOrder
  <2>1. CASE i \in 1 .. Len(g)
    <3>1. s[i] = g[i] /\ g[i].run = run /\ g[i].n \in 1 .. p
          /\ \A j \in 1 .. i - 1 : g[j].n < g[i].n
      BY <1>3, <2>1 DEF InOrder
    <3>2. ASSUME NEW j \in 1 .. i - 1 PROVE s[j].n < s[i].n
      <4>1. j \in 1 .. Len(g)
        BY <1>3, <2>1
      <4>2. s[j] = g[j]
        BY <1>3, <4>1
      <4> QED BY <3>1, <4>2
    <3> QED BY <1>1, <3>1, <3>2
  <2>2. CASE i \in Len(g) + 1 .. Len(s)
    <3>1. s[i].run = run /\ s[i].n = p + (i - Len(g))
      BY <1>4, <2>2
    <3>2. ASSUME NEW j \in 1 .. i - 1 PROVE s[j].n < s[i].n
      <4>1. CASE j \in 1 .. Len(g)
        BY <1>1, <1>3, <2>2, <3>1, <4>1 DEF InOrder
      <4>2. CASE j \in Len(g) + 1 .. Len(s)
        <5>1. s[j].n = p + (j - Len(g))
          BY <1>4, <4>2
        <5> QED BY <1>1, <1>3, <2>2, <3>1, <4>2, <5>1
      <4> QED BY <1>1, <1>3, <2>2, <4>1, <4>2
    <3> QED BY <1>1, <1>3, <2>2, <3>1, <3>2
  <2> QED BY <1>1, <1>3, <2>1, <2>2
<1>6. Whole(g, p) => Whole(s, m - 1)
  <2> SUFFICES ASSUME Whole(g, p) PROVE Whole(s, m - 1)
    OBVIOUS
  <2>1. Len(g) = p /\ Len(s) = m - 1
    BY <1>1, <1>3 DEF Whole
  <2>2. ASSUME NEW i \in 1 .. m - 1 PROVE s[i] = Row(i)
    <3>1. CASE i \in 1 .. p
      BY <1>3, <2>1, <3>1 DEF Whole
    <3>2. CASE i \in p + 1 .. m - 1
      <4>1. s[i] = Row(p + (i - p)) /\ p + (i - p) = i
        BY <1>1, <1>3, <2>1, <3>2
      <4> QED BY <4>1
    <3> QED BY <1>1, <3>1, <3>2
  <2> QED BY <2>1, <2>2 DEF Whole
<1> QED BY <1>2, <1>5, <1>6 DEF s, t

\* Delivering a row moves it from what waits to what is delivered.
LEMMA Moved ==
  ASSUME NEW S, NEW g \in Seq(S), NEW w \in Seq(S), w # <<>>
  PROVE  /\ Append(g, Head(w)) \in Seq(S)
         /\ Tail(w) \in Seq(S)
         /\ Len(Tail(w)) = Len(w) - 1
         /\ Append(g, Head(w)) \o Tail(w) = g \o w
         /\ Len(g) + 1 \in 1 .. Len(g \o w)
         /\ Head(w) = (g \o w)[Len(g) + 1]
         /\ \A i \in 1 .. Len(g) : i \in 1 .. Len(g) + 1 /\ (g \o w)[i] = g[i]
<1>1. /\ Head(w) \in S /\ Tail(w) \in Seq(S) /\ Len(Tail(w)) = Len(w) - 1
      /\ \A i \in 1 .. Len(Tail(w)) : Tail(w)[i] = w[i + 1]
      /\ Head(w) = w[1]
  BY HeadTailProperties
<1>2. Len(g) \in Nat /\ Len(w) \in Nat /\ Len(w) > 0
  BY LenProperties, EmptySeq
<1>3. /\ Append(g, Head(w)) \in Seq(S)
      /\ Len(Append(g, Head(w))) = Len(g) + 1
      /\ Append(g, Head(w))[Len(g) + 1] = Head(w)
      /\ \A i \in 1 .. Len(g) : Append(g, Head(w))[i] = g[i]
  BY <1>1, AppendProperties
<1>4. /\ g \o w \in Seq(S) /\ Len(g \o w) = Len(g) + Len(w)
      /\ \A i \in 1 .. Len(g) + Len(w) : (g \o w)[i] = IF i <= Len(g) THEN g[i] ELSE w[i - Len(g)]
  BY ConcatProperties
<1> DEFINE a == Append(g, Head(w))
<1> DEFINE t == Tail(w)
<1>5. /\ a \o t \in Seq(S) /\ Len(a \o t) = Len(a) + Len(t)
      /\ \A i \in 1 .. Len(a) + Len(t) : (a \o t)[i] = IF i <= Len(a) THEN a[i] ELSE t[i - Len(a)]
  BY <1>1, <1>3, ConcatProperties
<1>6. Len(a) = Len(g) + 1 /\ Len(t) = Len(w) - 1 /\ Len(a \o t) = Len(g \o w)
  BY <1>1, <1>2, <1>3, <1>4, <1>5
<1>7. ASSUME NEW i \in 1 .. Len(a \o t) PROVE (a \o t)[i] = (g \o w)[i]
  <2>1. CASE i <= Len(g)
    BY <1>2, <1>3, <1>4, <1>5, <1>6, <2>1
  <2>2. CASE i = Len(g) + 1
    BY <1>1, <1>2, <1>3, <1>4, <1>5, <1>6, <2>2
  <2>3. CASE i > Len(g) + 1
    <3>1. t[i - Len(a)] = w[(i - Len(a)) + 1] /\ (i - Len(a)) + 1 = i - Len(g)
      BY <1>1, <1>2, <1>6, <1>4, <2>3
    <3> QED BY <1>2, <1>4, <1>5, <1>6, <2>3, <3>1
  <2> QED BY <1>2, <2>1, <2>2, <2>3
<1>8. a \o t = g \o w
  BY <1>4, <1>5, <1>6, <1>7, SeqEqual
<1>9. Head(w) = (g \o w)[Len(g) + 1]
  BY <1>1, <1>2, <1>4
<1> QED BY <1>1, <1>2, <1>3, <1>4, <1>8, <1>9

\* The numbers of rows, as Cursor sees them.
Numbers(g) == [i \in DOMAIN g |-> g[i].n]

\* They are as many as the rows, each in its place.
LEMMA NumbersOfRows ==
  ASSUME NEW g \in Seq(AllRows)
  PROVE  /\ Numbers(g) \in Seq(1 .. Rows)
         /\ Len(Numbers(g)) = Len(g)
         /\ DOMAIN Numbers(g) = 1 .. Len(g)
         /\ \A i \in 1 .. Len(g) : Numbers(g)[i] = g[i].n
<1>1. Len(g) \in Nat /\ DOMAIN g = 1 .. Len(g) /\ \A i \in 1 .. Len(g) : g[i] \in AllRows
  BY LenProperties, ElementOfSeq
<1>2. \A i \in 1 .. Len(g) : g[i].n \in 1 .. Rows
  BY <1>1 DEF AllRows
<1>3. Numbers(g) = [i \in 1 .. Len(g) |-> g[i].n]
  BY <1>1 DEF Numbers
<1>4. Numbers(g) \in [1 .. Len(g) -> 1 .. Rows]
  BY <1>2, <1>3
<1> QED BY <1>1, <1>3, <1>4

\* No rows have no numbers.
LEMMA NoNumbers == Numbers(<<>>) = <<>>
<1>1. <<>> \in Seq(AllRows) /\ Len(<<>>) = 0
  BY EmptySeq
<1>2. Numbers(<<>>) \in Seq(1 .. Rows) /\ Len(Numbers(<<>>)) = 0
  BY <1>1, NumbersOfRows
<1>3. Numbers(<<>>) # <<>> => Len(Numbers(<<>>)) \in Nat \ {0}
  BY <1>2, EmptySeq
<1> QED BY <1>2, <1>3

\* One more row is one more number.
LEMMA NumbersAppended ==
  ASSUME NEW g \in Seq(AllRows), NEW r \in AllRows
  PROVE  Numbers(Append(g, r)) = Append(Numbers(g), r.n)
<1>1. r.n \in 1 .. Rows
  BY DEF AllRows
<1>2. /\ Append(g, r) \in Seq(AllRows)
      /\ Len(Append(g, r)) = Len(g) + 1
      /\ \A i \in 1 .. Len(g) : Append(g, r)[i] = g[i]
      /\ Append(g, r)[Len(g) + 1] = r
  BY AppendProperties
<1>3. /\ Numbers(g) \in Seq(1 .. Rows) /\ Len(Numbers(g)) = Len(g) /\ Len(g) \in Nat
      /\ \A i \in 1 .. Len(g) : Numbers(g)[i] = g[i].n
  BY NumbersOfRows, LenProperties
<1>4. /\ Append(Numbers(g), r.n) \in Seq(1 .. Rows)
      /\ Len(Append(Numbers(g), r.n)) = Len(g) + 1
      /\ \A i \in 1 .. Len(g) : Append(Numbers(g), r.n)[i] = g[i].n
      /\ Append(Numbers(g), r.n)[Len(g) + 1] = r.n
  BY <1>1, <1>3, AppendProperties
<1>5. /\ Numbers(Append(g, r)) \in Seq(1 .. Rows)
      /\ Len(Numbers(Append(g, r))) = Len(g) + 1
      /\ \A i \in 1 .. Len(g) + 1 : Numbers(Append(g, r))[i] = Append(g, r)[i].n
  BY <1>2, NumbersOfRows
<1>6. \A i \in 1 .. Len(g) + 1 : Numbers(Append(g, r))[i] = Append(Numbers(g), r.n)[i]
  BY <1>2, <1>3, <1>4, <1>5
<1> QED BY <1>4, <1>5, <1>6, SeqEqual

---------------------------------------------------------------------------
(***************************************************************************)
(* The actions                                                             *)
(***************************************************************************)

CursorStep == [Promise!Next]_<<Numbers(given), failed, last = "end">>

\* A step that delivers nothing and reports nothing.
LEMMA Silent ==
  ASSUME UNCHANGED <<given, failed, last>>
  PROVE  CursorStep
BY DEF CursorStep

\* A new execution starts with nothing of the one before it.
LEMMA ExecuteStep == FetchInv /\ Execute => FetchInv' /\ CursorStep
<1> SUFFICES ASSUME FetchInv, Execute PROVE FetchInv' /\ CursorStep
  OBVIOUS
<1>1. /\ prefetched' = <<>> /\ given' = <<>> /\ pos' = 0 /\ cursor_eof' = FALSE
      /\ cursor' = "open" /\ run' = 1 - run /\ last' = "none" /\ failed' = FALSE
      /\ empty_batches' = empty_batches
      /\ TypeOK
  BY DEF Execute, FetchInv
<1>2. <<>> \in Seq(AllRows) /\ Len(<<>>) = 0 /\ <<>> \o <<>> = <<>>
  BY EmptySeq, ConcatEmptySeq
<1>3. TypeOK'
  <2>1. run' \in {0, 1} /\ 0 \in 0 .. Rows /\ 0 =< Batch
    BY <1>1, Sizes DEF TypeOK
  <2> QED BY <1>1, <1>2, <2>1 DEF TypeOK
<1>4. OpenInv'
  BY <1>1, <1>2 DEF OpenInv, InOrder, Whole
<1>5. CursorStep
  <2>1. Numbers(given)' = <<>>
    BY <1>1, NoNumbers
  <2>2. Promise!Reopen
    BY <1>1, <2>1 DEF Promise!Reopen, Numbers
  <2> QED BY <2>2 DEF CursorStep, Promise!Next
<1> QED BY <1>1, <1>3, <1>4, <1>5 DEF FetchInv

\* An execution that is refused, a cursor that is closed and a fetch that begins
\* leave what the reader has.
LEMMA QuietStep ==
  FetchInv /\ (ExecuteFails \/ CloseCursor \/ FetchBegin) => FetchInv' /\ CursorStep
<1> SUFFICES ASSUME FetchInv, ExecuteFails \/ CloseCursor \/ FetchBegin PROVE FetchInv' /\ CursorStep
  OBVIOUS
<1>1. CASE ExecuteFails
  <2>1. <<>> \in Seq(AllRows) /\ Len(<<>>) = 0
    BY EmptySeq
  <2>2. Len(<<>>) =< Batch
    BY <2>1, Sizes
  <2>3. TypeOK'
    BY <1>1, <2>1, <2>2 DEF ExecuteFails, FetchInv, TypeOK
  <2>4. cursor' = "none" /\ (Fetching' => cursor' = "open")
    BY <1>1 DEF ExecuteFails, FetchInv, Fetching
  <2> QED BY <1>1, <2>3, <2>4, Silent DEF ExecuteFails, FetchInv
<1>2. CASE CloseCursor
  BY <1>2, Silent DEF CloseCursor, FetchInv, TypeOK, Fetching
<1>3. CASE FetchBegin
  <2>1. TypeOK' /\ cursor = "open" /\ cursor' = "open"
    BY <1>3, Sizes DEF FetchBegin, FetchInv, TypeOK
  <2>2. OpenInv'
    BY <1>3, <2>1 DEF FetchBegin, FetchInv, OpenInv, InOrder, Whole, Row
  <2> QED BY <1>3, <2>1, <2>2, Silent DEF FetchBegin, FetchInv
<1> QED BY <1>1, <1>2, <1>3

\* A row is delivered, or the end that was seen with the last one.
LEMMA FetchDoneStep == FetchInv /\ FetchDone => FetchInv' /\ CursorStep
<1> SUFFICES ASSUME FetchInv, FetchDone PROVE FetchInv' /\ CursorStep
  OBVIOUS
<1>1. /\ TypeOK /\ cursor = "open" /\ OpenInv /\ ~NeedsBatch
      /\ UNCHANGED <<cursor_eof, cursor, run, pos>>
      /\ given \in Seq(AllRows) /\ prefetched \in Seq(AllRows)
  BY DEF FetchDone, FetchInv, TypeOK
<1>2. CASE prefetched = <<>>
  <2>1. Return("end") /\ UNCHANGED <<prefetched, given>> /\ cursor_eof
    BY <1>1, <1>2 DEF FetchDone, NeedsBatch
  <2>2. TypeOK' /\ (Fetching' => cursor' = "open") /\ failed' = failed
    BY <1>1, <2>1 DEF TypeOK, Return, Fetching
  <2>3. OpenInv'
    BY <1>1, <1>2, <2>1, <2>2 DEF OpenInv, InOrder, Whole, Row
  <2>4. failed \/ Len(Numbers(given)) = Rows
    <3>1. given \o prefetched = given
      BY <1>1, <1>2, ConcatEmptySeq
    <3> QED BY <1>1, <2>1, <3>1, NumbersOfRows DEF OpenInv, Whole
  <2>5. Promise!End
    BY <2>1, <2>2, <2>4 DEF Promise!End, Return, Numbers
  <2> QED BY <1>1, <2>2, <2>3, <2>5 DEF FetchInv, CursorStep, Promise!Next
<1>3. CASE prefetched # <<>>
  <2> DEFINE r == Head(prefetched)
  <2>1. /\ Return("row") /\ given' = Append(given, r) /\ prefetched' = Tail(prefetched)
        /\ last # "end" /\ failed' = failed
    <3>1. Return("row") /\ given' = Append(given, r) /\ prefetched' = Tail(prefetched)
      BY <1>3 DEF FetchDone
    <3>2. last # "end"
      BY <1>1, <1>3 DEF OpenInv
    <3>3. failed' = failed
      BY <1>1, <3>1 DEF Return, TypeOK
    <3> QED BY <3>1, <3>2, <3>3
  <2>2. /\ given' \in Seq(AllRows) /\ prefetched' \in Seq(AllRows)
        /\ Len(prefetched') = Len(prefetched) - 1
        /\ given' \o prefetched' = given \o prefetched
        /\ Len(given) + 1 \in 1 .. Len(given \o prefetched)
        /\ r = (given \o prefetched)[Len(given) + 1]
        /\ \A i \in 1 .. Len(given) : i \in 1 .. Len(given) + 1 /\ (given \o prefetched)[i] = given[i]
    BY <1>1, <1>3, <2>1, Moved
  <2>3. r \in AllRows /\ Len(prefetched) \in Nat /\ Len(given) \in Nat
    BY <1>1, <1>3, HeadTailProperties, LenProperties
  <2> HIDE DEF r
  <2>4. TypeOK' /\ (Fetching' => cursor' = "open")
    BY <1>1, <2>1, <2>2, <2>3, Sizes DEF TypeOK, Return, Fetching
  <2>5. OpenInv'
    BY <1>1, <2>1, <2>2 DEF OpenInv, InOrder, Whole, Row, Return
  <2>6. /\ r.n \in 1 .. Rows
        /\ failed \/ r.n = Len(given) + 1
        /\ \A i \in 1 .. Len(given) : given[i].n < r.n
    <3>1. r.n \in 1 .. Rows
      BY <2>3 DEF AllRows
    <3>2. failed \/ r.n = Len(given) + 1
      <4>1. ~failed => r = Row(Len(given) + 1)
        BY <1>1, <2>2, <2>3 DEF OpenInv, Whole
      <4> QED BY <4>1 DEF Row
    <3>3. ASSUME NEW i \in 1 .. Len(given) PROVE given[i].n < r.n
      <4>1. i \in 1 .. (Len(given) + 1) - 1
        BY <2>3
      <4>2. (given \o prefetched)[i].n < (given \o prefetched)[Len(given) + 1].n
        BY <1>1, <2>2, <4>1 DEF OpenInv, InOrder
      <4> QED BY <2>2, <4>2
    <3> QED BY <3>1, <3>2, <3>3
  <2>7. Promise!Deliver
    <3>1. Numbers(given') = Append(Numbers(given), r.n)
      BY <1>1, <2>1, <2>3, NumbersAppended
    <3>2. /\ Len(Numbers(given)) = Len(given)
          /\ \A i \in DOMAIN Numbers(given) : Numbers(given)[i] < r.n
      BY <1>1, <2>6, NumbersOfRows
    <3>3. (last = "end")' = (last = "end")
      BY <2>1 DEF Return
    <3>4. \E x \in 1 .. Rows : /\ failed \/ x = Len(Numbers(given)) + 1
                               /\ \A i \in DOMAIN Numbers(given) : Numbers(given)[i] < x
                               /\ Numbers(given') = Append(Numbers(given), x)
      BY <2>6, <3>1, <3>2
    <3> QED BY <2>1, <3>3, <3>4 DEF Promise!Deliver, Numbers
  <2> QED BY <1>1, <2>4, <2>5, <2>7 DEF FetchInv, CursorStep, Promise!Next
<1> QED BY <1>2, <1>3

\* A batch of k rows is sent, and those before m are kept.
LEMMA BatchKept ==
  ASSUME FetchInv, Fetching, NeedsBatch, NEW k \in 0 .. Batch, pos + k =< Rows, pos' = pos + k,
         NEW m \in pos + 1 .. pos + k + 1, prefetched' = prefetched \o Sent(pos + 1, m),
         UNCHANGED <<run, given>>
  PROVE  /\ prefetched' \in Seq(AllRows) /\ Len(prefetched') =< Batch
         /\ pos' \in 0 .. Rows
         /\ InOrder(given \o prefetched, pos)'
         /\ ~failed /\ m = pos + k + 1 => Whole(given \o prefetched, pos)'
<1>1. /\ TypeOK /\ OpenInv /\ prefetched = <<>> /\ given \in Seq(AllRows)
      /\ pos \in 0 .. Rows /\ run \in {0, 1} /\ Rows \in Nat /\ Batch \in Nat
  BY Sizes DEF FetchInv, TypeOK, NeedsBatch
<1>2. m \in pos + 1 .. Rows + 1 /\ pos + k \in m - 1 .. Rows /\ m - (pos + 1) =< Batch
  BY <1>1
<1>3. given \o prefetched = given
  BY <1>1, ConcatEmptySeq
<1>4. InOrder(given, pos) /\ (~failed => Whole(given, pos))
  BY <1>1, <1>3 DEF OpenInv
<1>5. /\ Sent(pos + 1, m) \in Seq(AllRows)
      /\ Len(Sent(pos + 1, m)) = m - (pos + 1)
      /\ InOrder(given \o Sent(pos + 1, m), pos + k)
      /\ Whole(given, pos) => Whole(given \o Sent(pos + 1, m), m - 1)
  BY <1>1, <1>2, <1>4, Grown
<1>6. prefetched' = Sent(pos + 1, m)
  BY <1>1, <1>5, ConcatEmptySeq
<1>7. m = pos + k + 1 => m - 1 = pos + k
  BY <1>1
<1>8. InOrder(given \o prefetched, pos)'
  BY <1>5, <1>6 DEF InOrder
<1>9. ~failed /\ m = pos + k + 1 => Whole(given \o prefetched, pos)'
  BY <1>4, <1>5, <1>6, <1>7 DEF Whole, Row
<1> QED BY <1>1, <1>2, <1>5, <1>6, <1>8, <1>9

\* A batch is read; rows are missing only after the failure that is reported.
LEMMA BatchStep ==
  FetchInv /\ (FetchBatchRead \/ FetchBatchBlobFails \/ FetchBatchFails) => FetchInv' /\ CursorStep
<1> SUFFICES ASSUME FetchInv, FetchBatchRead \/ FetchBatchBlobFails \/ FetchBatchFails
             PROVE  FetchInv' /\ CursorStep
  OBVIOUS
<1>1. /\ Fetching /\ NeedsBatch /\ prefetched = <<>> /\ ~cursor_eof /\ cursor = "open"
      /\ TypeOK /\ OpenInv /\ last # "end"
      /\ UNCHANGED <<cursor, run, given>>
  BY DEF FetchBatchRead, FetchBatchBlobFails, FetchBatchFails, FetchInv, OpenInv, NeedsBatch
<1>2. SUFFICES /\ prefetched' \in Seq(AllRows) /\ Len(prefetched') =< Batch
               /\ pos' \in 0 .. Rows
               /\ InOrder(given \o prefetched, pos)'
               /\ ~failed' => Whole(given \o prefetched, pos)'
               /\ cursor_eof' \in BOOLEAN
               /\ cursor_eof' => pos' = Rows
               /\ \/ Return("error")
                  \/ empty_batches' = empty_batches + 1 /\ ~(empty_batches + 1 > MaxEmpty)
                     /\ UNCHANGED <<last, failed>>
  <2>1. /\ last' \in {"none", "row", "end", "error"} /\ last' # "end"
        /\ empty_batches' \in 0 .. MaxEmpty \cup {Idle} /\ failed' \in BOOLEAN
    <3>1. CASE Return("error")
      BY <3>1 DEF Return
    <3>2. CASE empty_batches' = empty_batches + 1 /\ ~(empty_batches + 1 > MaxEmpty)
               /\ UNCHANGED <<last, failed>>
      <4>1. empty_batches \in 0 .. MaxEmpty
        BY <1>1 DEF TypeOK, Fetching
      <4> QED BY <1>1, <3>2, <4>1, Sizes DEF TypeOK
    <3> QED BY <1>2, <3>1, <3>2
  <2>2. TypeOK'
    BY <1>1, <1>2, <2>1 DEF TypeOK
  <2>3. OpenInv'
    BY <1>2, <2>1 DEF OpenInv
  <2>4. CursorStep
    <3>1. CASE Return("error")
      <4>1. given' = given /\ failed' = TRUE /\ (last' = "end") = (last = "end")
        BY <1>1, <3>1 DEF Return
      <4>2. Promise!Fail
        BY <4>1 DEF Promise!Fail
      <4> QED BY <4>2 DEF CursorStep, Promise!Next
    <3>2. CASE UNCHANGED <<last, failed>>
      BY <1>1, <3>2, Silent
    <3> QED BY <1>2, <3>1, <3>2
  <2> QED BY <1>1, <2>2, <2>3, <2>4 DEF FetchInv
<1>3. pos \in 0 .. Rows /\ Rows \in Nat /\ Batch \in Nat
  BY <1>1, Sizes DEF TypeOK
<1>4. CASE FetchBatchRead
  <2>1. PICK k \in 0 .. Batch : /\ pos + k =< Rows /\ Terminated(k) /\ pos' = pos + k
                                /\ prefetched' = prefetched \o Sent(pos + 1, pos + k + 1)
    BY <1>4 DEF FetchBatchRead
  <2>2. pos + k + 1 \in pos + 1 .. pos + k + 1
    BY <1>3
  <2>3. /\ prefetched' \in Seq(AllRows) /\ Len(prefetched') =< Batch
        /\ pos' \in 0 .. Rows
        /\ InOrder(given \o prefetched, pos)'
        /\ ~failed => Whole(given \o prefetched, pos)'
    BY <1>1, <2>1, <2>2, BatchKept
  <2>4. cursor_eof' \in BOOLEAN /\ (cursor_eof' => pos' = Rows)
    BY <2>1 DEF Terminated
  <2>5. \/ Return("error")
        \/ empty_batches' = empty_batches + 1 /\ ~(empty_batches + 1 > MaxEmpty)
           /\ UNCHANGED <<last, failed>>
    BY <1>4 DEF FetchBatchRead, Count
  <2>6. failed => failed'
    BY <2>5 DEF Return
  <2> QED BY <2>3, <2>4, <2>5, <2>6
<1>5. CASE FetchBatchBlobFails
  <2>1. PICK k \in 1 .. Batch : /\ pos + k =< Rows /\ Terminated(k) /\ pos' = pos + k
                                /\ \E n \in BlobRows : /\ n \in pos + 1 .. pos + k
                                                       /\ prefetched' = prefetched \o Sent(pos + 1, n)
    BY <1>5 DEF FetchBatchBlobFails
  <2>2. PICK n \in BlobRows : n \in pos + 1 .. pos + k /\ prefetched' = prefetched \o Sent(pos + 1, n)
    BY <2>1
  <2>3. k \in 0 .. Batch /\ n \in pos + 1 .. pos + k + 1
    BY <1>3, <2>2
  <2>4. /\ prefetched' \in Seq(AllRows) /\ Len(prefetched') =< Batch
        /\ pos' \in 0 .. Rows
        /\ InOrder(given \o prefetched, pos)'
    BY <1>1, <2>1, <2>2, <2>3, BatchKept
  <2>5. cursor_eof' \in BOOLEAN /\ (cursor_eof' => pos' = Rows)
    BY <2>1 DEF Terminated
  <2>6. Return("error") /\ failed'
    BY <1>5 DEF FetchBatchBlobFails, Return
  <2> QED BY <2>4, <2>5, <2>6
<1>6. CASE FetchBatchFails
  <2>1. PICK k \in 0 .. Batch : pos + k =< Rows /\ pos' = pos + k
    BY <1>6 DEF FetchBatchFails
  <2>2. Return("error") /\ failed' /\ UNCHANGED <<prefetched, cursor_eof>>
    BY <1>6 DEF FetchBatchFails, Return
  <2>3. pos' \in 0 .. Rows /\ pos =< pos' /\ InOrder(given \o prefetched, pos)'
    BY <1>1, <1>3, <2>1, <2>2 DEF OpenInv, InOrder
  <2> QED BY <1>1, <2>2, <2>3 DEF TypeOK
<1> QED BY <1>4, <1>5, <1>6

---------------------------------------------------------------------------
(***************************************************************************)
(* The theorems                                                            *)
(***************************************************************************)

\* Before the first execution there is no cursor and no row.
LEMMA FetchInit == Init => FetchInv /\ Promise!Init
<1> SUFFICES ASSUME Init PROVE FetchInv /\ Promise!Init
  OBVIOUS
<1>1. <<>> \in Seq(AllRows) /\ Len(<<>>) = 0
  BY EmptySeq
<1>2. FetchInv
  <2>1. 0 \in 0 .. Rows /\ Len(<<>>) =< Batch
    BY <1>1, Sizes
  <2>2. TypeOK
    BY <1>1, <2>1 DEF Init, TypeOK
  <2> QED BY <2>2 DEF Init, FetchInv, Fetching
<1>3. Numbers(given) = <<>>
  BY NoNumbers DEF Init
<1>4. Promise!Init
  BY <1>3 DEF Init, Promise!Init, Numbers
<1> QED BY <1>2, <1>4

\* Every step keeps the invariant and is a step of Cursor, or changes nothing there.
LEMMA FetchNext == FetchInv /\ [Next]_vars => FetchInv' /\ CursorStep
<1> SUFFICES ASSUME FetchInv, [Next]_vars PROVE FetchInv' /\ CursorStep
  OBVIOUS
<1>1. CASE UNCHANGED vars
  <2>1. TypeOK'
    BY <1>1 DEF vars, FetchInv, TypeOK
  <2>2. OpenInv => OpenInv'
    BY <1>1 DEF vars, OpenInv, InOrder, Whole, Row
  <2> QED BY <1>1, <2>1, <2>2, Silent DEF vars, FetchInv, Fetching
<1>2. CASE Execute
  BY <1>2, ExecuteStep
<1>3. CASE ExecuteFails \/ CloseCursor \/ FetchBegin
  BY <1>3, QuietStep
<1>4. CASE FetchDone
  BY <1>4, FetchDoneStep
<1>5. CASE FetchBatchRead \/ FetchBatchBlobFails \/ FetchBatchFails
  BY <1>5, BatchStep
<1> QED BY <1>1, <1>2, <1>3, <1>4, <1>5 DEF Next, FetchStep

\* In every reachable state the rows of an open cursor are in order, and the end is
\* known only with the last of them.
THEOREM FetchInvariant == Spec => []FetchInv
<1>1. Init => FetchInv
  BY FetchInit
<1>2. FetchInv /\ [Next]_vars => FetchInv'
  BY FetchNext
<1> QED BY <1>1, <1>2, PTL DEF Spec

\* While no failure was reported, the rows delivered and those waiting are the rows
\* the server has sent, and no more than a batch of them waits.
THEOREM NothingIsLostQuietly == Spec => []NothingLostQuietly
<1>1. FetchInv => NothingLostQuietly
  <2> SUFFICES ASSUME FetchInv, cursor = "open", ~failed PROVE given \o prefetched = Sent(1, pos + 1)
    BY DEF FetchInv, NothingLostQuietly
  <2>1. TypeOK /\ Whole(given \o prefetched, pos)
    BY DEF FetchInv, OpenInv
  <2>2. given \o prefetched \in Seq(AllRows)
    BY <2>1, ConcatProperties DEF TypeOK
  <2> QED BY <2>1, <2>2, WholeIsSent DEF TypeOK
<1> QED BY <1>1, FetchInvariant, PTL

\* Batches, short, empty, exact or failed, are a cursor read row by row.
THEOREM FetchIsCursor == Spec => ImplementsCursor
<1>1. Init => Promise!Init
  BY FetchInit
<1>2. FetchInv /\ [Next]_vars
        => [Promise!Next]_<<[i \in DOMAIN given |-> given[i].n], failed, last = "end">>
  BY FetchNext DEF CursorStep, Numbers
<1> QED BY <1>1, <1>2, FetchInvariant, PTL DEF Spec, ImplementsCursor, Promise!Spec

(***************************************************************************)
(* Events                                                                  *)
(***************************************************************************)

(***************************************************************************)
(* The inductive invariant                                                 *)
(***************************************************************************)

Reading == pc \in {"sync", "event"}

\* What is in the channel or registered with the server.
Live == ToSet(wire) \cup registered

\* A wait that has begun has room for the registrations it will still make, and
\* reads for one it has made.
Budget ==
  /\ pc \in {"open", "synchronize"} => made + 2 =< MaxRegistrations
  /\ pc \in {"sync", "register"} => made + 1 =< MaxRegistrations
  /\ Reading => waited.no # 0

\* The id n steps behind id s, zero skipped.
Shift(s, n) == IF s + n =< MaxId THEN s + n ELSE s + n - MaxId

\* Ids are given out in turn, beginning with s.
NumberedFrom(s) ==
  /\ next_event_id = Shift(s, made)
  /\ \A n \in Live : n.no \in 1 .. made /\ n.id = Shift(s, n.no - 1)
  /\ Reading => waited.no \in 1 .. made /\ waited.id = Shift(s, waited.no - 1)

Numbered == \E s \in 1 .. MaxId : NumberedFrom(s)

\* A registration is answered once: what is registered is not in the channel, and
\* is registered once.
OneShot ==
  /\ \A r, q \in registered : r.no = q.no => r = q
  /\ \A r \in registered, n \in ToSet(wire) : r.no # n.no

\* The counters of a wait lie above the one it began with.
Counted ==
  /\ pc \in {"register", "event"} => posted > base
  /\ pc = "sync" => \A n \in ToSet(wire) : n.no = waited.no => n.count > base
  /\ pc = "event" => \A r \in registered : r.no = waited.no => r.count > base
  /\ pc = "event" => \A n \in ToSet(wire) : n.no = waited.no => counter > base

EventsInv ==
  /\ EventsTypeOK
  /\ Budget
  /\ Numbered
  /\ OneShot
  /\ NothingStaysRegistered
  /\ Counted
  /\ NoSpuriousWake

---------------------------------------------------------------------------
(***************************************************************************)
(* Lemmas about the data                                                   *)
(***************************************************************************)

\* The elements of a sequence, as it grows at its end and shrinks at its head.
LEMMA ElementsOfSequence ==
  ASSUME NEW S, NEW s \in Seq(S)
  PROVE  /\ ToSet(s) \subseteq S
         /\ \A e \in S : ToSet(Append(s, e)) = ToSet(s) \cup {e}
         /\ s # <<>> => Head(s) \in ToSet(s) /\ ToSet(Tail(s)) \subseteq ToSet(s)
<1>1. ToSet(s) = {s[k] : k \in 1 .. Len(s)}
  BY DEF ToSet
<1>2. ToSet(s) \subseteq S
  BY <1>1
<1>3. ASSUME NEW e \in S
      PROVE  ToSet(Append(s, e)) = ToSet(s) \cup {e}
  <2>1. /\ Len(Append(s, e)) = Len(s) + 1
        /\ \A k \in 1 .. Len(s) : Append(s, e)[k] = s[k]
        /\ Append(s, e)[Len(s) + 1] = e
    BY AppendProperties
  <2>2. ToSet(Append(s, e)) = {Append(s, e)[k] : k \in 1 .. Len(s) + 1}
    BY <2>1 DEF ToSet
  <2>3. Len(s) \in Nat
    BY LenProperties
  <2> QED
    BY <1>1, <2>1, <2>2, <2>3
<1>4. ASSUME s # <<>>
      PROVE  Head(s) \in ToSet(s) /\ ToSet(Tail(s)) \subseteq ToSet(s)
  <2>1. /\ Len(s) \in Nat \ {0}
        /\ Head(s) = s[1]
        /\ Tail(s) \in Seq(S)
        /\ Len(Tail(s)) = Len(s) - 1
        /\ \A k \in 1 .. Len(s) - 1 : Tail(s)[k] = s[k + 1]
    BY <1>4
  <2>2. DOMAIN Tail(s) = 1 .. Len(s) - 1
    BY <2>1, LenProperties
  <2>3. ToSet(Tail(s)) = {Tail(s)[k] : k \in 1 .. Len(s) - 1}
    BY <2>2 DEF ToSet
  <2> QED
    BY <1>1, <2>1, <2>3
<1> QED
  BY <1>2, <1>3, <1>4

\* No sequence is shorter than the empty one.
LEMMA EmptyHasNoElements == ToSet(<<>>) = {}
  BY DEF ToSet

\* Within one round of the ids, different numbers have different ids.
LEMMA IdsDiffer ==
  ASSUME NEW s \in 1 .. MaxId,
         NEW m \in 1 .. MaxRegistrations, NEW n \in 1 .. MaxRegistrations,
         Shift(s, m - 1) = Shift(s, n - 1)
  PROVE  m = n
  BY IdAssumption DEF Shift

\* The id behind the n-th is the n+1-st.
LEMMA IdsFollow ==
  ASSUME NEW s \in 1 .. MaxId, NEW n \in Nat, n < MaxId
  PROVE  /\ Shift(s, n) \in 1 .. MaxId
         /\ Shift(s, n + 1) = IF Shift(s, n) = MaxId THEN 1 ELSE Shift(s, n) + 1
  BY IdAssumption DEF Shift

---------------------------------------------------------------------------
(***************************************************************************)
(* The steps preserve the parts of the invariant                           *)
(***************************************************************************)

\* Types, and room for the registrations still to be made.
LEMMA TypeStep == EventsTypeOK /\ Budget /\ EventsNext => EventsTypeOK' /\ Budget'
<1> SUFFICES ASSUME EventsTypeOK, Budget, EventsNext
             PROVE  EventsTypeOK' /\ Budget'
  OBVIOUS
<1> USE IdAssumption, PostsAssumption DEF Reading
<1>0. <<>> \in Seq(Registrations)
  OBVIOUS
<1>1. CASE Post
  BY <1>1 DEF EventsTypeOK, Budget, Post, client, history, Registrations
<1>2. CASE Notify
  <2>1. PICK r \in registered :
          /\ registered' = registered \ {r}
          /\ wire' = Append(wire, [id |-> r.id, no |-> r.no, count |-> counter + 1])
    BY <1>2 DEF Notify
  <2>2. [id |-> r.id, no |-> r.no, count |-> counter + 1] \in Registrations
    BY <2>1 DEF EventsTypeOK, Registrations
  <2>3. wire' \in Seq(Registrations)
    BY <2>1, <2>2 DEF EventsTypeOK
  <2> QED
    BY <1>2, <2>1, <2>3 DEF EventsTypeOK, Budget, Notify, client, history
<1>3. CASE ChannelDies
  BY <1>0, <1>3, ZenonT(60) DEF EventsTypeOK, Budget, ChannelDies, client, history
<1>4. CASE LinkBreaks
  BY <1>0, <1>4, ZenonT(60) DEF EventsTypeOK, Budget, LinkBreaks, client, history
<1>5. CASE WaitForEvent
  BY <1>5 DEF EventsTypeOK, Budget, WaitForEvent, server, Waiting
<1>6. CASE OpenEventChannel
  <2>1. wire' \in Seq(Registrations)
    BY <1>0, <1>6 DEF EventsTypeOK, OpenEventChannel
  <2> QED
    BY <1>6, <2>1 DEF EventsTypeOK, Budget, OpenEventChannel, history, Fail
<1>7. CASE Synchronize
  <2>1. QueEvents(0, "sync")
    BY <1>7 DEF Synchronize
  <2>2. [id |-> next_event_id, no |-> made + 1, count |-> 0] \in Registrations
    BY <1>7 DEF Synchronize, EventsTypeOK, Budget, Registrations
  <2>3. registered' \subseteq Registrations
    BY <2>1, <2>2 DEF EventsTypeOK, QueEvents
  <2>4. /\ made' \in 0 .. MaxRegistrations
        /\ next_event_id' \in 1 .. MaxId
        /\ waited' \in [id : 0 .. MaxId, no : 0 .. MaxRegistrations]
        /\ waited'.no # 0
    BY <1>7, <2>1 DEF Synchronize, EventsTypeOK, Budget, QueEvents, NewEventId
  <2> QED
    BY <1>7, <2>1, <2>3, <2>4 DEF Synchronize, EventsTypeOK, Budget, QueEvents, Fail
<1>8. CASE Register
  <2>1. QueEvents(posted, "event")
    BY <1>8 DEF Register
  <2>2. [id |-> next_event_id, no |-> made + 1, count |-> posted] \in Registrations
    BY <1>8 DEF Register, EventsTypeOK, Budget, Registrations
  <2>3. registered' \subseteq Registrations
    BY <2>1, <2>2 DEF EventsTypeOK, QueEvents
  <2>4. /\ made' \in 0 .. MaxRegistrations
        /\ next_event_id' \in 1 .. MaxId
        /\ waited' \in [id : 0 .. MaxId, no : 0 .. MaxRegistrations]
        /\ waited'.no # 0
    BY <1>8, <2>1 DEF Register, EventsTypeOK, Budget, QueEvents, NewEventId
  <2> QED
    BY <1>8, <2>1, <2>3, <2>4 DEF Register, EventsTypeOK, Budget, QueEvents, Fail
<1>9. CASE RecvStale
  BY <1>9 DEF EventsTypeOK, Budget, RecvStale, client, history
<1>10. CASE RecvEvent
  <2>1. wire' \in Seq(Registrations) /\ Head(wire) \in Registrations
    BY <1>10 DEF EventsTypeOK, RecvEvent
  <2> QED
    BY <1>10, <2>1 DEF EventsTypeOK, Budget, RecvEvent, history, Registrations
<1>11. CASE RecvFails
  <2>1. waited.no \in 1 .. MaxRegistrations
    BY <1>11 DEF EventsTypeOK, Budget, RecvFails
  <2>2. refused' \subseteq 1 .. MaxRegistrations /\ registered' \subseteq Registrations
    BY <1>11, <2>1 DEF EventsTypeOK, RecvFails
  <2> QED
    BY <1>11, <2>2 DEF EventsTypeOK, Budget, RecvFails, Fail
<1>12. CASE DetachDatabase
  BY <1>0, <1>12 DEF EventsTypeOK, Budget, DetachDatabase, ChannelClosed, history, Waiting
<1>13. CASE ListenEvent \/ ListenerWoken \/ HandlerReturns
  BY <1>13, ZenonT(60) DEF EventsTypeOK, Budget, ListenEvent, ListenerWoken, HandlerReturns, server, history
<1> QED
  BY <1>1, <1>2, <1>3, <1>4, <1>5, <1>6, <1>7, <1>8, <1>9, <1>10, <1>11, <1>12, <1>13
     DEF EventsNext, WaitStep

(***************************************************************************)
(* Most steps neither register, deliver, receive nor fail to receive: what *)
(* they have in common is all the other parts of the invariant need.       *)
(***************************************************************************)

Quiet ==
  /\ ToSet(wire') \subseteq ToSet(wire)
  /\ registered' \subseteq registered
  /\ UNCHANGED <<next_event_id, waited, made, refused>>
  /\ counter' \in Nat /\ counter' >= counter
  /\ result' = "event" => result = "event" /\ base' = base
  /\ \/ UNCHANGED <<pc, posted, base>>
     \/ pc \in {"idle", "open"} /\ pc' \in {"idle", "open", "synchronize"}

LEMMA StepsAreQuiet ==
  EventsTypeOK /\ EventsNext =>
    \/ Quiet
    \/ Notify \/ RecvEvent \/ RecvFails
    \/ pc = "synchronize" /\ QueEvents(0, "sync")
    \/ pc = "register" /\ QueEvents(posted, "event")
<1> SUFFICES ASSUME EventsTypeOK, EventsNext,
                    ~Notify, ~RecvEvent, ~RecvFails, ~Synchronize, ~Register
             PROVE  Quiet
  BY DEF Synchronize, Register
<1>0. wire \in Seq(Registrations) /\ counter \in Nat
  BY PostsAssumption DEF EventsTypeOK
<1>1. ToSet(<<>>) \subseteq ToSet(wire)
  BY EmptyHasNoElements
<1>2. wire # <<>> => ToSet(Tail(wire)) \subseteq ToSet(wire)
  BY <1>0, ElementsOfSequence
<1>3. CASE Post
  BY <1>0, <1>3 DEF Quiet, Post, client, history
<1>4. CASE ChannelDies
  BY <1>0, <1>1, <1>4 DEF Quiet, ChannelDies, client, history
<1>5. CASE LinkBreaks
  BY <1>0, <1>1, <1>5 DEF Quiet, LinkBreaks, client, history
<1>6. CASE WaitForEvent
  BY <1>0, <1>6 DEF Quiet, WaitForEvent, server, Waiting
<1>7. CASE OpenEventChannel
  BY <1>0, <1>1, <1>7 DEF Quiet, OpenEventChannel, history, Fail
<1>8. CASE RecvStale
  BY <1>0, <1>2, <1>8 DEF Quiet, RecvStale, client, history
<1>9. CASE DetachDatabase
  BY <1>0, <1>1, <1>9 DEF Quiet, DetachDatabase, ChannelClosed, history, Waiting
<1>10. CASE ListenEvent \/ ListenerWoken \/ HandlerReturns
  BY <1>0, <1>10 DEF Quiet, ListenEvent, ListenerWoken, HandlerReturns, server, history
<1> QED
  BY <1>3, <1>4, <1>5, <1>6, <1>7, <1>8, <1>9, <1>10 DEF EventsNext, WaitStep

\* What a delivery leaves in the channel and with the server.
LEMMA NotifyDelivers ==
  ASSUME EventsTypeOK, Notify
  PROVE  \E r \in registered :
           /\ r.id # 0 /\ counter >= r.count
           /\ registered' = registered \ {r}
           /\ ToSet(wire') = ToSet(wire) \cup {[id |-> r.id, no |-> r.no, count |-> counter + 1]}
<1>1. PICK r \in registered :
        /\ r.id # 0 /\ counter >= r.count
        /\ registered' = registered \ {r}
        /\ wire' = Append(wire, [id |-> r.id, no |-> r.no, count |-> counter + 1])
  BY DEF Notify
<1>2. [id |-> r.id, no |-> r.no, count |-> counter + 1] \in Registrations
  BY PostsAssumption DEF EventsTypeOK, Registrations
<1>3. wire \in Seq(Registrations)
  BY DEF EventsTypeOK
<1>4. ToSet(wire') = ToSet(wire) \cup {[id |-> r.id, no |-> r.no, count |-> counter + 1]}
  BY <1>1, <1>2, <1>3, ElementsOfSequence
<1> QED
  BY <1>1, <1>4

\* What a receipt leaves in the channel.
LEMMA ReceiveTakes ==
  ASSUME EventsTypeOK, RecvEvent
  PROVE  /\ Head(wire) \in ToSet(wire)
         /\ Head(wire).id = waited.id
         /\ ToSet(wire') \subseteq ToSet(wire)
<1>1. wire \in Seq(Registrations) /\ wire # <<>>
  BY DEF EventsTypeOK, RecvEvent
<1> QED
  BY <1>1, ElementsOfSequence DEF RecvEvent

---------------------------------------------------------------------------
(***************************************************************************)
(* The other parts of the invariant                                        *)
(***************************************************************************)

\* The ids are given out in turn.
LEMMA NumberedStep == EventsTypeOK /\ Budget /\ Numbered /\ EventsNext => Numbered'
<1> SUFFICES ASSUME EventsTypeOK, Budget, Numbered, EventsNext
             PROVE  Numbered'
  OBVIOUS
<1>1. PICK s \in 1 .. MaxId : NumberedFrom(s)
  BY DEF Numbered
<1>2. made \in Nat /\ MaxId \in Nat
  BY IdAssumption DEF EventsTypeOK
<1> SUFFICES NumberedFrom(s)'
  BY DEF Numbered
<1>3. CASE Quiet
  <2>1. Live' \subseteq Live /\ (Reading' => Reading)
    BY <1>3 DEF Quiet, Live, Reading
  <2> QED
    BY <1>1, <1>3, <2>1 DEF Quiet, NumberedFrom
<1>4. CASE Notify
  <2>1. PICK r \in registered :
          /\ registered' = registered \ {r}
          /\ ToSet(wire') = ToSet(wire) \cup {[id |-> r.id, no |-> r.no, count |-> counter + 1]}
    BY <1>4, NotifyDelivers
  <2>2. \A n \in Live' : \E m \in Live : n.no = m.no /\ n.id = m.id
    BY <2>1 DEF Live
  <2>3. UNCHANGED <<next_event_id, made, waited, pc>>
    BY <1>4 DEF Notify, client, history
  <2> QED
    BY <1>1, <2>2, <2>3 DEF NumberedFrom, Reading
<1>5. ASSUME NEW count, NEW then, QueEvents(count, then), made < MaxRegistrations
      PROVE  NumberedFrom(s)'
  <2>1. /\ made' = made + 1
        /\ waited' = [id |-> next_event_id, no |-> made + 1]
        /\ ToSet(wire') = ToSet(wire)
        /\ registered' \subseteq
             registered \cup {[id |-> next_event_id, no |-> made + 1, count |-> count]}
    BY <1>5 DEF QueEvents
  <2>2. next_event_id' = Shift(s, made + 1)
    BY <1>1, <1>2, <1>5, IdsFollow, IdAssumption DEF QueEvents, NewEventId, NumberedFrom
  <2>3. ASSUME NEW n \in Live'
        PROVE  n.no \in 1 .. made + 1 /\ n.id = Shift(s, n.no - 1)
    <3>1. CASE n \in Live
      BY <1>1, <1>2, <3>1 DEF NumberedFrom
    <3>2. CASE n = [id |-> next_event_id, no |-> made + 1, count |-> count]
      BY <1>1, <1>2, <3>2 DEF NumberedFrom
    <3> QED
      BY <2>1, <3>1, <3>2 DEF Live
  <2>4. waited'.no \in 1 .. made + 1 /\ waited'.id = Shift(s, waited'.no - 1)
    BY <1>1, <1>2, <2>1 DEF NumberedFrom
  <2> QED
    BY <2>1, <2>2, <2>3, <2>4 DEF NumberedFrom
<1>6. CASE RecvEvent
  <2>1. Live' \subseteq Live /\ ~Reading'
    BY <1>6, ReceiveTakes DEF RecvEvent, Live, Reading
  <2> QED
    BY <1>1, <1>6, <2>1 DEF RecvEvent, NumberedFrom, history
<1>7. CASE RecvFails
  <2>1. Live' \subseteq Live /\ ~Reading'
    BY <1>7 DEF RecvFails, Fail, Live, Reading
  <2> QED
    BY <1>1, <1>7, <2>1 DEF RecvFails, NumberedFrom
<1>8. pc \in {"synchronize", "register"} => made < MaxRegistrations
  BY <1>2, IdAssumption DEF Budget
<1> QED
  BY <1>3, <1>4, <1>5, <1>6, <1>7, <1>8, StepsAreQuiet

\* So what bears the id of the registration waited for is that registration.
LEMMA IdIdentifies ==
  ASSUME EventsTypeOK, Numbered, Reading, NEW n \in Live, n.id = waited.id
  PROVE  n.no = waited.no
<1>1. PICK s \in 1 .. MaxId : NumberedFrom(s)
  BY DEF Numbered
<1>2. /\ n.no \in 1 .. made /\ n.id = Shift(s, n.no - 1)
      /\ waited.no \in 1 .. made /\ waited.id = Shift(s, waited.no - 1)
  BY <1>1 DEF NumberedFrom
<1>3. n.no \in 1 .. MaxRegistrations /\ waited.no \in 1 .. MaxRegistrations
  BY <1>2, IdAssumption DEF EventsTypeOK
<1> QED
  BY <1>2, <1>3, IdsDiffer

\* A new registration has a number nothing bears yet.
LEMMA NewNumber ==
  ASSUME EventsTypeOK, Numbered, NEW n \in Live
  PROVE  n.no # made + 1
<1>1. PICK s \in 1 .. MaxId : NumberedFrom(s)
  BY DEF Numbered
<1> QED
  BY <1>1, IdAssumption DEF NumberedFrom, EventsTypeOK

\* Registrations are answered once.
LEMMA OneShotStep == EventsTypeOK /\ Numbered /\ OneShot /\ EventsNext => OneShot'
<1> SUFFICES ASSUME EventsTypeOK, Numbered, OneShot, EventsNext
             PROVE  OneShot'
  OBVIOUS
<1>1. CASE Quiet
  BY <1>1 DEF Quiet, OneShot
<1>2. CASE Notify
  <2>1. PICK r \in registered :
          /\ registered' = registered \ {r}
          /\ ToSet(wire') = ToSet(wire) \cup {[id |-> r.id, no |-> r.no, count |-> counter + 1]}
    BY <1>2, NotifyDelivers
  <2> QED
    BY <2>1 DEF OneShot
<1>3. ASSUME NEW count, NEW then, QueEvents(count, then)
      PROVE  OneShot'
  <2> DEFINE new == [id |-> next_event_id, no |-> made + 1, count |-> count]
  <2>1. ToSet(wire') = ToSet(wire) /\ registered' \subseteq registered \cup {new}
    BY <1>3 DEF QueEvents
  <2>2. \A n \in Live : n.no # new.no
    BY NewNumber
  <2> QED
    BY <2>1, <2>2 DEF OneShot, Live
<1>4. CASE RecvEvent
  BY <1>4, ReceiveTakes DEF RecvEvent, OneShot
<1>5. CASE RecvFails
  BY <1>5 DEF RecvFails, OneShot
<1> QED
  BY <1>1, <1>2, <1>3, <1>4, <1>5, StepsAreQuiet

\* The server is left with nothing but what it refused to cancel.
LEMMA RegisteredStep ==
  EventsTypeOK /\ Numbered /\ OneShot /\ NothingStaysRegistered /\ EventsNext => NothingStaysRegistered'
<1> SUFFICES ASSUME EventsTypeOK, Numbered, OneShot, NothingStaysRegistered, EventsNext
             PROVE  NothingStaysRegistered'
  OBVIOUS
<1>1. CASE Quiet
  BY <1>1 DEF Quiet, NothingStaysRegistered
<1>2. CASE Notify
  BY <1>2 DEF Notify, NothingStaysRegistered, client, history
<1>3. ASSUME NEW count, NEW then, then \in {"sync", "event"},
             pc \in {"synchronize", "register"}, QueEvents(count, then)
      PROVE  NothingStaysRegistered'
  <2>1. \A r \in registered : r.no \in refused
    BY <1>3 DEF NothingStaysRegistered
  <2>2. refused' = refused /\ waited'.no = made + 1
    BY <1>3 DEF QueEvents
  <2>3. \/ registered' = registered
        \/ /\ pc' = then
           /\ registered' =
                registered \cup {[id |-> next_event_id, no |-> made + 1, count |-> count]}
    BY <1>3 DEF QueEvents
  <2> QED
    BY <1>3, <2>1, <2>2, <2>3 DEF NothingStaysRegistered
<1>4. CASE RecvEvent
  <2>1. Head(wire) \in ToSet(wire) /\ Head(wire).no = waited.no
    BY <1>4, ReceiveTakes, IdIdentifies DEF Live, Reading, RecvEvent
  <2>2. \A r \in registered : r.no # waited.no
    BY <2>1 DEF OneShot
  <2> QED
    BY <1>4, <2>2 DEF RecvEvent, NothingStaysRegistered, history
<1>5. CASE RecvFails
  BY <1>5 DEF RecvFails, NothingStaysRegistered
<1> QED
  BY <1>1, <1>2, <1>3, <1>4, <1>5, StepsAreQuiet

\* The counters of a wait lie above the one it began with.
LEMMA CountedStep ==
  EventsTypeOK /\ Numbered /\ Counted /\ NoSpuriousWake /\ EventsNext => Counted' /\ NoSpuriousWake'
<1> SUFFICES ASSUME EventsTypeOK, Numbered, Counted, NoSpuriousWake, EventsNext
             PROVE  Counted' /\ NoSpuriousWake'
  OBVIOUS
<1>0. counter \in Nat /\ base \in Nat /\ base =< counter
  BY PostsAssumption DEF EventsTypeOK
<1>1. CASE Quiet
  BY <1>0, <1>1 DEF Quiet, Counted, NoSpuriousWake
<1>2. CASE Notify
  <2>1. PICK r \in registered :
          /\ counter >= r.count
          /\ registered' = registered \ {r}
          /\ ToSet(wire') = ToSet(wire) \cup {[id |-> r.id, no |-> r.no, count |-> counter + 1]}
    BY <1>2, NotifyDelivers
  <2>2. r.count \in Nat
    BY PostsAssumption DEF EventsTypeOK, Registrations
  <2>3. UNCHANGED <<pc, posted, waited, counter, base, result>>
    BY <1>2 DEF Notify, client, history
  <2> QED
    BY <1>0, <2>1, <2>2, <2>3 DEF Counted, NoSpuriousWake
<1>3. ASSUME NEW count, NEW then, pc = "register" => count = posted,
             \/ pc = "synchronize" /\ then = "sync"
             \/ pc = "register" /\ then = "event",
             QueEvents(count, then)
      PROVE  Counted' /\ NoSpuriousWake'
  <2> DEFINE new == [id |-> next_event_id, no |-> made + 1, count |-> count]
  <2>1. /\ ToSet(wire') = ToSet(wire)
        /\ registered' \subseteq registered \cup {new}
        /\ waited'.no = made + 1
        /\ UNCHANGED <<posted, counter, base>>
        /\ pc' \in {then, "idle"}
        /\ result' \in {result, "error"}
    BY <1>3 DEF QueEvents, Fail
  <2>2. \A n \in Live : n.no # waited'.no
    BY <2>1, NewNumber
  <2> QED
    BY <1>3, <2>1, <2>2 DEF Counted, NoSpuriousWake, Live
<1>4. CASE RecvEvent
  <2>1. Head(wire) \in ToSet(wire) /\ Head(wire).no = waited.no
    BY <1>4, ReceiveTakes, IdIdentifies DEF Live, Reading, RecvEvent
  <2> QED
    BY <1>4, <2>1 DEF RecvEvent, Counted, NoSpuriousWake, history
<1>5. CASE RecvFails
  BY <1>5 DEF RecvFails, Fail, Counted, NoSpuriousWake
<1> QED
  BY <1>1, <1>2, <1>3, <1>4, <1>5, StepsAreQuiet

---------------------------------------------------------------------------
(***************************************************************************)
(* The invariant, and what follows from it                                 *)
(***************************************************************************)

\* Before the first wait nothing is registered and nothing is in the channel.
LEMMA EventsBegin == EventsInit => EventsInv
<1> SUFFICES ASSUME EventsInit
             PROVE  EventsInv
  OBVIOUS
<1> USE IdAssumption, PostsAssumption DEF EventsInit
<1>1. EventsTypeOK
  <2>1. wire \in Seq(Registrations) /\ registered \subseteq Registrations
    OBVIOUS
  <2>2. MaxId \in Nat /\ MaxRegistrations \in Nat
    OBVIOUS
  <2>3. waited \in [id : 0 .. MaxId, no : 0 .. MaxRegistrations]
    BY <2>2
  <2>4. /\ posted \in 0 .. MaxPosts + 1 /\ counter \in 0 .. MaxPosts
        /\ base \in 0 .. counter /\ made \in 0 .. MaxRegistrations
        /\ refused \subseteq 1 .. MaxRegistrations
    BY <2>2
  <2> QED
    BY <2>1, <2>3, <2>4 DEF EventsTypeOK
<1>2. Live = {}
  BY EmptyHasNoElements DEF Live
<1>3. NumberedFrom(next_event_id)
  BY <1>2 DEF NumberedFrom, Shift, Reading
<1>4. Numbered
  BY <1>3 DEF Numbered
<1>5. Budget /\ OneShot /\ NothingStaysRegistered /\ Counted /\ NoSpuriousWake
  BY DEF Budget, Reading, OneShot, NothingStaysRegistered, Counted, NoSpuriousWake
<1> QED
  BY <1>1, <1>4, <1>5 DEF EventsInv

\* A step that changes nothing changes no part of the invariant.
LEMMA EventsStutter == EventsInv /\ UNCHANGED eventsVars => EventsInv'
  BY DEF EventsInv, EventsTypeOK, Budget, Numbered, NumberedFrom, OneShot, Counted,
         NothingStaysRegistered, NoSpuriousWake, Live, Reading,
         eventsVars, client, server, history

\* In every reachable state the ids in use are a run of consecutive ones, each held
\* by one registration or its one notification, and the counters of a wait lie above
\* the one it began with (wait_for_event, que_events and recv_event).
THEOREM EventsInvariant == EventsSpec => []EventsInv
<1>1. EventsInv /\ EventsNext => EventsInv'
  BY TypeStep, NumberedStep, OneShotStep, RegisteredStep, CountedStep DEF EventsInv
<1>2. EventsInv /\ [EventsNext]_eventsVars => EventsInv'
  BY <1>1, EventsStutter
<1> QED
  BY EventsBegin, <1>2, PTL DEF EventsSpec

\* The variables keep their types: among them, zero is never given out as an id
\* (que_events), however often the ids wrap before the first wait.
THEOREM TypeCorrect == EventsSpec => []EventsTypeOK
<1>1. EventsInv => EventsTypeOK
  BY DEF EventsInv
<1> QED
  BY <1>1, EventsInvariant, PTL

\* wait_for_event returns a success only if the event was posted since its call,
\* whatever counters and notifications earlier waits left behind.
THEOREM WakesAreEarned == EventsSpec => []NoSpuriousWake
<1>1. EventsInv => NoSpuriousWake
  BY DEF EventsInv
<1> QED
  BY <1>1, EventsInvariant, PTL

\* recv_event never takes the notification of another registration for the one it
\* waits for, although it compares the ids alone.
THEOREM AnswersAreIdentified == EventsSpec => []NotificationsAreOwn
<1>1. EventsInv => NotificationsAreOwn
  BY IdIdentifies DEF EventsInv, NotificationsAreOwn, Live, Reading
<1> QED
  BY <1>1, EventsInvariant, PTL

\* A wait leaves nothing registered with the server but what the server refused to
\* cancel (que_events, cancel_events).
THEOREM ServerIsLeftClean == EventsSpec => []NothingStaysRegistered
<1>1. EventsInv => NothingStaysRegistered
  BY DEF EventsInv
<1> QED
  BY <1>1, EventsInvariant, PTL

==================================================================================
