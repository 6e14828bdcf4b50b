------------------------ MODULE NativeClient_proofs ------------------------
(***************************************************************************)
(* Proofs about NativeClient: who owns the handles of the library, and     *)
(* that what is read is what was stored, for any values, lengths and       *)
(* numbers of handles and rows.                                            *)
(***************************************************************************)
EXTENDS NativeClient, SequenceTheorems, WellFoundedInduction, TLAPS

(***************************************************************************)
(* The inductive invariant: handles of different kinds are different, and  *)
(* the statement held is not one that was given up.                        *)
(***************************************************************************)

KindsOK ==
  /\ db = Null \/ db[1] = "db"
  /\ tr = Null \/ tr[1] = "tr"
  /\ stmt.handle = Null \/ stmt.handle[1] = "stmt"
  /\ stmt = [handle |-> stmt.handle, sql |-> stmt.sql, rows |-> stmt.rows]
  /\ stmt.handle \notin lost
  /\ waiting \in {"no", "first", "second"}

OwnersInv == KindsOK /\ HandlesAreOwned

---------------------------------------------------------------------------

\* The library gives out a handle that is not open, of the kind asked for.
LEMMA NewIsFresh ==
  ASSUME NEW kind, CanOpen(kind)
  PROVE  New(kind) \notin open /\ New(kind)[1] = kind
BY DEF New, CanOpen

\* Neither no handle nor an event buffer is of the kind of another handle.
LEMMA KindsDiffer ==
  /\ Null[1] = "null"
  /\ \A h \in EventBuffers : h[1] = "event"
BY DEF Null, EventBuffers

\* What is open, while no wait is going on.
LEMMA OpenWhenIdle ==
  ASSUME OwnersInv, Idle
  PROVE  /\ open = ({db, tr, stmt.handle} \ {Null}) \cup lost
         /\ \A h \in lost : h[1] \in {"blob", "stmt"} /\ (h[1] = "blob" => tr # Null)
         /\ Null \notin open
BY KindsDiffer DEF OwnersInv, HandlesAreOwned, Idle

\* A step that leaves the handles and the wait alone leaves the invariant.
LEMMA HandlesUntouched ==
  ASSUME OwnersInv, UNCHANGED <<db, tr, open, lost, waiting>>,
         stmt' = stmt \/ \E rows : stmt' = [stmt EXCEPT !.rows = rows]
  PROVE  OwnersInv'
<1>1. stmt'.handle = stmt.handle
      /\ stmt' = [handle |-> stmt'.handle, sql |-> stmt'.sql, rows |-> stmt'.rows]
  BY DEF OwnersInv, KindsOK
<1>2. KindsOK'
  BY <1>1 DEF OwnersInv, KindsOK
<1>3. HandlesAreOwned'
  BY <1>1 DEF OwnersInv, HandlesAreOwned, EventBuffers
<1> QED BY <1>2, <1>3 DEF OwnersInv

\* One more handle is open that nobody has: a statement's, or a blob's.
LEMMA GivenUp ==
  ASSUME OwnersInv, Idle, NEW kind \in {"blob", "stmt"}, CanOpen(kind),
         kind = "blob" => tr # Null, kind = "stmt" => stmt = NoStmt,
         open' = open \cup {New(kind)}, lost' = lost \cup {New(kind)},
         UNCHANGED <<db, tr, waiting>>,
         stmt' = stmt \/ \E rows : stmt' = [stmt EXCEPT !.rows = rows]
  PROVE  OwnersInv'
<1>1. New(kind) \notin open /\ New(kind)[1] = kind
  BY NewIsFresh
<1>2. stmt'.handle = stmt.handle
      /\ stmt' = [handle |-> stmt'.handle, sql |-> stmt'.sql, rows |-> stmt'.rows]
  BY DEF OwnersInv, KindsOK
<1>3. New(kind) # stmt.handle
  <2>1. CASE stmt.handle = Null
    BY <2>1, <1>1, KindsDiffer
  <2>2. CASE stmt.handle # Null
    BY <2>2, <1>1, OpenWhenIdle
  <2> QED BY <2>1, <2>2
<1>4. KindsOK'
  BY <1>2, <1>3 DEF OwnersInv, KindsOK
<1>5. HandlesAreOwned'
  BY <1>1, <1>2, OpenWhenIdle DEF HandlesAreOwned, Idle
<1> QED BY <1>4, <1>5 DEF OwnersInv

---------------------------------------------------------------------------
(* The steps                                                               *)

LEMMA AttachOwns == OwnersInv /\ Attach => OwnersInv'
<1> SUFFICES ASSUME OwnersInv, Attach PROVE OwnersInv'
  OBVIOUS
<1>1. Idle /\ db = Null /\ db' = New("db") /\ open' = open \cup {db'}
      /\ UNCHANGED <<tr, stmt, lost, waiting>>
  BY DEF Attach, Unchanged
<1>2. db'[1] = "db" /\ db' # Null
  BY <1>1, NewIsFresh, KindsDiffer DEF Attach
<1>3. KindsOK'
  BY <1>1, <1>2 DEF OwnersInv, KindsOK
<1>4. HandlesAreOwned'
  BY <1>1, <1>2, OpenWhenIdle DEF HandlesAreOwned, Idle
<1> QED BY <1>3, <1>4 DEF OwnersInv

LEMMA DetachOwns == OwnersInv /\ Detach => OwnersInv'
<1> SUFFICES ASSUME OwnersInv, Detach PROVE OwnersInv'
  OBVIOUS
<1>1. Idle /\ tr = Null /\ stmt = NoStmt /\ db' = Null /\ open' = {} /\ lost' = {}
      /\ UNCHANGED <<tr, stmt, waiting>>
  BY DEF Detach, Unchanged
<1>2. stmt'.handle = Null
  BY <1>1 DEF NoStmt
<1>3. KindsOK'
  BY <1>1, <1>2 DEF OwnersInv, KindsOK
<1>4. HandlesAreOwned'
  BY <1>1, <1>2 DEF HandlesAreOwned, Idle
<1> QED BY <1>3, <1>4 DEF OwnersInv

LEMMA BeginOwns == OwnersInv /\ BeginTransaction => OwnersInv'
<1> SUFFICES ASSUME OwnersInv, BeginTransaction PROVE OwnersInv'
  OBVIOUS
<1>1. Idle /\ tr = Null /\ tr' = New("tr") /\ open' = open \cup {tr'}
      /\ UNCHANGED <<db, stmt, lost, waiting>>
  BY DEF BeginTransaction, Unchanged
<1>2. tr'[1] = "tr" /\ tr' # Null
  BY <1>1, NewIsFresh, KindsDiffer DEF BeginTransaction
<1>3. KindsOK'
  BY <1>1, <1>2 DEF OwnersInv, KindsOK
<1>4. HandlesAreOwned'
  BY <1>1, <1>2, OpenWhenIdle DEF HandlesAreOwned, Idle
<1> QED BY <1>3, <1>4 DEF OwnersInv

\* The end of a transaction closes its blobs, those given up included.
LEMMA EndOwns == ASSUME NEW op, OwnersInv, EndTransaction(op) PROVE OwnersInv'
<1>1. /\ Idle /\ tr # Null /\ tr' = Null
      /\ open' = open \ ({tr} \cup OfKind({"blob"})) /\ lost' = lost \cap open'
      /\ stmt' = [stmt EXCEPT !.rows = <<>>]
      /\ UNCHANGED <<db, waiting>>
  BY DEF EndTransaction, Unchanged
<1>2. stmt'.handle = stmt.handle
      /\ stmt' = [handle |-> stmt'.handle, sql |-> stmt'.sql, rows |-> stmt'.rows]
  BY <1>1 DEF OwnersInv, KindsOK
<1>3. KindsOK'
  BY <1>1, <1>2 DEF OwnersInv, KindsOK
<1>4. \A h \in lost' : h[1] = "stmt"
  BY <1>1, OpenWhenIdle DEF OfKind
<1>5. open' = ({db', tr', stmt'.handle} \ {Null}) \cup lost'
  <2>1. open = ({db, tr, stmt.handle} \ {Null}) \cup lost
    BY <1>1, OpenWhenIdle
  <2>2. \A h \in {db, stmt.handle} \ {Null} : h # tr /\ h[1] # "blob"
    BY <1>1, KindsDiffer DEF OwnersInv, KindsOK
  <2> QED BY <1>1, <1>2, <2>1, <2>2 DEF OfKind
<1>6. HandlesAreOwned'
  BY <1>1, <1>4, <1>5 DEF HandlesAreOwned, Idle
<1> QED BY <1>3, <1>6 DEF OwnersInv

LEMMA PrepareOwns == ASSUME NEW sql, OwnersInv, PrepareOk(sql) PROVE OwnersInv'
<1>1. /\ Idle /\ stmt = NoStmt /\ CanOpen("stmt")
      /\ stmt' = [handle |-> New("stmt"), sql |-> sql, rows |-> <<>>]
      /\ open' = open \cup {stmt'.handle}
      /\ UNCHANGED <<db, tr, lost, waiting>>
  BY DEF PrepareOk, Unchanged
<1>2. /\ stmt'.handle \notin open /\ stmt'.handle[1] = "stmt" /\ stmt'.handle # Null
      /\ stmt' = [handle |-> stmt'.handle, sql |-> stmt'.sql, rows |-> stmt'.rows]
  BY <1>1, NewIsFresh, KindsDiffer
<1>3. stmt.handle = Null /\ stmt'.handle \notin lost
  BY <1>1, <1>2, OpenWhenIdle DEF NoStmt
<1>4. KindsOK'
  BY <1>1, <1>2, <1>3 DEF OwnersInv, KindsOK
<1>5. HandlesAreOwned'
  BY <1>1, <1>2, <1>3, OpenWhenIdle DEF HandlesAreOwned, Idle
<1> QED BY <1>4, <1>5 DEF OwnersInv

LEMMA DropOwns == OwnersInv /\ Drop => OwnersInv'
<1> SUFFICES ASSUME OwnersInv, Drop PROVE OwnersInv'
  OBVIOUS
<1>1. Idle /\ stmt' = NoStmt /\ open' = open \ {stmt.handle}
      /\ UNCHANGED <<db, tr, lost, waiting>>
  BY DEF Drop, Unchanged
<1>2. stmt'.handle = Null /\ stmt' = [handle |-> stmt'.handle, sql |-> stmt'.sql, rows |-> stmt'.rows]
  BY <1>1 DEF NoStmt
<1>3. Null \notin lost
  BY <1>1, OpenWhenIdle
<1>4. KindsOK'
  BY <1>1, <1>2, <1>3 DEF OwnersInv, KindsOK
<1>5. stmt.handle \notin lost /\ stmt.handle \notin {db, tr} \ {Null}
  BY KindsDiffer DEF OwnersInv, KindsOK
<1>6. HandlesAreOwned'
  BY <1>1, <1>2, <1>5, OpenWhenIdle DEF HandlesAreOwned, Idle
<1> QED BY <1>4, <1>6 DEF OwnersInv

LEMMA WaitOwns == OwnersInv /\ (WaitForEvent \/ WaitAgain \/ WaitReturns) => OwnersInv'
<1> SUFFICES ASSUME OwnersInv, WaitForEvent \/ WaitAgain \/ WaitReturns PROVE OwnersInv'
  OBVIOUS
<1>1. UNCHANGED <<db, tr, stmt, lost>> /\ waiting' \in {"no", "first", "second"}
  BY DEF WaitForEvent, WaitAgain, WaitReturns
<1>2. KindsOK'
  BY <1>1 DEF OwnersInv, KindsOK
<1>3. \A h \in ({db, tr, stmt.handle} \ {Null}) \cup lost : h \notin EventBuffers
  BY KindsDiffer DEF OwnersInv, KindsOK, HandlesAreOwned
<1>4. HandlesAreOwned'
  <2>1. CASE WaitForEvent
    BY <1>1, <2>1, OpenWhenIdle DEF WaitForEvent, HandlesAreOwned, EventBuffers, OwnersInv
  <2>2. CASE WaitAgain
    BY <1>1, <2>2 DEF OwnersInv, WaitAgain, HandlesAreOwned, EventBuffers
  <2>3. CASE WaitReturns
    BY <1>1, <1>3, <2>3 DEF OwnersInv, WaitReturns, HandlesAreOwned, EventBuffers
  <2> QED BY <2>1, <2>2, <2>3
<1> QED BY <1>2, <1>4 DEF OwnersInv

---------------------------------------------------------------------------

LEMMA InitOwns == Init => OwnersInv
BY DEF Init, OwnersInv, KindsOK, HandlesAreOwned, NoStmt

\* Every step of the client, whatever calls of the library fail in it, leaves each
\* handle with its owner.
LEMMA StepOwns == OwnersInv /\ [Next]_vars => OwnersInv'
<1> SUFFICES ASSUME OwnersInv, [Next]_vars PROVE OwnersInv'
  OBVIOUS
<1>1. CASE Attach \/ Detach \/ BeginTransaction \/ Drop
  BY <1>1, AttachOwns, DetachOwns, BeginOwns, DropOwns
<1>2. CASE \E op \in {"Commit", "Rollback"} : EndTransaction(op)
  BY <1>2, EndOwns
<1>3. CASE \E op \in {"CommitRetaining", "RollbackRetaining"} : RetainTransaction(op)
  BY <1>3, HandlesUntouched DEF RetainTransaction, Unchanged
<1>4. CASE \E sql \in {"insert", "select"} : PrepareOk(sql)
  BY <1>4, PrepareOwns
<1>5. CASE \E step \in {"allocate", "prepare", "describe", "sql_info", "column"} : PrepareFails(step)
  <2>1. PICK step : PrepareFails(step)
    BY <1>5
  <2>2. CASE step = "allocate"
    BY <2>1, <2>2, HandlesUntouched DEF PrepareFails, Unchanged
  <2>3. CASE step # "allocate"
    BY <2>1, <2>3, GivenUp DEF PrepareFails, Unchanged
  <2> QED BY <2>2, <2>3
<1>6. CASE CloseCursor \/ OpenCursor \/ Fetch
  BY <1>6, HandlesUntouched DEF CloseCursor, OpenCursor, Fetch, Unchanged
<1>7. CASE \E v \in Values : BlobWriteFails(v)
  BY <1>7, GivenUp DEF BlobWriteFails, Unchanged
<1>8. CASE \E v \in Values : Execute(v) \/ ExecuteFails(v) \/ Execute2(v)
  BY <1>8, HandlesUntouched DEF Execute, ExecuteFails, Execute2, Unchanged
<1>9. CASE FetchFails
  <2>1. CASE UNCHANGED <<open, lost>>
    BY <1>9, <2>1, HandlesUntouched DEF FetchFails, Unchanged
  <2>2. CASE /\ CanOpen("blob")
             /\ open' = open \cup {New("blob")} /\ lost' = lost \cup {New("blob")}
    BY <1>9, <2>2, GivenUp DEF FetchFails, Unchanged
  <2> QED BY <1>9, <2>1, <2>2 DEF FetchFails
<1>10. CASE WaitForEvent \/ WaitAgain \/ WaitReturns
  BY <1>10, WaitOwns
<1>11. CASE UNCHANGED vars
  BY <1>11, HandlesUntouched DEF vars
<1> QED BY <1>1, <1>2, <1>3, <1>4, <1>5, <1>6, <1>7, <1>8, <1>9, <1>10, <1>11 DEF Next

\* The invariant of the handles holds in every reachable state.
THEOREM OwnersInvariant == Spec => []OwnersInv
BY InitOwns, StepOwns, PTL DEF Spec

\* Whatever calls of the library succeed and fail, in whatever order: what the
\* library has open is what the code holds, the buffers of a wait that is going on,
\* and the handles given up on the two error paths that give them up.
THEOREM HandlesStayOwned == Spec => []HandlesAreOwned
<1>1. OwnersInv => HandlesAreOwned
  BY DEF OwnersInv
<1> QED BY <1>1, OwnersInvariant, PTL

---------------------------------------------------------------------------
(***************************************************************************)
(* Flattening.  The operators of the library are recursive functions: what *)
(* they give is found by counting up to the length.                        *)
(***************************************************************************)

\* A set that has zero, and with a number the next one, has them all.
LEMMA Counting ==
  ASSUME NEW n \in Nat, NEW T, 0 \in T,
         \A k \in 0 .. n : k < n /\ k \in T => k + 1 \in T
  PROVE  \A k \in 0 .. n : k \in T
<1> DEFINE Below == {ss \in Nat \X Nat : ss[1] < ss[2]}
           Missing == {k \in 0 .. n : k \notin T}
<1>1. IsWellFoundedOn(Below, Nat)
  BY NatLessThanWellFounded DEF OpToRel
<1>2. CASE Missing # {}
  <2>1. PICK x \in Missing : \A y \in Missing : ~ (<<y, x>> \in Below)
    <3> HIDE DEF Below
    <3>1. Missing \subseteq Nat
      OBVIOUS
    <3> HIDE DEF Missing
    <3> QED BY <1>1, <1>2, <3>1, WFMin
  <2>2. x \in 1 .. n /\ x - 1 \in 0 .. n /\ x - 1 < n
    <3>1. x # 0 /\ x \in 0 .. n
      OBVIOUS
    <3> QED BY <3>1
  <2>3. x - 1 \in T
    <3>1. <<x - 1, x>> \in Below
      BY <2>2
    <3> QED BY <2>1, <2>2, <3>1
  <2>4. (x - 1) + 1 \in T
    BY <2>2, <2>3
  <2> QED BY <2>2, <2>4
<1> QED BY <1>2

\* f[i] is the first i sequences of q, joined.
Folded(q, f) ==
  /\ f[1] = q[1]
  /\ \A i \in 2 .. Len(q) : f[i] = f[i - 1] \o q[i]

\* Joined one after the other, they give what the library's recursion gives.
LEMMA FlattenIs ==
  ASSUME NEW S, NEW q \in Seq(Seq(S)), Len(q) > 0,
         NEW f \in [1 .. Len(q) -> Seq(S)], Folded(q, f)
  PROVE  FlattenSeq(q) = f[Len(q)]
<1> DEFINE n == Len(q)
           Step(g) == [i \in 1 .. n |-> IF i = 1 THEN q[i] ELSE g[i - 1] \o q[i]]
           h == CHOOSE g : g = Step(g)
<1>1. n \in Nat /\ n > 0
  BY LenProperties
<1>2. FlattenSeq(q) = h[n]
  BY <1>1 DEF FlattenSeq
<1>3. f = Step(f)
  <2>1. ASSUME NEW i \in 1 .. n PROVE f[i] = IF i = 1 THEN q[i] ELSE f[i - 1] \o q[i]
    <3>1. CASE i = 1
      BY <3>1 DEF Folded
    <3>2. CASE i # 1
      <4>1. i \in 2 .. Len(q)
        BY <1>1, <3>2
      <4> QED BY <3>2, <4>1, Zenon DEF Folded
    <3> QED BY <3>1, <3>2
  <2> QED BY <2>1
<1>4. h = Step(h)
  BY <1>3, Zenon
<1> HIDE DEF h
<1>5. \A i \in 1 .. n : h[i] = IF i = 1 THEN q[i] ELSE h[i - 1] \o q[i]
  BY <1>4
<1> DEFINE T == {k \in 0 .. n : k = 0 \/ h[k] = f[k]}
<1>6. \A k \in 0 .. n : k < n /\ k \in T => k + 1 \in T
  <2> SUFFICES ASSUME NEW k \in 0 .. n, k < n, k \in T PROVE k + 1 \in T
    OBVIOUS
  <2>1. k + 1 \in 1 .. n /\ (k + 1) - 1 = k
    BY <1>1
  <2>2. CASE k = 0
    <3>1. h[1] = f[1] /\ k + 1 = 1 /\ 1 \in 0 .. n
      BY <1>1, <1>5, <2>2 DEF Folded
    <3> QED BY <3>1
  <2>3. CASE k # 0
    <3>1. k + 1 \in 2 .. n
      BY <2>1, <2>3
    <3>2. h[k] = f[k]
      BY <2>3
    <3>3. f[k + 1] = f[k] \o q[k + 1]
      BY <2>1, <3>1 DEF Folded
    <3>4. h[k + 1] = h[k] \o q[k + 1]
      <4>1. k + 1 # 1
        BY <2>3
      <4>2. h[k + 1] = h[(k + 1) - 1] \o q[k + 1]
        BY <1>5, <2>1, <4>1
      <4> QED BY <2>1, <4>2
    <3>5. k + 1 \in 0 .. n
      BY <2>1
    <3> QED BY <3>2, <3>3, <3>4, <3>5
  <2> QED BY <2>2, <2>3
<1>7. 0 \in T
  BY <1>1
<1>8. \A k \in 0 .. n : k \in T
  <2> HIDE DEF T, n
  <2> QED BY <1>1, <1>6, <1>7, Counting
<1>9. n \in T
  <2>1. n \in 0 .. n
    BY <1>1
  <2> HIDE DEF T, n
  <2> QED BY <1>8, <2>1
<1> QED BY <1>1, <1>2, <1>9

\* One sequence more.
LEMMA FoldedMore ==
  ASSUME NEW S, NEW q \in Seq(Seq(S)), NEW x \in Seq(S),
         NEW f \in [1 .. Len(q) -> Seq(S)], Len(q) > 0 => Folded(q, f)
  PROVE  \E g \in [1 .. Len(q) + 1 -> Seq(S)] :
            /\ Folded(Append(q, x), g)
            /\ g[Len(q) + 1] = IF Len(q) = 0 THEN x ELSE f[Len(q)] \o x
<1> DEFINE n == Len(q)
           r == Append(q, x)
           last == IF n = 0 THEN x ELSE f[n] \o x
           g == [i \in 1 .. n + 1 |-> IF i = n + 1 THEN last ELSE f[i]]
<1>1. n \in Nat
  BY LenProperties
<1>2. /\ Len(r) = n + 1 /\ r[n + 1] = x
      /\ \A i \in 1 .. n : r[i] = q[i]
  BY AppendProperties
<1>3. last \in Seq(S)
  <2>1. CASE n = 0
    BY <2>1
  <2>2. CASE n # 0
    <3>1. n \in 1 .. n
      BY <1>1, <2>2
    <3>2. f[n] \in Seq(S)
      BY <3>1
    <3> QED BY <2>2, <3>2, ConcatProperties
  <2> QED BY <2>1, <2>2
<1> HIDE DEF last
<1>4. /\ g \in [1 .. n + 1 -> Seq(S)] /\ g[n + 1] = last
      /\ \A i \in 1 .. n : g[i] = f[i]
  BY <1>1, <1>3
<1> HIDE DEF g, r
<1>5. Folded(r, g)
  <2>1. CASE n = 0
    BY <1>1, <1>2, <1>4, <2>1 DEF Folded, last
  <2>2. CASE n # 0
    <3>0. Folded(q, f) /\ 1 \in 1 .. n
      BY <1>1, <2>2
    <3>1. g[1] = r[1]
      <4>1. f[1] = q[1]
        BY <3>0 DEF Folded
      <4> QED BY <1>2, <1>4, <3>0, <4>1
    <3>2. ASSUME NEW i \in 2 .. n + 1 PROVE g[i] = g[i - 1] \o r[i]
      <4>1. CASE i = n + 1
        <5>1. i - 1 = n /\ n \in 1 .. n
          BY <1>1, <2>2, <4>1
        <5> QED BY <1>2, <1>4, <2>2, <4>1, <5>1 DEF last
      <4>2. CASE i # n + 1
        <5>1. i \in 2 .. n /\ i \in 1 .. n /\ i - 1 \in 1 .. n
          BY <1>1, <4>2
        <5>2. f[i] = f[i - 1] \o q[i]
          BY <3>0, <5>1 DEF Folded
        <5> QED BY <1>2, <1>4, <5>1, <5>2
      <4> QED BY <4>1, <4>2
    <3> QED BY <1>2, <3>1, <3>2 DEF Folded
  <2> QED BY <2>1, <2>2
<1> QED BY <1>4, <1>5 DEF r, last

\* The first k sequences.
Upto(q, k) == SubSeq(q, 1, k)

\* It has them, in their order, and is one longer with the next.
LEMMA UptoIs ==
  ASSUME NEW S, NEW q \in Seq(S), NEW k \in 0 .. Len(q)
  PROVE  /\ Upto(q, k) \in Seq(S) /\ Len(Upto(q, k)) = k
         /\ \A i \in 1 .. k : Upto(q, k)[i] = q[i]
         /\ k = 0 => Upto(q, k) = << >>
         /\ k = Len(q) => Upto(q, k) = q
         /\ k < Len(q) => Upto(q, k + 1) = Append(Upto(q, k), q[k + 1]) /\ q[k + 1] \in S
<1>1. Len(q) \in Nat /\ k \in Nat /\ k =< Len(q)
  BY LenProperties
<1>2. ASSUME NEW j \in 0 .. Len(q)
      PROVE  /\ Upto(q, j) \in Seq(S) /\ Len(Upto(q, j)) = j
             /\ \A i \in 1 .. j : Upto(q, j)[i] = q[i]
  <2>1. 1 \in Int /\ j \in Int /\ \A i \in 1 .. j : q[i] \in S
    BY <1>1, ElementOfSeq
  <2>2. /\ SubSeq(q, 1, j) \in Seq(S)
        /\ Len(SubSeq(q, 1, j)) = IF 1 <= j THEN j - 1 + 1 ELSE 0
        /\ \A i \in 1 .. j - 1 + 1 : SubSeq(q, 1, j)[i] = q[1 + i - 1]
    BY <2>1, SubSeqProperties
  <2> QED BY <1>1, <2>2 DEF Upto
<1>3. k = 0 => Upto(q, k) = << >>
  BY <1>2, EmptySeq
<1>4. k = Len(q) => Upto(q, k) = q
  BY SubSeqFull DEF Upto
<1>5. ASSUME k < Len(q) PROVE Upto(q, k + 1) = Append(Upto(q, k), q[k + 1]) /\ q[k + 1] \in S
  <2>1. k + 1 \in 0 .. Len(q) /\ k + 1 \in 1 .. Len(q)
    BY <1>1, <1>5
  <2>2. q[k + 1] \in S
    BY <2>1, ElementOfSeq
  <2> DEFINE a == Upto(q, k + 1)
             b == Append(Upto(q, k), q[k + 1])
  <2>3. a \in Seq(S) /\ Len(a) = k + 1 /\ \A i \in 1 .. k + 1 : a[i] = q[i]
    BY <1>2, <2>1
  <2>4. /\ b \in Seq(S) /\ Len(b) = k + 1 /\ b[k + 1] = q[k + 1]
        /\ \A i \in 1 .. k : b[i] = q[i]
    BY <1>2, <2>2, AppendProperties
  <2> HIDE DEF a, b
  <2>5. \A i \in 1 .. Len(a) : a[i] = b[i]
    BY <1>1, <2>3, <2>4
  <2>6. a = b
    BY <2>3, <2>4, <2>5, SeqEqual
  <2> QED BY <2>2, <2>6 DEF a, b
<1> QED BY <1>2, <1>3, <1>4, <1>5

\* Any sequence of sequences can be joined so.
LEMMA FoldedExists ==
  ASSUME NEW S, NEW q \in Seq(Seq(S))
  PROVE  \E f \in [1 .. Len(q) -> Seq(S)] : Len(q) > 0 => Folded(q, f)
<1> DEFINE n == Len(q)
           Has(p) == \E f \in [1 .. Len(p) -> Seq(S)] : Len(p) > 0 => Folded(p, f)
           T == {k \in 0 .. n : Has(Upto(q, k))}
<1>1. n \in Nat
  BY LenProperties
<1>2. 0 \in T
  <2>1. Len(Upto(q, 0)) = 0 /\ 0 \in 0 .. n
    BY <1>1, UptoIs
  <2>2. [i \in 1 .. 0 |-> << >>] \in [1 .. 0 -> Seq(S)]
    OBVIOUS
  <2>3. Has(Upto(q, 0))
    <3>1. ~(0 > 0)
      OBVIOUS
    <3> QED BY <2>1, <2>2, <3>1
  <2> QED BY <2>1, <2>3
<1>3. ASSUME NEW k \in 0 .. n, k < n, k \in T PROVE k + 1 \in T
  <2>1. /\ Upto(q, k) \in Seq(Seq(S)) /\ q[k + 1] \in Seq(S)
        /\ Upto(q, k + 1) = Append(Upto(q, k), q[k + 1])
    BY <1>3, UptoIs
  <2>2. PICK f \in [1 .. Len(Upto(q, k)) -> Seq(S)] :
          Len(Upto(q, k)) > 0 => Folded(Upto(q, k), f)
    BY <1>3
  <2>3. PICK g \in [1 .. Len(Upto(q, k)) + 1 -> Seq(S)] : Folded(Append(Upto(q, k), q[k + 1]), g)
    BY <2>1, <2>2, FoldedMore
  <2>4. Len(Append(Upto(q, k), q[k + 1])) = Len(Upto(q, k)) + 1
    BY <2>1, AppendProperties
  <2>5. Has(Upto(q, k + 1))
    BY <2>1, <2>3, <2>4
  <2>6. k + 1 \in 0 .. n
    BY <1>1, <1>3
  <2> QED BY <2>5, <2>6
<1>4. \A k \in 0 .. n : k \in T
  <2> HIDE DEF T, n
  <2> QED BY <1>1, <1>2, <1>3, Counting
<1>5. n \in T /\ Upto(q, n) = q
  BY <1>1, <1>4, UptoIs
<1> QED BY <1>5

\* Flattening nothing gives nothing.
LEMMA FlattenNothing == FlattenSeq(<< >>) = << >>
BY DEF FlattenSeq

\* Flattening gives a sequence, and the last one goes to its end.
LEMMA FlattenAppend ==
  ASSUME NEW S, NEW q \in Seq(Seq(S)), NEW x \in Seq(S)
  PROVE  /\ FlattenSeq(q) \in Seq(S)
         /\ FlattenSeq(Append(q, x)) = FlattenSeq(q) \o x
<1>1. Len(q) \in Nat
  BY LenProperties
<1>2. PICK f \in [1 .. Len(q) -> Seq(S)] : Len(q) > 0 => Folded(q, f)
  BY FoldedExists
<1>3. PICK g \in [1 .. Len(q) + 1 -> Seq(S)] :
         /\ Folded(Append(q, x), g)
         /\ g[Len(q) + 1] = IF Len(q) = 0 THEN x ELSE f[Len(q)] \o x
  BY <1>2, FoldedMore
<1>4. Append(q, x) \in Seq(Seq(S)) /\ Len(Append(q, x)) = Len(q) + 1
  BY AppendProperties
<1>5. FlattenSeq(Append(q, x)) = g[Len(q) + 1]
  <2> DEFINE r == Append(q, x)
  <2>1. r \in Seq(Seq(S)) /\ Len(r) > 0 /\ g \in [1 .. Len(r) -> Seq(S)] /\ Folded(r, g)
    BY <1>1, <1>3, <1>4
  <2> HIDE DEF r
  <2>2. FlattenSeq(r) = g[Len(r)]
    BY <2>1, FlattenIs
  <2> QED BY <1>4, <2>2 DEF r
<1>6. CASE Len(q) = 0
  <2>1. q = << >>
    BY <1>6, EmptySeq
  <2>2. << >> \o x = x /\ << >> \in Seq(S)
    BY ConcatEmptySeq, EmptySeq
  <2> QED BY <1>3, <1>5, <1>6, <2>1, <2>2, FlattenNothing
<1>7. CASE Len(q) # 0
  <2>1. FlattenSeq(q) = f[Len(q)] /\ Len(q) \in 1 .. Len(q)
    BY <1>1, <1>2, <1>7, FlattenIs
  <2> QED BY <1>3, <1>5, <1>7, <2>1
<1> QED BY <1>6, <1>7

\* Flattening two parts one behind the other.
LEMMA FlattenConcat ==
  ASSUME NEW S, NEW p \in Seq(Seq(S)), NEW q \in Seq(Seq(S))
  PROVE  FlattenSeq(p \o q) = FlattenSeq(p) \o FlattenSeq(q)
<1> DEFINE n == Len(q)
           T == {k \in 0 .. n : FlattenSeq(p \o Upto(q, k)) = FlattenSeq(p) \o FlattenSeq(Upto(q, k))}
<1>1. n \in Nat
  BY LenProperties
<1>2. FlattenSeq(p) \in Seq(S)
  <2>1. << >> \in Seq(S)
    BY EmptySeq
  <2> QED BY <2>1, FlattenAppend
<1>3. 0 \in T
  <2>1. 0 \in 0 .. n /\ Upto(q, 0) = << >>
    BY <1>1, UptoIs
  <2>2. p \o << >> = p /\ FlattenSeq(p) \o << >> = FlattenSeq(p)
    BY <1>2, ConcatEmptySeq
  <2> QED BY <2>1, <2>2, FlattenNothing
<1>4. ASSUME NEW k \in 0 .. n, k < n, k \in T PROVE k + 1 \in T
  <2> DEFINE h == Upto(q, k)
             x == q[k + 1]
  <2>1. h \in Seq(Seq(S)) /\ x \in Seq(S) /\ Upto(q, k + 1) = Append(h, x)
    BY <1>4, UptoIs
  <2>2. FlattenSeq(p \o h) = FlattenSeq(p) \o FlattenSeq(h)
    BY <1>4
  <2>3. k + 1 \in 0 .. n
    BY <1>1, <1>4
  <2> HIDE DEF h, x
  <2>4. p \o Append(h, x) = Append(p \o h, x) /\ p \o h \in Seq(Seq(S))
    BY <2>1, ConcatProperties
  <2>5. /\ FlattenSeq(h) \in Seq(S)
        /\ FlattenSeq(Append(h, x)) = FlattenSeq(h) \o x
        /\ FlattenSeq(Append(p \o h, x)) = FlattenSeq(p \o h) \o x
    BY <2>1, <2>4, FlattenAppend
  <2>6. (FlattenSeq(p) \o FlattenSeq(h)) \o x = FlattenSeq(p) \o (FlattenSeq(h) \o x)
    <3> DEFINE u == FlattenSeq(p)
               v == FlattenSeq(h)
    <3> HIDE DEF u, v
    <3>1. u \in Seq(S) /\ v \in Seq(S) /\ x \in Seq(S)
      BY <1>2, <2>1, <2>5 DEF u, v
    <3>2. (u \o v) \o x = u \o (v \o x)
      BY <3>1, ConcatAssociative, SMTT(20)
    <3> QED BY <3>2 DEF u, v
  <2>7. FlattenSeq(p \o Upto(q, k + 1)) = FlattenSeq(p) \o FlattenSeq(Upto(q, k + 1))
    BY <2>1, <2>2, <2>4, <2>5, <2>6
  <2> QED BY <2>3, <2>7
<1>5. n \in T
  <2>1. n \in 0 .. n
    BY <1>1
  <2> HIDE DEF T, n
  <2> QED BY <1>1, <1>3, <1>4, <2>1, Counting
<1> QED BY <1>1, <1>5, UptoIs

\* The first k sequences give a beginning of what all of them give.
LEMMA FlattenUpto ==
  ASSUME NEW S, NEW q \in Seq(Seq(S)), NEW k \in 0 .. Len(q)
  PROVE  /\ FlattenSeq(q) \in Seq(S)
         /\ FlattenSeq(Upto(q, k)) \in Seq(S)
         /\ IsPrefix(FlattenSeq(Upto(q, k)), FlattenSeq(q))
<1> DEFINE a == Upto(q, k)
           b == SubSeq(q, k + 1, Len(q))
<1>1. Len(q) \in Nat /\ 1 \in 1 .. Len(q) + 1 /\ k \in 1 - 1 .. Len(q) /\ Len(q) \in k .. Len(q)
  BY LenProperties
<1>2. a \o b = q
  <2>1. a \o b = SubSeq(q, 1, Len(q))
    BY <1>1, ConcatAdjacentSubSeq DEF Upto
  <2> QED BY <2>1, SubSeqFull
<1>3. a \in Seq(Seq(S))
  BY UptoIs
<1>4. b \in Seq(Seq(S))
  <2>1. k + 1 \in Int /\ Len(q) \in Int /\ \A i \in k + 1 .. Len(q) : q[i] \in Seq(S)
    BY <1>1, ElementOfSeq
  <2> QED BY <2>1, SubSeqProperties
<1> HIDE DEF a, b
<1>5. << >> \in Seq(S)
  BY EmptySeq
<1>6. FlattenSeq(a) \in Seq(S) /\ FlattenSeq(b) \in Seq(S) /\ FlattenSeq(q) \in Seq(S)
  BY <1>3, <1>4, <1>5, FlattenAppend
<1>7. FlattenSeq(q) = FlattenSeq(a) \o FlattenSeq(b)
  BY <1>2, <1>3, <1>4, FlattenConcat
<1>8. IsPrefix(FlattenSeq(a), FlattenSeq(q))
  <2> DEFINE u == FlattenSeq(a)
             v == FlattenSeq(b)
  <2> HIDE DEF u, v
  <2>1. u \in Seq(S) /\ v \in Seq(S)
    BY <1>6 DEF u, v
  <2>2. Len(u) \in Nat /\ Len(v) \in Nat
    BY <2>1, LenProperties
  <2>3. u \o v \in Seq(S) /\ Len(u \o v) = Len(u) + Len(v)
        /\ \A i \in 1 .. Len(u) + Len(v) : (u \o v)[i] = IF i <= Len(u) THEN u[i] ELSE v[i - Len(u)]
    BY <2>1, ConcatProperties
  <2>4. Len(u) \in 0 .. Len(u) /\ Len(u) \in 0 .. Len(u \o v)
    BY <2>2, <2>3
  <2>5. Upto(u, Len(u)) = u
    BY <2>1, <2>4, UptoIs
  <2>6. /\ Upto(u \o v, Len(u)) \in Seq(S) /\ Len(Upto(u \o v, Len(u))) = Len(u)
        /\ \A i \in 1 .. Len(u) : Upto(u \o v, Len(u))[i] = (u \o v)[i]
    BY <2>3, <2>4, UptoIs, ZenonT(60)
  <2>7. \A i \in 1 .. Len(u) : Upto(u \o v, Len(u))[i] = u[i]
    BY <2>2, <2>3, <2>6
  <2>8. Upto(u \o v, Len(u)) = u
    BY <2>1, <2>6, <2>7, SeqEqual
  <2> QED BY <1>7, <2>2, <2>3, <2>5, <2>8 DEF IsPrefix, Upto, u, v
<1> QED BY <1>6, <1>8 DEF a

\* Pieces that follow one another, cut at c, give the sequence they were cut from.
LEMMA FlattenPieces ==
  ASSUME NEW S, NEW s \in Seq(S), NEW q \in Seq(Seq(S)),
         NEW c \in [0 .. Len(q) -> 0 .. Len(s)], c[0] = 0, c[Len(q)] = Len(s),
         \A i \in 1 .. Len(q) : c[i - 1] =< c[i] /\ q[i] = SubSeq(s, c[i - 1] + 1, c[i])
  PROVE  FlattenSeq(q) = s
<1> DEFINE n == Len(q)
           T == {k \in 0 .. n : FlattenSeq(Upto(q, k)) = SubSeq(s, 1, c[k])}
<1>1. n \in Nat /\ Len(s) \in Nat
  BY LenProperties
<1>2. 0 \in T
  <2>1. 0 \in 0 .. n /\ Upto(q, 0) = << >>
    BY <1>1, UptoIs
  <2>2. SubSeq(s, 1, 0) = << >>
    BY SubSeqEmpty
  <2> QED BY <2>1, <2>2, FlattenNothing
<1>3. ASSUME NEW k \in 0 .. n, k < n, k \in T PROVE k + 1 \in T
  <2>1. Upto(q, k) \in Seq(Seq(S)) /\ q[k + 1] \in Seq(S) /\ Upto(q, k + 1) = Append(Upto(q, k), q[k + 1])
    BY <1>3, UptoIs
  <2>2. k + 1 \in 0 .. n /\ k + 1 \in 1 .. n /\ (k + 1) - 1 = k
    BY <1>1, <1>3
  <2>3. c[k] =< c[k + 1] /\ q[k + 1] = SubSeq(s, c[k] + 1, c[k + 1])
    BY <2>2
  <2>4. c[k] \in 0 .. Len(s) /\ c[k + 1] \in 0 .. Len(s)
    BY <2>2
  <2>5. FlattenSeq(Upto(q, k + 1)) = SubSeq(s, 1, c[k]) \o SubSeq(s, c[k] + 1, c[k + 1])
    <3>1. FlattenSeq(Append(Upto(q, k), q[k + 1])) = FlattenSeq(Upto(q, k)) \o q[k + 1]
      BY <2>1, FlattenAppend
    <3>2. FlattenSeq(Upto(q, k)) = SubSeq(s, 1, c[k])
      BY <1>3
    <3>3. FlattenSeq(Upto(q, k + 1)) = FlattenSeq(Upto(q, k)) \o q[k + 1]
      BY <2>1, <3>1
    <3> QED BY <2>3, <3>2, <3>3
  <2>6. 1 \in 1 .. Len(s) + 1 /\ c[k] \in 1 - 1 .. Len(s) /\ c[k + 1] \in c[k] .. Len(s)
    BY <1>1, <2>3, <2>4
  <2>7. SubSeq(s, 1, c[k]) \o SubSeq(s, c[k] + 1, c[k + 1]) = SubSeq(s, 1, c[k + 1])
    BY <2>6, ConcatAdjacentSubSeq
  <2> QED BY <2>2, <2>5, <2>7
<1>4. n \in T
  <2>1. n \in 0 .. n
    BY <1>1
  <2> HIDE DEF T, n
  <2> QED BY <1>1, <1>2, <1>3, <2>1, Counting
<1>5. Upto(q, n) = q /\ SubSeq(s, 1, Len(s)) = s
  BY <1>1, UptoIs, SubSeqFull
<1> QED BY <1>4, <1>5

---------------------------------------------------------------------------
(* Cutting a sequence into pieces                                          *)

\* A product grows with its first factor.
LEMMA Product ==
  ASSUME NEW a \in Nat, NEW b \in Nat, NEW d \in Nat, a =< b
  PROVE  a * d \in Nat /\ b * d \in Nat /\ a * d =< b * d /\ (a + 1) * d = a * d + d
<1>1. PICK e \in Nat : b = a + e
  <2>1. b - a \in Nat /\ b = a + (b - a)
    OBVIOUS
  <2> QED BY <2>1
<1>2. b * d = a * d + e * d
  BY <1>1
<1>3. a * d \in Nat /\ e * d \in Nat
  OBVIOUS
<1>4. (a + 1) * d = a * d + d
  OBVIOUS
<1> QED BY <1>1, <1>2, <1>3, <1>4

\* Dividing by step and rounding up.
LEMMA Ceil ==
  ASSUME NEW len \in Nat, NEW step \in Nat \ {0}
  PROVE  LET n == (len + step - 1) \div step IN
         /\ n \in Nat /\ len =< n * step
         /\ n > 0 => (n - 1) * step < len
<1> DEFINE x == len + step - 1
           n == x \div step
<1>1. x \in Nat /\ step \in Nat /\ step > 0
  OBVIOUS
<1> HIDE DEF x
<1>2. n \in Nat /\ n * step =< x /\ x < n * step + step
  BY <1>1
<1> HIDE DEF n
<1>3. n * step \in Nat /\ (n > 0 => (n - 1) * step = n * step - step)
  BY <1>1, <1>2
<1>4. len =< n * step
  BY <1>1, <1>2, <1>3 DEF x
<1>5. n > 0 => (n - 1) * step < len
  BY <1>1, <1>2, <1>3 DEF x
<1> QED BY <1>2, <1>4, <1>5 DEF n, x

\* The places where a sequence is cut into pieces of a length.
Pieces(len, step) == (len + step - 1) \div step
Cut(len, step, i) == IF i * step < len THEN i * step ELSE len

\* The cuts go from the beginning to the end, no further apart than the length.
LEMMA Cuts ==
  ASSUME NEW len \in Nat, NEW step \in Nat \ {0}
  PROVE  LET n == Pieces(len, step) IN
         /\ n \in Nat
         /\ \A i \in 0 .. n : Cut(len, step, i) \in 0 .. len
         /\ Cut(len, step, 0) = 0 /\ Cut(len, step, n) = len
         /\ \A i \in 1 .. n : /\ Cut(len, step, i - 1) = (i - 1) * step
                              /\ Cut(len, step, i) - Cut(len, step, i - 1) \in 1 .. step
         /\ \A i \in 1 .. n : i < n => Cut(len, step, i) = i * step
<1> DEFINE n == Pieces(len, step)
<1>1. n \in Nat /\ len =< n * step /\ (n > 0 => (n - 1) * step < len)
  BY Ceil DEF Pieces
<1> HIDE DEF n
<1>2. ASSUME NEW i \in 1 .. n
      PROVE  (i - 1) * step < len /\ (i - 1) * step \in Nat /\ i * step = (i - 1) * step + step
  <2>1. i - 1 \in Nat /\ n - 1 \in Nat /\ i - 1 =< n - 1 /\ n > 0 /\ step \in Nat /\ (i - 1) + 1 = i
    BY <1>1
  <2>2. /\ (i - 1) * step \in Nat /\ (n - 1) * step \in Nat /\ (i - 1) * step =< (n - 1) * step
        /\ ((i - 1) + 1) * step = (i - 1) * step + step
    BY <2>1, Product
  <2> QED BY <1>1, <2>1, <2>2
<1>3. ASSUME NEW i \in 1 .. n
      PROVE  /\ Cut(len, step, i - 1) = (i - 1) * step
             /\ Cut(len, step, i) \in 0 .. len
             /\ Cut(len, step, i) - Cut(len, step, i - 1) \in 1 .. step
  BY <1>2 DEF Cut
<1>4. ASSUME NEW i \in 1 .. n, i < n PROVE Cut(len, step, i) = i * step
  <2>1. i + 1 \in 1 .. n /\ (i + 1) - 1 = i
    BY <1>1, <1>4
  <2>2. i * step < len
    BY <1>2, <2>1
  <2> QED BY <2>2 DEF Cut
<1>5. 0 * step = 0
  OBVIOUS
<1>6. Cut(len, step, 0) = 0
  BY <1>5 DEF Cut
<1>7. Cut(len, step, n) = len
  <2>1. n * step \in Nat
    BY <1>1
  <2> QED BY <1>1, <2>1 DEF Cut
<1>8. \A i \in 0 .. n : Cut(len, step, i) \in 0 .. len
  <2> SUFFICES ASSUME NEW i \in 0 .. n PROVE Cut(len, step, i) \in 0 .. len
    OBVIOUS
  <2>1. CASE i = 0
    BY <1>6, <2>1
  <2>2. CASE i # 0
    <3>1. i \in 1 .. n
      BY <1>1, <2>2
    <3> QED BY <1>3, <3>1
  <2> QED BY <2>1, <2>2
<1> QED BY <1>1, <1>3, <1>4, <1>6, <1>7, <1>8 DEF n

\* The pieces of s of a length.
CutUp(s, step) ==
  [i \in 1 .. Pieces(Len(s), step) |-> SubSeq(s, Cut(Len(s), step, i - 1) + 1, Cut(Len(s), step, i))]

\* Joined, they are s, and none is empty.
LEMMA PiecesJoin ==
  ASSUME NEW S, NEW s \in Seq(S), NEW step \in Nat \ {0}
  PROVE  /\ CutUp(s, step) \in Seq(Seq(S)) /\ Len(CutUp(s, step)) = Pieces(Len(s), step)
         /\ FlattenSeq(CutUp(s, step)) = s
         /\ \A i \in 1 .. Len(CutUp(s, step)) : Len(CutUp(s, step)[i]) \in 1 .. step
<1> DEFINE q == CutUp(s, step)
           len == Len(s)
           n == Pieces(len, step)
           c == [i \in 0 .. n |-> Cut(len, step, i)]
<1>1. len \in Nat
  BY LenProperties
<1> HIDE DEF len
<1>2. /\ n \in Nat
      /\ \A i \in 0 .. n : Cut(len, step, i) \in 0 .. len
      /\ Cut(len, step, 0) = 0 /\ Cut(len, step, n) = len
      /\ \A i \in 1 .. n : Cut(len, step, i) - Cut(len, step, i - 1) \in 1 .. step
  BY <1>1, Cuts
<1>3. q = [i \in 1 .. n |-> SubSeq(s, Cut(len, step, i - 1) + 1, Cut(len, step, i))]
  BY DEF len, CutUp
<1> HIDE DEF n, q
<1>4. c \in [0 .. n -> 0 .. len] /\ c[0] = 0 /\ c[n] = len
  BY <1>2
<1>5. ASSUME NEW i \in 1 .. n
      PROVE  /\ q[i] = SubSeq(s, c[i - 1] + 1, c[i])
             /\ c[i - 1] =< c[i]
             /\ SubSeq(s, c[i - 1] + 1, c[i]) \in Seq(S)
             /\ Len(SubSeq(s, c[i - 1] + 1, c[i])) \in 1 .. step
  <2>1. i \in 0 .. n /\ i - 1 \in 0 .. n
    BY <1>2
  <2>2. c[i] = Cut(len, step, i) /\ c[i - 1] = Cut(len, step, i - 1)
    BY <2>1
  <2>3. c[i] \in 0 .. len /\ c[i - 1] \in 0 .. len /\ c[i] - c[i - 1] \in 1 .. step
    BY <1>2, <2>1, <2>2
  <2> HIDE DEF c
  <2>4. /\ c[i - 1] + 1 \in Int /\ c[i] \in Int /\ c[i - 1] + 1 =< c[i]
        /\ c[i] - (c[i - 1] + 1) + 1 = c[i] - c[i - 1]
    BY <1>1, <2>3
  <2>5. \A j \in c[i - 1] + 1 .. c[i] : s[j] \in S
    <3> SUFFICES ASSUME NEW j \in c[i - 1] + 1 .. c[i] PROVE s[j] \in S
      OBVIOUS
    <3>1. j \in 1 .. Len(s)
      BY <1>1, <2>3 DEF len
    <3> QED BY <3>1, ElementOfSeq
  <2>6. SubSeq(s, c[i - 1] + 1, c[i]) \in Seq(S)
        /\ Len(SubSeq(s, c[i - 1] + 1, c[i])) = c[i] - (c[i - 1] + 1) + 1
    BY <2>4, <2>5, SubSeqProperties
  <2>7. q[i] = SubSeq(s, c[i - 1] + 1, c[i])
    BY <1>3, <2>2
  <2>8. c[i - 1] =< c[i] /\ c[i] - (c[i - 1] + 1) + 1 \in 1 .. step
    BY <1>1, <2>3
  <2> QED BY <2>6, <2>7, <2>8
<1> HIDE DEF c
<1>6. q \in [1 .. n -> Seq(S)]
  BY <1>3, <1>5
<1>7. q \in Seq(Seq(S)) /\ Len(q) = n
  <2>1. n \in Nat
    BY <1>2
  <2> QED BY <1>6, <2>1
<1>8. FlattenSeq(q) = s
  <2>1. c \in [0 .. Len(q) -> 0 .. Len(s)] /\ c[0] = 0 /\ c[Len(q)] = Len(s)
        /\ \A i \in 1 .. Len(q) : c[i - 1] =< c[i] /\ q[i] = SubSeq(s, c[i - 1] + 1, c[i])
    BY <1>4, <1>5, <1>7 DEF len
  <2> QED BY <1>7, <2>1, FlattenPieces
<1> QED BY <1>5, <1>7, <1>8 DEF n, len, q

\* The segments a value is written in, joined, are the value; none is empty, or
\* longer than its length can say.
LEMMA ChunksJoin ==
  ASSUME NEW S, NEW s \in Seq(S)
  PROVE  /\ chunks(s) \in Seq(Seq(S))
         /\ FlattenSeq(chunks(s)) = s
         /\ \A j \in DOMAIN chunks(s) : Len(chunks(s)[j]) \in 1 .. Chunk
<1> DEFINE q == CutUp(s, Chunk)
<1>1. Chunk \in Nat \ {0} /\ Len(s) \in Nat
  BY LengthsAssumption, LenProperties
<1>2. \A i \in 1 .. Pieces(Len(s), Chunk) : Cut(Len(s), Chunk, i - 1) = (i - 1) * Chunk
  BY <1>1, Cuts
<1>3. chunks(s) = q
  BY <1>2 DEF chunks, Pieces, Cut, CutUp
<1> HIDE DEF q
<1>4. /\ q \in Seq(Seq(S)) /\ FlattenSeq(q) = s
      /\ \A i \in 1 .. Len(q) : Len(q[i]) \in 1 .. Chunk
  BY <1>1, PiecesJoin DEF q
<1>5. DOMAIN q = 1 .. Len(q)
  BY <1>4, LenProperties
<1> QED BY <1>3, <1>4, <1>5

---------------------------------------------------------------------------
(* Blobs: what is written in segments and read in slices                   *)

Bytes(calls) == [i \in DOMAIN calls |-> calls[i].bytes]
CallsOf(S) == [bytes : Seq(S), status : {"ok", "isc_segment"}]

\* Each call gives some bytes.
LEMMA BytesIs ==
  ASSUME NEW S, NEW calls \in Seq(CallsOf(S))
  PROVE  /\ Bytes(calls) \in Seq(Seq(S))
         /\ Len(Bytes(calls)) = Len(calls)
         /\ \A i \in 1 .. Len(calls) : Bytes(calls)[i] = calls[i].bytes
<1>1. Len(calls) \in Nat /\ DOMAIN calls = 1 .. Len(calls)
  BY LenProperties
<1>2. \A i \in 1 .. Len(calls) : calls[i].bytes \in Seq(S)
  <2> SUFFICES ASSUME NEW i \in 1 .. Len(calls) PROVE calls[i].bytes \in Seq(S)
    OBVIOUS
  <2>1. calls[i] \in CallsOf(S)
    BY ElementOfSeq
  <2> QED BY <2>1 DEF CallsOf
<1>3. Bytes(calls) = [i \in 1 .. Len(calls) |-> calls[i].bytes]
  BY <1>1 DEF Bytes
<1>4. Bytes(calls) \in [1 .. Len(calls) -> Seq(S)]
  BY <1>2, <1>3
<1>5. Bytes(calls) \in Seq(Seq(S)) /\ Len(Bytes(calls)) = Len(calls)
  BY <1>1, <1>4
<1> QED BY <1>3, <1>5

\* Two runs of calls give the bytes of both.
LEMMA BytesConcat ==
  ASSUME NEW S, NEW a \in Seq(CallsOf(S)), NEW b \in Seq(CallsOf(S))
  PROVE  Bytes(a \o b) = Bytes(a) \o Bytes(b)
<1>1. Len(a) \in Nat /\ Len(b) \in Nat
  BY LenProperties
<1>2. a \o b \in Seq(CallsOf(S)) /\ Len(a \o b) = Len(a) + Len(b)
      /\ \A i \in 1 .. Len(a) + Len(b) : (a \o b)[i] = IF i <= Len(a) THEN a[i] ELSE b[i - Len(a)]
  BY ConcatProperties
<1>3. /\ Bytes(a) \in Seq(Seq(S)) /\ Len(Bytes(a)) = Len(a)
      /\ \A i \in 1 .. Len(a) : Bytes(a)[i] = a[i].bytes
  BY BytesIs
<1>4. /\ Bytes(b) \in Seq(Seq(S)) /\ Len(Bytes(b)) = Len(b)
      /\ \A i \in 1 .. Len(b) : Bytes(b)[i] = b[i].bytes
  BY BytesIs
<1>5. /\ Bytes(a \o b) \in Seq(Seq(S)) /\ Len(Bytes(a \o b)) = Len(a) + Len(b)
      /\ \A i \in 1 .. Len(a) + Len(b) : Bytes(a \o b)[i] = (a \o b)[i].bytes
  BY <1>2, BytesIs
<1>6. /\ Bytes(a) \o Bytes(b) \in Seq(Seq(S)) /\ Len(Bytes(a) \o Bytes(b)) = Len(a) + Len(b)
      /\ \A i \in 1 .. Len(a) + Len(b) :
           (Bytes(a) \o Bytes(b))[i] = IF i <= Len(a) THEN Bytes(a)[i] ELSE Bytes(b)[i - Len(a)]
  <2> DEFINE p == Bytes(a)
             q == Bytes(b)
  <2>1. p \in Seq(Seq(S)) /\ q \in Seq(Seq(S)) /\ Len(p) = Len(a) /\ Len(q) = Len(b)
    BY <1>3, <1>4
  <2> HIDE DEF p, q
  <2>2. /\ p \o q \in Seq(Seq(S)) /\ Len(p \o q) = Len(a) + Len(b)
        /\ \A i \in 1 .. Len(a) + Len(b) : (p \o q)[i] = IF i <= Len(a) THEN p[i] ELSE q[i - Len(a)]
    <3>1. /\ p \o q \in Seq(Seq(S)) /\ Len(p \o q) = Len(p) + Len(q)
          /\ \A i \in 1 .. Len(p) + Len(q) : (p \o q)[i] = IF i <= Len(p) THEN p[i] ELSE q[i - Len(p)]
      <4>1. p \in Seq(Seq(S)) /\ q \in Seq(Seq(S))
        BY <2>1
      <4> QED BY ONLY <4>1, ConcatProperties
    <3>2. Len(p) = Len(a) /\ Len(q) = Len(b)
      BY <2>1
    <3> QED BY <3>1, <3>2
  <2> QED BY <2>2 DEF p, q
<1>7. ASSUME NEW i \in 1 .. Len(a) + Len(b) PROVE Bytes(a \o b)[i] = (Bytes(a) \o Bytes(b))[i]
  <2>1. CASE i =< Len(a)
    <3>1. i \in 1 .. Len(a)
      BY <1>1, <2>1
    <3> QED BY <1>2, <1>3, <1>5, <1>6, <2>1, <3>1
  <2>2. CASE ~(i =< Len(a))
    <3>1. i - Len(a) \in 1 .. Len(b)
      BY <1>1, <2>2
    <3> QED BY <1>2, <1>4, <1>5, <1>6, <2>2, <3>1
  <2> QED BY <2>1, <2>2
<1> QED BY <1>5, <1>6, <1>7, SeqEqual

\* The first k calls give what the first k gave.
LEMMA BytesUpto ==
  ASSUME NEW S, NEW calls \in Seq(CallsOf(S)), NEW k \in 0 .. Len(calls)
  PROVE  Bytes(Upto(calls, k)) = Upto(Bytes(calls), k)
<1>0. Len(calls) \in Nat
  BY LenProperties
<1>1. /\ Upto(calls, k) \in Seq(CallsOf(S)) /\ Len(Upto(calls, k)) = k
      /\ \A i \in 1 .. k : Upto(calls, k)[i] = calls[i]
  BY UptoIs
<1>2. /\ Bytes(calls) \in Seq(Seq(S)) /\ Len(Bytes(calls)) = Len(calls)
      /\ \A i \in 1 .. Len(calls) : Bytes(calls)[i] = calls[i].bytes
  BY BytesIs
<1>3. /\ Bytes(Upto(calls, k)) \in Seq(Seq(S)) /\ Len(Bytes(Upto(calls, k))) = k
      /\ \A i \in 1 .. k : Bytes(Upto(calls, k))[i] = Upto(calls, k)[i].bytes
  BY <1>1, BytesIs
<1>4. /\ Upto(Bytes(calls), k) \in Seq(Seq(S)) /\ Len(Upto(Bytes(calls), k)) = k
      /\ \A i \in 1 .. k : Upto(Bytes(calls), k)[i] = Bytes(calls)[i]
  BY <1>2, UptoIs
<1>5. \A i \in 1 .. k : Bytes(Upto(calls, k))[i] = Upto(Bytes(calls), k)[i]
  <2> SUFFICES ASSUME NEW i \in 1 .. k PROVE Bytes(Upto(calls, k))[i] = Upto(Bytes(calls), k)[i]
    OBVIOUS
  <2>1. i \in 1 .. Len(calls)
    BY <1>0
  <2>2. Bytes(Upto(calls, k))[i] = calls[i].bytes
    BY <1>1, <1>3
  <2>3. Upto(Bytes(calls), k)[i] = calls[i].bytes
    BY <1>2, <1>4, <2>1
  <2> QED BY <2>2, <2>3
<1> QED BY <1>3, <1>4, <1>5, SeqEqual

\* The slices of a segment, joined, are the segment.
LEMMA SlicesJoin ==
  ASSUME NEW S, NEW s \in Seq(S)
  PROVE  /\ Slices(s) \in Seq(CallsOf(S))
         /\ FlattenSeq(Bytes(Slices(s))) = s
<1> DEFINE n == Pieces(Len(s), Slice)
           q == CutUp(s, Slice)
<1>1. Slice \in Nat \ {0} /\ Len(s) \in Nat
  BY LengthsAssumption, LenProperties
<1>2. /\ n \in Nat
      /\ Cut(Len(s), Slice, n) = Len(s)
      /\ \A i \in 1 .. n : Cut(Len(s), Slice, i - 1) = (i - 1) * Slice
      /\ \A i \in 1 .. n : i < n => Cut(Len(s), Slice, i) = i * Slice
  BY <1>1, Cuts
<1>3. q \in Seq(Seq(S)) /\ Len(q) = n /\ FlattenSeq(q) = s
  BY <1>1, PiecesJoin
<1>4. Slices(s) = [i \in 1 .. n |->
                     [bytes |-> SubSeq(s, (i - 1) * Slice + 1, IF i < n THEN i * Slice ELSE Len(s)),
                      status |-> IF i < n THEN "isc_segment" ELSE "ok"]]
  BY DEF Slices, Pieces
<1>5. q = [i \in 1 .. n |-> SubSeq(s, Cut(Len(s), Slice, i - 1) + 1, Cut(Len(s), Slice, i))]
  BY DEF CutUp
<1> HIDE DEF q, n
<1>6. ASSUME NEW i \in 1 .. n
      PROVE  Slices(s)[i] \in CallsOf(S) /\ Slices(s)[i].bytes = q[i]
  <2>1. q[i] \in Seq(S)
    BY <1>3, ElementOfSeq
  <2>2. Cut(Len(s), Slice, i - 1) = (i - 1) * Slice
    BY <1>2
  <2>3. Cut(Len(s), Slice, i) = IF i < n THEN i * Slice ELSE Len(s)
    <3>1. ~(i < n) => i = n
      BY <1>2
    <3> QED BY <1>2, <3>1
  <2>4. q[i] = SubSeq(s, (i - 1) * Slice + 1, IF i < n THEN i * Slice ELSE Len(s))
    BY <1>5, <2>2, <2>3
  <2>5. Slices(s)[i] = [bytes |-> q[i], status |-> IF i < n THEN "isc_segment" ELSE "ok"]
    BY <1>4, <2>4
  <2> QED BY <2>1, <2>5 DEF CallsOf
<1>7. Slices(s) \in Seq(CallsOf(S)) /\ Len(Slices(s)) = n
  <2>1. Slices(s) \in [1 .. n -> CallsOf(S)]
    BY <1>4, <1>6
  <2> QED BY <1>2, <2>1
<1>8. Bytes(Slices(s)) = q
  <2>1. /\ Bytes(Slices(s)) \in Seq(Seq(S)) /\ Len(Bytes(Slices(s))) = n
        /\ \A i \in 1 .. n : Bytes(Slices(s))[i] = Slices(s)[i].bytes
    BY <1>7, BytesIs
  <2>2. \A i \in 1 .. n : Bytes(Slices(s))[i] = q[i]
    BY <1>6, <2>1
  <2> QED BY <1>3, <2>1, <2>2, SeqEqual
<1> QED BY <1>3, <1>7, <1>8

\* The calls that serve a blob give its segments, joined.
LEMMA SegmentsJoin ==
  ASSUME NEW S, NEW blob \in Seq(Seq(S))
  PROVE  /\ Segments(blob) \in Seq(CallsOf(S))
         /\ FlattenSeq(Bytes(Segments(blob))) = FlattenSeq(blob)
<1> DEFINE n == Len(blob)
           q == [i \in DOMAIN blob |-> Slices(blob[i])]
           T == {k \in 0 .. n : /\ FlattenSeq(Upto(q, k)) \in Seq(CallsOf(S))
                                /\ FlattenSeq(Bytes(FlattenSeq(Upto(q, k)))) = FlattenSeq(Upto(blob, k))}
<1>1. n \in Nat /\ DOMAIN blob = 1 .. n
  BY LenProperties
<1>2. ASSUME NEW i \in 1 .. n
      PROVE  /\ q[i] = Slices(blob[i]) /\ q[i] \in Seq(CallsOf(S)) /\ blob[i] \in Seq(S)
             /\ FlattenSeq(Bytes(q[i])) = blob[i]
  <2>1. q[i] = Slices(blob[i])
    BY <1>1
  <2>2. blob[i] \in Seq(S)
    BY ElementOfSeq
  <2> HIDE DEF q
  <2> QED BY <2>1, <2>2, SlicesJoin
<1>3. q \in Seq(Seq(CallsOf(S))) /\ Len(q) = n
  <2>1. q \in [1 .. n -> Seq(CallsOf(S))]
    BY <1>1, <1>2
  <2> HIDE DEF q
  <2> QED BY <1>1, <2>1
<1>4. Segments(blob) = FlattenSeq(q)
  BY DEF Segments
<1> HIDE DEF q
<1>5. 0 \in T
  <2>1. 0 \in 0 .. n /\ Upto(q, 0) = << >> /\ Upto(blob, 0) = << >>
    BY <1>1, <1>3, UptoIs
  <2>2. << >> \in Seq(CallsOf(S)) /\ Len(<< >>) = 0
    BY EmptySeq
  <2>3. Bytes(<< >>) = << >>
    <3>1. Bytes(<< >>) \in Seq(Seq(S)) /\ Len(Bytes(<< >>)) = 0
      BY <2>2, BytesIs
    <3> QED BY <3>1, EmptySeq
  <2> QED BY <2>1, <2>2, <2>3, FlattenNothing
<1>6. ASSUME NEW k \in 0 .. n, k < n, k \in T PROVE k + 1 \in T
  <2> DEFINE a == FlattenSeq(Upto(q, k))
             x == q[k + 1]
  <2>1. k + 1 \in 1 .. n /\ k + 1 \in 0 .. n
    BY <1>1, <1>6
  <2>2. Upto(q, k) \in Seq(Seq(CallsOf(S))) /\ Upto(q, k + 1) = Append(Upto(q, k), x)
    BY <1>3, <1>6, UptoIs
  <2>3. x \in Seq(CallsOf(S)) /\ FlattenSeq(Bytes(x)) = blob[k + 1] /\ blob[k + 1] \in Seq(S)
    BY <1>2, <2>1
  <2>4. a \in Seq(CallsOf(S)) /\ FlattenSeq(Bytes(a)) = FlattenSeq(Upto(blob, k))
    BY <1>6
  <2>5. Upto(blob, k) \in Seq(Seq(S)) /\ Upto(blob, k + 1) = Append(Upto(blob, k), blob[k + 1])
    BY <1>6, UptoIs
  <2>6. FlattenSeq(Upto(q, k + 1)) = a \o x
    <3> HIDE DEF x
    <3> QED BY <2>2, <2>3, FlattenAppend
  <2> HIDE DEF a, x
  <2>7. a \o x \in Seq(CallsOf(S))
    BY <2>3, <2>4, ConcatProperties
  <2>8. FlattenSeq(Bytes(a \o x)) = FlattenSeq(Bytes(a)) \o FlattenSeq(Bytes(x))
    <3>1. Bytes(a) \in Seq(Seq(S)) /\ Bytes(x) \in Seq(Seq(S))
      BY <2>3, <2>4, BytesIs
    <3>2. Bytes(a \o x) = Bytes(a) \o Bytes(x)
      BY <2>3, <2>4, BytesConcat
    <3>3. FlattenSeq(Bytes(a) \o Bytes(x)) = FlattenSeq(Bytes(a)) \o FlattenSeq(Bytes(x))
      BY <3>1, FlattenConcat
    <3> QED BY <3>2, <3>3
  <2>9. FlattenSeq(Upto(blob, k + 1)) = FlattenSeq(Upto(blob, k)) \o blob[k + 1]
    BY <2>3, <2>5, FlattenAppend
  <2> QED BY <2>1, <2>3, <2>4, <2>6, <2>7, <2>8, <2>9
<1>7. n \in T
  <2>1. n \in 0 .. n
    BY <1>1
  <2> HIDE DEF T, n
  <2> QED BY <1>1, <1>5, <1>6, <2>1, Counting
<1>8. Upto(q, n) = q /\ Upto(blob, n) = blob
  BY <1>1, <1>3, UptoIs
<1> QED BY <1>4, <1>7, <1>8

---------------------------------------------------------------------------
(***************************************************************************)
(* What is stored is what is read.  A value is followed from its parameter *)
(* into the row or the blob, and from there through a cursor that may have *)
(* been opened earlier: blobs are only added, so every row keeps its own.  *)
(***************************************************************************)

RowTypes ==
  [value : Seq(Nat), cell : [holds : {"text"}, data : Seq(Nat)] \cup [holds : {"blob"}, data : Nat]]

\* The column of the row has the value that was stored.
Served(store, row) ==
  IF row.cell.holds = "text" THEN row.cell.data = row.value
  ELSE row.cell.data \in 1 .. Len(store) /\ FlattenSeq(store[row.cell.data]) = row.value

HandlesOK ==
  /\ db \in Handles({"db"}) \cup {Null} /\ tr \in Handles({"tr"}) \cup {Null}
  /\ stmt.handle \in Handles({"stmt"}) \cup {Null} /\ stmt.sql \in {"none", "insert", "select"}
  /\ stmt = [handle |-> stmt.handle, sql |-> stmt.sql, rows |-> stmt.rows]
  /\ waiting \in {"no", "first", "second"}
  /\ open \subseteq Handles({"db", "tr", "stmt", "blob"}) \cup EventBuffers
  /\ lost \subseteq Handles({"stmt", "blob"})

BlobsOK ==
  /\ blobs \in Seq(Seq(Seq(Nat))) /\ Len(blobs) =< MaxRows
  /\ \A i \in DOMAIN blobs : \A j \in DOMAIN blobs[i] : Len(blobs[i][j]) \in 1..Chunk

RowsOK(store, rows) == rows \in Seq(RowTypes) /\ \A i \in 1 .. Len(rows) : Served(store, rows[i])

TableOK == RowsOK(blobs, table) /\ Len(table) =< MaxRows /\ work \in 0 .. Len(table)

CursorOK == RowsOK(blobs, stmt.rows)

ReadOK(r) == IF r.failed THEN IsPrefix(r.got, r.stored) ELSE r.got = r.stored

SentOK == sent \in [type : {"text", "blob"}, holds : {"text", "blob"}]

DataOK == BlobsOK /\ TableOK /\ CursorOK /\ ReadOK(read) /\ SentOK

WholeInv == HandlesOK /\ DataOK

---------------------------------------------------------------------------

\* A column gives the value that was stored, or what came before the read failed.
LEMMA ColumnIsWhole ==
  ASSUME NEW store \in Seq(Seq(Seq(Nat))), NEW row \in RowTypes, Served(store, row),
         NEW good \in 0 .. Calls(store, row)
  PROVE  ReadOK(Column(store, row, good))
<1>1. CASE row.cell.holds = "text"
  BY <1>1 DEF Column, ReadOK, Served
<1>2. CASE row.cell.holds # "text"
  <2> DEFINE blob == store[row.cell.data]
             calls == Segments(blob)
             q == Bytes(calls)
  <2>1. blob \in Seq(Seq(Nat)) /\ FlattenSeq(blob) = row.value
    <3>1. row.cell.data \in 1 .. Len(store) /\ FlattenSeq(blob) = row.value
      BY <1>2 DEF Served
    <3> QED BY <3>1, ElementOfSeq
  <2>2. calls \in Seq(CallsOf(Nat)) /\ FlattenSeq(q) = row.value
    <3> HIDE DEF blob
    <3> QED BY <2>1, SegmentsJoin
  <2>3. good \in 0 .. Len(calls)
    BY <1>2 DEF Calls
  <2>4. Column(store, row, good) =
          [stored |-> row.value, got |-> FlattenSeq(Bytes(Upto(calls, good))), failed |-> good < Len(calls)]
    BY <1>2 DEF Column, read_blob, Bytes, Upto
  <2> HIDE DEF calls, q
  <2>5. Len(calls) \in Nat
    BY <2>2, LenProperties
  <2>6. q \in Seq(Seq(Nat)) /\ Len(q) = Len(calls)
    BY <2>2, BytesIs DEF q
  <2>7. Bytes(Upto(calls, good)) = Upto(q, good)
    BY <2>2, <2>3, BytesUpto DEF q
  <2>8. CASE good < Len(calls)
    <3>1. IsPrefix(FlattenSeq(Upto(q, good)), FlattenSeq(q))
      BY <2>3, <2>6, FlattenUpto
    <3>2. Column(store, row, good) =
            [stored |-> row.value, got |-> FlattenSeq(Upto(q, good)), failed |-> TRUE]
      BY <2>4, <2>7, <2>8
    <3>3. IsPrefix(FlattenSeq(Upto(q, good)), row.value)
      BY <2>2, <3>1 DEF q
    <3> QED BY <3>2, <3>3 DEF ReadOK
  <2>9. CASE ~(good < Len(calls))
    <3>1. good = Len(q)
      BY <2>3, <2>5, <2>6, <2>9
    <3>2. Upto(q, good) = q
      BY <2>3, <2>6, <3>1, UptoIs
    <3>3. Column(store, row, good) = [stored |-> row.value, got |-> row.value, failed |-> FALSE]
      <4>1. FlattenSeq(Bytes(Upto(calls, good))) = row.value
        BY <2>2, <2>7, <3>2
      <4>2. (good < Len(calls)) = FALSE
        BY <2>9
      <4> QED BY <2>4, <4>1, <4>2
    <3> QED BY <3>3 DEF ReadOK
  <2> QED BY <2>8, <2>9
<1> QED BY <1>1, <1>2

\* A parameter that is sent is stored whole, as the last blob or in the row itself,
\* and every row keeps its own blob.
LEMMA BindStores ==
  ASSUME NEW v \in Values, BlobsOK, Len(blobs) < MaxRows, Stored(v)
  PROVE  /\ BlobsOK'
         /\ \A row \in RowTypes : Served(blobs, row) => Served(blobs', row)
         /\ Row(v) \in RowTypes /\ Served(blobs', Row(v))
         /\ Buffer(v).holds \in {"text", "blob"}
<1>1. v.enc \in Nat
  BY ValuesAssumption
<1>2. encode(v) \in Seq(Nat)
  <2>1. encode(v) \in [1 .. v.enc -> Nat]
    BY <1>1 DEF encode
  <2> QED BY <1>1, <2>1
<1>3. /\ blobs \in Seq(Seq(Seq(Nat))) /\ Len(blobs) \in Nat /\ MaxRows \in Nat
      /\ DOMAIN blobs = 1 .. Len(blobs)
      /\ \A i \in 1 .. Len(blobs) : \A j \in DOMAIN blobs[i] : Len(blobs[i][j]) \in 1 .. Chunk
  BY LengthsAssumption, LenProperties DEF BlobsOK
<1>4. CASE AsBlob(v)
  <2> DEFINE new == chunks(encode(v))
  <2>1. new \in Seq(Seq(Nat)) /\ FlattenSeq(new) = encode(v)
        /\ \A j \in DOMAIN new : Len(new[j]) \in 1 .. Chunk
    BY <1>2, ChunksJoin
  <2>2. blobs' = Append(blobs, new)
    BY <1>4 DEF Stored
  <2> HIDE DEF new
  <2>3. /\ blobs' \in Seq(Seq(Seq(Nat))) /\ Len(blobs') = Len(blobs) + 1
        /\ \A i \in 1 .. Len(blobs) : blobs'[i] = blobs[i]
        /\ blobs'[Len(blobs) + 1] = new
    BY <1>3, <2>1, <2>2, AppendProperties
  <2>4. BlobsOK'
    <3>1. DOMAIN blobs' = 1 .. Len(blobs) + 1
      BY <2>3, LenProperties
    <3>2. Len(blobs') =< MaxRows
      BY <1>3, <2>3
    <3>3. ASSUME NEW i \in DOMAIN blobs', NEW j \in DOMAIN blobs'[i]
          PROVE  Len(blobs'[i][j]) \in 1 .. Chunk
      <4>1. CASE i = Len(blobs) + 1
        BY <2>1, <2>3, <3>3, <4>1
      <4>2. CASE i # Len(blobs) + 1
        <5>1. i \in 1 .. Len(blobs)
          BY <1>3, <3>1, <3>3, <4>2
        <5> QED BY <1>3, <2>3, <3>3, <5>1
      <4> QED BY <4>1, <4>2
    <3> QED BY <2>3, <3>2, <3>3 DEF BlobsOK
  <2>5. ASSUME NEW row \in RowTypes, Served(blobs, row) PROVE Served(blobs', row)
    <3>1. CASE row.cell.holds = "text"
      BY <2>5, <3>1 DEF Served
    <3>2. CASE row.cell.holds # "text"
      <4>1. row.cell.data \in 1 .. Len(blobs) /\ FlattenSeq(blobs[row.cell.data]) = row.value
        BY <2>5, <3>2 DEF Served
      <4>2. blobs'[row.cell.data] = blobs[row.cell.data] /\ row.cell.data \in 1 .. Len(blobs')
        BY <1>3, <2>3, <4>1
      <4> QED BY <3>2, <4>1, <4>2 DEF Served
    <3> QED BY <3>1, <3>2
  <2>6. Row(v) = [value |-> encode(v), cell |-> [holds |-> "blob", data |-> Len(blobs')]]
        /\ Buffer(v).holds = "blob"
    BY <1>4 DEF Row, Buffer
  <2>7. Len(blobs') \in Nat /\ Len(blobs') \in 1 .. Len(blobs') /\ blobs'[Len(blobs')] = new
    BY <1>3, <2>3
  <2>8. Row(v) \in RowTypes /\ Served(blobs', Row(v))
    BY <1>2, <2>1, <2>6, <2>7 DEF RowTypes, Served
  <2> QED BY <2>4, <2>5, <2>6, <2>8
<1>5. CASE ~AsBlob(v)
  <2>1. blobs' = blobs
    BY <1>5 DEF Stored
  <2>2. Row(v) = [value |-> encode(v), cell |-> [holds |-> "text", data |-> encode(v)]]
        /\ Buffer(v).holds = "text"
    BY <1>5 DEF Row, Buffer
  <2>3. Row(v) \in RowTypes /\ Served(blobs', Row(v))
    BY <1>2, <2>2 DEF RowTypes, Served
  <2>4. BlobsOK'
    BY <2>1 DEF BlobsOK
  <2> QED BY <2>1, <2>2, <2>3, <2>4
<1> QED BY <1>4, <1>5

---------------------------------------------------------------------------
(* The steps: the handles                                                  *)

\* The library gives out a handle of the kind asked for, with a number it may have.
LEMMA NewIsTyped ==
  ASSUME NEW kind, CanOpen(kind)
  PROVE  New(kind) \in Handles({kind})
BY DEF New, CanOpen, Handles

\* No step gives a handle of a kind to somebody who has another.
LEMMA StepTypesHandles == HandlesOK /\ [Next]_vars => HandlesOK'
<1> SUFFICES ASSUME HandlesOK, [Next]_vars PROVE HandlesOK'
  OBVIOUS
<1>1. ASSUME NEW k \in {"db", "tr", "stmt", "blob"}
      PROVE  Handles({k}) \subseteq Handles({"db", "tr", "stmt", "blob"})
  BY DEF Handles
<1>2. ASSUME NEW k \in {"stmt", "blob"} PROVE Handles({k}) \subseteq Handles({"stmt", "blob"})
  BY DEF Handles
<1>3. ASSUME stmt' = stmt \/ \E rows : stmt' = [stmt EXCEPT !.rows = rows]
      PROVE  /\ stmt'.handle = stmt.handle /\ stmt'.sql = stmt.sql
             /\ stmt' = [handle |-> stmt'.handle, sql |-> stmt'.sql, rows |-> stmt'.rows]
  BY <1>3 DEF HandlesOK
<1>4. ASSUME stmt' = stmt \/ \E rows : stmt' = [stmt EXCEPT !.rows = rows],
             UNCHANGED <<db, tr, waiting>>,
             UNCHANGED <<open, lost>>
               \/ \E k \in {"stmt", "blob"} :
                    /\ CanOpen(k)
                    /\ open' = open \cup {New(k)} /\ lost' = lost \cup {New(k)}
      PROVE  HandlesOK'
  <2>1. CASE UNCHANGED <<open, lost>>
    BY <1>3, <1>4, <2>1 DEF HandlesOK
  <2>2. CASE \E k \in {"stmt", "blob"} :
               CanOpen(k) /\ open' = open \cup {New(k)} /\ lost' = lost \cup {New(k)}
    <3>1. PICK k \in {"stmt", "blob"} :
            CanOpen(k) /\ open' = open \cup {New(k)} /\ lost' = lost \cup {New(k)}
      BY <2>2
    <3>2. New(k) \in Handles({"stmt", "blob"}) /\ New(k) \in Handles({"db", "tr", "stmt", "blob"})
      BY <1>1, <1>2, <3>1, NewIsTyped
    <3> QED BY <1>3, <1>4, <3>1, <3>2 DEF HandlesOK
  <2> QED BY <1>4, <2>1, <2>2
<1>5. CASE Attach
  <2>1. db' \in Handles({"db"}) /\ open' = open \cup {db'} /\ UNCHANGED <<tr, stmt, lost, waiting>>
    BY <1>5, NewIsTyped DEF Attach, Unchanged
  <2> QED BY <1>1, <2>1 DEF HandlesOK
<1>6. CASE Detach
  BY <1>6 DEF Detach, Unchanged, HandlesOK
<1>7. CASE BeginTransaction
  <2>1. tr' \in Handles({"tr"}) /\ open' = open \cup {tr'} /\ UNCHANGED <<db, stmt, lost, waiting>>
    BY <1>7, NewIsTyped DEF BeginTransaction, Unchanged
  <2> QED BY <1>1, <2>1 DEF HandlesOK
<1>8. ASSUME NEW op, EndTransaction(op) PROVE HandlesOK'
  <2>1. tr' = Null /\ open' \subseteq open /\ lost' \subseteq lost /\ UNCHANGED <<db, waiting>>
        /\ stmt' = [stmt EXCEPT !.rows = <<>>]
    BY <1>8 DEF EndTransaction, Unchanged
  <2> QED BY <1>3, <2>1 DEF HandlesOK
<1>9. ASSUME NEW sql \in {"insert", "select"}, PrepareOk(sql) PROVE HandlesOK'
  <2>1. /\ New("stmt") \in Handles({"stmt"}) /\ stmt' = [handle |-> New("stmt"), sql |-> sql, rows |-> <<>>]
        /\ open' = open \cup {stmt'.handle} /\ UNCHANGED <<db, tr, lost, waiting>>
    BY <1>9, NewIsTyped DEF PrepareOk, Unchanged
  <2>2. stmt'.handle = New("stmt") /\ stmt'.sql = sql /\ stmt'.rows = <<>>
    BY <2>1
  <2> QED BY <1>1, <2>1, <2>2 DEF HandlesOK
<1>10. CASE Drop
  BY <1>10 DEF Drop, Unchanged, HandlesOK, NoStmt
<1>11. ASSUME NEW op, RetainTransaction(op) PROVE HandlesOK'
  BY <1>4, <1>11 DEF RetainTransaction, Unchanged
<1>12. ASSUME NEW step, PrepareFails(step) PROVE HandlesOK'
  BY <1>4, <1>12 DEF PrepareFails, Unchanged
<1>13. CASE CloseCursor \/ OpenCursor \/ Fetch
  BY <1>4, <1>13 DEF CloseCursor, OpenCursor, Fetch, Unchanged
<1>14. ASSUME NEW v, BlobWriteFails(v) PROVE HandlesOK'
  BY <1>4, <1>14 DEF BlobWriteFails, Unchanged
<1>15. ASSUME NEW v, Execute(v) \/ ExecuteFails(v) \/ Execute2(v) PROVE HandlesOK'
  BY <1>4, <1>15 DEF Execute, ExecuteFails, Execute2, Unchanged
<1>16. CASE FetchFails
  BY <1>4, <1>16 DEF FetchFails, Unchanged
<1>17. CASE WaitForEvent \/ WaitAgain \/ WaitReturns
  BY <1>17 DEF WaitForEvent, WaitAgain, WaitReturns, HandlesOK
<1>18. CASE UNCHANGED vars
  BY <1>18 DEF vars, HandlesOK
<1> QED BY <1>5, <1>6, <1>7, <1>8, <1>9, <1>10, <1>11, <1>12, <1>13, <1>14, <1>15, <1>16, <1>17, <1>18 DEF Next

---------------------------------------------------------------------------
(* The steps: the data                                                     *)

\* A beginning of the rows, and the rows behind the first, are served as they were.
LEMMA FewerRows ==
  ASSUME NEW store, NEW rows, RowsOK(store, rows)
  PROVE  /\ RowsOK(store, <<>>)
         /\ \A k \in 0 .. Len(rows) : RowsOK(store, SubSeq(rows, 1, k)) /\ Len(SubSeq(rows, 1, k)) = k
         /\ rows # <<>> => /\ RowsOK(store, Tail(rows))
                           /\ Head(rows) \in RowTypes /\ Served(store, Head(rows))
<1>1. rows \in Seq(RowTypes) /\ Len(rows) \in Nat /\ \A i \in 1 .. Len(rows) : Served(store, rows[i])
  BY LenProperties DEF RowsOK
<1>2. RowsOK(store, <<>>)
  BY EmptySeq DEF RowsOK
<1>3. ASSUME NEW k \in 0 .. Len(rows)
      PROVE  RowsOK(store, SubSeq(rows, 1, k)) /\ Len(SubSeq(rows, 1, k)) = k
  <2>1. /\ Upto(rows, k) \in Seq(RowTypes) /\ Len(Upto(rows, k)) = k
        /\ \A i \in 1 .. k : Upto(rows, k)[i] = rows[i]
    BY <1>1, UptoIs
  <2>2. \A i \in 1 .. k : Served(store, Upto(rows, k)[i])
    BY <1>1, <2>1
  <2> QED BY <2>1, <2>2 DEF RowsOK, Upto
<1>4. ASSUME rows # <<>>
      PROVE  RowsOK(store, Tail(rows)) /\ Head(rows) \in RowTypes /\ Served(store, Head(rows))
  <2>1. Len(rows) > 0
    BY <1>1, <1>4, EmptySeq
  <2>2. /\ Tail(rows) \in Seq(RowTypes) /\ Len(Tail(rows)) = Len(rows) - 1
        /\ \A i \in 1 .. Len(Tail(rows)) : Tail(rows)[i] = rows[i + 1]
    BY <1>1, <1>4, HeadTailProperties
  <2>3. \A i \in 1 .. Len(Tail(rows)) : Served(store, Tail(rows)[i])
    <3> SUFFICES ASSUME NEW i \in 1 .. Len(Tail(rows)) PROVE Served(store, Tail(rows)[i])
      OBVIOUS
    <3>1. i + 1 \in 1 .. Len(rows)
      BY <1>1, <2>2
    <3> QED BY <1>1, <2>2, <3>1
  <2>4. Head(rows) = rows[1] /\ 1 \in 1 .. Len(rows)
    BY <1>1, <2>1
  <2>5. Head(rows) \in RowTypes
    BY <1>1, <2>4, ElementOfSeq
  <2> QED BY <1>1, <2>2, <2>3, <2>4, <2>5 DEF RowsOK
<1> QED BY <1>2, <1>3, <1>4

\* A step that stores nothing and reads nothing leaves the data; it may move the
\* cursor, and end the work.
LEMMA DataUntouched ==
  ASSUME DataOK, UNCHANGED <<blobs, read, sent>>,
         \/ stmt'.rows = stmt.rows
         \/ stmt'.rows = <<>>
         \/ stmt'.rows = table
         \/ (stmt.rows # <<>> /\ stmt'.rows = Tail(stmt.rows)),
         \/ UNCHANGED <<table, work>>
         \/ (work' = 0 /\ (table' = table \/ table' = SubSeq(table, 1, Len(table) - work)))
  PROVE  DataOK'
<1>1. BlobsOK' /\ ReadOK(read') /\ SentOK' /\ blobs' = blobs
  BY DEF DataOK, BlobsOK, SentOK
<1>2. RowsOK(blobs, table) /\ RowsOK(blobs, stmt.rows)
  BY DEF DataOK, TableOK, CursorOK
<1>3. CursorOK'
  <2>1. RowsOK(blobs, stmt'.rows)
    BY <1>2, FewerRows
  <2> QED BY <1>1, <2>1 DEF CursorOK
<1>4. TableOK'
  <2>1. table \in Seq(RowTypes) /\ Len(table) \in Nat /\ Len(table) =< MaxRows /\ work \in 0 .. Len(table)
        /\ MaxRows \in Nat
    BY <1>2, LenProperties, LengthsAssumption DEF DataOK, TableOK, RowsOK
  <2>2. Len(table) - work \in 0 .. Len(table)
    BY <2>1
  <2>3. CASE UNCHANGED <<table, work>>
    BY <1>1, <2>3 DEF DataOK, TableOK
  <2>4. CASE work' = 0 /\ table' = table
    <3>1. work' \in 0 .. Len(table')
      BY <2>1, <2>4
    <3> QED BY <1>1, <1>2, <2>1, <2>4, <3>1 DEF TableOK
  <2>5. CASE work' = 0 /\ table' = SubSeq(table, 1, Len(table) - work)
    <3>1. RowsOK(blobs, table') /\ Len(table') = Len(table) - work
      BY <1>2, <2>2, <2>5, FewerRows
    <3>2. Len(table') =< MaxRows /\ work' \in 0 .. Len(table')
      BY <2>1, <2>5, <3>1
    <3> QED BY <1>1, <3>1, <3>2 DEF TableOK
  <2> QED BY <2>3, <2>4, <2>5
<1> QED BY <1>1, <1>3, <1>4 DEF DataOK

\* What a parameter stores and where.
LEMMA BindHolds ==
  ASSUME DataOK, NEW v \in Values, Bind(v), stmt' = stmt
  PROVE  /\ BlobsOK' /\ CursorOK' /\ SentOK'
         /\ RowsOK(blobs', table)
         /\ Row(v) \in RowTypes /\ Served(blobs', Row(v))
<1>1. BlobsOK /\ RowsOK(blobs, table) /\ RowsOK(blobs, stmt.rows)
  BY DEF DataOK, TableOK, CursorOK
<1>2. Len(blobs) < MaxRows /\ Stored(v) /\ sent' = [type |-> sql_type(v), holds |-> Buffer(v).holds]
  BY DEF Bind
<1>3. /\ BlobsOK'
      /\ \A row \in RowTypes : Served(blobs, row) => Served(blobs', row)
      /\ Row(v) \in RowTypes /\ Served(blobs', Row(v))
      /\ Buffer(v).holds \in {"text", "blob"}
  BY <1>1, <1>2, BindStores
<1>4. ASSUME NEW rows, RowsOK(blobs, rows) PROVE RowsOK(blobs', rows)
  <2>1. \A i \in 1 .. Len(rows) : rows[i] \in RowTypes /\ Served(blobs, rows[i])
    BY <1>4, ElementOfSeq DEF RowsOK
  <2> QED BY <1>3, <1>4, <2>1 DEF RowsOK
<1>5. SentOK'
  BY <1>2, <1>3 DEF SentOK, sql_type
<1> QED BY <1>1, <1>3, <1>4, <1>5 DEF CursorOK

\* A row more in the table.
LEMMA InsertHolds ==
  ASSUME TableOK, NEW v, Insert(v), RowsOK(blobs', table), Row(v) \in RowTypes, Served(blobs', Row(v))
  PROVE  TableOK'
<1>1. /\ table \in Seq(RowTypes) /\ Len(table) \in Nat /\ work \in 0 .. Len(table) /\ MaxRows \in Nat
      /\ \A i \in 1 .. Len(table) : Served(blobs', table[i])
  BY LenProperties, LengthsAssumption DEF TableOK, RowsOK
<1>2. Len(table) < MaxRows /\ table' = Append(table, Row(v)) /\ work' = work + 1
  BY DEF Insert
<1> DEFINE row == Row(v)
<1> HIDE DEF row
<1>3. /\ table' \in Seq(RowTypes) /\ Len(table') = Len(table) + 1
      /\ \A i \in 1 .. Len(table) : table'[i] = table[i]
      /\ table'[Len(table) + 1] = row
  <2>1. row \in RowTypes /\ table' = Append(table, row)
    BY <1>2 DEF row
  <2> QED BY <1>1, <2>1, AppendProperties
<1>4. \A i \in 1 .. Len(table') : Served(blobs', table'[i])
  <2> SUFFICES ASSUME NEW i \in 1 .. Len(table') PROVE Served(blobs', table'[i])
    OBVIOUS
  <2>1. CASE i = Len(table) + 1
    BY <1>3, <2>1 DEF row
  <2>2. CASE i # Len(table) + 1
    <3>1. i \in 1 .. Len(table)
      BY <1>1, <1>3, <2>2
    <3> QED BY <1>1, <1>3, <3>1
  <2> QED BY <2>1, <2>2
<1>5. Len(table') =< MaxRows /\ work' \in 0 .. Len(table')
  BY <1>1, <1>2, <1>3
<1> QED BY <1>3, <1>4, <1>5 DEF TableOK, RowsOK

\* Every step keeps what is stored, and reads it whole.
LEMMA StepKeepsData == HandlesOK /\ DataOK /\ [Next]_vars => DataOK'
<1> SUFFICES ASSUME HandlesOK, DataOK, [Next]_vars PROVE DataOK'
  OBVIOUS
<1>0. \A rows : [stmt EXCEPT !.rows = rows].rows = rows
  BY DEF HandlesOK
<1>1. CASE Attach \/ Detach \/ BeginTransaction \/ CloseCursor
  BY <1>0, <1>1, DataUntouched DEF Attach, Detach, BeginTransaction, CloseCursor, Unchanged, data
<1>2. CASE Drop
  BY <1>2, DataUntouched DEF Drop, Unchanged, data, NoStmt
<1>3. ASSUME NEW op, EndTransaction(op) PROVE DataOK'
  BY <1>0, <1>3, DataUntouched DEF EndTransaction, Unchanged
<1>4. ASSUME NEW op, RetainTransaction(op) PROVE DataOK'
  BY <1>4, DataUntouched DEF RetainTransaction, Unchanged
<1>5. ASSUME NEW sql, PrepareOk(sql) PROVE DataOK'
  BY <1>5, DataUntouched DEF PrepareOk, Unchanged, data
<1>6. ASSUME NEW step, PrepareFails(step) PROVE DataOK'
  BY <1>6, DataUntouched DEF PrepareFails, Unchanged, data
<1>7. ASSUME NEW v, BlobWriteFails(v) PROVE DataOK'
  BY <1>7, DataUntouched DEF BlobWriteFails, Unchanged, data
<1>8. CASE OpenCursor
  BY <1>0, <1>8, DataUntouched DEF OpenCursor, Unchanged, data
<1>9. CASE FetchFails
  BY <1>0, <1>9, DataUntouched DEF FetchFails, Unchanged, data
<1>10. CASE WaitForEvent \/ WaitAgain \/ WaitReturns
  BY <1>10, DataUntouched DEF WaitForEvent, WaitAgain, WaitReturns, data
<1>11. CASE Fetch
  <2> DEFINE row == Head(stmt.rows)
  <2>1. /\ stmt.rows # <<>> /\ stmt'.rows = Tail(stmt.rows)
        /\ UNCHANGED <<blobs, table, work, sent>>
    BY <1>0, <1>11 DEF Fetch, Unchanged
  <2>2. PICK good \in 0 .. Calls(blobs, row) : read' = Column(blobs, row, good)
    BY <1>11 DEF Fetch
  <2>3. row \in RowTypes /\ Served(blobs, row) /\ RowsOK(blobs, Tail(stmt.rows))
    BY <2>1, FewerRows DEF DataOK, CursorOK
  <2>4. ReadOK(read')
    <3> HIDE DEF row
    <3> QED BY <2>2, <2>3, ColumnIsWhole DEF DataOK, BlobsOK
  <2>5. BlobsOK' /\ TableOK' /\ SentOK'
    BY <2>1 DEF DataOK, BlobsOK, TableOK, SentOK
  <2>6. CursorOK'
    BY <2>1, <2>3 DEF CursorOK
  <2> QED BY <2>4, <2>5, <2>6 DEF DataOK
<1>12. ASSUME NEW v \in Values, Execute(v) PROVE DataOK'
  <2>1. Bind(v) /\ Insert(v) /\ UNCHANGED <<stmt, read>>
    BY <1>12 DEF Execute, Unchanged
  <2>2. /\ BlobsOK' /\ CursorOK' /\ SentOK' /\ RowsOK(blobs', table)
        /\ Row(v) \in RowTypes /\ Served(blobs', Row(v))
    BY <2>1, BindHolds
  <2>3. TableOK'
    BY <2>1, <2>2, InsertHolds DEF DataOK
  <2> QED BY <2>1, <2>2, <2>3 DEF DataOK
<1>13. ASSUME NEW v \in Values, ExecuteFails(v) PROVE DataOK'
  <2>1. Bind(v) /\ UNCHANGED <<stmt, table, work, read>>
    BY <1>13 DEF ExecuteFails, Unchanged
  <2>2. BlobsOK' /\ CursorOK' /\ SentOK' /\ RowsOK(blobs', table)
    BY <2>1, BindHolds
  <2>3. TableOK'
    BY <2>1, <2>2 DEF DataOK, TableOK
  <2> QED BY <2>1, <2>2, <2>3 DEF DataOK
<1>14. ASSUME NEW v \in Values, Execute2(v) PROVE DataOK'
  <2>1. Bind(v) /\ Insert(v) /\ UNCHANGED stmt
    BY <1>14 DEF Execute2, Unchanged
  <2>2. /\ BlobsOK' /\ CursorOK' /\ SentOK' /\ RowsOK(blobs', table)
        /\ Row(v) \in RowTypes /\ Served(blobs', Row(v))
    BY <2>1, BindHolds
  <2>3. TableOK'
    BY <2>1, <2>2, InsertHolds DEF DataOK
  <2> DEFINE row == Row(v)
             store == blobs'
  <2>4. PICK good \in 0 .. Calls(store, row) : read' = Column(store, row, good)
    BY <1>14 DEF Execute2
  <2>5. store \in Seq(Seq(Seq(Nat))) /\ row \in RowTypes /\ Served(store, row)
    BY <2>2 DEF BlobsOK
  <2>6. ReadOK(read')
    <3> HIDE DEF row, store
    <3> QED BY <2>4, <2>5, ColumnIsWhole
  <2> QED BY <2>2, <2>3, <2>6 DEF DataOK
<1>15. CASE UNCHANGED vars
  BY <1>15, DataUntouched DEF vars
<1> QED BY <1>1, <1>2, <1>3, <1>4, <1>5, <1>6, <1>7, <1>8, <1>9, <1>10, <1>11, <1>12, <1>13, <1>14, <1>15 DEF Next

---------------------------------------------------------------------------

\* At the start nothing is stored.
LEMMA InitIsWhole == Init => WholeInv
<1> SUFFICES ASSUME Init PROVE WholeInv
  OBVIOUS
<1>1. /\ blobs = <<>> /\ table = <<>> /\ stmt.rows = <<>> /\ work = 0
      /\ sent = [type |-> "text", holds |-> "text"]
      /\ read = [stored |-> <<>>, got |-> <<>>, failed |-> FALSE]
  BY DEF Init, NoStmt
<1>2. MaxRows \in Nat /\ DOMAIN <<>> = {} /\ Len(<<>>) = 0
  BY LengthsAssumption
<1>3. HandlesOK
  BY DEF Init, HandlesOK, NoStmt
<1>4. BlobsOK
  BY <1>1, <1>2, EmptySeq DEF BlobsOK
<1>5. TableOK /\ CursorOK
  BY <1>1, <1>2, EmptySeq DEF TableOK, CursorOK, RowsOK
<1>6. ReadOK(read) /\ SentOK
  BY <1>1 DEF ReadOK, SentOK
<1> QED BY <1>3, <1>4, <1>5, <1>6 DEF WholeInv, DataOK

\* The invariant of the data holds in every reachable state.
THEOREM WholeInvariant == Spec => []WholeInv
<1>1. WholeInv /\ [Next]_vars => WholeInv'
  BY StepTypesHandles, StepKeepsData DEF WholeInv
<1> QED BY <1>1, InitIsWhole, PTL DEF Spec

\* What is read is what was stored, byte for byte, over the segments of writing and
\* the slices of reading, or what came before a read that failed; and the variables
\* have their types.
THEOREM ValuesStayWhole == Spec => []ValuesAreWhole
<1>1. WholeInv => ValuesAreWhole
  BY DEF WholeInv, HandlesOK, DataOK, BlobsOK, TableOK, ReadOK, SentOK, ValuesAreWhole, TypeOK
<1> QED BY <1>1, WholeInvariant, PTL

===========================================================================
