--------------------- MODULE DieselTransactions_proofs ---------------------
(***************************************************************************)
(* Proofs about DieselTransactions: savepoints named after their depth     *)
(* implement nested transactions, for any works and any depth, whatever    *)
(* the server refuses and whenever it is lost.                             *)
(***************************************************************************)
EXTENDS DieselTransactions, SequenceTheorems, WellFoundedInduction, TLAPS

(***************************************************************************)
(* The inductive invariant.  The savepoints of the levels that are open    *)
(* stand in the log in the order of their depth; those that committed      *)
(* levels left behind stand anywhere, but no name stands in it twice, so   *)
(* that rolling back finds the one its level set.                          *)
(***************************************************************************)

Entries == {Work(w) : w \in Works} \cup {Savepoint(d) : d \in 2 .. MaxDepth}
Server == [up : BOOLEAN, log : Seq(Entries), durable : SUBSET Works]

\* No savepoint stands in a log twice.
SetOnce(log) ==
  \A d \in 2 .. MaxDepth : \A i, j \in 1 .. Len(log) :
    log[i] = Savepoint(d) /\ log[j] = Savepoint(d) => i = j

\* The savepoints of n levels stand in a log, in order.
Nested(log, n) ==
  /\ \A d \in 2 .. n : Place(log, d) > 0
  /\ \A d, e \in 2 .. n : d < e => Place(log, d) < Place(log, e)

\* A server that lost the attachment has no log.
Sound(s) == s \in Server /\ SetOnce(s.log) /\ (~s.up => s.log = <<>>)

DieselInv ==
  /\ status \in 0 .. MaxDepth \cup {InError}
  /\ in_transaction \in BOOLEAN
  /\ def_tr \in BOOLEAN
  /\ result \in {"ok", "error"}
  /\ Sound(srv)
  /\ Valid => /\ in_transaction <=> status > 0
              /\ status > 0 => def_tr
              /\ status = 0 => srv.log = <<>>
              /\ srv.up => Nested(srv.log, status)
---------------------------------------------------------------------------
(***************************************************************************)
(* Logs                                                                    *)
(***************************************************************************)

\* The entries of a log are told apart.
LEMMA Apart ==
  /\ \A v, w : Work(v) = Work(w) => v = w
  /\ \A d, e : Savepoint(d) = Savepoint(e) => d = e
  /\ \A w, d : Work(w) # Savepoint(d)
BY DEF Work, Savepoint

\* The place of a savepoint is where it stands, and zero when it does not.
LEMMA PlaceIs ==
  ASSUME NEW log \in Seq(Entries), SetOnce(log), NEW d \in 2 .. MaxDepth
  PROVE  /\ Place(log, d) \in 0 .. Len(log)
         /\ Place(log, d) > 0 => log[Place(log, d)] = Savepoint(d)
         /\ \A i \in 1 .. Len(log) : log[i] = Savepoint(d) => Place(log, d) = i
<1> DEFINE I == {i \in 1 .. Len(log) : log[i] = Savepoint(d)}
<1>1. Place(log, d) = IF I # {} THEN Min(I) ELSE 0
  BY DEF Place, SelectInSeq
<1>2. \A i, j \in I : i = j
  BY DEF SetOnce
<1>3. Len(log) \in Nat
  BY LenProperties
<1>4. ASSUME NEW i \in I PROVE Min(I) = i
  <2>1. I = {i} /\ i \in Nat
    BY <1>2, <1>3, <1>4
  <2> HIDE DEF I
  <2> QED BY <2>1 DEF Min
<1>5. CASE I = {}
  <2>1. Place(log, d) = 0
    BY <1>1, <1>5
  <2> QED BY <1>3, <1>5, <2>1
<1>6. CASE I # {}
  <2>1. PICK i \in I : TRUE
    BY <1>6
  <2>2. Place(log, d) = i
    BY <1>1, <1>4, <1>6
  <2>3. i \in 1 .. Len(log) /\ log[i] = Savepoint(d)
    BY <2>1
  <2>4. \A j \in 1 .. Len(log) : log[j] = Savepoint(d) => i = j
    BY <1>2, <2>1
  <2> QED BY <1>3, <2>2, <2>3, <2>4
<1> QED BY <1>5, <1>6

\* So it is known by any position of the savepoint, and by there being none.
LEMMA PlaceAt ==
  ASSUME NEW log \in Seq(Entries), SetOnce(log), NEW d \in 2 .. MaxDepth
  PROVE  /\ \A i \in 1 .. Len(log) : log[i] = Savepoint(d) <=> Place(log, d) = i
         /\ (\A i \in 1 .. Len(log) : log[i] # Savepoint(d)) => Place(log, d) = 0
<1>1. /\ Place(log, d) \in 0 .. Len(log)
      /\ Place(log, d) > 0 => log[Place(log, d)] = Savepoint(d)
      /\ \A i \in 1 .. Len(log) : log[i] = Savepoint(d) => Place(log, d) = i
  BY PlaceIs
<1>2. Len(log) \in Nat
  BY LenProperties
<1> QED BY <1>1, <1>2

\* A work is done: no savepoint moves.
LEMMA WorkAppended ==
  ASSUME NEW log \in Seq(Entries), SetOnce(log), NEW w \in Works
  PROVE  LET L == Append(log, Work(w)) IN
         /\ L \in Seq(Entries) /\ SetOnce(L)
         /\ Len(L) = Len(log) + 1 /\ L[Len(log) + 1] = Work(w)
         /\ \A i \in 1 .. Len(log) : L[i] = log[i]
         /\ \A d \in 2 .. MaxDepth : Place(L, d) = Place(log, d)
<1> DEFINE L == Append(log, Work(w))
<1>1. Work(w) \in Entries
  BY DEF Entries
<1>2. /\ L \in Seq(Entries) /\ Len(L) = Len(log) + 1 /\ L[Len(log) + 1] = Work(w)
      /\ \A i \in 1 .. Len(log) : L[i] = log[i]
  BY <1>1, AppendProperties
<1> HIDE DEF L
<1>3. Len(log) \in Nat
  BY LenProperties
<1>4. \A i \in 1 .. Len(L), d \in 2 .. MaxDepth :
        L[i] = Savepoint(d) => i \in 1 .. Len(log) /\ log[i] = Savepoint(d)
  <2> SUFFICES ASSUME NEW i \in 1 .. Len(L), NEW d \in 2 .. MaxDepth, L[i] = Savepoint(d)
               PROVE  i \in 1 .. Len(log) /\ log[i] = Savepoint(d)
    OBVIOUS
  <2>1. i # Len(log) + 1
    BY <1>2, Apart
  <2>2. i \in 1 .. Len(log)
    BY <1>2, <1>3, <2>1
  <2> QED BY <1>2, <2>2
<1>5. SetOnce(L)
  BY <1>4 DEF SetOnce
<1>6. ASSUME NEW d \in 2 .. MaxDepth PROVE Place(L, d) = Place(log, d)
  <2>1. CASE \E i \in 1 .. Len(L) : L[i] = Savepoint(d)
    <3>1. PICK i \in 1 .. Len(L) : L[i] = Savepoint(d)
      BY <2>1
    <3>2. Place(L, d) = i
      BY <1>2, <1>5, <3>1, PlaceAt
    <3>3. Place(log, d) = i
      BY <1>4, <3>1, PlaceAt
    <3> QED BY <3>2, <3>3
  <2>2. CASE ~ \E i \in 1 .. Len(L) : L[i] = Savepoint(d)
    <3>1. Place(L, d) = 0
      BY <1>2, <1>5, <2>2, PlaceAt
    <3>2. \A i \in 1 .. Len(log) : log[i] # Savepoint(d)
      BY <1>2, <1>3, <2>2
    <3>3. Place(log, d) = 0
      BY <3>2, PlaceAt
    <3> QED BY <3>1, <3>3
  <2> QED BY <2>1, <2>2
<1> QED BY <1>2, <1>5, <1>6 DEF L

\* A log is cut behind its k-th entry: the savepoints up to there stay.
LEMMA Cut ==
  ASSUME NEW log \in Seq(Entries), SetOnce(log), NEW k \in 0 .. Len(log)
  PROVE  LET L == SubSeq(log, 1, k) IN
         /\ L \in Seq(Entries) /\ SetOnce(L) /\ Len(L) = k
         /\ \A i \in 1 .. k : L[i] = log[i]
         /\ \A d \in 2 .. MaxDepth : Place(log, d) =< k => Place(L, d) = Place(log, d)
<1> DEFINE L == SubSeq(log, 1, k)
<1>0. Len(log) \in Nat /\ k \in Nat
  BY LenProperties
<1>1. /\ L \in Seq(Entries) /\ Len(L) = k
      /\ \A i \in 1 .. k : L[i] = log[i]
  <2>1. 1 \in 1 .. Len(log) + 1 /\ k \in 1 - 1 .. Len(log) /\ k - 1 + 1 = k
    BY <1>0
  <2>2. \A i \in 1 .. k : 1 + i - 1 = i
    OBVIOUS
  <2> QED BY <2>1, <2>2, SubSeqProperties
<1> HIDE DEF L
<1>2. SetOnce(L)
  <2>1. \A i \in 1 .. Len(L) : i \in 1 .. Len(log) /\ L[i] = log[i]
    BY <1>0, <1>1
  <2> QED BY <2>1 DEF SetOnce
<1>3. ASSUME NEW d \in 2 .. MaxDepth, Place(log, d) =< k
      PROVE  Place(L, d) = Place(log, d)
  <2>1. Place(log, d) \in 0 .. Len(log) /\ (Place(log, d) > 0 => log[Place(log, d)] = Savepoint(d))
    BY PlaceIs
  <2>2. CASE Place(log, d) > 0
    <3>1. Place(log, d) \in 1 .. k
      BY <1>0, <1>3, <2>1, <2>2
    <3>2. L[Place(log, d)] = Savepoint(d)
      BY <1>1, <2>1, <2>2, <3>1
    <3> QED BY <1>1, <1>2, <3>1, <3>2, PlaceAt
  <2>3. CASE Place(log, d) = 0
    <3>1. \A i \in 1 .. Len(log) : log[i] # Savepoint(d)
      <4> SUFFICES ASSUME NEW i \in 1 .. Len(log), log[i] = Savepoint(d) PROVE FALSE
        OBVIOUS
      <4>1. Place(log, d) = i
        BY PlaceAt
      <4> QED BY <1>0, <2>3, <4>1
    <3>2. \A i \in 1 .. Len(L) : L[i] # Savepoint(d)
      BY <1>0, <1>1, <3>1
    <3>3. Place(L, d) = 0
      BY <1>1, <1>2, <3>2, PlaceAt
    <3> QED BY <2>3, <3>3
  <2> QED BY <1>0, <2>1, <2>2, <2>3
<1> QED BY <1>1, <1>2, <1>3 DEF L

\* Where the i-th entry of a log goes when the q-th one is taken out, if any.
Shift(q, i) == IF q > 0 /\ i > q THEN i - 1 ELSE i

\* The shift keeps the order of what it moves.
LEMMA ShiftOrders ==
  ASSUME NEW q \in Nat, NEW i \in Nat, NEW j \in Nat, i # q \/ i = 0, j # q \/ j = 0
  PROVE  /\ i < j <=> Shift(q, i) < Shift(q, j)
         /\ i =< j <=> Shift(q, i) =< Shift(q, j)
         /\ Shift(q, i) \in Nat
BY DEF Shift

\* A savepoint is taken out of a log.
LEMMA SavepointRemoved ==
  ASSUME NEW log \in Seq(Entries), SetOnce(log), NEW n \in 2 .. MaxDepth
  PROVE  LET R == RemoveFirst(log, Savepoint(n))
             q == Place(log, n)
         IN  /\ R \in Seq(Entries)
             /\ Len(R) = IF q > 0 THEN Len(log) - 1 ELSE Len(log)
             /\ \A i \in 1 .. Len(log) : i # q => /\ Shift(q, i) \in 1 .. Len(R)
                                                  /\ R[Shift(q, i)] = log[i]
             /\ \A j \in 1 .. Len(R) : \E i \in 1 .. Len(log) :
                                         i # q /\ Shift(q, i) = j /\ R[j] = log[i]
<1> DEFINE R == RemoveFirst(log, Savepoint(n))
           q == Place(log, n)
<1>0. Len(log) \in Nat
  BY LenProperties
<1>1. /\ q \in 0 .. Len(log)
      /\ \A i \in 1 .. Len(log) : log[i] = Savepoint(n) <=> q = i
  BY PlaceIs, PlaceAt
<1>2. R = IF \E i \in 1 .. Len(log) : log[i] = Savepoint(n) THEN RemoveAt(log, q) ELSE log
  BY DEF RemoveFirst, Place
<1> HIDE DEF R, q
<1>3. CASE q = 0
  <2>1. R = log
    BY <1>0, <1>1, <1>2, <1>3
  <2>2. \A i \in 1 .. Len(log) : Shift(q, i) = i /\ i # q
    BY <1>0, <1>3 DEF Shift
  <2> QED BY <1>3, <2>1, <2>2 DEF R, q
<1>4. CASE q > 0
  <2>1. q \in 1 .. Len(log)
    BY <1>0, <1>1, <1>4
  <2>2. log[q] = Savepoint(n)
    BY <1>1, <2>1
  <2>3. R = RemoveAt(log, q)
    BY <1>2, <2>1, <2>2
  <2> DEFINE a == SubSeq(log, 1, q - 1)
             b == SubSeq(log, q + 1, Len(log))
  <2>4. a \in Seq(Entries) /\ Len(a) = q - 1 /\ \A i \in 1 .. q - 1 : a[i] = log[i]
    BY <1>0, <2>1, SubSeqProperties
  <2>5. b \in Seq(Entries) /\ Len(b) = Len(log) - q /\ \A i \in 1 .. Len(log) - q : b[i] = log[q + i]
    BY <1>0, <2>1, SubSeqProperties
  <2>6. R = a \o b
    BY <2>3 DEF RemoveAt
  <2> HIDE DEF a, b
  <2>7. /\ R \in Seq(Entries) /\ Len(R) = Len(log) - 1
        /\ \A j \in 1 .. Len(log) - 1 : R[j] = IF j =< q - 1 THEN a[j] ELSE b[j - (q - 1)]
    <3>1. Len(a) + Len(b) = Len(log) - 1
      BY <1>0, <2>1, <2>4, <2>5
    <3>2. /\ a \o b \in Seq(Entries) /\ Len(a \o b) = Len(a) + Len(b)
          /\ \A j \in 1 .. Len(a) + Len(b) : (a \o b)[j] = IF j <= Len(a) THEN a[j] ELSE b[j - Len(a)]
      BY <2>4, <2>5, ConcatProperties
    <3> QED BY <2>4, <2>6, <3>1, <3>2
  <2>8. ASSUME NEW i \in 1 .. Len(log), i # q
        PROVE  Shift(q, i) \in 1 .. Len(R) /\ R[Shift(q, i)] = log[i]
    <3>1. CASE i < q
      <4>1. Shift(q, i) = i /\ i \in 1 .. Len(log) - 1 /\ i \in 1 .. q - 1 /\ i =< q - 1
        BY <1>0, <2>1, <3>1 DEF Shift
      <4> QED BY <2>4, <2>7, <4>1
    <3>2. CASE i > q
      <4>1. /\ Shift(q, i) = i - 1 /\ i - 1 \in 1 .. Len(log) - 1 /\ ~(i - 1 =< q - 1)
            /\ (i - 1) - (q - 1) = i - q /\ i - q \in 1 .. Len(log) - q /\ q + (i - q) = i
        BY <1>0, <2>1, <3>2 DEF Shift
      <4> QED BY <2>5, <2>7, <4>1
    <3> QED BY <1>0, <2>1, <2>8, <3>1, <3>2
  <2>9. ASSUME NEW j \in 1 .. Len(R)
        PROVE  \E i \in 1 .. Len(log) : i # q /\ Shift(q, i) = j
    <3>1. CASE j < q
      <4>1. j \in 1 .. Len(log) /\ j # q /\ Shift(q, j) = j
        BY <1>0, <2>1, <2>7, <3>1 DEF Shift
      <4> QED BY <4>1
    <3>2. CASE j >= q
      <4>1. j + 1 \in 1 .. Len(log) /\ j + 1 # q /\ Shift(q, j + 1) = j
        BY <1>0, <2>1, <2>7, <3>2 DEF Shift
      <4> QED BY <4>1
    <3> QED BY <1>0, <2>1, <2>7, <3>1, <3>2
  <2>10. \A j \in 1 .. Len(R) : \E i \in 1 .. Len(log) : i # q /\ Shift(q, i) = j /\ R[j] = log[i]
    BY <2>8, <2>9
  <2> QED BY <1>4, <2>7, <2>8, <2>10 DEF R, q
<1> QED BY <1>0, <1>1, <1>3, <1>4

\* A savepoint is set: the one of its name goes, it comes last, and the others keep
\* their order.
LEMMA SavepointSet ==
  ASSUME NEW log \in Seq(Entries), SetOnce(log), NEW n \in 2 .. MaxDepth
  PROVE  LET L == Append(RemoveFirst(log, Savepoint(n)), Savepoint(n))
             q == Place(log, n)
         IN  /\ L \in Seq(Entries) /\ SetOnce(L)
             /\ Len(L) \in Nat \ {0}
             /\ L[Len(L)] = Savepoint(n) /\ Place(L, n) = Len(L)
             /\ \A i \in 1 .. Len(log) : i # q => /\ Shift(q, i) \in 1 .. Len(L) - 1
                                                  /\ L[Shift(q, i)] = log[i]
             /\ \A j \in 1 .. Len(L) - 1 : \E i \in 1 .. Len(log) :
                                             i # q /\ Shift(q, i) = j /\ L[j] = log[i]
             /\ \A d \in 2 .. MaxDepth : d # n => Place(L, d) = Shift(q, Place(log, d))
<1> DEFINE R == RemoveFirst(log, Savepoint(n))
           L == Append(R, Savepoint(n))
           q == Place(log, n)
<1>0. Len(log) \in Nat
  BY LenProperties
<1>1. /\ q \in 0 .. Len(log)
      /\ \A i \in 1 .. Len(log) : log[i] = Savepoint(n) <=> q = i
  BY PlaceIs, PlaceAt
<1>2. /\ R \in Seq(Entries)
      /\ Len(R) = IF q > 0 THEN Len(log) - 1 ELSE Len(log)
      /\ \A i \in 1 .. Len(log) : i # q => Shift(q, i) \in 1 .. Len(R) /\ R[Shift(q, i)] = log[i]
      /\ \A j \in 1 .. Len(R) : \E i \in 1 .. Len(log) :
                                  i # q /\ Shift(q, i) = j /\ R[j] = log[i]
  BY SavepointRemoved
<1>3. Savepoint(n) \in Entries
  BY DEF Entries
<1> HIDE DEF R
<1>4. /\ L \in Seq(Entries) /\ Len(L) = Len(R) + 1 /\ L[Len(R) + 1] = Savepoint(n)
      /\ \A i \in 1 .. Len(R) : L[i] = R[i]
  BY <1>2, <1>3, AppendProperties
<1> HIDE DEF L, q
<1>5. /\ Len(R) \in Nat /\ Len(L) \in Nat \ {0} /\ Len(L) - 1 = Len(R)
  <2>1. Len(R) \in Nat
    BY <1>2, LenProperties
  <2>2. Len(L) \in Nat \ {0} /\ Len(L) - 1 = Len(R)
    BY <1>4, <2>1
  <2> QED BY <2>1, <2>2
<1>6. /\ \A i \in 1 .. Len(log) : i # q => /\ Shift(q, i) \in 1 .. Len(L) - 1
                                           /\ L[Shift(q, i)] = log[i]
      /\ \A j \in 1 .. Len(L) - 1 : \E i \in 1 .. Len(log) :
                                      i # q /\ Shift(q, i) = j /\ L[j] = log[i]
  <2>1. \A i \in 1 .. Len(log) : i # q => Shift(q, i) \in 1 .. Len(R) /\ R[Shift(q, i)] = log[i]
    BY <1>2 DEF q
  <2>2. \A j \in 1 .. Len(R) : \E i \in 1 .. Len(log) : i # q /\ Shift(q, i) = j /\ R[j] = log[i]
    BY <1>2 DEF q
  <2> QED BY <1>4, <1>5, <2>1, <2>2
<1>7. L[Len(L)] = Savepoint(n)
  BY <1>4, <1>5
<1>8. \A j \in 1 .. Len(L) : j = Len(L) \/ j \in 1 .. Len(L) - 1
  BY <1>5
\* The savepoints of other names come from where they stood.
<1>9. ASSUME NEW d \in 2 .. MaxDepth, NEW j \in 1 .. Len(L), L[j] = Savepoint(d)
      PROVE  /\ d = n => j = Len(L)
             /\ d # n => j = Shift(q, Place(log, d))
  <2>1. CASE j = Len(L)
    <3>1. d = n
      BY <1>7, <1>9, <2>1, Apart
    <3> QED BY <2>1, <3>1
  <2>2. CASE j \in 1 .. Len(L) - 1
    <3>1. PICK i \in 1 .. Len(log) : i # q /\ Shift(q, i) = j /\ L[j] = log[i]
      BY <1>6, <2>2
    <3>2. d # n
      BY <1>1, <1>9, <3>1
    <3>3. Place(log, d) = i
      BY <1>9, <3>1, PlaceAt
    <3> QED BY <3>1, <3>2, <3>3
  <2> QED BY <1>8, <2>1, <2>2
<1>10. SetOnce(L)
  <2> SUFFICES ASSUME NEW d \in 2 .. MaxDepth, NEW i \in 1 .. Len(L), NEW j \in 1 .. Len(L),
                      L[i] = Savepoint(d), L[j] = Savepoint(d)
               PROVE  i = j
    BY DEF SetOnce
  <2>1. /\ d = n => i = Len(L) /\ j = Len(L)
        /\ d # n => i = Shift(q, Place(log, d)) /\ j = Shift(q, Place(log, d))
    BY <1>9
  <2> QED BY <2>1
<1>11. Place(L, n) = Len(L)
  <2>1. Len(L) \in 1 .. Len(L)
    BY <1>5
  <2> QED BY <1>4, <1>7, <1>10, <2>1, PlaceAt
<1>12. ASSUME NEW d \in 2 .. MaxDepth, d # n PROVE Place(L, d) = Shift(q, Place(log, d))
  <2>1. /\ Place(log, d) \in 0 .. Len(log)
        /\ Place(log, d) > 0 => log[Place(log, d)] = Savepoint(d)
    BY PlaceIs
  <2>2. CASE Place(log, d) > 0
    <3> DEFINE i == Place(log, d)
    <3>1. i \in 1 .. Len(log) /\ log[i] = Savepoint(d)
      BY <1>0, <2>1, <2>2
    <3> HIDE DEF i
    <3>2. i # q
      BY <1>1, <1>12, <3>1, Apart
    <3>3. Shift(q, i) \in 1 .. Len(L) /\ L[Shift(q, i)] = Savepoint(d)
      BY <1>5, <1>6, <3>1, <3>2
    <3>4. Place(L, d) = Shift(q, i)
      BY <1>4, <1>10, <3>3, PlaceAt
    <3> QED BY <3>4 DEF i
  <2>3. CASE Place(log, d) = 0
    <3>1. Shift(q, 0) = 0
      BY <1>0, <1>1 DEF Shift
    <3>2. \A j \in 1 .. Len(L) : L[j] # Savepoint(d)
      <4> SUFFICES ASSUME NEW j \in 1 .. Len(L), L[j] = Savepoint(d) PROVE FALSE
        OBVIOUS
      <4>1. j = 0
        BY <1>9, <1>12, <2>3, <3>1
      <4> QED BY <4>1
    <3>3. Place(L, d) = 0
      BY <1>4, <1>10, <3>2, PlaceAt
    <3> QED BY <2>3, <3>1, <3>3
  <2> QED BY <1>0, <2>1, <2>2, <2>3
<1> QED BY <1>4, <1>5, <1>6, <1>7, <1>10, <1>11, <1>12 DEF L, R, q

---------------------------------------------------------------------------
(***************************************************************************)
(* The work of the levels.  Level d of n has what the log holds between    *)
(* its savepoint and the next one's.                                       *)
(***************************************************************************)

From(log, d) == IF d = 1 THEN 0 ELSE Place(log, d)
To(log, n, d) == IF d = n THEN Len(log) ELSE Place(log, d + 1)
Frame(log, n, d) == {w \in Works : \E i \in From(log, d) + 1 .. To(log, n, d) : log[i] = Work(w)}

\* The levels of a server s whose client is n levels deep.
Frames(s, n) == [d \in 1 .. n |-> IF s.up THEN Frame(s.log, n, d) ELSE {}]

\* The works of a log are at its positions.
LEMMA DoneAt ==
  ASSUME NEW log \in Seq(Entries)
  PROVE  Done(log) = {w \in Works : \E i \in 1 .. Len(log) : log[i] = Work(w)}
BY LenProperties DEF Done, ToSet

\* Where the levels begin and end.
LEMMA Bounds ==
  ASSUME NEW log \in Seq(Entries), SetOnce(log), NEW n \in 1 .. MaxDepth, Nested(log, n),
         NEW d \in 1 .. n
  PROVE  /\ From(log, d) \in Nat /\ To(log, n, d) \in Nat
         /\ From(log, d) =< To(log, n, d) /\ To(log, n, d) =< Len(log)
         /\ d < n => From(log, d) < To(log, n, d) /\ To(log, n, d) = From(log, d + 1)
         /\ d > 1 => d \in 2 .. MaxDepth /\ From(log, d) = Place(log, d)
         /\ d < n => d + 1 \in 2 .. n /\ d + 1 \in 2 .. MaxDepth /\ To(log, n, d) = Place(log, d + 1)
<1>1. Len(log) \in Nat /\ n \in Nat /\ d \in Nat /\ MaxDepth \in Nat
  BY LenProperties, DepthAssumption
<1>2. ASSUME NEW e \in 2 .. n
      PROVE  e \in 2 .. MaxDepth /\ Place(log, e) \in 1 .. Len(log)
  <2>1. e \in 2 .. MaxDepth
    BY <1>1
  <2>2. Place(log, e) \in 0 .. Len(log)
    BY <2>1, PlaceIs
  <2>3. Place(log, e) > 0
    BY DEF Nested
  <2> QED BY <1>1, <2>1, <2>2, <2>3
<1>3. d > 1 => d \in 2 .. n /\ From(log, d) = Place(log, d)
  BY <1>1 DEF From
<1>4. From(log, d) \in Nat /\ From(log, d) =< Len(log)
  <2>1. d = 1 => From(log, d) = 0
    BY DEF From
  <2> QED BY <1>1, <1>2, <1>3, <2>1
<1>5. CASE d = n
  <2>1. To(log, n, d) = Len(log)
    BY <1>5 DEF To
  <2> QED BY <1>1, <1>2, <1>3, <1>4, <1>5, <2>1
<1>6. CASE d < n
  <2>1. d + 1 \in 2 .. n /\ d + 1 # 1 /\ d < d + 1
    BY <1>1, <1>6
  <2>2. To(log, n, d) = Place(log, d + 1) /\ From(log, d + 1) = Place(log, d + 1)
    BY <1>1, <1>6, <2>1 DEF To, From
  <2>3. Place(log, d + 1) \in 1 .. Len(log) /\ d + 1 \in 2 .. MaxDepth
    BY <1>2, <2>1
  <2>4. From(log, d) < Place(log, d + 1)
    <3>1. CASE d = 1
      BY <1>1, <2>3, <3>1 DEF From
    <3>2. CASE d > 1
      BY <1>3, <2>1, <3>2 DEF Nested
    <3> QED BY <1>1, <3>1, <3>2
  <2> QED BY <1>1, <1>2, <1>3, <1>4, <1>6, <2>1, <2>2, <2>3, <2>4
<1> QED BY <1>1, <1>5, <1>6

\* Levels as the specification gives them.
LEMMA LevelsOf ==
  ASSUME NEW log \in Seq(Entries), SetOnce(log), NEW n \in 1 .. MaxDepth, Nested(log, n),
         NEW d \in 1 .. n
  PROVE  Done(SubSeq(log, From(log, d) + 1, To(log, n, d))) = Frame(log, n, d)
<1> DEFINE a == From(log, d)
           b == To(log, n, d)
           s == SubSeq(log, a + 1, b)
<1>1. a \in Nat /\ b \in Nat /\ a =< b /\ b =< Len(log) /\ Len(log) \in Nat
  BY Bounds, LenProperties
<1> HIDE DEF a, b
<1>2. a + 1 \in 1 .. Len(log) + 1 /\ b \in a + 1 - 1 .. Len(log) /\ b - (a + 1) + 1 = b - a
  BY <1>1
<1>3. s \in Seq(Entries) /\ Len(s) = b - a /\ \A i \in 1 .. b - a : s[i] = log[(a + 1) + i - 1]
  <2>0. a + 1 \in Int /\ b \in Int /\ \A i \in a + 1 .. b : log[i] \in Entries
    BY <1>1, ElementOfSeq
  <2>1. /\ s \in Seq(Entries)
        /\ Len(s) = IF a + 1 <= b THEN b - (a + 1) + 1 ELSE 0
        /\ \A i \in 1 .. b - (a + 1) + 1 : s[i] = log[(a + 1) + i - 1]
    BY <2>0, SubSeqProperties
  <2> HIDE DEF s
  <2>2. Len(s) = b - a
    BY <1>1, <2>1
  <2> QED BY <1>2, <2>1, <2>2
<1> HIDE DEF s
<1>4. Done(s) = {w \in Works : \E i \in 1 .. Len(s) : s[i] = Work(w)}
  BY <1>3, DoneAt
<1>5. ASSUME NEW w
      PROVE  (\E i \in 1 .. Len(s) : s[i] = Work(w)) <=> (\E i \in a + 1 .. b : log[i] = Work(w))
  <2>1. ASSUME NEW i \in 1 .. Len(s), s[i] = Work(w)
        PROVE  \E j \in a + 1 .. b : log[j] = Work(w)
    <3>1. (a + 1) + i - 1 \in a + 1 .. b /\ i \in 1 .. b - a
      BY <1>1, <1>3
    <3> QED BY <1>3, <2>1, <3>1
  <2>2. ASSUME NEW j \in a + 1 .. b, log[j] = Work(w)
        PROVE  \E i \in 1 .. Len(s) : s[i] = Work(w)
    <3>1. j - a \in 1 .. b - a /\ (a + 1) + (j - a) - 1 = j
      BY <1>1
    <3> QED BY <1>3, <2>2, <3>1
  <2> QED BY <2>1, <2>2
<1>6. Done(s) = {w \in Works : \E i \in a + 1 .. b : log[i] = Work(w)}
  BY <1>4, <1>5
<1> QED BY <1>6 DEF Frame, a, b, s

\* A set of numbers has a least one.
LEMMA LeastNumber ==
  ASSUME NEW T \in SUBSET Nat, T # {}
  PROVE  \E x \in T : \A y \in T : x =< y
<1> DEFINE Below == {ss \in Nat \X Nat : ss[1] < ss[2]}
<1>1. IsWellFoundedOn(Below, Nat)
  BY NatLessThanWellFounded DEF OpToRel
<1>2. PICK x \in T : \A y \in T : ~ (<<y, x>> \in Below)
  <2> HIDE DEF Below
  <2> QED BY <1>1, WFMin
<1>3. ASSUME NEW y \in T PROVE x =< y
  <2>1. <<y, x>> \in Nat \X Nat /\ <<y, x>>[1] = y /\ <<y, x>>[2] = x
    OBVIOUS
  <2>2. ~ (y < x)
    BY <1>2, <2>1
  <2> QED BY <2>2
<1> QED BY <1>3

\* Every work of a log belongs to one of its levels.
LEMMA LevelsCover ==
  ASSUME NEW log \in Seq(Entries), SetOnce(log), NEW n \in 1 .. MaxDepth, Nested(log, n)
  PROVE  Done(log) = UNION {Frame(log, n, d) : d \in 1 .. n}
<1>0. Len(log) \in Nat /\ n \in Nat
  BY LenProperties
<1>1. Done(log) = {w \in Works : \E i \in 1 .. Len(log) : log[i] = Work(w)}
  BY DoneAt
<1>2. ASSUME NEW w \in Works, NEW i \in 1 .. Len(log), log[i] = Work(w)
      PROVE  \E d \in 1 .. n : w \in Frame(log, n, d)
  <2> DEFINE T == {d \in 1 .. n : i =< To(log, n, d)}
  <2>1. n \in T
    BY <1>0 DEF To
  <2>2. PICK d \in T : \A e \in T : d =< e
    <3>1. T \in SUBSET Nat /\ T # {}
      BY <1>0, <2>1
    <3> HIDE DEF T
    <3> QED BY <3>1, LeastNumber
  <2>3. d \in 1 .. n /\ i =< To(log, n, d)
    BY <2>2
  <2>4. From(log, d) < i
    <3>1. CASE d = 1
      BY <3>1 DEF From
    <3>2. CASE d > 1
      <4>1. d - 1 \in 1 .. n /\ d - 1 < n /\ (d - 1) + 1 = d /\ ~(d =< d - 1)
        BY <1>0, <2>3, <3>2
      <4>2. To(log, n, d - 1) = From(log, d) /\ To(log, n, d - 1) \in Nat
        BY <4>1, Bounds
      <4>3. ~(d - 1 \in T)
        BY <2>2, <4>1
      <4>4. ~(i =< To(log, n, d - 1))
        BY <4>1, <4>3
      <4> QED BY <1>0, <4>2, <4>4
    <3> QED BY <1>0, <2>3, <3>1, <3>2
  <2>5. i \in From(log, d) + 1 .. To(log, n, d)
    <3>1. From(log, d) \in Nat /\ To(log, n, d) \in Nat
      BY <2>3, Bounds
    <3> QED BY <2>3, <2>4, <3>1
  <2> QED BY <1>2, <2>3, <2>5 DEF Frame
<1>3. ASSUME NEW d \in 1 .. n, NEW w \in Frame(log, n, d)
      PROVE  w \in Works /\ \E i \in 1 .. Len(log) : log[i] = Work(w)
  <2>1. From(log, d) \in Nat /\ To(log, n, d) \in Nat /\ To(log, n, d) =< Len(log)
    BY Bounds
  <2>2. \A i \in From(log, d) + 1 .. To(log, n, d) : i \in 1 .. Len(log)
    BY <1>0, <2>1
  <2> QED BY <2>2 DEF Frame
<1> QED BY <1>1, <1>2, <1>3

\* A work belongs to the innermost level.
LEMMA WorkInTop ==
  ASSUME NEW log \in Seq(Entries), SetOnce(log), NEW n \in 1 .. MaxDepth, Nested(log, n),
         NEW w \in Works
  PROVE  LET L == Append(log, Work(w)) IN
         /\ Nested(L, n)
         /\ \A d \in 1 .. n : Frame(L, n, d) = IF d = n THEN Frame(log, n, n) \cup {w}
                                               ELSE Frame(log, n, d)
<1> DEFINE L == Append(log, Work(w))
<1>0. Len(log) \in Nat /\ n \in Nat
  BY LenProperties
<1>1. /\ Len(L) = Len(log) + 1 /\ L[Len(log) + 1] = Work(w)
      /\ \A i \in 1 .. Len(log) : L[i] = log[i]
      /\ \A d \in 2 .. MaxDepth : Place(L, d) = Place(log, d)
  BY WorkAppended
<1> HIDE DEF L
<1>2. \A d \in 2 .. n : d \in 2 .. MaxDepth
  BY <1>0, DepthAssumption
<1>3. Nested(L, n)
  BY <1>1, <1>2 DEF Nested
<1>4. ASSUME NEW d \in 1 .. n
      PROVE  Frame(L, n, d) = IF d = n THEN Frame(log, n, n) \cup {w} ELSE Frame(log, n, d)
  <2> DEFINE a == From(log, d)
             b == To(log, n, d)
  <2>1. a \in Nat /\ b \in Nat /\ a =< b /\ b =< Len(log)
    BY Bounds
  <2>2. From(L, d) = a
    BY <1>1, Bounds DEF From
  <2>3. \A i \in a + 1 .. b : i \in 1 .. Len(log) /\ L[i] = log[i]
    BY <1>0, <1>1, <2>1
  <2>4. CASE d = n
    <3>1. To(L, n, d) = b + 1 /\ b = Len(log)
      BY <1>1, <2>4 DEF To
    <3> HIDE DEF a, b
    <3>2. \A i \in a + 1 .. b + 1 : i \in a + 1 .. b \/ i = b + 1
      BY <2>1
    <3>3. b + 1 \in a + 1 .. b + 1 /\ L[b + 1] = Work(w)
      BY <1>1, <2>1, <3>1
    <3>4. \A i \in a + 1 .. b : i \in a + 1 .. b + 1
      BY <2>1
    <3>5. ASSUME NEW v
          PROVE  (\E i \in a + 1 .. b + 1 : L[i] = Work(v)) <=>
                 (v = w \/ \E i \in a + 1 .. b : log[i] = Work(v))
      BY <2>3, <3>2, <3>3, <3>4, Apart
    <3>6. Frame(L, n, d) = {v \in Works : \E i \in a + 1 .. b + 1 : L[i] = Work(v)}
      BY <2>2, <3>1 DEF Frame
    <3>7. Frame(log, n, d) = {v \in Works : \E i \in a + 1 .. b : log[i] = Work(v)}
      BY DEF Frame, a, b
    <3> QED BY <2>4, <3>5, <3>6, <3>7
  <2>5. CASE d # n
    <3>1. To(L, n, d) = b
      <4>1. d < n
        BY <1>0, <2>5
      <4> QED BY <1>1, <2>5, <4>1, Bounds DEF To
    <3> HIDE DEF a, b
    <3>2. Frame(L, n, d) = {v \in Works : \E i \in a + 1 .. b : L[i] = Work(v)}
      BY <2>2, <3>1 DEF Frame
    <3>3. Frame(log, n, d) = {v \in Works : \E i \in a + 1 .. b : log[i] = Work(v)}
      BY DEF Frame, a, b
    <3>4. Frame(L, n, d) = Frame(log, n, d)
      BY <2>3, <3>2, <3>3
    <3> QED BY <2>5, <3>4
  <2> QED BY <2>4, <2>5
<1> QED BY <1>3, <1>4 DEF L

\* Rolling back to the savepoint of the innermost level leaves the ones around it.
LEMMA RollbackLeavesOuter ==
  ASSUME NEW log \in Seq(Entries), SetOnce(log), NEW n \in 2 .. MaxDepth, Nested(log, n)
  PROVE  LET L == SubSeq(log, 1, Place(log, n)) IN
         /\ L \in Seq(Entries) /\ SetOnce(L) /\ Nested(L, n - 1)
         /\ n - 1 \in 1 .. MaxDepth
         /\ \A d \in 1 .. n - 1 : Frame(L, n - 1, d) = Frame(log, n, d)
<1> DEFINE k == Place(log, n)
           L == SubSeq(log, 1, k)
<1>0. Len(log) \in Nat /\ n \in Nat /\ n \in 2 .. n /\ n \in 1 .. MaxDepth
  BY LenProperties, DepthAssumption
<1>1. k \in 0 .. Len(log) /\ k \in Nat
  BY <1>0, PlaceIs
<1>2. /\ L \in Seq(Entries) /\ SetOnce(L) /\ Len(L) = k
      /\ \A i \in 1 .. k : L[i] = log[i]
      /\ \A d \in 2 .. MaxDepth : Place(log, d) =< k => Place(L, d) = Place(log, d)
  BY <1>1, Cut
<1>3. ASSUME NEW d \in 2 .. n PROVE d \in 2 .. MaxDepth /\ Place(L, d) = Place(log, d)
  <2>1. d \in 2 .. MaxDepth
    BY <1>0, DepthAssumption
  <2>2. Place(log, d) =< k
    <3>1. d < n => Place(log, d) < k
      BY <1>0 DEF Nested
    <3>2. d = n => Place(log, d) = k
      OBVIOUS
    <3>3. Place(log, d) \in Nat
      BY <2>1, PlaceIs, LenProperties
    <3> HIDE DEF k, L
    <3> QED BY <1>0, <1>1, <3>1, <3>2, <3>3
  <2> HIDE DEF k, L
  <2> QED BY <1>2, <2>1, <2>2
<1> HIDE DEF L
<1>4. \A d \in 2 .. n - 1 : d \in 2 .. n
  BY <1>0
<1>5. Nested(L, n - 1)
  BY <1>3, <1>4 DEF Nested
<1>6. ASSUME NEW d \in 1 .. n - 1 PROVE Frame(L, n - 1, d) = Frame(log, n, d)
  <2> DEFINE a == From(log, d)
             b == To(log, n, d)
  <2>0. d \in 1 .. n /\ d < n
    BY <1>0
  <2>1. /\ a \in Nat /\ b \in Nat /\ a =< b /\ b =< Len(log) /\ b = Place(log, d + 1)
        /\ d + 1 \in 2 .. n /\ d + 1 \in 2 .. MaxDepth
        /\ d > 1 => d \in 2 .. MaxDepth /\ a = Place(log, d)
    BY <1>0, <2>0, Bounds
  <2>2. From(L, d) = a
    <3>1. d = 1 => From(L, d) = 0 /\ a = 0
      BY DEF From
    <3>2. d > 1 => From(L, d) = Place(L, d) /\ d \in 2 .. n
      BY <1>0 DEF From
    <3> QED BY <1>0, <1>3, <2>1, <3>1, <3>2
  <2>3. To(L, n - 1, d) = b
    <3>1. d = n - 1 => To(L, n - 1, d) = k /\ d + 1 = n
      BY <1>0, <1>2 DEF To
    <3>2. d # n - 1 => To(L, n - 1, d) = Place(L, d + 1)
      BY DEF To
    <3> QED BY <1>3, <2>1, <3>1, <3>2
  <2>4. b =< k
    <3>1. d + 1 < n => Place(log, d + 1) < k
      BY <1>0, <2>1 DEF Nested
    <3> QED BY <1>0, <1>1, <2>1, <3>1
  <2> HIDE DEF a, b, k
  <2>5. \A i \in a + 1 .. b : L[i] = log[i]
    BY <1>1, <1>2, <2>1, <2>4
  <2>6. Frame(L, n - 1, d) = {v \in Works : \E i \in a + 1 .. b : L[i] = Work(v)}
    BY <2>2, <2>3 DEF Frame
  <2>7. Frame(log, n, d) = {v \in Works : \E i \in a + 1 .. b : log[i] = Work(v)}
    BY DEF Frame, a, b
  <2> QED BY <2>5, <2>6, <2>7
<1>7. n - 1 \in 1 .. MaxDepth
  BY <1>0, DepthAssumption
<1> QED BY <1>2, <1>5, <1>6, <1>7 DEF L, k

\* A committed level hands its work to the one around it.
LEMMA CommitMerges ==
  ASSUME NEW log \in Seq(Entries), SetOnce(log), NEW n \in 2 .. MaxDepth, Nested(log, n)
  PROVE  /\ Nested(log, n - 1) /\ n - 1 \in 1 .. MaxDepth
         /\ \A d \in 1 .. n - 1 : Frame(log, n - 1, d) =
              IF d = n - 1 THEN Frame(log, n, n - 1) \cup Frame(log, n, n) ELSE Frame(log, n, d)
<1>0. /\ Len(log) \in Nat /\ n \in Nat /\ n \in 1 .. MaxDepth /\ n - 1 \in 1 .. MaxDepth
      /\ n - 1 \in 1 .. n /\ n \in 1 .. n /\ n - 1 < n /\ (n - 1) + 1 = n
  BY LenProperties, DepthAssumption
<1>1. \A d \in 2 .. n - 1 : d \in 2 .. n
  BY <1>0
<1>2. Nested(log, n - 1)
  BY <1>1 DEF Nested
<1>3. ASSUME NEW d \in 1 .. n - 1, d # n - 1 PROVE Frame(log, n - 1, d) = Frame(log, n, d)
  <2>1. d # n
    BY <1>0
  <2> QED BY <1>3, <2>1 DEF Frame, To
<1>4. Frame(log, n - 1, n - 1) = Frame(log, n, n - 1) \cup Frame(log, n, n)
  <2> DEFINE a == From(log, n - 1)
             b == From(log, n)
             c == Len(log)
  <2>1. a \in Nat /\ b \in Nat /\ a < b /\ b =< c /\ To(log, n, n - 1) = b /\ To(log, n, n) = c
    <3>1. a \in Nat /\ To(log, n, n - 1) = From(log, (n - 1) + 1) /\ a < To(log, n, n - 1)
      BY <1>0, Bounds
    <3>2. b \in Nat /\ b =< To(log, n, n) /\ To(log, n, n) = c
      BY <1>0, Bounds DEF To
    <3> QED BY <1>0, <3>1, <3>2
  <2>2. To(log, n - 1, n - 1) = c
    BY DEF To
  <2> HIDE DEF a, b, c
  <2>3. c \in Nat
    BY <1>0 DEF c
  <2>4. \A i \in a + 1 .. c : i \in a + 1 .. b \/ i \in b + 1 .. c
    BY <2>1, <2>3
  <2>5. (\A i \in a + 1 .. b : i \in a + 1 .. c) /\ (\A i \in b + 1 .. c : i \in a + 1 .. c)
    BY <2>1, <2>3
  <2>6. Frame(log, n - 1, n - 1) = {v \in Works : \E i \in a + 1 .. c : log[i] = Work(v)}
    BY <2>2 DEF Frame, a
  <2>7. Frame(log, n, n - 1) = {v \in Works : \E i \in a + 1 .. b : log[i] = Work(v)}
    BY <2>1 DEF Frame, a
  <2>8. Frame(log, n, n) = {v \in Works : \E i \in b + 1 .. c : log[i] = Work(v)}
    BY <2>1 DEF Frame, b
  <2> QED BY <2>4, <2>5, <2>6, <2>7, <2>8
<1> QED BY <1>0, <1>2, <1>3, <1>4

\* Setting the savepoint of the next level opens an empty level, and moves no work
\* from one level to another: also when the level is not entered, for the error that
\* may follow.
LEMMA SavepointOpens ==
  ASSUME NEW log \in Seq(Entries), SetOnce(log), NEW n \in 1 .. MaxDepth - 1, Nested(log, n)
  PROVE  LET L == Append(RemoveFirst(log, Savepoint(n + 1)), Savepoint(n + 1)) IN
         /\ L \in Seq(Entries) /\ SetOnce(L) /\ Nested(L, n) /\ Nested(L, n + 1)
         /\ Frame(L, n + 1, n + 1) = {}
         /\ \A d \in 1 .. n : /\ Frame(L, n, d) = Frame(log, n, d)
                              /\ Frame(L, n + 1, d) = Frame(log, n, d)
<1> DEFINE L == Append(RemoveFirst(log, Savepoint(n + 1)), Savepoint(n + 1))
           q == Place(log, n + 1)
           l == Len(L)
<1>0. /\ Len(log) \in Nat /\ n \in Nat /\ n \in 1 .. MaxDepth /\ n + 1 \in 2 .. MaxDepth
      /\ n + 1 \in 1 .. n + 1 /\ n + 1 # 1 /\ n + 1 # n /\ n < MaxDepth /\ MaxDepth \in Nat
  BY LenProperties, DepthAssumption
<1>1. /\ q \in Nat /\ q \in 0 .. Len(log)
      /\ \A i \in 1 .. Len(log) : log[i] = Savepoint(n + 1) <=> q = i
  BY <1>0, PlaceIs, PlaceAt
<1>2. /\ L \in Seq(Entries) /\ SetOnce(L)
      /\ l \in Nat \ {0} /\ L[l] = Savepoint(n + 1) /\ Place(L, n + 1) = l
      /\ \A i \in 1 .. Len(log) : i # q => Shift(q, i) \in 1 .. l - 1 /\ L[Shift(q, i)] = log[i]
      /\ \A j \in 1 .. l - 1 : \E i \in 1 .. Len(log) :
                                 i # q /\ Shift(q, i) = j /\ L[j] = log[i]
      /\ \A d \in 2 .. MaxDepth : d # n + 1 => Place(L, d) = Shift(q, Place(log, d))
  BY <1>0, SavepointSet
<1>3. Len(L) = l
  OBVIOUS
<1> HIDE DEF L, q, l
\* The savepoints of the levels around it move with what is between them.
<1>4. ASSUME NEW d \in 2 .. n
      PROVE  /\ d \in 2 .. MaxDepth /\ d # n + 1
             /\ Place(log, d) \in 1 .. Len(log) /\ Place(log, d) # q
             /\ Place(L, d) = Shift(q, Place(log, d)) /\ Place(L, d) \in 1 .. l - 1
  <2>1. d \in 2 .. MaxDepth /\ d # n + 1
    BY <1>0
  <2>2. /\ Place(log, d) \in 0 .. Len(log) /\ Place(log, d) > 0
        /\ log[Place(log, d)] = Savepoint(d)
    BY <2>1, PlaceIs DEF Nested
  <2>3. Place(log, d) \in 1 .. Len(log)
    BY <1>0, <2>2
  <2>4. Place(log, d) # q
    BY <1>1, <2>1, <2>2, <2>3, Apart
  <2> QED BY <1>2, <2>1, <2>3, <2>4
<1>5. Nested(L, n)
  <2>1. ASSUME NEW d \in 2 .. n, NEW e \in 2 .. n, d < e PROVE Place(L, d) < Place(L, e)
    <3>1. Place(log, d) < Place(log, e)
      BY <2>1 DEF Nested
    <3> DEFINE x == Place(log, d)
               y == Place(log, e)
    <3>2. /\ x \in Nat /\ y \in Nat /\ x # q /\ y # q /\ x < y
          /\ Place(L, d) = Shift(q, x) /\ Place(L, e) = Shift(q, y)
      BY <1>0, <1>4, <3>1
    <3> HIDE DEF x, y
    <3>3. Shift(q, x) < Shift(q, y)
      BY <1>1, <3>2, ShiftOrders
    <3> QED BY <3>2, <3>3
  <2>2. \A d \in 2 .. n : Place(L, d) > 0
    BY <1>2, <1>4
  <2> QED BY <2>1, <2>2 DEF Nested
<1>6. Nested(L, n + 1)
  <2>1. \A d \in 2 .. n + 1 : d \in 2 .. n \/ d = n + 1
    BY <1>0
  <2>2. \A d \in 2 .. n : Place(L, d) < Place(L, n + 1) /\ d < n + 1
    BY <1>0, <1>2, <1>4
  <2>3. Place(L, n + 1) > 0
    BY <1>2
  <2>4. ASSUME NEW d \in 2 .. n + 1, NEW e \in 2 .. n + 1, d < e PROVE Place(L, d) < Place(L, e)
    <3>1. d \in 2 .. n
      BY <1>0, <2>4
    <3>2. e = n + 1 \/ e \in 2 .. n
      BY <2>1
    <3> QED BY <1>5, <2>2, <2>4, <3>1, <3>2 DEF Nested
  <2>5. \A d \in 2 .. n + 1 : Place(L, d) > 0
    BY <1>5, <2>1, <2>3 DEF Nested
  <2> QED BY <2>4, <2>5 DEF Nested
<1>7. Frame(L, n + 1, n + 1) = {}
  <2>1. From(L, n + 1) = l /\ To(L, n + 1, n + 1) = l
    BY <1>0, <1>2, <1>3 DEF From, To
  <2>2. l + 1 .. l = {}
    BY <1>2
  <2> QED BY <2>1, <2>2 DEF Frame
<1>8. ASSUME NEW d \in 1 .. n
      PROVE  /\ Frame(L, n, d) = Frame(log, n, d)
             /\ Frame(L, n + 1, d) = Frame(log, n, d)
  <2> DEFINE a == From(log, d)
             b == To(log, n, d)
             c == To(L, n, d)
  <2>1. a \in Nat /\ (a # q \/ a = 0) /\ From(L, d) = Shift(q, a)
    <3>1. CASE d = 1
      BY <1>1, <3>1 DEF From, Shift
    <3>2. CASE d # 1
      <4>1. d \in 2 .. n
        BY <1>0, <3>2
      <4> QED BY <1>0, <1>4, <3>2, <4>1 DEF From
    <3> QED BY <3>1, <3>2
  <2>2. To(L, n + 1, d) = c
    <3>1. CASE d = n
      BY <1>0, <1>2, <1>3, <3>1 DEF To
    <3>2. CASE d # n
      BY <1>0, <3>2 DEF To
    <3> QED BY <3>1, <3>2
  <2>3. CASE d = n
    <3>1. b = Len(log) /\ c = l
      BY <1>3, <2>3 DEF To
    <3> HIDE DEF a, b, c
    <3>2. ASSUME NEW v, NEW i \in a + 1 .. b, log[i] = Work(v)
          PROVE  \E j \in Shift(q, a) + 1 .. c : L[j] = Work(v)
      <4>1. i \in 1 .. Len(log) /\ i \in Nat /\ a < i
        BY <1>0, <2>1, <3>1
      <4>2. i # q
        BY <1>1, <3>2, <4>1, Apart
      <4>3. Shift(q, i) \in 1 .. l - 1 /\ L[Shift(q, i)] = Work(v)
        BY <1>2, <3>2, <4>1, <4>2
      <4>4. Shift(q, a) < Shift(q, i) /\ Shift(q, a) \in Nat
        BY <1>1, <2>1, <4>1, <4>2, ShiftOrders
      <4>5. Shift(q, i) \in Shift(q, a) + 1 .. c
        BY <1>2, <3>1, <4>3, <4>4
      <4> QED BY <4>3, <4>5
    <3>3. ASSUME NEW v, NEW j \in Shift(q, a) + 1 .. c, L[j] = Work(v)
          PROVE  \E i \in a + 1 .. b : log[i] = Work(v)
      <4>1. Shift(q, a) \in Nat
        BY <1>1, <2>1, ShiftOrders
      <4>2. j # l
        BY <1>2, <3>3, Apart
      <4>3. j \in 1 .. l - 1 /\ Shift(q, a) < j
        BY <1>2, <3>1, <4>1, <4>2
      <4>4. PICK i \in 1 .. Len(log) : i # q /\ Shift(q, i) = j /\ L[j] = log[i]
        BY <1>2, <4>3
      <4>5. a < i
        <5>1. i \in Nat /\ (i # q \/ i = 0) /\ Shift(q, a) < Shift(q, i)
          BY <1>0, <4>3, <4>4
        <5> QED BY <1>1, <2>1, <5>1, ShiftOrders
      <4>6. i \in a + 1 .. b
        BY <1>0, <2>1, <3>1, <4>5
      <4> QED BY <3>3, <4>4, <4>6
    <3>4. /\ Frame(log, n, d) = {v \in Works : \E i \in a + 1 .. b : log[i] = Work(v)}
          /\ Frame(L, n, d) = {v \in Works : \E i \in Shift(q, a) + 1 .. c : L[i] = Work(v)}
          /\ Frame(L, n + 1, d) = {v \in Works : \E i \in Shift(q, a) + 1 .. c : L[i] = Work(v)}
      BY <2>1, <2>2 DEF Frame, a, b, c
    <3> QED BY <3>2, <3>3, <3>4
  <2>4. CASE d # n
    <3>1. /\ b \in 1 .. Len(log) /\ b \in Nat /\ b # q /\ c = Shift(q, b) /\ c \in 1 .. l - 1
      <4>1. d + 1 \in 2 .. n
        BY <1>0, <2>4
      <4>2. b = Place(log, d + 1) /\ c = Place(L, d + 1)
        BY <2>4 DEF To
      <4> QED BY <1>0, <1>4, <4>1, <4>2
    <3> HIDE DEF a, b, c
    <3>2. ASSUME NEW v, NEW i \in a + 1 .. b, log[i] = Work(v)
          PROVE  \E j \in Shift(q, a) + 1 .. c : L[j] = Work(v)
      <4>1. i \in 1 .. Len(log) /\ i \in Nat /\ a < i /\ i =< b
        BY <1>0, <2>1, <3>1
      <4>2. i # q
        BY <1>1, <3>2, <4>1, Apart
      <4>3. Shift(q, i) \in 1 .. l - 1 /\ L[Shift(q, i)] = Work(v)
        BY <1>2, <3>2, <4>1, <4>2
      <4>4. Shift(q, a) < Shift(q, i) /\ Shift(q, a) \in Nat /\ Shift(q, i) =< c
        BY <1>1, <2>1, <3>1, <4>1, <4>2, ShiftOrders
      <4>5. Shift(q, i) \in Shift(q, a) + 1 .. c
        BY <1>2, <3>1, <4>3, <4>4
      <4> QED BY <4>3, <4>5
    <3>3. ASSUME NEW v, NEW j \in Shift(q, a) + 1 .. c, L[j] = Work(v)
          PROVE  \E i \in a + 1 .. b : log[i] = Work(v)
      <4>1. Shift(q, a) \in Nat
        BY <1>1, <2>1, ShiftOrders
      <4>2. j \in 1 .. l - 1 /\ Shift(q, a) < j /\ j =< c
        BY <1>2, <3>1, <4>1, SMTT(20)
      <4>3. PICK i \in 1 .. Len(log) : i # q /\ Shift(q, i) = j /\ L[j] = log[i]
        BY <1>2, <4>2
      <4>4. a < i /\ i =< b
        <5>1. i \in Nat /\ (i # q \/ i = 0) /\ Shift(q, a) < Shift(q, i) /\ Shift(q, i) =< Shift(q, b)
          BY <1>0, <3>1, <4>2, <4>3
        <5>2. a < i
          BY <1>1, <2>1, <5>1, ShiftOrders
        <5>3. b \in Nat /\ (b # q \/ b = 0)
          BY <3>1
        <5> QED BY <1>1, <5>1, <5>2, <5>3, ShiftOrders
      <4>5. i \in a + 1 .. b
        BY <1>0, <2>1, <3>1, <4>4
      <4> QED BY <3>3, <4>3, <4>5
    <3>4. /\ Frame(log, n, d) = {v \in Works : \E i \in a + 1 .. b : log[i] = Work(v)}
          /\ Frame(L, n, d) = {v \in Works : \E i \in Shift(q, a) + 1 .. c : L[i] = Work(v)}
          /\ Frame(L, n + 1, d) = {v \in Works : \E i \in Shift(q, a) + 1 .. c : L[i] = Work(v)}
      BY <2>1, <2>2 DEF Frame, a, b, c
    <3> QED BY <3>2, <3>3, <3>4
  <2> QED BY <2>3, <2>4
<1> QED BY <1>2, <1>5, <1>6, <1>7, <1>8 DEF L

---------------------------------------------------------------------------
(***************************************************************************)
(* What the calls leave                                                    *)
(***************************************************************************)

\* An empty log.
LEMMA EmptyLog ==
  <<>> \in Seq(Entries) /\ Len(<<>>) = 0 /\ SetOnce(<<>>) /\ Done(<<>>) = {}
<1>1. <<>> \in Seq(Entries) /\ Len(<<>>) = 0
  OBVIOUS
<1>2. SetOnce(<<>>)
  BY DEF SetOnce
<1>3. Done(<<>>) = {}
  <2>1. Done(<<>>) = {w \in Works : \E i \in 1 .. 0 : <<>>[i] = Work(w)}
    BY <1>1, DoneAt
  <2> QED BY <2>1
<1> QED BY <1>1, <1>2, <1>3

\* A server that is lost.
LEMMA GoneIs ==
  ASSUME NEW s \in Server
  PROVE  /\ Gone(s) \in Server /\ Gone(s).up = FALSE /\ Gone(s).log = <<>>
         /\ Gone(s).durable = s.durable
BY EmptyLog DEF Gone, Server

\* A server whose transaction ended.
LEMMA EndedIs ==
  ASSUME NEW s \in Server, NEW op
  PROVE  /\ Ended(s, op) \in Server /\ Ended(s, op).up = s.up /\ Ended(s, op).log = <<>>
         /\ op = "commit" => Ended(s, op).durable = s.durable \cup Done(s.log)
         /\ op # "commit" => Ended(s, op).durable = s.durable
<1>1. Done(s.log) \in SUBSET Works
  BY DEF Done
<1>2. <<>> \in Seq(Entries)
  BY EmptyLog
<1> HIDE DEF Done
<1> QED BY <1>1, <1>2 DEF Ended, Server

\* A server whose log changed.
LEMMA ChangedIs ==
  ASSUME NEW s \in Server, NEW l \in Seq(Entries)
  PROVE  /\ [s EXCEPT !.log = l] \in Server
         /\ [s EXCEPT !.log = l].up = s.up
         /\ [s EXCEPT !.log = l].log = l
         /\ [s EXCEPT !.log = l].durable = s.durable
BY DEF Server

\* A request to end the transaction.
LEMMA Asked ==
  ASSUME NEW s, NEW op, NEW e \in Ask(s, op)
  PROVE  \/ e.srv = s /\ e.ok = FALSE
         \/ s.up /\ e.srv = Ended(s, op) /\ e.ok = TRUE
         \/ s.up /\ e.srv \in {Gone(s), Gone(Ended(s, op))} /\ e.ok = FALSE
BY DEF Ask

\* A statement.
LEMMA Ran ==
  ASSUME NEW s, NEW q, NEW r \in Run(s, q)
  PROVE  /\ r.ok \in BOOLEAN
         /\ \/ r.srv = s /\ r.ok = FALSE
            \/ s.up /\ r.srv = Gone(s) /\ r.ok = FALSE
            \/ s.up /\ \E l \in Effects(q, s.log) : r.srv = [s EXCEPT !.log = l]
<1>1. \/ r = [srv |-> s, ok |-> FALSE]
      \/ s.up /\ r = [srv |-> Gone(s), ok |-> FALSE]
      \/ s.up /\ \E l \in Effects(q, s.log), b \in BOOLEAN :
                   r = [srv |-> [s EXCEPT !.log = l], ok |-> b]
  BY DEF Run
<1>2. CASE r = [srv |-> s, ok |-> FALSE]
  <2>1. r.srv = s /\ r.ok = FALSE
    BY <1>2
  <2> QED BY <2>1
<1>3. CASE s.up /\ r = [srv |-> Gone(s), ok |-> FALSE]
  <2>1. r.srv = Gone(s) /\ r.ok = FALSE
    BY <1>3
  <2> QED BY <1>3, <2>1
<1>4. CASE s.up /\ \E l \in Effects(q, s.log), b \in BOOLEAN :
                     r = [srv |-> [s EXCEPT !.log = l], ok |-> b]
  <2>1. PICK l \in Effects(q, s.log), b \in BOOLEAN : r = [srv |-> [s EXCEPT !.log = l], ok |-> b]
    BY <1>4
  <2>2. r.srv = [s EXCEPT !.log = l] /\ r.ok = b
    BY <2>1
  <2> QED BY <1>4, <2>2
<1> QED BY <1>1, <1>2, <1>3, <1>4

\* The default transaction, taken or begun.
LEMMA Taken ==
  ASSUME NEW s, NEW held \in BOOLEAN, NEW t \in TakeTr(s, held)
  PROVE  /\ t.ok \in BOOLEAN
         /\ held => t.srv = s /\ t.ok = TRUE
         /\ t.ok => t.srv = s
         /\ ~t.ok => t.srv = s \/ (s.up /\ t.srv = Gone(s))
<1> DEFINE Answers == {[srv |-> s, ok |-> TRUE], [srv |-> s, ok |-> FALSE], [srv |-> Gone(s), ok |-> FALSE]}
<1>1. t \in Answers
  BY DEF TakeTr
<1>2. t.ok \in BOOLEAN /\ (t.ok => t.srv = s) /\ t.srv \in {s, Gone(s)}
  <2>1. CASE t = [srv |-> s, ok |-> TRUE]
    <3>1. t.srv = s /\ t.ok = TRUE
      BY <2>1
    <3> QED BY <3>1
  <2>2. CASE t = [srv |-> s, ok |-> FALSE]
    <3>1. t.srv = s /\ t.ok = FALSE
      BY <2>2
    <3> QED BY <3>1
  <2>3. CASE t = [srv |-> Gone(s), ok |-> FALSE]
    <3>1. t.srv = Gone(s) /\ t.ok = FALSE
      BY <2>3
    <3> QED BY <3>1
  <2> QED BY <1>1, <2>1, <2>2, <2>3
<1>3. held => t = [srv |-> s, ok |-> TRUE]
  BY DEF TakeTr
<1>4. ~s.up => t \in {[srv |-> s, ok |-> TRUE], [srv |-> s, ok |-> FALSE]}
  BY DEF TakeTr
<1>5. held => t.srv = s /\ t.ok = TRUE
  BY <1>3
<1>6. ~s.up => t.srv = s
  BY <1>4
<1> QED BY <1>2, <1>5, <1>6

\* commit and rollback of the transaction that is held.
LEMMA EndedDefault ==
  ASSUME NEW s, NEW op, NEW r \in EndDefault(s, TRUE, op)
  PROVE  /\ r.kept = TRUE /\ r.ok \in BOOLEAN
         /\ \/ r.srv = s /\ r.ok = FALSE
            \/ s.up /\ r.srv = Ended(s, op) /\ r.ok = TRUE
            \/ s.up /\ r.srv \in {Gone(s), Gone(Ended(s, op))} /\ r.ok = FALSE
<1>1. EndDefault(s, TRUE, op) = {Outcome(e.srv, e.ok, TRUE) : e \in Ask(s, op)}
  <2>1. TakeTr(s, TRUE) = {[srv |-> s, ok |-> TRUE]}
    BY DEF TakeTr
  <2>2. EndDefault(s, TRUE, op) =
          UNION {IF ~t.ok THEN {Outcome(t.srv, FALSE, FALSE)}
                 ELSE {Outcome(e.srv, e.ok, TRUE) : e \in Ask(t.srv, op)} :
                   t \in {[srv |-> s, ok |-> TRUE]}}
    BY <2>1 DEF EndDefault
  <2>3. [srv |-> s, ok |-> TRUE].ok /\ [srv |-> s, ok |-> TRUE].srv = s
    OBVIOUS
  <2> QED BY <2>2, <2>3
<1>2. PICK e \in Ask(s, op) : r = Outcome(e.srv, e.ok, TRUE)
  BY <1>1
<1>3. r.srv = e.srv /\ r.ok = e.ok /\ r.kept = TRUE
  BY <1>2 DEF Outcome
<1> QED BY <1>3, Asked

\* A statement of execute, once it was run.
LEMMA Executed ==
  ASSUME def_tr \in BOOLEAN, NEW q, NEW x \in Execute(q)
  PROVE  \/ x.ok = FALSE /\ x.kept = FALSE /\ ~def_tr /\ (x.srv = srv \/ (srv.up /\ x.srv = Gone(srv)))
         \/ \E r \in Run(srv, q) : x \in Finish(r)
<1>1. PICK t \in TakeTr(srv, def_tr) :
        x \in IF ~t.ok THEN {Outcome(t.srv, FALSE, FALSE)} ELSE UNION {Finish(r) : r \in Run(t.srv, q)}
  BY DEF Execute
<1>2. /\ t.ok \in BOOLEAN
      /\ def_tr => t.srv = srv /\ t.ok = TRUE
      /\ t.ok => t.srv = srv
      /\ ~t.ok => t.srv = srv \/ (srv.up /\ t.srv = Gone(srv))
  BY Taken
<1>3. CASE ~t.ok
  <2>1. x = Outcome(t.srv, FALSE, FALSE)
    BY <1>1, <1>3
  <2>2. x.srv = t.srv /\ x.ok = FALSE /\ x.kept = FALSE
    BY <2>1 DEF Outcome
  <2> QED BY <1>2, <1>3, <2>2
<1>4. CASE t.ok
  BY <1>1, <1>2, <1>4
<1> QED BY <1>2, <1>3, <1>4

\* execute inside an explicit transaction: nothing happened, the server is gone, or
\* the statement took effect, which an error may follow.
LEMMA InsideExecute ==
  ASSUME in_transaction = TRUE, def_tr \in BOOLEAN, NEW q, NEW x \in Execute(q)
  PROVE  /\ x.ok \in BOOLEAN /\ x.kept \in BOOLEAN /\ (def_tr => x.kept = TRUE)
         /\ \/ x.srv = srv /\ x.ok = FALSE
            \/ srv.up /\ x.srv = Gone(srv) /\ x.ok = FALSE
            \/ srv.up /\ \E l \in Effects(q, srv.log) : x.srv = [srv EXCEPT !.log = l]
<1>1. ASSUME NEW r \in Run(srv, q), x \in Finish(r)
      PROVE  /\ x.ok \in BOOLEAN /\ x.kept = TRUE
             /\ \/ x.srv = srv /\ x.ok = FALSE
                \/ srv.up /\ x.srv = Gone(srv) /\ x.ok = FALSE
                \/ srv.up /\ \E l \in Effects(q, srv.log) : x.srv = [srv EXCEPT !.log = l]
  <2>1. x = Outcome(r.srv, r.ok, TRUE)
    BY <1>1 DEF Finish
  <2>2. x.srv = r.srv /\ x.ok = r.ok /\ x.kept = TRUE
    BY <2>1 DEF Outcome
  <2>3. /\ r.ok \in BOOLEAN
        /\ \/ r.srv = srv /\ r.ok = FALSE
           \/ srv.up /\ r.srv = Gone(srv) /\ r.ok = FALSE
           \/ srv.up /\ \E l \in Effects(q, srv.log) : r.srv = [srv EXCEPT !.log = l]
    BY Ran
  <2> QED BY <2>2, <2>3
<1> QED BY <1>1, Executed

\* execute outside: nothing happened, or the transaction that was open is over.  It
\* was undone, committed with what the statement did, or lost with the server, which
\* may have committed it before.
LEMMA OutsideExecute ==
  ASSUME in_transaction = FALSE, def_tr \in BOOLEAN, Sound(srv), NEW q, NEW W \in SUBSET Works,
         \A l \in Effects(q, srv.log) : l \in Seq(Entries) /\ Done(l) = Done(srv.log) \cup W,
         NEW x \in Execute(q)
  PROVE  /\ x.ok \in BOOLEAN /\ x.kept \in BOOLEAN /\ x.srv \in Server
         /\ \/ x.srv = srv /\ x.ok = FALSE
            \/ /\ x.srv.log = <<>>
               /\ \/ x.srv.up = srv.up /\ x.srv.durable = srv.durable /\ x.ok = FALSE
                  \/ /\ srv.up /\ x.srv.up /\ x.ok = TRUE
                     /\ x.srv.durable = srv.durable \cup (Done(srv.log) \cup W)
                  \/ /\ srv.up /\ ~x.srv.up /\ x.ok = FALSE
                     /\ x.srv.durable \in {srv.durable, srv.durable \cup (Done(srv.log) \cup W)}
<1>0. srv \in Server /\ Gone(srv) \in Server
  BY GoneIs DEF Sound
<1>1. CASE /\ x.ok = FALSE /\ x.kept = FALSE /\ ~def_tr
           /\ x.srv = srv \/ (srv.up /\ x.srv = Gone(srv))
  <2>1. x.srv = srv \/ (srv.up /\ ~x.srv.up /\ x.srv.log = <<>> /\ x.srv.durable = srv.durable)
    BY <1>0, <1>1, GoneIs
  <2>2. x.srv \in Server
    BY <1>0, <1>1
  <2> QED BY <1>1, <2>1, <2>2
<1>2. ASSUME NEW r \in Run(srv, q), x \in Finish(r)
      PROVE  /\ x.ok \in BOOLEAN /\ x.kept \in BOOLEAN /\ x.srv \in Server
             /\ x.srv.log = <<>>
             /\ \/ x.srv.up = srv.up /\ x.srv.durable = srv.durable /\ x.ok = FALSE
                \/ /\ srv.up /\ x.srv.up /\ x.ok = TRUE
                   /\ x.srv.durable = srv.durable \cup (Done(srv.log) \cup W)
                \/ /\ srv.up /\ ~x.srv.up /\ x.ok = FALSE
                   /\ x.srv.durable \in {srv.durable, srv.durable \cup (Done(srv.log) \cup W)}
  <2> DEFINE s == r.srv
             op == IF r.ok THEN "commit" ELSE "rollback"
  \* What the statement left.
  <2>1. /\ r.ok \in BOOLEAN /\ s \in Server /\ s.durable = srv.durable
        /\ \/ s.up = srv.up
           \/ srv.up /\ ~s.up
        /\ r.ok => srv.up /\ s.up /\ Done(s.log) = Done(srv.log) \cup W
    <3>1. CASE s = srv /\ r.ok = FALSE
      BY <1>0, <3>1
    <3>2. CASE srv.up /\ s = Gone(srv) /\ r.ok = FALSE
      BY <1>0, <3>2, GoneIs
    <3>3. CASE srv.up /\ \E l \in Effects(q, srv.log) : s = [srv EXCEPT !.log = l]
      <4>1. PICK l \in Effects(q, srv.log) : s = [srv EXCEPT !.log = l]
        BY <3>3
      <4>2. l \in Seq(Entries) /\ Done(l) = Done(srv.log) \cup W
        OBVIOUS
      <4>3. s \in Server /\ s.up = srv.up /\ s.log = l /\ s.durable = srv.durable
        BY <1>0, <4>1, <4>2, ChangedIs
      <4>4. r.ok \in BOOLEAN
        BY Ran
      <4> QED BY <3>3, <4>2, <4>3, <4>4
    <3> QED BY <3>1, <3>2, <3>3, Ran
  <2>2. PICK e \in Ask(s, op) :
          x = IF e.ok THEN Outcome(e.srv, r.ok, TRUE)
              ELSE Outcome(Ended(e.srv, "rollback"), FALSE, FALSE)
    BY <1>2 DEF Finish
  <2>3. CASE s.up /\ e.srv = Ended(s, op) /\ e.ok = TRUE
    <3>1. x.srv = Ended(s, op) /\ x.ok = r.ok /\ x.kept = TRUE
      BY <2>2, <2>3 DEF Outcome
    <3>2. /\ Ended(s, op) \in Server /\ Ended(s, op).up = s.up /\ Ended(s, op).log = <<>>
          /\ op = "commit" => Ended(s, op).durable = s.durable \cup Done(s.log)
          /\ op # "commit" => Ended(s, op).durable = s.durable
      BY <2>1, EndedIs
    <3>3. r.ok => op = "commit"
      OBVIOUS
    <3>4. ~r.ok => op # "commit"
      OBVIOUS
    <3> HIDE DEF s, op
    <3> QED BY <2>1, <2>3, <3>1, <3>2, <3>3, <3>4
  <2>4. ASSUME NEW z \in Server, e.srv = z, e.ok = FALSE,
               \/ z = s
               \/ s.up /\ ~z.up /\ z.durable \in {s.durable, s.durable \cup Done(s.log)}
                  /\ (~r.ok => z.durable = s.durable)
        PROVE  /\ x.ok = FALSE /\ x.kept = FALSE /\ x.srv \in Server /\ x.srv.log = <<>>
               /\ \/ x.srv.up = srv.up /\ x.srv.durable = srv.durable
                  \/ /\ srv.up /\ ~x.srv.up
                     /\ x.srv.durable \in {srv.durable, srv.durable \cup (Done(srv.log) \cup W)}
    <3>1. x.srv = Ended(z, "rollback") /\ x.ok = FALSE /\ x.kept = FALSE
      BY <2>2, <2>4 DEF Outcome
    <3>2. /\ x.srv \in Server /\ x.srv.up = z.up /\ x.srv.log = <<>> /\ x.srv.durable = z.durable
      <4>1. "rollback" # "commit"
        OBVIOUS
      <4> QED BY <2>4, <3>1, <4>1, EndedIs
    <3> HIDE DEF s, op
    <3> QED BY <2>1, <2>4, <3>1, <3>2
  <2>5. CASE e.srv = s /\ e.ok = FALSE
    <3> HIDE DEF s, op
    <3> QED BY <2>1, <2>4, <2>5
  <2>6. CASE s.up /\ e.srv \in {Gone(s), Gone(Ended(s, op))} /\ e.ok = FALSE
    <3> DEFINE z == e.srv
    <3>1. /\ Ended(s, op) \in Server
          /\ op = "commit" => Ended(s, op).durable = s.durable \cup Done(s.log)
          /\ op # "commit" => Ended(s, op).durable = s.durable
      BY <2>1, EndedIs
    <3>2. /\ Gone(s) \in Server /\ Gone(s).up = FALSE /\ Gone(s).durable = s.durable
          /\ Gone(Ended(s, op)) \in Server /\ Gone(Ended(s, op)).up = FALSE
          /\ Gone(Ended(s, op)).durable = Ended(s, op).durable
      <4> HIDE DEF s, op
      <4> QED BY <2>1, <3>1, GoneIs
    <3>3. ~r.ok => op # "commit"
      OBVIOUS
    <3> HIDE DEF s, op
    <3>4. /\ z \in Server /\ ~z.up /\ z.durable \in {s.durable, s.durable \cup Done(s.log)}
          /\ ~r.ok => z.durable = s.durable
      BY <2>6, <3>1, <3>2, <3>3
    <3> HIDE DEF z
    <3> QED BY <2>4, <2>6, <3>4 DEF z
  <2> QED BY <2>2, <2>3, <2>5, <2>6, Asked
<1> QED BY <1>1, <1>2, Executed

\* The works of a log to which one is appended.
LEMMA WorkDone ==
  ASSUME NEW log \in Seq(Entries), SetOnce(log), NEW w \in Works
  PROVE  Done(Append(log, Work(w))) = Done(log) \cup {w}
<1> DEFINE L == Append(log, Work(w))
<1>1. /\ L \in Seq(Entries) /\ Len(L) = Len(log) + 1 /\ L[Len(log) + 1] = Work(w)
      /\ \A i \in 1 .. Len(log) : L[i] = log[i]
  BY WorkAppended
<1> HIDE DEF L
<1>2. /\ Done(L) = {v \in Works : \E i \in 1 .. Len(L) : L[i] = Work(v)}
      /\ Done(log) = {v \in Works : \E i \in 1 .. Len(log) : log[i] = Work(v)}
  BY <1>1, DoneAt
<1>3. Len(log) \in Nat
  BY LenProperties
<1>4. /\ \A i \in 1 .. Len(L) : i \in 1 .. Len(log) \/ i = Len(log) + 1
      /\ \A i \in 1 .. Len(log) : i \in 1 .. Len(L)
      /\ Len(log) + 1 \in 1 .. Len(L)
  BY <1>1, <1>3
<1>5. ASSUME NEW v \in Works
      PROVE  (\E i \in 1 .. Len(L) : L[i] = Work(v)) <=> ((\E i \in 1 .. Len(log) : log[i] = Work(v)) \/ v = w)
  BY <1>1, <1>4, Apart
<1> QED BY <1>2, <1>5 DEF L

\* What the statements do to a log.
LEMMA EffectsAre ==
  ASSUME NEW log, NEW arg
  PROVE  /\ Effects(Statement("work", arg), log) = {Append(log, Work(arg))}
         /\ Effects(Statement("check", arg), log) = {log}
         /\ Effects(Statement("savepoint", arg), log) =
              {Append(RemoveFirst(log, Savepoint(arg)), Savepoint(arg))}
         /\ Effects(Statement("rollback to", arg), log) =
              {SubSeq(log, 1, i) : i \in {Place(log, arg)} \ {0}}
<1>1. \A does \in {"work", "check", "savepoint", "rollback to"} :
        Statement(does, arg).does = does /\ Statement(does, arg).arg = arg
  BY DEF Statement
<1>2. ASSUME NEW q, q.does = "work", q.arg = arg PROVE Effects(q, log) = {Append(log, Work(arg))}
  BY <1>2 DEF Effects
<1>3. ASSUME NEW q, q.does = "check", q.arg = arg PROVE Effects(q, log) = {log}
  BY <1>3 DEF Effects
<1>4. ASSUME NEW q, q.does = "savepoint", q.arg = arg
      PROVE  Effects(q, log) = {Append(RemoveFirst(log, Savepoint(arg)), Savepoint(arg))}
  BY <1>4 DEF Effects
<1>5. ASSUME NEW q, q.does = "rollback to", q.arg = arg
      PROVE  Effects(q, log) = {SubSeq(log, 1, i) : i \in {Place(log, arg)} \ {0}}
  BY <1>5 DEF Effects
<1> QED BY <1>1, <1>2, <1>3, <1>4, <1>5

\* Numbers of levels.
LEMMA Depths ==
  ASSUME DieselInv
  PROVE  /\ MaxDepth \in Nat /\ 0 \in 0 .. MaxDepth /\ 1 \in 0 .. MaxDepth
         /\ \A n \in 0 .. MaxDepth : n # InError
         /\ Valid => status \in 0 .. MaxDepth /\ status \in Nat
BY DepthAssumption, InErrorAssumption DEF DieselInv, Valid

\* The types of the variables follow from the invariant.
LEMMA Types == DieselInv => TypeOK
BY DEF DieselInv, Sound, Server, Entries, TypeOK

\* No level nests in an empty log, and the outermost one has no savepoint.
LEMMA NestedFew ==
  ASSUME NEW log
  PROVE  Nested(log, 0) /\ Nested(log, 1)
BY DEF Nested

\* A server whose log is empty is sound.
LEMMA SoundEmpty ==
  ASSUME NEW s \in Server, s.log = <<>>
  PROVE  Sound(s)
BY EmptyLog DEF Sound

---------------------------------------------------------------------------
(***************************************************************************)
(* What the actions leave                                                  *)
(***************************************************************************)

\* begin_transaction of the outermost level.
LEMMA BeginOutermostLeaves ==
  ASSUME DieselInv, BeginOutermost
  PROVE  /\ status = 0 /\ srv.log = <<>> /\ in_transaction = FALSE
         /\ \/ /\ srv' = srv /\ def_tr' = TRUE /\ in_transaction' = TRUE /\ status' = 1
               /\ result' = "ok"
            \/ /\ srv' = srv \/ (srv.up /\ srv' = Gone(srv))
               /\ def_tr' = FALSE /\ in_transaction' = FALSE /\ status' = 0 /\ result' = "error"
<1>1. status = 0 /\ Valid /\ srv.log = <<>> /\ in_transaction = FALSE /\ def_tr \in BOOLEAN
  BY Depths DEF BeginOutermost, DieselInv, Valid
<1>2. PICK t \in TakeTr(srv, def_tr) :
        /\ srv' = t.srv
        /\ def_tr' = t.ok
        /\ in_transaction' = (t.ok \/ in_transaction)
        /\ status' = IF t.ok THEN 1 ELSE 0
        /\ Return(t.ok)
  BY DEF BeginOutermost
<1>3. /\ t.ok \in BOOLEAN
      /\ t.ok => t.srv = srv
      /\ ~t.ok => t.srv = srv \/ (srv.up /\ t.srv = Gone(srv))
  BY <1>1, Taken
<1> QED BY <1>1, <1>2, <1>3 DEF Return

\* begin_transaction of a level inside.
LEMMA BeginSavepointLeaves ==
  ASSUME DieselInv, BeginSavepoint
  PROVE  /\ Valid /\ status \in 1 .. MaxDepth - 1 /\ in_transaction = TRUE /\ def_tr' = TRUE
         /\ in_transaction' = TRUE
         /\ \/ srv' = srv /\ status' = status /\ result' = "error"
            \/ srv.up /\ srv' = Gone(srv) /\ status' = status /\ result' = "error"
            \/ /\ srv.up
               /\ srv' = [srv EXCEPT !.log = Append(RemoveFirst(srv.log, Savepoint(status + 1)),
                                                    Savepoint(status + 1))]
               /\ \/ status' = status + 1 /\ result' = "ok"
                  \/ status' = status /\ result' = "error"
<1>1. Valid /\ status \in 1 .. MaxDepth - 1 /\ in_transaction = TRUE /\ def_tr = TRUE
  BY DEF BeginSavepoint, DieselInv
<1> DEFINE q == Statement("savepoint", status + 1)
<1>2. PICK r \in Execute(q) :
        /\ srv' = r.srv
        /\ def_tr' = r.kept
        /\ status' = IF r.ok THEN status + 1 ELSE status
        /\ Return(r.ok)
  BY DEF BeginSavepoint
<1>3. Effects(q, srv.log) = {Append(RemoveFirst(srv.log, Savepoint(status + 1)), Savepoint(status + 1))}
  BY EffectsAre
<1> HIDE DEF q
<1>4. /\ r.ok \in BOOLEAN /\ r.kept = TRUE
      /\ \/ r.srv = srv /\ r.ok = FALSE
         \/ srv.up /\ r.srv = Gone(srv) /\ r.ok = FALSE
         \/ srv.up /\ \E l \in Effects(q, srv.log) : r.srv = [srv EXCEPT !.log = l]
  BY <1>1, InsideExecute
<1>5. in_transaction' = TRUE
  BY <1>1 DEF BeginSavepoint
<1> QED BY <1>1, <1>2, <1>3, <1>4, <1>5 DEF Return

\* rollback_transaction of the outermost level.
LEMMA RollbackOutermostLeaves ==
  ASSUME DieselInv, RollbackOutermost
  PROVE  /\ Valid /\ status = 1 /\ in_transaction' = FALSE /\ def_tr' = TRUE
         /\ \/ srv.up /\ srv' = Ended(srv, "rollback") /\ status' = 0 /\ result' = "ok"
            \/ srv' = srv /\ status' = InError /\ result' = "error"
            \/ /\ srv.up /\ srv' \in Server /\ ~srv'.up /\ srv'.log = <<>>
               /\ srv'.durable = srv.durable
               /\ status' = InError /\ result' = "error"
<1>1. status = 1 /\ Valid /\ def_tr = TRUE /\ srv \in Server
  BY Depths DEF RollbackOutermost, DieselInv, Valid, Sound
<1>2. PICK r \in EndDefault(srv, TRUE, "rollback") : RolledBackTo(r, 0) /\ Return(r.ok)
  BY <1>1 DEF RollbackOutermost
<1>3. /\ r.kept = TRUE /\ r.ok \in BOOLEAN
      /\ \/ r.srv = srv /\ r.ok = FALSE
         \/ srv.up /\ r.srv = Ended(srv, "rollback") /\ r.ok = TRUE
         \/ srv.up /\ r.srv \in {Gone(srv), Gone(Ended(srv, "rollback"))} /\ r.ok = FALSE
  BY EndedDefault
<1>4. Ended(srv, "rollback") \in Server /\ Ended(srv, "rollback").durable = srv.durable
  <2>1. "rollback" # "commit"
    OBVIOUS
  <2> QED BY <1>1, <2>1, EndedIs
<1>5. \A z \in {Gone(srv), Gone(Ended(srv, "rollback"))} :
        z \in Server /\ ~z.up /\ z.log = <<>> /\ z.durable = srv.durable
  BY <1>1, <1>4, GoneIs
<1>6. in_transaction' = FALSE
  BY DEF RollbackOutermost
<1>7. srv' = r.srv /\ def_tr' = TRUE
  BY <1>2, <1>3 DEF RolledBackTo
<1>8. (r.ok => status' = 0 /\ result' = "ok") /\ (~r.ok => status' = InError /\ result' = "error")
  BY <1>2 DEF RolledBackTo, Return
<1> QED BY <1>1, <1>3, <1>5, <1>6, <1>7, <1>8

\* commit_transaction of the outermost level, with the rollback that follows when it
\* fails.
LEMMA CommitOutermostLeaves ==
  ASSUME DieselInv, CommitOutermost
  PROVE  /\ Valid /\ status = 1 /\ in_transaction' = FALSE /\ def_tr' = TRUE
         /\ \/ srv.up /\ srv' = Ended(srv, "commit") /\ status' = 0 /\ result' = "ok"
            \/ srv.up /\ srv' = Ended(srv, "rollback") /\ status' = 0 /\ result' = "error"
            \/ srv' = srv /\ status' = InError /\ result' = "error"
            \/ /\ srv.up /\ srv' \in Server /\ ~srv'.up /\ srv'.log = <<>>
               /\ srv'.durable \in {srv.durable, srv.durable \cup Done(srv.log)}
               /\ status' = InError /\ result' = "error"
<1>1. status = 1 /\ Valid /\ def_tr = TRUE /\ srv \in Server
  BY Depths DEF CommitOutermost, DieselInv, Valid, Sound
<1>2. PICK r \in EndDefault(srv, TRUE, "commit") :
        /\ Return(r.ok)
        /\ IF r.ok THEN status' = 0 /\ srv' = r.srv /\ def_tr' = r.kept
           ELSE \E q \in EndDefault(r.srv, r.kept, "rollback") : RolledBackTo(q, 0)
  BY <1>1 DEF CommitOutermost
<1>3. /\ r.kept = TRUE /\ r.ok \in BOOLEAN
      /\ \/ r.srv = srv /\ r.ok = FALSE
         \/ srv.up /\ r.srv = Ended(srv, "commit") /\ r.ok = TRUE
         \/ srv.up /\ r.srv \in {Gone(srv), Gone(Ended(srv, "commit"))} /\ r.ok = FALSE
  BY EndedDefault
<1>4. in_transaction' = FALSE
  BY DEF CommitOutermost
<1>5. \A op : /\ Ended(srv, op) \in Server
              /\ Ended(srv, op).durable \in {srv.durable, srv.durable \cup Done(srv.log)}
  BY <1>1, EndedIs
<1>6. ASSUME NEW op, NEW z \in {Gone(srv), Gone(Ended(srv, op))}
      PROVE  /\ z \in Server /\ ~z.up /\ z.log = <<>>
             /\ z.durable \in {srv.durable, srv.durable \cup Done(srv.log)}
  <2> DEFINE e == Ended(srv, op)
  <2>1. e \in Server /\ e.durable \in {srv.durable, srv.durable \cup Done(srv.log)}
    BY <1>5
  <2>2. z \in {Gone(srv), Gone(e)}
    OBVIOUS
  <2> HIDE DEF e
  <2>3. /\ Gone(srv) \in Server /\ ~Gone(srv).up /\ Gone(srv).log = <<>>
        /\ Gone(srv).durable = srv.durable
    BY <1>1, GoneIs
  <2>4. Gone(e) \in Server /\ ~Gone(e).up /\ Gone(e).log = <<>> /\ Gone(e).durable = e.durable
    BY <2>1, GoneIs
  <2> QED BY <2>1, <2>2, <2>3, <2>4
<1>7. CASE r.ok
  BY <1>1, <1>2, <1>3, <1>4, <1>7 DEF Return
<1>8. CASE ~r.ok
  <2>1. PICK q \in EndDefault(r.srv, TRUE, "rollback") : RolledBackTo(q, 0)
    BY <1>2, <1>3, <1>8
  <2>2. /\ q.kept = TRUE /\ q.ok \in BOOLEAN
        /\ \/ q.srv = r.srv /\ q.ok = FALSE
           \/ r.srv.up /\ q.srv = Ended(r.srv, "rollback") /\ q.ok = TRUE
           \/ r.srv.up /\ q.srv \in {Gone(r.srv), Gone(Ended(r.srv, "rollback"))} /\ q.ok = FALSE
    BY <2>1, EndedDefault
  <2>3. srv' = q.srv /\ def_tr' = TRUE
    BY <2>1, <2>2 DEF RolledBackTo
  <2>4. (q.ok => status' = 0) /\ (~q.ok => status' = InError)
    BY <2>1 DEF RolledBackTo
  <2>5. result' = "error"
    BY <1>2, <1>8 DEF Return
  <2>6. CASE r.srv = srv
    BY <1>1, <1>4, <1>6, <2>2, <2>3, <2>4, <2>5, <2>6
  <2>7. CASE srv.up /\ r.srv \in {Gone(srv), Gone(Ended(srv, "commit"))}
    <3>1. /\ r.srv \in Server /\ ~r.srv.up /\ r.srv.log = <<>>
          /\ r.srv.durable \in {srv.durable, srv.durable \cup Done(srv.log)}
      BY <1>6, <2>7
    <3>2. q.srv = r.srv /\ q.ok = FALSE
      BY <2>2, <3>1
    <3> QED BY <1>1, <1>4, <2>3, <2>4, <2>5, <2>7, <3>1, <3>2
  <2> QED BY <1>3, <1>8, <2>6, <2>7
<1> QED BY <1>3, <1>7, <1>8

\* rollback_transaction of a level inside.
LEMMA RollbackSavepointLeaves ==
  ASSUME DieselInv, RollbackSavepoint
  PROVE  /\ Valid /\ status \in 2 .. MaxDepth /\ in_transaction' = TRUE /\ def_tr' = TRUE
         /\ \/ srv' = srv /\ status' = InError /\ result' = "error"
            \/ srv.up /\ srv' = Gone(srv) /\ status' = InError /\ result' = "error"
            \/ /\ srv.up /\ Place(srv.log, status) \in 1 .. Len(srv.log)
               /\ srv' = [srv EXCEPT !.log = SubSeq(srv.log, 1, Place(srv.log, status))]
               /\ \/ status' = status - 1 /\ result' = "ok"
                  \/ status' = InError /\ result' = "error"
<1>0. Valid /\ status \in 2 .. MaxDepth /\ status > 0
  <2>1. Valid /\ status > 1
    BY DEF RollbackSavepoint
  <2>2. MaxDepth \in Nat /\ status \in 0 .. MaxDepth
    BY <2>1, Depths
  <2> QED BY <2>1, <2>2
<1>1. Valid /\ status \in 2 .. MaxDepth /\ in_transaction = TRUE /\ def_tr = TRUE
  BY <1>0 DEF DieselInv
<1> DEFINE q == Statement("rollback to", status)
<1>2. PICK r \in Execute(q) : RolledBackTo(r, status - 1) /\ Return(r.ok)
  BY DEF RollbackSavepoint
<1>3. Effects(q, srv.log) = {SubSeq(srv.log, 1, i) : i \in {Place(srv.log, status)} \ {0}}
  BY EffectsAre
<1> HIDE DEF q
<1>4. /\ r.ok \in BOOLEAN /\ r.kept = TRUE
      /\ \/ r.srv = srv /\ r.ok = FALSE
         \/ srv.up /\ r.srv = Gone(srv) /\ r.ok = FALSE
         \/ srv.up /\ \E l \in Effects(q, srv.log) : r.srv = [srv EXCEPT !.log = l]
  BY <1>1, InsideExecute
<1>5. in_transaction' = TRUE
  BY <1>1 DEF RollbackSavepoint
<1>6. srv' = r.srv /\ def_tr' = TRUE
  BY <1>2, <1>4 DEF RolledBackTo
<1>7. (r.ok => status' = status - 1 /\ result' = "ok") /\ (~r.ok => status' = InError /\ result' = "error")
  BY <1>2 DEF RolledBackTo, Return
<1>8. Place(srv.log, status) \in 0 .. Len(srv.log)
  BY <1>1, PlaceIs DEF DieselInv, Sound, Server
<1>9. \A l \in Effects(q, srv.log) : /\ Place(srv.log, status) \in 1 .. Len(srv.log)
                                     /\ l = SubSeq(srv.log, 1, Place(srv.log, status))
  <2>1. Len(srv.log) \in Nat
    BY LenProperties DEF DieselInv, Sound, Server
  <2> QED BY <1>3, <1>8, <2>1
<1> QED BY <1>1, <1>4, <1>5, <1>6, <1>7, <1>9

---------------------------------------------------------------------------
(***************************************************************************)
(* The invariant                                                           *)
(***************************************************************************)

\* A server that is lost, or whose transaction ended, is sound.
LEMMA SoundEnds ==
  ASSUME NEW s, Sound(s), NEW op
  PROVE  Sound(Gone(s)) /\ Sound(Ended(s, op))
<1>1. s \in Server
  BY DEF Sound
<1>2. Gone(s) \in Server /\ Gone(s).log = <<>> /\ Ended(s, op) \in Server /\ Ended(s, op).log = <<>>
  BY <1>1, GoneIs, EndedIs
<1> QED BY <1>2, SoundEmpty

\* A log that is written to a server that is up keeps it sound.
LEMMA SoundChanged ==
  ASSUME NEW s, Sound(s), s.up = TRUE, NEW l \in Seq(Entries), SetOnce(l)
  PROVE  Sound([s EXCEPT !.log = l])
BY ChangedIs DEF Sound

\* The invariant holds in a manager that opened or ended levels.
LEMMA ValidInv ==
  ASSUME status' \in 0 .. MaxDepth, result' \in {"ok", "error"},
         in_transaction' \in BOOLEAN, in_transaction' <=> status' > 0,
         def_tr' \in BOOLEAN, status' > 0 => def_tr',
         Sound(srv'), status' = 0 => srv'.log = <<>>, srv'.up => Nested(srv'.log, status')
  PROVE  DieselInv'
BY DepthAssumption, InErrorAssumption DEF DieselInv, Valid

\* It holds in one that is broken.
LEMMA BrokenInv ==
  ASSUME status' = InError, result' \in {"ok", "error"}, in_transaction' \in BOOLEAN,
         def_tr' \in BOOLEAN, Sound(srv')
  PROVE  DieselInv'
BY DEF DieselInv, Valid

\* What the invariant says of a manager that is not broken.
LEMMA InvIsValid ==
  ASSUME DieselInv, Valid
  PROVE  /\ status \in 0 .. MaxDepth /\ status \in Nat /\ (in_transaction <=> status > 0)
         /\ status > 0 => def_tr = TRUE
         /\ status = 0 => srv.log = <<>>
         /\ srv.up => Nested(srv.log, status)
BY DepthAssumption DEF DieselInv, Valid

\* What it says of any.
LEMMA InvIsTyped ==
  ASSUME DieselInv
  PROVE  /\ in_transaction \in BOOLEAN /\ def_tr \in BOOLEAN /\ result \in {"ok", "error"}
         /\ Sound(srv) /\ srv \in Server /\ srv.up \in BOOLEAN
         /\ srv.log \in Seq(Entries) /\ SetOnce(srv.log) /\ srv.durable \in SUBSET Works
         /\ ~srv.up => srv.log = <<>>
BY DEF DieselInv, Sound, Server

\* begin_transaction of the outermost level.
LEMMA BeginOutermostInv ==
  ASSUME DieselInv, BeginOutermost
  PROVE  DieselInv'
<1>1. /\ status = 0 /\ srv.log = <<>> /\ in_transaction = FALSE
      /\ \/ /\ srv' = srv /\ def_tr' = TRUE /\ in_transaction' = TRUE /\ status' = 1
            /\ result' = "ok"
         \/ /\ srv' = srv \/ (srv.up /\ srv' = Gone(srv))
            /\ def_tr' = FALSE /\ in_transaction' = FALSE /\ status' = 0 /\ result' = "error"
  BY BeginOutermostLeaves
<1>2. Sound(srv) /\ srv \in Server /\ Sound(Gone(srv)) /\ Gone(srv).log = <<>>
  BY InvIsTyped, SoundEnds, GoneIs
<1>3. Sound(srv') /\ srv'.log = <<>>
  BY <1>1, <1>2
<1>4. status' \in {0, 1} /\ status' \in 0 .. MaxDepth /\ Nested(srv'.log, status')
  BY <1>1, DepthAssumption, NestedFew
<1>5. /\ in_transaction' \in BOOLEAN /\ def_tr' \in BOOLEAN
      /\ (in_transaction' <=> status' > 0) /\ (status' > 0 => def_tr')
  <2>1. CASE in_transaction' = TRUE /\ def_tr' = TRUE /\ status' = 1
    <3>1. status' > 0
      BY <2>1
    <3> QED BY <2>1, <3>1
  <2>2. CASE in_transaction' = FALSE /\ def_tr' = FALSE /\ status' = 0
    <3>1. ~(status' > 0)
      BY <2>2
    <3> QED BY <2>2, <3>1
  <2> QED BY <1>1, <2>1, <2>2
<1> QED BY <1>1, <1>3, <1>4, <1>5, ValidInv

\* begin_transaction of a level inside.
LEMMA BeginSavepointInv ==
  ASSUME DieselInv, BeginSavepoint
  PROVE  DieselInv'
<1> DEFINE L == Append(RemoveFirst(srv.log, Savepoint(status + 1)), Savepoint(status + 1))
<1>1. /\ Valid /\ status \in 1 .. MaxDepth - 1 /\ in_transaction = TRUE /\ def_tr' = TRUE
      /\ in_transaction' = TRUE
      /\ \/ srv' = srv /\ status' = status /\ result' = "error"
         \/ srv.up /\ srv' = Gone(srv) /\ status' = status /\ result' = "error"
         \/ /\ srv.up /\ srv' = [srv EXCEPT !.log = L]
            /\ \/ status' = status + 1 /\ result' = "ok"
               \/ status' = status /\ result' = "error"
  BY BeginSavepointLeaves
<1>2. status' \in 1 .. MaxDepth /\ status' \in {status, status + 1}
  BY <1>1, DepthAssumption
<1>3. Sound(srv') /\ (srv'.up => Nested(srv'.log, status'))
  <2>1. CASE srv' = srv /\ status' = status
    BY <1>1, <2>1, InvIsTyped, InvIsValid
  <2>2. CASE srv' = Gone(srv)
    BY <2>2, InvIsTyped, SoundEnds, GoneIs
  <2>3. CASE srv.up /\ srv' = [srv EXCEPT !.log = L]
    <3>1. L \in Seq(Entries) /\ SetOnce(L) /\ Nested(L, status) /\ Nested(L, status + 1)
      BY <1>1, <2>3, SavepointOpens, InvIsTyped, InvIsValid
    <3> HIDE DEF L
    <3>2. srv.up = TRUE
      BY <2>3, InvIsTyped
    <3>3. Sound(srv') /\ srv'.log = L
      BY <2>3, <3>1, <3>2, SoundChanged, ChangedIs, InvIsTyped
    <3> QED BY <1>2, <3>1, <3>3
  <2> QED BY <1>1, <2>1, <2>2, <2>3
<1>4. status' \in 0 .. MaxDepth /\ status' > 0 /\ status' # 0
  BY <1>2, DepthAssumption
<1> QED BY <1>1, <1>3, <1>4, ValidInv

\* rollback_transaction of the outermost level.
LEMMA RollbackOutermostInv ==
  ASSUME DieselInv, RollbackOutermost
  PROVE  DieselInv'
<1>1. /\ Valid /\ status = 1 /\ in_transaction' = FALSE /\ def_tr' = TRUE
      /\ \/ srv.up /\ srv' = Ended(srv, "rollback") /\ status' = 0 /\ result' = "ok"
         \/ srv' = srv /\ status' = InError /\ result' = "error"
         \/ /\ srv.up /\ srv' \in Server /\ ~srv'.up /\ srv'.log = <<>>
            /\ srv'.durable = srv.durable
            /\ status' = InError /\ result' = "error"
  BY RollbackOutermostLeaves
<1>2. CASE srv' = Ended(srv, "rollback") /\ status' = 0 /\ result' = "ok"
  <2>1. Sound(srv') /\ srv'.log = <<>>
    BY <1>2, InvIsTyped, SoundEnds, EndedIs
  <2>2. status' \in 0 .. MaxDepth /\ Nested(srv'.log, status') /\ ~(status' > 0)
    BY <1>2, DepthAssumption, NestedFew
  <2> QED BY <1>1, <1>2, <2>1, <2>2, ValidInv
<1>3. CASE srv' = srv /\ status' = InError /\ result' = "error"
  BY <1>1, <1>3, BrokenInv, InvIsTyped
<1>4. CASE srv' \in Server /\ srv'.log = <<>> /\ status' = InError /\ result' = "error"
  BY <1>1, <1>4, BrokenInv, SoundEmpty
<1> QED BY <1>1, <1>2, <1>3, <1>4

\* commit_transaction of the outermost level.
LEMMA CommitOutermostInv ==
  ASSUME DieselInv, CommitOutermost
  PROVE  DieselInv'
<1>1. /\ Valid /\ status = 1 /\ in_transaction' = FALSE /\ def_tr' = TRUE
      /\ \/ srv.up /\ srv' = Ended(srv, "commit") /\ status' = 0 /\ result' = "ok"
         \/ srv.up /\ srv' = Ended(srv, "rollback") /\ status' = 0 /\ result' = "error"
         \/ srv' = srv /\ status' = InError /\ result' = "error"
         \/ /\ srv.up /\ srv' \in Server /\ ~srv'.up /\ srv'.log = <<>>
            /\ srv'.durable \in {srv.durable, srv.durable \cup Done(srv.log)}
            /\ status' = InError /\ result' = "error"
  BY CommitOutermostLeaves
<1>2. ASSUME NEW op, srv' = Ended(srv, op), status' = 0, result' \in {"ok", "error"}
      PROVE  DieselInv'
  <2>1. Sound(srv') /\ srv'.log = <<>>
    BY <1>2, InvIsTyped, SoundEnds, EndedIs
  <2>2. status' \in 0 .. MaxDepth /\ Nested(srv'.log, status') /\ ~(status' > 0)
    BY <1>2, DepthAssumption, NestedFew
  <2> QED BY <1>1, <1>2, <2>1, <2>2, ValidInv
<1>3. CASE srv' = srv /\ status' = InError /\ result' = "error"
  BY <1>1, <1>3, BrokenInv, InvIsTyped
<1>4. CASE srv' \in Server /\ srv'.log = <<>> /\ status' = InError /\ result' = "error"
  BY <1>1, <1>4, BrokenInv, SoundEmpty
<1> QED BY <1>1, <1>2, <1>3, <1>4

\* rollback_transaction of a level inside.
LEMMA RollbackSavepointInv ==
  ASSUME DieselInv, RollbackSavepoint
  PROVE  DieselInv'
<1> DEFINE L == SubSeq(srv.log, 1, Place(srv.log, status))
<1>1. /\ Valid /\ status \in 2 .. MaxDepth /\ in_transaction' = TRUE /\ def_tr' = TRUE
      /\ \/ srv' = srv /\ status' = InError /\ result' = "error"
         \/ srv.up /\ srv' = Gone(srv) /\ status' = InError /\ result' = "error"
         \/ /\ srv.up /\ srv' = [srv EXCEPT !.log = L]
            /\ \/ status' = status - 1 /\ result' = "ok"
               \/ status' = InError /\ result' = "error"
  BY RollbackSavepointLeaves
<1>2. CASE srv' = srv /\ status' = InError /\ result' = "error"
  BY <1>1, <1>2, BrokenInv, InvIsTyped
<1>3. CASE srv' = Gone(srv) /\ status' = InError /\ result' = "error"
  BY <1>1, <1>3, BrokenInv, SoundEnds, InvIsTyped
<1>4. CASE /\ srv.up /\ srv' = [srv EXCEPT !.log = L]
           /\ \/ status' = status - 1 /\ result' = "ok"
              \/ status' = InError /\ result' = "error"
  <2>1. /\ L \in Seq(Entries) /\ SetOnce(L) /\ Nested(L, status - 1)
        /\ status - 1 \in 1 .. MaxDepth
    BY <1>1, <1>4, RollbackLeavesOuter, InvIsTyped, InvIsValid
  <2>2. srv.up = TRUE
    BY <1>4, InvIsTyped
  <2> HIDE DEF L
  <2>3. Sound(srv') /\ srv'.log = L
    BY <1>4, <2>1, <2>2, SoundChanged, ChangedIs, InvIsTyped
  <2>4. CASE status' = status - 1 /\ result' = "ok"
    <3>1. status' \in 0 .. MaxDepth /\ status' > 0 /\ status' # 0
      BY <2>1, <2>4, DepthAssumption
    <3> QED BY <1>1, <2>1, <2>3, <2>4, <3>1, ValidInv
  <2>5. CASE status' = InError /\ result' = "error"
    BY <1>1, <2>3, <2>5, BrokenInv
  <2> QED BY <1>4, <2>4, <2>5
<1> QED BY <1>1, <1>2, <1>3, <1>4

\* commit_transaction of a level inside.
LEMMA CommitSavepointInv ==
  ASSUME DieselInv, CommitSavepoint
  PROVE  DieselInv'
<1>1. /\ Valid /\ status > 1 /\ status' = status - 1 /\ result' = "ok"
      /\ in_transaction' = in_transaction /\ def_tr' = def_tr /\ srv' = srv
  BY DEF CommitSavepoint, Return
<1>2. status \in 0 .. MaxDepth
  BY <1>1, InvIsValid
<1>3. /\ status \in 2 .. MaxDepth /\ status' \in 0 .. MaxDepth /\ status' > 0 /\ status' # 0
      /\ status > 0
  BY <1>1, <1>2, DepthAssumption
<1>4. srv.up => Nested(srv.log, status - 1)
  BY <1>1, <1>3, CommitMerges, InvIsTyped, InvIsValid
<1>5. in_transaction' \in BOOLEAN /\ in_transaction' /\ def_tr' \in BOOLEAN /\ def_tr' /\ Sound(srv')
  BY <1>1, <1>3, InvIsTyped, InvIsValid
<1> QED BY <1>1, <1>3, <1>4, <1>5, ValidInv

\* A call that is refused.
LEMMA RefuseInv ==
  ASSUME DieselInv, Refuse
  PROVE  DieselInv'
BY DEF DieselInv, Refuse, Return, Valid

\* The manager looks away while a statement or the pool's check runs: the status stays.
LEMMA StatusInv ==
  ASSUME DieselInv, status' = status, in_transaction' = in_transaction,
         result' \in {"ok", "error"}, def_tr' \in BOOLEAN, Valid /\ status > 0 => def_tr',
         Sound(srv'), Valid /\ status = 0 => srv'.log = <<>>,
         Valid /\ srv'.up => Nested(srv'.log, status)
  PROVE  DieselInv'
BY DEF DieselInv, Valid

\* The server is lost between two calls.
LEMMA ServerGoneInv ==
  ASSUME DieselInv, ServerGone
  PROVE  DieselInv'
<1>1. /\ srv.up /\ srv' = Gone(srv) /\ status' = status /\ in_transaction' = in_transaction
      /\ def_tr' = def_tr /\ result' = result
  BY DEF ServerGone
<1>2. Sound(srv') /\ srv'.up = FALSE /\ srv'.log = <<>>
  BY <1>1, SoundEnds, GoneIs, InvIsTyped
<1>3. Valid /\ status > 0 => def_tr
  BY InvIsValid
<1> QED BY <1>1, <1>2, <1>3, StatusInv, InvIsTyped

\* A statement or the pool's check inside a level, or with a broken manager that kept
\* the flag: what ran in it is still open.
LEMMA RunInside ==
  ASSUME DieselInv, in_transaction = TRUE, NEW q, NEW x \in Execute(q),
         srv' = x.srv, def_tr' = x.kept, Return(x.ok), status' = status,
         in_transaction' = in_transaction,
         \A l \in Effects(q, srv.log) :
           /\ l \in Seq(Entries) /\ SetOnce(l)
           /\ \A n \in 1 .. MaxDepth : Nested(srv.log, n) => Nested(l, n)
  PROVE  DieselInv'
<1>1. /\ x.ok \in BOOLEAN /\ x.kept \in BOOLEAN /\ (def_tr => x.kept = TRUE)
      /\ \/ x.srv = srv /\ x.ok = FALSE
         \/ srv.up /\ x.srv = Gone(srv) /\ x.ok = FALSE
         \/ srv.up /\ \E l \in Effects(q, srv.log) : x.srv = [srv EXCEPT !.log = l]
  BY InsideExecute, InvIsTyped
<1>2. Valid => status \in 1 .. MaxDepth /\ status > 0 /\ status # 0 /\ def_tr = TRUE
  <2>1. ASSUME Valid PROVE status \in 0 .. MaxDepth /\ status > 0 /\ def_tr = TRUE
    BY <2>1, InvIsValid
  <2> QED BY <2>1, DepthAssumption
<1>3. Sound(srv') /\ (Valid /\ srv'.up => Nested(srv'.log, status))
  <2>1. CASE srv' = srv
    BY <2>1, InvIsTyped, InvIsValid
  <2>2. CASE srv' = Gone(srv)
    BY <2>2, InvIsTyped, SoundEnds, GoneIs
  <2>3. CASE srv.up /\ \E l \in Effects(q, srv.log) : srv' = [srv EXCEPT !.log = l]
    <3>1. PICK l \in Effects(q, srv.log) : srv' = [srv EXCEPT !.log = l]
      BY <2>3
    <3>2. l \in Seq(Entries) /\ SetOnce(l) /\ \A n \in 1 .. MaxDepth : Nested(srv.log, n) => Nested(l, n)
      OBVIOUS
    <3>3. srv.up = TRUE
      BY <2>3, InvIsTyped
    <3>4. Sound([srv EXCEPT !.log = l]) /\ [srv EXCEPT !.log = l].log = l
      <4>1. l \in Seq(Entries) /\ SetOnce(l) /\ Sound(srv) /\ srv \in Server
        BY <3>2, InvIsTyped
      <4> QED BY <3>3, <4>1, SoundChanged, ChangedIs
    <3>5. Sound(srv') /\ srv'.log = l
      BY <3>1, <3>4
    <3> QED BY <1>2, <3>2, <3>3, <3>5, InvIsValid
  <2> QED BY <1>1, <2>1, <2>2, <2>3
<1>4. def_tr' \in BOOLEAN /\ (Valid /\ status > 0 => def_tr') /\ result' \in {"ok", "error"}
  BY <1>1, <1>2 DEF Return
<1> QED BY <1>2, <1>3, <1>4, StatusInv

\* And outside every level, in a transaction of its own.
LEMMA RunOutside ==
  ASSUME DieselInv, in_transaction = FALSE, NEW q, NEW x \in Execute(q), NEW W \in SUBSET Works,
         srv' = x.srv, def_tr' = x.kept, Return(x.ok), status' = status,
         in_transaction' = in_transaction,
         \A l \in Effects(q, srv.log) : l \in Seq(Entries) /\ Done(l) = Done(srv.log) \cup W
  PROVE  DieselInv'
<1>1. /\ x.ok \in BOOLEAN /\ x.kept \in BOOLEAN /\ x.srv \in Server
      /\ x.srv = srv \/ x.srv.log = <<>>
  BY OutsideExecute, InvIsTyped
<1>2. Valid => status = 0 /\ ~(status > 0)
  <2>1. ASSUME Valid PROVE status \in Nat /\ ~(status > 0)
    BY <2>1, InvIsValid
  <2> QED BY <2>1
<1>3. Sound(srv') /\ (Valid /\ status = 0 => srv'.log = <<>>)
  BY <1>1, InvIsTyped, InvIsValid, SoundEmpty
<1>4. Valid /\ srv'.up => Nested(srv'.log, status)
  BY <1>2, NestedFew
<1>5. def_tr' \in BOOLEAN /\ result' \in {"ok", "error"}
  BY <1>1 DEF Return
<1> QED BY <1>2, <1>3, <1>4, <1>5, StatusInv

\* A statement of the application.
LEMMA ExecuteWorkInv ==
  ASSUME DieselInv, NEW w \in Works, ExecuteWork(w)
  PROVE  DieselInv'
<1> DEFINE q == Statement("work", w)
<1>1. PICK x \in Execute(q) : srv' = x.srv /\ def_tr' = x.kept /\ Return(x.ok)
  BY DEF ExecuteWork
<1>2. status' = status /\ in_transaction' = in_transaction
  BY DEF ExecuteWork
<1>3. Effects(q, srv.log) = {Append(srv.log, Work(w))}
  BY EffectsAre
<1>4. \A l \in Effects(q, srv.log) :
        /\ l \in Seq(Entries) /\ SetOnce(l)
        /\ \A n \in 1 .. MaxDepth : Nested(srv.log, n) => Nested(l, n)
  <2> DEFINE L == Append(srv.log, Work(w))
  <2>1. L \in Seq(Entries) /\ SetOnce(L)
    BY WorkAppended, InvIsTyped
  <2>2. \A n \in 1 .. MaxDepth : Nested(srv.log, n) => Nested(L, n)
    BY WorkInTop, InvIsTyped
  <2> HIDE DEF L
  <2> QED BY <1>3, <2>1, <2>2 DEF L
<1>5. \A l \in Effects(q, srv.log) : l \in Seq(Entries) /\ Done(l) = Done(srv.log) \cup {w}
  BY <1>3, WorkAppended, WorkDone, InvIsTyped, ZenonT(30)
<1> HIDE DEF q
<1>6. CASE in_transaction = TRUE
  BY <1>1, <1>2, <1>4, <1>6, RunInside
<1>7. CASE in_transaction = FALSE
  <2>1. {w} \in SUBSET Works
    OBVIOUS
  <2> DEFINE W == {w}
  <2>2. W \in SUBSET Works /\ \A l \in Effects(q, srv.log) : l \in Seq(Entries) /\ Done(l) = Done(srv.log) \cup W
    BY <1>5, <2>1
  <2> HIDE DEF W
  <2> QED BY <1>1, <1>2, <1>7, <2>2, RunOutside
<1> QED BY <1>6, <1>7, InvIsTyped

\* The pool's check.
LEMMA IsValidInv ==
  ASSUME DieselInv, IsValid
  PROVE  DieselInv'
<1> DEFINE q == Statement("check", 0)
<1>1. PICK x \in Execute(q) : srv' = x.srv /\ def_tr' = x.kept /\ Return(x.ok)
  BY DEF IsValid
<1>2. status' = status /\ in_transaction' = in_transaction
  BY DEF IsValid
<1>3. Effects(q, srv.log) = {srv.log}
  BY EffectsAre
<1>4. \A l \in Effects(q, srv.log) : l \in Seq(Entries) /\ SetOnce(l) /\ l = srv.log
  BY <1>3, InvIsTyped
<1> HIDE DEF q
<1>5. CASE in_transaction = TRUE
  BY <1>1, <1>2, <1>4, <1>5, RunInside
<1>6. CASE in_transaction = FALSE
  <2> DEFINE W == {}
  <2>1. W \in SUBSET Works /\ \A l \in Effects(q, srv.log) : l \in Seq(Entries) /\ Done(l) = Done(srv.log) \cup W
    BY <1>4
  <2> HIDE DEF W
  <2> QED BY <1>1, <1>2, <1>6, <2>1, RunOutside
<1> QED BY <1>5, <1>6, InvIsTyped

\* The first state satisfies the invariant.
LEMMA InitInv == Init => DieselInv
<1> SUFFICES ASSUME Init PROVE DieselInv
  OBVIOUS
<1>1. srv \in Server /\ srv.log = <<>> /\ srv.up = TRUE
  BY EmptyLog DEF Init, Server
<1>2. Sound(srv)
  BY <1>1, SoundEmpty
<1>3. status = 0 /\ in_transaction = FALSE /\ def_tr = FALSE /\ result = "ok"
  BY DEF Init
<1>4. 0 \in 0 .. MaxDepth /\ ~(0 > 0)
  BY DepthAssumption
<1> QED BY <1>1, <1>2, <1>3, <1>4, NestedFew DEF DieselInv, Valid

\* Every step keeps it.
LEMMA NextInv == DieselInv /\ [Next]_vars => DieselInv'
<1> SUFFICES ASSUME DieselInv, [Next]_vars PROVE DieselInv'
  OBVIOUS
<1>1. CASE BeginOutermost  BY <1>1, BeginOutermostInv
<1>2. CASE BeginSavepoint  BY <1>2, BeginSavepointInv
<1>3. CASE RollbackOutermost  BY <1>3, RollbackOutermostInv
<1>4. CASE RollbackSavepoint  BY <1>4, RollbackSavepointInv
<1>5. CASE CommitOutermost  BY <1>5, CommitOutermostInv
<1>6. CASE CommitSavepoint  BY <1>6, CommitSavepointInv
<1>7. CASE NotInTransaction  BY <1>7, RefuseInv DEF NotInTransaction
<1>8. CASE BrokenTransactionManager  BY <1>8, RefuseInv DEF BrokenTransactionManager
<1>9. CASE \E w \in Works : ExecuteWork(w)  BY <1>9, ExecuteWorkInv
<1>10. CASE IsValid  BY <1>10, IsValidInv
<1>11. CASE ServerGone  BY <1>11, ServerGoneInv
<1>12. CASE UNCHANGED vars
  BY <1>12 DEF vars, DieselInv, Valid
<1> QED BY <1>1, <1>2, <1>3, <1>4, <1>5, <1>6, <1>7, <1>8, <1>9, <1>10, <1>11, <1>12 DEF Next

\* The manager, the raw Connection and the server agree on what is open, and no
\* savepoint's name stands twice in the server's transaction.
THEOREM DieselInvariant == Spec => []DieselInv
<1> QED BY InitInv, NextInv, PTL DEF Spec

\* The depth is real: the explicit transaction is open exactly when the depth is not
\* zero, and each level inside has its savepoint, in order.
THEOREM DepthsAreReal == Spec => []DepthIsReal
<1>1. DieselInv => DepthIsReal
  <2> SUFFICES ASSUME DieselInv PROVE DepthIsReal
    OBVIOUS
  <2>1. TypeOK
    BY Types
  <2>2. ASSUME Valid PROVE /\ in_transaction <=> status > 0
                           /\ status > 0 => def_tr
                           /\ status = 0 => srv.log = <<>>
    BY <2>2, InvIsValid
  <2>3. ASSUME Valid, srv.up, NEW d \in 2 .. status
        PROVE  /\ Place(srv.log, d) > 0
               /\ d > 2 => Place(srv.log, d) > Place(srv.log, d - 1)
    <3>1. status \in 0 .. MaxDepth /\ Nested(srv.log, status)
      BY <2>3, InvIsValid
    <3>2. ASSUME d > 2 PROVE Place(srv.log, d - 1) < Place(srv.log, d)
      <4>1. d - 1 \in 2 .. status /\ d - 1 < d
        BY <3>1, <3>2, DepthAssumption
      <4> QED BY <3>1, <4>1 DEF Nested
    <3>3. ASSUME d > 2 PROVE Place(srv.log, d) > Place(srv.log, d - 1)
      BY <3>2, <3>3
    <3> QED BY <3>1, <3>3 DEF Nested
  <2> QED BY <2>1, <2>2, <2>3 DEF DepthIsReal
<1> QED BY <1>1, DieselInvariant, PTL
---------------------------------------------------------------------------
(***************************************************************************)
(* The refinement: what the actions do to the levels, as sequences of the  *)
(* works each level holds, is a step of NestedTransactions or none.        *)
(***************************************************************************)

LevelStep == [Promise!Next]_(Promise!vars)

\* The levels of a server form a sequence, one entry for each.
LEMMA FramesAre ==
  ASSUME NEW s, NEW n \in Nat
  PROVE  /\ Frames(s, n) \in Seq(SUBSET Works) /\ Len(Frames(s, n)) = n
         /\ DOMAIN Frames(s, n) = 1 .. n
         /\ \A d \in 1 .. n : Frames(s, n)[d] = IF s.up THEN Frame(s.log, n, d) ELSE {}
<1>1. Frames(s, n) \in [1 .. n -> SUBSET Works]
  BY DEF Frames, Frame
<1>2. Frames(s, n) \in Seq(SUBSET Works)
  BY <1>1, SeqDef
<1>3. DOMAIN Frames(s, n) = 1 .. n
  BY DEF Frames
<1>4. Len(Frames(s, n)) = n
  BY <1>2, <1>3, LenProperties
<1> QED BY <1>2, <1>3, <1>4 DEF Frames

\* There are none outside.
LEMMA FramesNone ==
  ASSUME NEW s
  PROVE  Frames(s, 0) = <<>>
<1>1. Frames(s, 0) \in Seq(SUBSET Works) /\ Len(Frames(s, 0)) = 0
  BY FramesAre
<1> QED BY <1>1, EmptySeq

\* Inside there are some.
LEMMA FramesSome ==
  ASSUME NEW s, NEW n \in Nat, n > 0
  PROVE  Frames(s, n) # <<>>
<1>1. Len(Frames(s, n)) = n
  BY FramesAre
<1> QED BY <1>1

\* Levels are known by their works.
LEMMA FramesEqual ==
  ASSUME NEW s, NEW t, NEW n \in Nat, s.up = TRUE, t.up = TRUE,
         \A d \in 1 .. n : Frame(t.log, n, d) = Frame(s.log, n, d)
  PROVE  Frames(t, n) = Frames(s, n)
BY DEF Frames

\* A level is opened inside the others.
LEMMA FramesOpen ==
  ASSUME NEW s, NEW t, NEW n \in Nat, (s.up /\ t.up) \/ (~s.up /\ ~t.up),
         s.up => Frame(t.log, n + 1, n + 1) = {},
         s.up => \A d \in 1 .. n : Frame(t.log, n + 1, d) = Frame(s.log, n, d)
  PROVE  Frames(t, n + 1) = Append(Frames(s, n), {})
<1> DEFINE F == Frames(s, n)
           G == Frames(t, n + 1)
<1>1. /\ F \in Seq(SUBSET Works) /\ Len(F) = n
      /\ \A d \in 1 .. n : F[d] = IF s.up THEN Frame(s.log, n, d) ELSE {}
  BY FramesAre
<1>2. /\ G \in Seq(SUBSET Works) /\ Len(G) = n + 1
      /\ \A d \in 1 .. n + 1 : G[d] = IF t.up THEN Frame(t.log, n + 1, d) ELSE {}
  BY FramesAre
<1> HIDE DEF F, G
<1>3. {} \in SUBSET Works
  OBVIOUS
<1>4. /\ Append(F, {}) \in Seq(SUBSET Works) /\ Len(Append(F, {})) = n + 1
      /\ Append(F, {})[n + 1] = {} /\ \A d \in 1 .. n : Append(F, {})[d] = F[d]
  BY <1>1, <1>3, AppendProperties
<1>5. ASSUME NEW d \in 1 .. n + 1 PROVE G[d] = Append(F, {})[d]
  <2>1. d \in 1 .. n \/ d = n + 1
    OBVIOUS
  <2>2. CASE s.up /\ t.up
    <3>1. G[d] = Frame(t.log, n + 1, d) /\ (d \in 1 .. n => F[d] = Frame(s.log, n, d))
      BY <1>1, <1>2, <2>2
    <3>2. Frame(t.log, n + 1, n + 1) = {} /\ (d \in 1 .. n => Frame(t.log, n + 1, d) = Frame(s.log, n, d))
      BY <2>2
    <3> QED BY <1>4, <2>1, <3>1, <3>2
  <2>3. CASE ~s.up /\ ~t.up
    BY <1>1, <1>2, <1>4, <2>1, <2>3
  <2> QED BY <2>2, <2>3
<1> QED BY <1>2, <1>4, <1>5, SeqEqual DEF F, G

\* The levels around the innermost one.
LEMMA OuterLevels ==
  ASSUME NEW F \in Seq(SUBSET Works), NEW n \in Nat \ {0}, Len(F) = n
  PROVE  /\ SubSeq(F, 1, n - 1) \in Seq(SUBSET Works) /\ Len(SubSeq(F, 1, n - 1)) = n - 1
         /\ \A d \in 1 .. n - 1 : SubSeq(F, 1, n - 1)[d] = F[d]
<1> DEFINE O == SubSeq(F, 1, n - 1)
<1>1. 1 \in Int /\ n - 1 \in Int /\ \A d \in 1 .. n - 1 : F[d] \in SUBSET Works
  BY ElementOfSeq
<1>2. /\ O \in Seq(SUBSET Works) /\ Len(O) = IF 1 =< n - 1 THEN n - 1 - 1 + 1 ELSE 0
      /\ \A d \in 1 .. n - 1 - 1 + 1 : O[d] = F[1 + d - 1]
  BY <1>1, SubSeqProperties
<1>3. n - 1 - 1 + 1 = n - 1 /\ \A d \in 1 .. n - 1 : 1 + d - 1 = d
  OBVIOUS
<1> HIDE DEF O
<1>4. Len(O) = n - 1 /\ \A d \in 1 .. n - 1 : O[d] = F[d]
  BY <1>2, <1>3
<1> QED BY <1>2, <1>4 DEF O

\* The innermost level goes, with its work.
LEMMA FramesOuter ==
  ASSUME NEW s, NEW t, NEW n \in Nat \ {0}, (s.up /\ t.up) \/ (~s.up /\ ~t.up),
         s.up => \A d \in 1 .. n - 1 : Frame(t.log, n - 1, d) = Frame(s.log, n, d)
  PROVE  Frames(t, n - 1) = SubSeq(Frames(s, n), 1, n - 1)
<1> DEFINE F == Frames(s, n)
           G == Frames(t, n - 1)
<1>0. n - 1 \in Nat /\ \A d \in 1 .. n - 1 : d \in 1 .. n
  OBVIOUS
<1>1. /\ F \in Seq(SUBSET Works) /\ Len(F) = n
      /\ \A d \in 1 .. n : F[d] = IF s.up THEN Frame(s.log, n, d) ELSE {}
  BY FramesAre
<1>2. /\ G \in Seq(SUBSET Works) /\ Len(G) = n - 1
      /\ \A d \in 1 .. n - 1 : G[d] = IF t.up THEN Frame(t.log, n - 1, d) ELSE {}
  BY <1>0, FramesAre
<1> HIDE DEF F, G
<1> DEFINE O == SubSeq(F, 1, n - 1)
<1>3. O \in Seq(SUBSET Works) /\ Len(O) = n - 1 /\ \A d \in 1 .. n - 1 : O[d] = F[d]
  BY <1>1, OuterLevels
<1> HIDE DEF O
<1>4. ASSUME NEW d \in 1 .. n - 1 PROVE G[d] = O[d]
  <2>1. d \in 1 .. n /\ O[d] = F[d]
    BY <1>0, <1>3
  <2>2. CASE s.up /\ t.up
    <3>1. G[d] = Frame(t.log, n - 1, d) /\ F[d] = Frame(s.log, n, d)
      BY <1>1, <1>2, <2>1, <2>2
    <3> QED BY <2>1, <2>2, <3>1
  <2>3. CASE ~s.up /\ ~t.up
    BY <1>1, <1>2, <2>1, <2>3
  <2> QED BY <2>2, <2>3
<1> QED BY <1>2, <1>3, <1>4, SeqEqual DEF F, G, O

\* The innermost level goes and leaves its work to the one around it.
LEMMA FramesMerge ==
  ASSUME NEW s, NEW n \in Nat, n > 1,
         s.up => \A d \in 1 .. n - 1 : Frame(s.log, n - 1, d) =
                   IF d = n - 1 THEN Frame(s.log, n, n - 1) \cup Frame(s.log, n, n)
                   ELSE Frame(s.log, n, d)
  PROVE  Frames(s, n - 1) =
           [SubSeq(Frames(s, n), 1, n - 1) EXCEPT ![n - 1] = @ \cup Frames(s, n)[n]]
<1> DEFINE F == Frames(s, n)
           G == Frames(s, n - 1)
<1>0. n - 1 \in Nat /\ n - 1 \in 1 .. n - 1 /\ n \in 1 .. n /\ \A d \in 1 .. n - 1 : d \in 1 .. n
  OBVIOUS
<1>1. /\ F \in Seq(SUBSET Works) /\ Len(F) = n
      /\ \A d \in 1 .. n : F[d] = IF s.up THEN Frame(s.log, n, d) ELSE {}
  BY FramesAre
<1>2. /\ G \in Seq(SUBSET Works) /\ Len(G) = n - 1
      /\ \A d \in 1 .. n - 1 : G[d] = IF s.up THEN Frame(s.log, n - 1, d) ELSE {}
  BY <1>0, FramesAre
<1> HIDE DEF F, G
<1> DEFINE O == SubSeq(F, 1, n - 1)
<1>3. O \in Seq(SUBSET Works) /\ Len(O) = n - 1 /\ \A d \in 1 .. n - 1 : O[d] = F[d]
  BY <1>1, OuterLevels
<1> HIDE DEF O
<1> DEFINE e == O[n - 1] \cup F[n]
           P == [O EXCEPT ![n - 1] = e]
<1>4. e \in SUBSET Works /\ e = F[n - 1] \cup F[n]
  BY <1>0, <1>1, <1>3, ElementOfSeq
<1> HIDE DEF e
<1>5. /\ P \in Seq(SUBSET Works) /\ Len(P) = n - 1
      /\ \A d \in 1 .. n - 1 : P[d] = IF d = n - 1 THEN e ELSE O[d]
  BY <1>0, <1>3, <1>4, ExceptSeq
<1> HIDE DEF P
<1>6. ASSUME NEW d \in 1 .. n - 1 PROVE G[d] = P[d]
  <2>1. d \in 1 .. n /\ P[d] = IF d = n - 1 THEN F[n - 1] \cup F[n] ELSE F[d]
    BY <1>0, <1>3, <1>4, <1>5
  <2>2. CASE s.up
    <3>1. /\ G[d] = Frame(s.log, n - 1, d) /\ F[d] = Frame(s.log, n, d)
          /\ F[n - 1] = Frame(s.log, n, n - 1) /\ F[n] = Frame(s.log, n, n)
      BY <1>0, <1>1, <1>2, <2>1, <2>2
    <3>2. Frame(s.log, n - 1, d) =
            IF d = n - 1 THEN Frame(s.log, n, n - 1) \cup Frame(s.log, n, n) ELSE Frame(s.log, n, d)
      BY <2>2
    <3> QED BY <2>1, <3>1, <3>2
  <2>3. CASE ~s.up
    <3>1. G[d] = {} /\ F[d] = {} /\ F[n - 1] = {} /\ F[n] = {}
      BY <1>0, <1>1, <1>2, <2>1, <2>3
    <3> QED BY <2>1, <3>1
  <2> QED BY <2>2, <2>3
<1>7. G = P
  BY <1>2, <1>5, <1>6, SeqEqual
<1> QED BY <1>7 DEF F, G, O, P, e

\* Levels of the module, in a sound server.
LEMMA LevelsIs ==
  ASSUME NEW s, Sound(s), NEW n \in 0 .. MaxDepth, s.up => Nested(s.log, n)
  PROVE  [d \in 1 .. n |-> IF s.up THEN Done(SubSeq(s.log, From(s.log, d) + 1, To(s.log, n, d)))
                           ELSE {}] = Frames(s, n)
<1>1. s.log \in Seq(Entries) /\ SetOnce(s.log)
  BY DEF Sound, Server
<1>2. ASSUME NEW d \in 1 .. n, s.up
      PROVE  Done(SubSeq(s.log, From(s.log, d) + 1, To(s.log, n, d))) = Frame(s.log, n, d)
  <2>1. n \in 1 .. MaxDepth
    BY DepthAssumption
  <2> QED BY <1>1, <1>2, <2>1, LevelsOf
<1> QED BY <1>2 DEF Frames

\* The levels of a manager that is not broken.
LEMMA LevelsAre ==
  ASSUME DieselInv, Valid
  PROVE  Levels = Frames(srv, status)
<1>1. Sound(srv) /\ status \in 0 .. MaxDepth /\ (srv.up => Nested(srv.log, status))
  BY InvIsTyped, InvIsValid
<1>2. Levels = [d \in 1 .. status |->
                  IF srv.up THEN Done(SubSeq(srv.log, From(srv.log, d) + 1, To(srv.log, status, d)))
                  ELSE {}]
  BY DEF Levels, Start, End, From, To
<1> QED BY <1>1, <1>2, LevelsIs

\* And of the one it becomes.
LEMMA NextLevelsAre ==
  ASSUME DieselInv', Valid'
  PROVE  /\ Levels' = Frames(srv', status')
         /\ status' \in 0 .. MaxDepth /\ status' \in Nat
<1>1. Sound(srv') /\ status' \in 0 .. MaxDepth /\ (srv'.up => Nested(srv'.log, status'))
  BY DEF DieselInv, Valid
<1>2. Levels' = [d \in 1 .. status' |->
                  IF srv'.up THEN Done(SubSeq(srv'.log, From(srv'.log, d) + 1, To(srv'.log, status', d)))
                  ELSE {}]
  BY DEF Levels, Start, End, From, To
<1>3. Levels' = Frames(srv', status')
  BY <1>1, <1>2, LevelsIs
<1>4. status' \in Nat
  BY <1>1, DepthAssumption
<1> QED BY <1>1, <1>3, <1>4

\* A broken manager has none.
LEMMA BrokenLevels ==
  /\ ~Valid => Levels = <<>>
  /\ ~Valid' => Levels' = <<>>
BY DEF Levels

\* The works of the log are those of the levels.
LEMMA LevelsHoldAll ==
  ASSUME DieselInv, Valid, status > 0
  PROVE  Done(srv.log) = UNION {Levels[d] : d \in 1 .. status}
<1>1. Levels = Frames(srv, status) /\ status \in Nat /\ status \in 0 .. MaxDepth
  BY LevelsAre, InvIsValid
<1>2. \A d \in 1 .. status : Levels[d] = IF srv.up THEN Frame(srv.log, status, d) ELSE {}
  BY <1>1, FramesAre
<1>3. CASE srv.up
  <2>1. Done(srv.log) = UNION {Frame(srv.log, status, d) : d \in 1 .. status}
    <3>1. status \in 1 .. MaxDepth
      BY <1>1, DepthAssumption
    <3> QED BY <1>3, <3>1, LevelsCover, InvIsTyped, InvIsValid
  <2>2. \A d \in 1 .. status : Levels[d] = Frame(srv.log, status, d)
    BY <1>2, <1>3
  <2> QED BY <2>1, <2>2
<1>4. CASE ~srv.up
  <2>1. Done(srv.log) = {}
    BY <1>4, EmptyLog, InvIsTyped
  <2>2. \A d \in 1 .. status : Levels[d] = {}
    BY <1>2, <1>4
  <2> QED BY <2>1, <2>2
<1> QED BY <1>3, <1>4

\* A work that is neither in the log nor durable is new.
LEMMA WorkIsNew ==
  ASSUME DieselInv, NEW w, w \notin srv.durable \cup Done(srv.log)
  PROVE  Promise!New(w)
<1>1. w \notin UNION {Levels[d] : d \in DOMAIN Levels}
  <2>1. CASE Valid /\ status > 0
    <3>1. Levels = Frames(srv, status) /\ status \in Nat
      BY <2>1, LevelsAre, InvIsValid
    <3>2. DOMAIN Levels = 1 .. status
      BY <3>1, FramesAre
    <3>3. Done(srv.log) = UNION {Levels[d] : d \in 1 .. status}
      BY <2>1, LevelsHoldAll
    <3> QED BY <3>2, <3>3
  <2>2. CASE Valid /\ ~(status > 0)
    <3>1. Levels = Frames(srv, status) /\ status \in Nat
      BY <2>2, LevelsAre, InvIsValid
    <3>2. status = 0
      BY <2>2, <3>1
    <3>3. DOMAIN Levels = 1 .. 0
      BY <3>1, <3>2, FramesAre
    <3> QED BY <3>3
  <2>3. CASE ~Valid
    <3>1. Levels = <<>>
      BY <2>3, BrokenLevels
    <3> QED BY <3>1
  <2> QED BY <2>1, <2>2, <2>3
<1> QED BY <1>1 DEF Promise!New

---------------------------------------------------------------------------
(***************************************************************************)
(* The steps.  Each action of NestedTransactions in terms of the manager:  *)
(* what a step has to do to be it.                                         *)
(***************************************************************************)

\* A call that leaves no trace.
LEMMA AsNothing ==
  ASSUME Valid' <=> Valid, srv'.up = srv.up, srv'.durable = srv.durable,
         Levels' = Levels, ~Valid => Done(srv'.log) = Done(srv.log), result' \in {"ok", "error"}
  PROVE  LevelStep
<1>1. Promise!Nothing
  BY DEF Promise!Nothing
<1> QED BY <1>1 DEF LevelStep, Promise!Next

\* A level ends that could not.
LEMMA AsBreak ==
  ASSUME Valid, ~Valid', srv'.up = srv.up, srv'.durable = srv.durable, Levels # <<>>,
         NEW n \in {Len(Levels) - 1, Len(Levels)},
         Done(srv'.log) = UNION {Levels[d] : d \in 1 .. n}, result' = "error"
  PROVE  LevelStep
<1>1. Promise!Break
  BY BrokenLevels DEF Promise!Break, Promise!Top
<1> QED BY <1>1 DEF LevelStep, Promise!Next

\* The server is lost, with a commit of W under way or none.
LEMMA AsLose ==
  ASSUME srv.up = TRUE, srv'.up = FALSE, srv'.log = <<>>,
         \/ Levels' = [d \in DOMAIN Levels |-> {}] /\ (Valid' <=> Valid)
         \/ Levels' = <<>> /\ Levels # <<>> /\ ~Valid',
         NEW W \in SUBSET Works, W = {} \/ Promise!InFlight(W),
         srv'.durable \in {srv.durable, srv.durable \cup W},
         result' \in {result, "error"}
  PROVE  LevelStep
<1>1. Promise!Lose(W)
  BY EmptyLog DEF Promise!Lose
<1> QED BY <1>1 DEF LevelStep, Promise!Next

\* A broken manager runs a statement that does W.
LEMMA AsBrokenWork ==
  ASSUME ~Valid, ~Valid', srv.up = TRUE, srv'.up = TRUE, NEW W,
         W = {} \/ \E w \in Works : W = {w} /\ Promise!New(w),
         \/ Done(srv'.log) = Done(srv.log) \cup W /\ srv'.durable = srv.durable
         \/ /\ Done(srv'.log) = {}
            /\ srv'.durable \in {srv.durable, srv.durable \cup (Done(srv.log) \cup W)},
         result' \in {"ok", "error"}
  PROVE  LevelStep
<1>1. Promise!BrokenWork(W)
  <2>1. \A w \in W : Promise!New(w)
    OBVIOUS
  <2> QED BY <2>1, BrokenLevels DEF Promise!BrokenWork
<1> QED BY <1>1 DEF LevelStep, Promise!Next

\* Nothing happened.
LEMMA UnchangedStep ==
  ASSUME DieselInv, DieselInv', srv' = srv, status' = status, result' \in {"ok", "error"}
  PROVE  LevelStep
<1>1. Valid' <=> Valid
  BY DEF Valid
<1>2. Levels' = Levels
  <2>1. CASE Valid
    BY <1>1, <2>1, LevelsAre, NextLevelsAre
  <2>2. CASE ~Valid
    BY <1>1, <2>2, BrokenLevels
  <2> QED BY <2>1, <2>2
<1> QED BY <1>1, <1>2, AsNothing

\* The server is lost, and nothing was being committed.
LEMMA LostStep ==
  ASSUME DieselInv, DieselInv', srv.up = TRUE, srv' = Gone(srv), status' = status,
         result' \in {result, "error"}
  PROVE  LevelStep
<1>1. Valid' <=> Valid
  BY DEF Valid
<1>2. srv'.up = FALSE /\ srv'.log = <<>> /\ srv'.durable = srv.durable
  BY GoneIs, InvIsTyped
<1>3. ASSUME NEW n \in Nat PROVE Frames(srv', n) = [d \in DOMAIN Frames(srv, n) |-> {}]
  BY <1>2 DEF Frames
<1>4. Levels' = [d \in DOMAIN Levels |-> {}]
  <2>1. CASE Valid
    <3>1. Levels = Frames(srv, status) /\ Levels' = Frames(srv', status) /\ status \in Nat
      BY <1>1, <2>1, LevelsAre, NextLevelsAre, InvIsValid
    <3>2. Frames(srv', status) = [d \in DOMAIN Frames(srv, status) |-> {}]
      BY <1>3, <3>1
    <3> QED BY <3>1, <3>2
  <2>2. CASE ~Valid
    <3>1. Levels = <<>> /\ Levels' = <<>>
      BY <1>1, <2>2, BrokenLevels
    <3>2. 0 \in Nat /\ Frames(srv, 0) = <<>> /\ Frames(srv', 0) = <<>>
      BY FramesNone
    <3>3. Frames(srv', 0) = [d \in DOMAIN Frames(srv, 0) |-> {}]
      BY <1>3, <3>2
    <3> QED BY <3>1, <3>2, <3>3
  <2> QED BY <2>1, <2>2
<1> DEFINE W == {}
<1>5. W \in SUBSET Works /\ W = {}
  OBVIOUS
<1> HIDE DEF W
<1> QED BY <1>1, <1>2, <1>4, <1>5, AsLose

\* begin_transaction of the outermost level opens it, or leaves no trace.
LEMMA BeginOutermostStep ==
  ASSUME DieselInv, DieselInv', BeginOutermost
  PROVE  LevelStep
<1>1. /\ status = 0 /\ srv.log = <<>>
      /\ \/ srv' = srv /\ status' = 1 /\ result' = "ok"
         \/ /\ srv' = srv \/ (srv.up /\ srv' = Gone(srv))
            /\ status' = 0 /\ result' = "error"
  BY BeginOutermostLeaves
<1>2. CASE srv' = srv /\ status' = 1 /\ result' = "ok"
  <2>1. Valid /\ Valid'
    BY <1>1, <1>2, Depths DEF Valid
  <2>2. Levels = Frames(srv, 0) /\ Levels' = Frames(srv, 1)
    BY <1>1, <1>2, <2>1, LevelsAre, NextLevelsAre
  <2>3. Frame(srv.log, 1, 1) = {}
    <3>1. Len(<<>>) = 0
      BY EmptyLog
    <3> QED BY <1>1, <3>1 DEF Frame, From, To
  <2>4. Frames(srv, 1) = Append(Frames(srv, 0), {})
    <3>1. 0 + 1 = 1 /\ 0 \in Nat /\ (srv.up \/ ~srv.up) /\ \A d \in 1 .. 0 : FALSE
      OBVIOUS
    <3> QED BY <2>3, <3>1, FramesOpen
  <2>5. Promise!Begin
    BY <1>2, <2>1, <2>2, <2>4 DEF Promise!Begin
  <2> QED BY <2>5 DEF LevelStep, Promise!Next
<1>3. CASE srv' = srv /\ status' = 0 /\ result' = "error"
  BY <1>1, <1>3, UnchangedStep
<1>4. CASE srv.up /\ srv' = Gone(srv) /\ status' = 0 /\ result' = "error"
  <2>1. srv.up = TRUE
    BY <1>4, InvIsTyped
  <2> QED BY <1>1, <1>4, <2>1, LostStep
<1> QED BY <1>1, <1>2, <1>3, <1>4

\* begin_transaction of a level inside opens it, or leaves no trace but a savepoint.
LEMMA BeginSavepointStep ==
  ASSUME DieselInv, DieselInv', BeginSavepoint
  PROVE  LevelStep
<1> DEFINE L == Append(RemoveFirst(srv.log, Savepoint(status + 1)), Savepoint(status + 1))
<1>1. /\ Valid /\ status \in 1 .. MaxDepth - 1
      /\ \/ srv' = srv /\ status' = status /\ result' = "error"
         \/ srv.up /\ srv' = Gone(srv) /\ status' = status /\ result' = "error"
         \/ /\ srv.up /\ srv' = [srv EXCEPT !.log = L]
            /\ \/ status' = status + 1 /\ result' = "ok"
               \/ status' = status /\ result' = "error"
  BY BeginSavepointLeaves
<1>2. CASE srv' = srv /\ status' = status /\ result' = "error"
  BY <1>2, UnchangedStep
<1>3. CASE srv.up /\ srv' = Gone(srv) /\ status' = status /\ result' = "error"
  <2>1. srv.up = TRUE
    BY <1>3, InvIsTyped
  <2> QED BY <1>3, <2>1, LostStep
<1>4. CASE srv.up /\ srv' = [srv EXCEPT !.log = L]
  <2>0. srv.up = TRUE /\ status \in Nat
    BY <1>1, <1>4, InvIsTyped, InvIsValid
  <2>1. /\ L \in Seq(Entries) /\ Frame(L, status + 1, status + 1) = {}
        /\ \A d \in 1 .. status : /\ Frame(L, status, d) = Frame(srv.log, status, d)
                                  /\ Frame(L, status + 1, d) = Frame(srv.log, status, d)
    BY <1>1, <1>4, SavepointOpens, InvIsTyped, InvIsValid
  <2> HIDE DEF L
  <2>2. srv'.up = TRUE /\ srv'.log = L /\ srv'.durable = srv.durable
    BY <1>4, <2>0, <2>1, ChangedIs, InvIsTyped
  <2>3. Levels = Frames(srv, status)
    BY <1>1, LevelsAre
  <2>4. CASE status' = status + 1 /\ result' = "ok"
    <3>1. status + 1 \in 0 .. MaxDepth
      BY <1>1, DepthAssumption
    <3>2. Valid'
      BY <2>4, <3>1, Depths DEF Valid
    <3>3. Levels' = Frames(srv', status + 1)
      BY <2>4, <3>2, NextLevelsAre
    <3>4. Levels' = Append(Levels, {})
      BY <2>0, <2>1, <2>2, <2>3, <3>3, FramesOpen
    <3>5. Promise!Begin
      BY <1>1, <2>0, <2>2, <2>4, <3>2, <3>4 DEF Promise!Begin
    <3> QED BY <3>5 DEF LevelStep, Promise!Next
  <2>5. CASE status' = status /\ result' = "error"
    <3>1. Valid'
      BY <1>1, <2>5 DEF Valid
    <3>2. Levels' = Frames(srv', status)
      BY <2>5, <3>1, NextLevelsAre
    <3>3. Levels' = Levels
      BY <2>0, <2>1, <2>2, <2>3, <3>2, FramesEqual
    <3> QED BY <1>1, <2>0, <2>2, <2>5, <3>1, <3>3, AsNothing
  <2> QED BY <1>1, <1>4, <2>0, <2>2, <2>4, <2>5
<1> QED BY <1>1, <1>2, <1>3, <1>4

\* The outermost level alone.
LEMMA OneLevel ==
  ASSUME DieselInv, Valid, status = 1
  PROVE  /\ Len(Levels) = 1 /\ Levels # <<>> /\ Done(srv.log) = Levels[1]
         /\ Done(srv.log) = UNION {Levels[d] : d \in 1 .. 1}
<1>1. Levels = Frames(srv, 1)
  BY LevelsAre
<1>2. 1 \in Nat /\ 1 > 0
  OBVIOUS
<1>3. Len(Levels) = 1 /\ Levels # <<>>
  BY <1>1, <1>2, FramesAre, FramesSome
<1>4. Done(srv.log) = UNION {Levels[d] : d \in 1 .. 1}
  BY <1>2, LevelsHoldAll
<1>5. UNION {Levels[d] : d \in 1 .. 1} = Levels[1]
  <2>1. 1 .. 1 = {1}
    OBVIOUS
  <2> QED BY <2>1
<1> QED BY <1>3, <1>4, <1>5

\* rollback_transaction of the outermost level undoes its work, or breaks.
LEMMA RollbackOutermostStep ==
  ASSUME DieselInv, DieselInv', RollbackOutermost
  PROVE  LevelStep
<1>1. /\ Valid /\ status = 1
      /\ \/ srv.up /\ srv' = Ended(srv, "rollback") /\ status' = 0 /\ result' = "ok"
         \/ srv' = srv /\ status' = InError /\ result' = "error"
         \/ /\ srv.up /\ srv' \in Server /\ ~srv'.up /\ srv'.log = <<>>
            /\ srv'.durable = srv.durable
            /\ status' = InError /\ result' = "error"
  BY RollbackOutermostLeaves
<1>2. /\ Len(Levels) = 1 /\ Levels # <<>> /\ Done(srv.log) = Levels[1]
      /\ Done(srv.log) = UNION {Levels[d] : d \in 1 .. 1}
  BY <1>1, OneLevel
<1>3. CASE srv.up /\ srv' = Ended(srv, "rollback") /\ status' = 0 /\ result' = "ok"
  <2>1. srv'.up = srv.up /\ srv'.durable = srv.durable
    <3>1. "rollback" # "commit"
      OBVIOUS
    <3> QED BY <1>3, <3>1, EndedIs, InvIsTyped
  <2>2. Valid' /\ Levels' = <<>>
    BY <1>3, Depths, NextLevelsAre, FramesNone DEF Valid
  <2>3. SubSeq(Levels, 1, 1 - 1) = <<>>
    BY SubSeqEmpty
  <2>4. Promise!RollbackLevel
    BY <1>1, <1>2, <1>3, <2>1, <2>2, <2>3 DEF Promise!RollbackLevel, Promise!Outer, Promise!Top
  <2> QED BY <2>4 DEF LevelStep, Promise!Next
<1>4. CASE srv' = srv /\ status' = InError /\ result' = "error"
  <2>1. ~Valid'
    BY <1>4 DEF Valid
  <2> QED BY <1>1, <1>2, <1>4, <2>1, AsBreak
<1>5. CASE /\ srv.up /\ ~srv'.up /\ srv'.log = <<>> /\ srv'.durable = srv.durable
           /\ status' = InError /\ result' = "error"
  <2>1. ~Valid' /\ Levels' = <<>>
    BY <1>5, BrokenLevels DEF Valid
  <2>2. srv.up = TRUE /\ srv'.up = FALSE
    BY <1>5, InvIsTyped DEF DieselInv, Sound, Server
  <2> DEFINE W == {}
  <2>3. W \in SUBSET Works /\ W = {}
    OBVIOUS
  <2> HIDE DEF W
  <2> QED BY <1>2, <1>5, <2>1, <2>2, <2>3, AsLose
<1> QED BY <1>1, <1>3, <1>4, <1>5

\* commit_transaction of the outermost level makes its work durable, undoes it, breaks,
\* or loses the server without saying which.
LEMMA CommitOutermostStep ==
  ASSUME DieselInv, DieselInv', CommitOutermost
  PROVE  LevelStep
<1>1. /\ Valid /\ status = 1
      /\ \/ srv.up /\ srv' = Ended(srv, "commit") /\ status' = 0 /\ result' = "ok"
         \/ srv.up /\ srv' = Ended(srv, "rollback") /\ status' = 0 /\ result' = "error"
         \/ srv' = srv /\ status' = InError /\ result' = "error"
         \/ /\ srv.up /\ srv' \in Server /\ ~srv'.up /\ srv'.log = <<>>
            /\ srv'.durable \in {srv.durable, srv.durable \cup Done(srv.log)}
            /\ status' = InError /\ result' = "error"
  BY CommitOutermostLeaves
<1>2. /\ Len(Levels) = 1 /\ Levels # <<>> /\ Done(srv.log) = Levels[1]
      /\ Done(srv.log) = UNION {Levels[d] : d \in 1 .. 1}
  BY <1>1, OneLevel
<1>3. CASE srv.up /\ srv' = Ended(srv, "commit") /\ status' = 0 /\ result' = "ok"
  <2>1. srv'.up = srv.up /\ srv'.durable = srv.durable \cup Levels[1]
    <3>1. /\ Ended(srv, "commit").up = srv.up
          /\ Ended(srv, "commit").durable = srv.durable \cup Done(srv.log)
      BY EndedIs, InvIsTyped
    <3> QED BY <1>2, <1>3, <3>1
  <2>2. Valid' /\ Levels' = <<>>
    BY <1>3, Depths, NextLevelsAre, FramesNone DEF Valid
  <2>3. Promise!CommitOutermost
    BY <1>1, <1>2, <1>3, <2>1, <2>2 DEF Promise!CommitOutermost, Promise!Top
  <2> QED BY <2>3 DEF LevelStep, Promise!Next
<1>4. CASE srv.up /\ srv' = Ended(srv, "rollback") /\ status' = 0 /\ result' = "error"
  <2>1. srv'.up = srv.up /\ srv'.durable = srv.durable
    <3>1. "rollback" # "commit"
      OBVIOUS
    <3> QED BY <1>4, <3>1, EndedIs, InvIsTyped
  <2>2. Valid' /\ Levels' = <<>>
    BY <1>4, Depths, NextLevelsAre, FramesNone DEF Valid
  <2>3. Promise!CommitUndone
    BY <1>1, <1>2, <1>4, <2>1, <2>2 DEF Promise!CommitUndone, Promise!Top
  <2> QED BY <2>3 DEF LevelStep, Promise!Next
<1>5. CASE srv' = srv /\ status' = InError /\ result' = "error"
  <2>1. ~Valid'
    BY <1>5 DEF Valid
  <2> QED BY <1>1, <1>2, <1>5, <2>1, AsBreak
<1>6. CASE /\ srv.up /\ ~srv'.up /\ srv'.log = <<>>
           /\ srv'.durable \in {srv.durable, srv.durable \cup Done(srv.log)}
           /\ status' = InError /\ result' = "error"
  <2>1. ~Valid' /\ Levels' = <<>>
    BY <1>6, BrokenLevels DEF Valid
  <2>2. srv.up = TRUE /\ srv'.up = FALSE
    BY <1>6, InvIsTyped DEF DieselInv, Sound, Server
  <2> DEFINE W == Done(srv.log)
  <2>3. W \in SUBSET Works /\ Promise!InFlight(W)
    BY <1>2 DEF Done, Promise!InFlight, Promise!Top
  <2> HIDE DEF W
  <2>4. srv'.durable \in {srv.durable, srv.durable \cup W}
    BY <1>6 DEF W
  <2> QED BY <1>2, <1>6, <2>1, <2>2, <2>3, <2>4, AsLose
<1> QED BY <1>1, <1>3, <1>4, <1>5, <1>6

\* rollback_transaction of a level inside undoes its work, or breaks, whether or not
\* the server did what it was asked.
LEMMA RollbackSavepointStep ==
  ASSUME DieselInv, DieselInv', RollbackSavepoint
  PROVE  LevelStep
<1> DEFINE L == SubSeq(srv.log, 1, Place(srv.log, status))
<1>1. /\ Valid /\ status \in 2 .. MaxDepth
      /\ \/ srv' = srv /\ status' = InError /\ result' = "error"
         \/ srv.up /\ srv' = Gone(srv) /\ status' = InError /\ result' = "error"
         \/ /\ srv.up /\ srv' = [srv EXCEPT !.log = L]
            /\ \/ status' = status - 1 /\ result' = "ok"
               \/ status' = InError /\ result' = "error"
  BY RollbackSavepointLeaves
<1>2. status \in Nat \ {0} /\ status > 0 /\ status \in Nat
  BY <1>1, InvIsValid
<1>3. /\ Levels = Frames(srv, status) /\ Len(Levels) = status /\ Levels # <<>>
      /\ Done(srv.log) = UNION {Levels[d] : d \in 1 .. status}
  BY <1>1, <1>2, LevelsAre, LevelsHoldAll, FramesAre, FramesSome
<1>4. CASE srv' = srv /\ status' = InError /\ result' = "error"
  <2>1. ~Valid'
    BY <1>4 DEF Valid
  <2> QED BY <1>1, <1>3, <1>4, <2>1, AsBreak
<1>5. CASE srv.up /\ srv' = Gone(srv) /\ status' = InError /\ result' = "error"
  <2>1. ~Valid' /\ Levels' = <<>>
    BY <1>5, BrokenLevels DEF Valid
  <2>2. srv.up = TRUE /\ srv'.up = FALSE /\ srv'.log = <<>> /\ srv'.durable = srv.durable
    BY <1>5, GoneIs, InvIsTyped
  <2> DEFINE W == {}
  <2>3. W \in SUBSET Works /\ W = {}
    OBVIOUS
  <2> HIDE DEF W
  <2> QED BY <1>3, <1>5, <2>1, <2>2, <2>3, AsLose
<1>6. CASE srv.up /\ srv' = [srv EXCEPT !.log = L]
  <2>0. srv.up = TRUE
    BY <1>6, InvIsTyped
  <2>1. /\ L \in Seq(Entries) /\ SetOnce(L) /\ Nested(L, status - 1) /\ status - 1 \in 1 .. MaxDepth
        /\ \A d \in 1 .. status - 1 : Frame(L, status - 1, d) = Frame(srv.log, status, d)
    BY <1>1, <1>6, RollbackLeavesOuter, InvIsTyped, InvIsValid
  <2> HIDE DEF L
  <2>2. srv'.up = TRUE /\ srv'.log = L /\ srv'.durable = srv.durable
    BY <1>6, <2>0, <2>1, ChangedIs, InvIsTyped
  <2>3. CASE status' = status - 1 /\ result' = "ok"
    <3>1. Valid'
      <4>1. status - 1 \in 0 .. MaxDepth
        BY <2>1, DepthAssumption
      <4> QED BY <2>3, <4>1, Depths DEF Valid
    <3>2. Levels' = Frames(srv', status - 1)
      BY <2>3, <3>1, NextLevelsAre
    <3>3. Levels' = SubSeq(Levels, 1, status - 1)
      BY <1>2, <1>3, <2>0, <2>1, <2>2, <3>2, FramesOuter
    <3>4. Promise!RollbackLevel
      BY <1>1, <1>3, <2>0, <2>2, <2>3, <3>1, <3>3
      DEF Promise!RollbackLevel, Promise!Outer, Promise!Top
    <3> QED BY <3>4 DEF LevelStep, Promise!Next
  <2>4. CASE status' = InError /\ result' = "error"
    <3>1. ~Valid'
      BY <2>4 DEF Valid
    <3>2. Done(L) = UNION {Frame(L, status - 1, d) : d \in 1 .. status - 1}
      BY <2>1, LevelsCover
    <3>3. \A d \in 1 .. status - 1 : Frame(L, status - 1, d) = Levels[d]
      <4>1. \A d \in 1 .. status - 1 : d \in 1 .. status
        BY <1>2
      <4>2. \A d \in 1 .. status : Levels[d] = Frame(srv.log, status, d)
        BY <1>2, <1>3, <2>0, FramesAre
      <4> QED BY <2>1, <4>1, <4>2
    <3>4. Done(srv'.log) = UNION {Levels[d] : d \in 1 .. status - 1}
      BY <2>2, <3>2, <3>3
    <3>5. status - 1 \in {Len(Levels) - 1, Len(Levels)}
      BY <1>3
    <3> QED BY <1>1, <1>3, <2>0, <2>2, <2>4, <3>1, <3>4, <3>5, AsBreak
  <2> QED BY <1>1, <1>4, <1>6, <2>3, <2>4
<1> QED BY <1>1, <1>4, <1>5, <1>6

\* commit_transaction of a level inside hands its work to the one around it.
LEMMA CommitSavepointStep ==
  ASSUME DieselInv, DieselInv', CommitSavepoint
  PROVE  LevelStep
<1>1. Valid /\ status > 1 /\ status' = status - 1 /\ result' = "ok" /\ srv' = srv
  BY DEF CommitSavepoint, Return
<1>2. status \in 0 .. MaxDepth
  BY <1>1, InvIsValid
<1>3. status \in 2 .. MaxDepth /\ status \in Nat /\ status - 1 \in 0 .. MaxDepth
  BY <1>1, <1>2, DepthAssumption
<1>4. Valid'
  BY <1>1, <1>3, Depths DEF Valid
<1>5. Levels = Frames(srv, status) /\ Levels' = Frames(srv, status - 1) /\ Len(Levels) = status
  BY <1>1, <1>3, <1>4, LevelsAre, NextLevelsAre, FramesAre
<1>6. srv.up => \A d \in 1 .. status - 1 : Frame(srv.log, status - 1, d) =
                  IF d = status - 1
                  THEN Frame(srv.log, status, status - 1) \cup Frame(srv.log, status, status)
                  ELSE Frame(srv.log, status, d)
  BY <1>1, <1>3, CommitMerges, InvIsTyped, InvIsValid
<1>7. Frames(srv, status - 1) = [SubSeq(Frames(srv, status), 1, status - 1)
                                   EXCEPT ![status - 1] = @ \cup Frames(srv, status)[status]]
  BY <1>1, <1>3, <1>6, FramesMerge
<1>8. Promise!CommitLevel
  BY <1>1, <1>4, <1>5, <1>7 DEF Promise!CommitLevel, Promise!Outer, Promise!Top
<1> QED BY <1>8 DEF LevelStep, Promise!Next

\* A call that is refused leaves no trace.
LEMMA RefuseStep ==
  ASSUME DieselInv, DieselInv', Refuse
  PROVE  LevelStep
BY UnchangedStep DEF Refuse, Return

\* The server is lost between two calls.
LEMMA ServerGoneStep ==
  ASSUME DieselInv, DieselInv', ServerGone
  PROVE  LevelStep
<1>1. srv.up /\ srv' = Gone(srv) /\ status' = status /\ result' = result
  BY DEF ServerGone
<1>2. srv.up = TRUE
  BY <1>1, InvIsTyped
<1> QED BY <1>1, <1>2, LostStep

\* A statement that does W, none or a new work, outside every level: it is durable,
\* undone with what a broken manager had open, or the server is lost while it commits.
LEMMA OutsideStep ==
  ASSUME DieselInv, DieselInv', in_transaction = FALSE, status' = status,
         NEW W \in SUBSET Works, W = {} \/ \E w \in Works : W = {w} /\ Promise!New(w),
         NEW q, \A l \in Effects(q, srv.log) : l \in Seq(Entries) /\ Done(l) = Done(srv.log) \cup W,
         NEW x \in Execute(q), srv' = x.srv, Return(x.ok)
  PROVE  LevelStep
<1> DEFINE D == Done(srv.log)
<1>1. /\ x.ok \in BOOLEAN
      /\ \/ x.srv = srv /\ x.ok = FALSE
         \/ /\ x.srv.log = <<>>
            /\ \/ x.srv.up = srv.up /\ x.srv.durable = srv.durable /\ x.ok = FALSE
               \/ /\ srv.up /\ x.srv.up /\ x.ok = TRUE
                  /\ x.srv.durable = srv.durable \cup (D \cup W)
               \/ /\ srv.up /\ ~x.srv.up /\ x.ok = FALSE
                  /\ x.srv.durable \in {srv.durable, srv.durable \cup (D \cup W)}
  BY OutsideExecute, InvIsTyped
<1>2. /\ (x.ok = TRUE => result' = "ok") /\ (x.ok = FALSE => result' = "error")
      /\ result' \in {"ok", "error"}
  BY <1>1 DEF Return
<1>3. /\ Valid' <=> Valid
      /\ Valid => status = 0
  <2>1. ASSUME Valid PROVE status \in Nat /\ ~(status > 0)
    BY <2>1, InvIsValid
  <2>2. Valid => status = 0
    BY <2>1
  <2> QED BY <2>2 DEF Valid
<1>4. Levels = <<>> /\ Levels' = <<>>
  <2>1. CASE Valid
    <3>1. Levels = Frames(srv, 0) /\ Levels' = Frames(srv', 0)
      BY <1>3, <2>1, LevelsAre, NextLevelsAre
    <3> QED BY <3>1, FramesNone
  <2>2. CASE ~Valid
    BY <1>3, <2>2, BrokenLevels
  <2> QED BY <2>1, <2>2
<1>5. Valid => D = {}
  <2>1. Valid => srv.log = <<>>
    BY <1>3, InvIsValid
  <2> QED BY <2>1, EmptyLog
<1>6. srv.up \in BOOLEAN /\ srv'.up \in BOOLEAN /\ (~srv.up => D = {}) /\ D \in SUBSET Works
  <2>1. ~srv.up => srv.log = <<>>
    BY InvIsTyped
  <2>2. srv'.up \in BOOLEAN
    BY DEF DieselInv, Sound, Server
  <2>3. D \in SUBSET Works
    BY DEF Done
  <2> QED BY <2>1, <2>2, <2>3, EmptyLog, InvIsTyped
<1>7. Done(<<>>) = {}
  BY EmptyLog
<1> HIDE DEF D
<1>8. CASE srv' = srv /\ result' = "error"
  BY <1>8, UnchangedStep
\* Nothing of it stays.
<1>9. CASE /\ srv'.log = <<>> /\ srv'.up = srv.up /\ srv'.durable = srv.durable
           /\ result' = "error"
  <2>1. CASE Valid \/ ~srv.up
    <3>1. Done(srv'.log) = Done(srv.log)
      BY <1>5, <1>6, <1>7, <1>9, <2>1 DEF D
    <3> QED BY <1>3, <1>4, <1>9, <3>1, AsNothing
  <2>2. CASE ~Valid /\ srv.up
    <3>1. srv.up = TRUE /\ srv'.up = TRUE /\ ~Valid' /\ Done(srv'.log) = {}
      BY <1>3, <1>6, <1>7, <1>9, <2>2
    <3> QED BY <1>2, <1>9, <2>2, <3>1, AsBrokenWork
  <2> QED BY <2>1, <2>2
\* All of it is durable.
<1>10. CASE /\ srv'.log = <<>> /\ srv.up /\ srv'.up /\ result' = "ok"
            /\ srv'.durable = srv.durable \cup (D \cup W)
  <2>1. srv.up = TRUE /\ srv'.up = TRUE
    BY <1>6, <1>10
  <2>2. CASE ~Valid
    <3>1. ~Valid' /\ Done(srv'.log) = {}
      BY <1>3, <1>7, <1>10, <2>2
    <3> QED BY <1>2, <1>10, <2>1, <2>2, <3>1, AsBrokenWork DEF D
  <2>3. CASE Valid /\ W = {}
    <3>1. srv'.durable = srv.durable /\ srv'.up = srv.up
      BY <1>5, <1>10, <2>1, <2>3
    <3> QED BY <1>2, <1>3, <1>4, <2>3, <3>1, AsNothing
  <2>4. CASE Valid /\ \E w \in Works : W = {w} /\ Promise!New(w)
    <3>1. PICK w \in Works : W = {w} /\ Promise!New(w)
      BY <2>4
    <3>2. srv'.durable = srv.durable \cup {w}
      BY <1>5, <1>10, <2>4, <3>1
    <3>3. Promise!WorkOutside(w)
      BY <1>3, <1>4, <1>10, <2>1, <2>4, <3>1, <3>2 DEF Promise!WorkOutside
    <3> QED BY <3>3 DEF LevelStep, Promise!Next
  <2> QED BY <2>2, <2>3, <2>4
\* It was being committed when the server was lost.
<1>11. CASE /\ srv'.log = <<>> /\ srv.up /\ ~srv'.up /\ result' = "error"
            /\ srv'.durable \in {srv.durable, srv.durable \cup (D \cup W)}
  <2> DEFINE V == D \cup W
  <2>1. V \in SUBSET Works /\ Promise!InFlight(V)
    <3>1. Promise!Top = 0
      BY <1>4, EmptyLog DEF Promise!Top
    <3>2. CASE W = {}
      <4>1. V = IF Valid THEN {} ELSE Done(srv.log)
        BY <1>5, <3>2 DEF D
      <4> QED BY <1>6, <3>1, <3>2, <4>1 DEF Promise!InFlight
    <3>3. CASE \E w \in Works : W = {w} /\ Promise!New(w)
      <4>1. PICK w \in Works : W = {w} /\ Promise!New(w)
        BY <3>3
      <4>2. V = (IF Valid THEN {} ELSE Done(srv.log)) \cup {w}
        BY <1>5, <4>1 DEF D
      <4> QED BY <1>6, <3>1, <4>1, <4>2 DEF Promise!InFlight
    <3> QED BY <3>2, <3>3
  <2>2. srv'.durable \in {srv.durable, srv.durable \cup V}
    BY <1>11
  <2> HIDE DEF V
  <2>3. srv.up = TRUE /\ srv'.up = FALSE
    BY <1>6, <1>11
  <2>4. Levels' = [d \in DOMAIN Levels |-> {}]
    <3>1. 0 \in Nat /\ Frames(srv, 0) = <<>>
      BY FramesNone
    <3>2. DOMAIN <<>> = 1 .. 0
      BY <3>1, FramesAre
    <3>3. Frames([up |-> FALSE], 0) = [d \in 1 .. 0 |-> {}]
      BY DEF Frames
    <3> QED BY <1>4, <3>2, <3>3, FramesNone
  <2> QED BY <1>3, <1>11, <2>1, <2>2, <2>3, <2>4, AsLose
<1> QED BY <1>1, <1>2, <1>8, <1>9, <1>10, <1>11

\* A work inside a level is the innermost level's; a broken manager's is in limbo.
LEMMA ExecuteWorkStep ==
  ASSUME DieselInv, DieselInv', NEW w \in Works, ExecuteWork(w)
  PROVE  LevelStep
<1> DEFINE q == Statement("work", w)
           L == Append(srv.log, Work(w))
<1>1. PICK x \in Execute(q) : srv' = x.srv /\ def_tr' = x.kept /\ Return(x.ok)
  BY DEF ExecuteWork
<1>2. status' = status /\ in_transaction' = in_transaction
  BY DEF ExecuteWork
<1>3. Promise!New(w)
  BY WorkIsNew DEF ExecuteWork
<1>4. Effects(q, srv.log) = {L}
  BY EffectsAre
<1>5. L \in Seq(Entries) /\ Done(L) = Done(srv.log) \cup {w}
  BY WorkAppended, WorkDone, InvIsTyped
<1>6. CASE in_transaction = FALSE
  <2> DEFINE W == {w}
  <2>1. W \in SUBSET Works /\ W = {w}
    OBVIOUS
  <2>2. \A l \in Effects(q, srv.log) : l \in Seq(Entries) /\ Done(l) = Done(srv.log) \cup W
    BY <1>4, <1>5
  <2> HIDE DEF q, L, W
  <2> QED BY <1>1, <1>2, <1>3, <1>6, <2>1, <2>2, OutsideStep
<1>7. CASE in_transaction = TRUE
  <2> HIDE DEF q
  <2>1. /\ x.ok \in BOOLEAN
        /\ \/ x.srv = srv /\ x.ok = FALSE
           \/ srv.up /\ x.srv = Gone(srv) /\ x.ok = FALSE
           \/ srv.up /\ \E l \in Effects(q, srv.log) : x.srv = [srv EXCEPT !.log = l]
    BY <1>7, InsideExecute, InvIsTyped
  <2>2. result' \in {"ok", "error"} /\ (x.ok = FALSE => result' = "error")
    BY <1>1, <2>1 DEF Return
  <2>3. CASE srv' = srv
    BY <1>2, <2>2, <2>3, UnchangedStep
  <2>4. CASE srv.up /\ srv' = Gone(srv) /\ x.ok = FALSE
    <3>1. srv.up = TRUE
      BY <2>4, InvIsTyped
    <3> QED BY <1>2, <2>2, <2>4, <3>1, LostStep
  <2>5. CASE srv.up /\ srv' = [srv EXCEPT !.log = L]
    <3>1. srv.up = TRUE
      BY <2>5, InvIsTyped
    <3> HIDE DEF L
    <3>2. srv'.up = TRUE /\ srv'.log = L /\ srv'.durable = srv.durable
      BY <1>5, <2>5, <3>1, ChangedIs, InvIsTyped
    <3>3. Valid' <=> Valid
      BY <1>2 DEF Valid
    <3>4. CASE ~Valid
      <4> DEFINE W == {w}
      <4>1. W = {} \/ \E v \in Works : W = {v} /\ Promise!New(v)
        BY <1>3
      <4>2. Done(srv'.log) = Done(srv.log) \cup W
        BY <1>5, <3>2
      <4> HIDE DEF W
      <4> QED BY <2>2, <3>1, <3>2, <3>3, <3>4, <4>1, <4>2, AsBrokenWork
    <3>5. CASE Valid
      <4>1. status \in Nat /\ status > 0 /\ status \in 1 .. MaxDepth
        <5>1. status \in 0 .. MaxDepth /\ status > 0
          BY <1>7, <3>5, InvIsValid
        <5> QED BY <5>1, DepthAssumption
      <4>2. \A d \in 1 .. status : Frame(L, status, d) =
              IF d = status THEN Frame(srv.log, status, status) \cup {w} ELSE Frame(srv.log, status, d)
        BY <3>1, <3>5, <4>1, WorkInTop, InvIsTyped, InvIsValid, ZenonT(30) DEF L
      <4>3. Levels = Frames(srv, status) /\ Levels' = Frames(srv', status)
        BY <1>2, <3>3, <3>5, LevelsAre, NextLevelsAre
      <4>4. Len(Levels) = status /\ Levels # <<>>
        BY <4>1, <4>3, FramesAre, FramesSome
      <4>5. Frames(srv', status) = [Frames(srv, status) EXCEPT ![status] = @ \cup {w}]
        <5>1. \A d \in 1 .. status : Frame(srv'.log, status, d) =
                IF d = status THEN Frame(srv.log, status, status) \cup {w} ELSE Frame(srv.log, status, d)
          BY <3>2, <4>2
        <5>2. status \in 1 .. status
          BY <4>1
        <5> QED BY <3>1, <3>2, <5>1, <5>2 DEF Frames
      <4>6. Promise!WorkInside(w)
        BY <1>3, <2>2, <3>1, <3>2, <3>3, <3>5, <4>3, <4>4, <4>5
        DEF Promise!WorkInside, Promise!Top
      <4> QED BY <4>6 DEF LevelStep, Promise!Next
    <3> QED BY <3>4, <3>5
  <2> QED BY <1>1, <1>4, <2>1, <2>3, <2>4, <2>5
<1> QED BY <1>6, <1>7, InvIsTyped

\* The pool's check leaves no trace inside a level; outside one it ends what a broken
\* manager had open.
LEMMA IsValidStep ==
  ASSUME DieselInv, DieselInv', IsValid
  PROVE  LevelStep
<1> DEFINE q == Statement("check", 0)
<1>1. PICK x \in Execute(q) : srv' = x.srv /\ def_tr' = x.kept /\ Return(x.ok)
  BY DEF IsValid
<1>2. status' = status /\ in_transaction' = in_transaction
  BY DEF IsValid
<1>3. Effects(q, srv.log) = {srv.log}
  BY EffectsAre
<1> HIDE DEF q
<1>4. CASE in_transaction = FALSE
  <2> DEFINE W == {}
  <2>1. W \in SUBSET Works /\ W = {}
    OBVIOUS
  <2>2. \A l \in Effects(q, srv.log) : l \in Seq(Entries) /\ Done(l) = Done(srv.log) \cup W
    BY <1>3, InvIsTyped
  <2> HIDE DEF W
  <2> QED BY <1>1, <1>2, <1>4, <2>1, <2>2, OutsideStep
<1>5. CASE in_transaction = TRUE
  <2>1. /\ x.ok \in BOOLEAN
        /\ \/ x.srv = srv /\ x.ok = FALSE
           \/ srv.up /\ x.srv = Gone(srv) /\ x.ok = FALSE
           \/ srv.up /\ \E l \in Effects(q, srv.log) : x.srv = [srv EXCEPT !.log = l]
    BY <1>5, InsideExecute, InvIsTyped
  <2>2. result' \in {"ok", "error"} /\ (x.ok = FALSE => result' = "error")
    BY <1>1, <2>1 DEF Return
  <2>3. CASE srv' = srv
    BY <1>2, <2>2, <2>3, UnchangedStep
  <2>4. CASE srv.up /\ srv' = Gone(srv) /\ x.ok = FALSE
    <3>1. srv.up = TRUE
      BY <2>4, InvIsTyped
    <3> QED BY <1>2, <2>2, <2>4, <3>1, LostStep
  <2>5. CASE srv' = [srv EXCEPT !.log = srv.log]
    <3>1. srv' = srv
      BY <2>5, InvIsTyped DEF Server
    <3> QED BY <2>3, <3>1
  <2> QED BY <1>1, <1>3, <2>1, <2>3, <2>4, <2>5
<1> QED BY <1>4, <1>5, InvIsTyped

\* The first state has no level and nothing in limbo.
LEMMA InitLevels == Init => Promise!Init
<1> SUFFICES ASSUME Init PROVE Promise!Init
  OBVIOUS
<1>1. DieselInv /\ status = 0
  BY InitInv DEF Init
<1>2. Valid
  BY <1>1, Depths DEF Valid
<1>3. Levels = <<>>
  BY <1>1, <1>2, LevelsAre, FramesNone
<1> QED BY <1>2, <1>3 DEF Init, Promise!Init

\* Every step is one of the levels, or leaves no trace.
LEMMA NextLevels == DieselInv /\ DieselInv' /\ [Next]_vars => [Promise!Next]_(Promise!vars)
<1> SUFFICES ASSUME DieselInv, DieselInv', [Next]_vars PROVE LevelStep
  BY DEF LevelStep
<1>1. CASE BeginOutermost  BY <1>1, BeginOutermostStep
<1>2. CASE BeginSavepoint  BY <1>2, BeginSavepointStep
<1>3. CASE RollbackOutermost  BY <1>3, RollbackOutermostStep
<1>4. CASE RollbackSavepoint  BY <1>4, RollbackSavepointStep
<1>5. CASE CommitOutermost  BY <1>5, CommitOutermostStep
<1>6. CASE CommitSavepoint  BY <1>6, CommitSavepointStep
<1>7. CASE NotInTransaction  BY <1>7, RefuseStep DEF NotInTransaction
<1>8. CASE BrokenTransactionManager  BY <1>8, RefuseStep DEF BrokenTransactionManager
<1>9. CASE \E w \in Works : ExecuteWork(w)  BY <1>9, ExecuteWorkStep
<1>10. CASE IsValid  BY <1>10, IsValidStep
<1>11. CASE ServerGone  BY <1>11, ServerGoneStep
<1>12. CASE UNCHANGED vars
  BY <1>12, UnchangedStep, InvIsTyped DEF vars
<1> QED BY <1>1, <1>2, <1>3, <1>4, <1>5, <1>6, <1>7, <1>8, <1>9, <1>10, <1>11, <1>12 DEF Next

\* Savepoints named after their depth implement nested transactions: whatever the
\* server refuses and whenever it is lost, each level keeps its work apart from those
\* around it, and only the outermost one makes work durable.
THEOREM DieselIsNestedTransactions == Spec => ImplementsNestedTransactions
<1> QED BY InitLevels, NextLevels, DieselInvariant, PTL
        DEF Spec, ImplementsNestedTransactions, Promise!Spec

============================================================================
