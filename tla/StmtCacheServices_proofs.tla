---------------------- MODULE StmtCacheServices_proofs ----------------------
(***************************************************************************)
(* Proofs about the two components of the library crate that lend what     *)
(* they own to a caller and have to have it back: StmtCache, its statement *)
(* handles, for every set of texts and handles and every capacity, zero    *)
(* included; and Services, the service handle and the lines of an action's *)
(* output, for any number of actions, of lines and of lines the server     *)
(* keeps unread.  The two share no state.                                  *)
(***************************************************************************)
EXTENDS StmtCache, Services, SequenceTheorems, TLAPS

---------------------------------------------------------------------------
(* The statement cache                                                     *)

(***************************************************************************)
(* The inductive invariant.  CacheOK speaks of a cache c, known texts s,   *)
(* open handles o, their texts t, the open cursors u and those of them     *)
(* left open behind a failure w, so that it can be said of the             *)
(* intermediate states of a call as well.                                  *)
(***************************************************************************)

CacheOK(c, s, o, t, u, w) ==
  /\ c \in Seq(StmtCacheData)
  /\ s \subseteq Sqls
  /\ o \subseteq Handles
  /\ t \in [Handles -> Sqls \cup {NoSql}]
  /\ u \subseteq o
  /\ w \subseteq u
  /\ \A i \in 1 .. Len(c) : /\ c[i].sql \in s
                            /\ c[i].stmt \in o
                            /\ c[i].stmt \in u => c[i].stmt \in w
                            /\ t[c[i].stmt] = c[i].sql
  /\ \A i, j \in 1 .. Len(c) :
       c[i].stmt = c[j].stmt \/ c[i].sql = c[j].sql => i = j

HeldOK ==
  /\ held \subseteq [sql : Sqls, stmt : Handles, from : {"cache", "prepare", "fetch"}]
  /\ \A m, n \in held : m = n
  /\ \A m \in held : /\ m.stmt \in open
                     /\ text[m.stmt] = m.sql
                     /\ \A i \in 1 .. Len(lru) :
                          /\ lru[i].stmt # m.stmt
                          /\ m.from = "cache" => lru[i].sql # m.sql

ClosedOK == phase = "closed" => lru = <<>> /\ held = {}

CacheInv ==
  /\ CacheOK(lru, sqls, open, text, cursors, stuck)
  /\ Len(lru) =< Capacity
  /\ unclosed \subseteq open
  /\ HeldOK
  /\ phase \in {"open", "closed"}
  /\ ClosedOK

\* A statement h of text q that a call holds, apart from the cache c.
Apart(h, q, c, o, t) ==
  /\ h \in o
  /\ q \in Sqls
  /\ t[h] = q
  /\ \A i \in 1 .. Len(c) : c[i].stmt # h /\ c[i].sql # q

\* The cursors k differ from the server's in h only, whose cursor is closed or was
\* left open behind a failure.
Settled(h, k) ==
  /\ k.cursors \ {h} = cursors \ {h}
  /\ k.stuck \ {h} = stuck \ {h}
  /\ h \in k.cursors <=> h \in k.stuck

---------------------------------------------------------------------------
(***************************************************************************)
(* Lemmas about the data structure                                         *)
(***************************************************************************)

\* Taking the i-th element out of a sequence shifts the later ones down.
LEMMA RemoveAtProperties ==
  ASSUME NEW S, NEW c \in Seq(S), NEW i \in 1 .. Len(c)
  PROVE  /\ RemoveAt(c, i) \in Seq(S)
         /\ Len(RemoveAt(c, i)) = Len(c) - 1
         /\ \A j \in 1 .. Len(c) - 1 :
              RemoveAt(c, i)[j] = IF j < i THEN c[j] ELSE c[j + 1]
<1> DEFINE a == SubSeq(c, 1, i - 1)
           b == SubSeq(c, i + 1, Len(c))
<1>1. /\ a \in Seq(S) /\ Len(a) = i - 1
      /\ \A j \in 1 .. i - 1 : a[j] = c[j]
  BY SubSeqProperties
<1>2. /\ b \in Seq(S) /\ Len(b) = Len(c) - i
      /\ \A j \in 1 .. Len(c) - i : b[j] = c[i + j]
  BY SubSeqProperties
<1>3. RemoveAt(c, i) = a \o b
  BY DEF RemoveAt
<1> HIDE DEF a, b
<1>4. /\ a \o b \in Seq(S) /\ Len(a \o b) = Len(c) - 1
      /\ \A j \in 1 .. Len(c) - 1 :
           (a \o b)[j] = IF j =< i - 1 THEN a[j] ELSE b[j - (i - 1)]
  <2>1. Len(a) + Len(b) = Len(c) - 1
    BY <1>1, <1>2, LenProperties
  <2>2. /\ a \o b \in Seq(S)
        /\ Len(a \o b) = Len(a) + Len(b)
        /\ \A j \in 1 .. Len(a) + Len(b) :
             (a \o b)[j] = IF j =< Len(a) THEN a[j] ELSE b[j - Len(a)]
    BY <1>1, <1>2, ConcatProperties
  <2>3. QED
    BY <1>1, <2>1, <2>2
<1>5. ASSUME NEW j \in 1 .. Len(c) - 1
      PROVE  (a \o b)[j] = IF j < i THEN c[j] ELSE c[j + 1]
  <2>1. CASE j < i
    BY <1>1, <1>4, <2>1
  <2>2. CASE ~(j < i)
    <3>1. j - (i - 1) \in 1 .. Len(c) - i /\ i + (j - (i - 1)) = j + 1
      BY <2>2, LenProperties
    <3>2. QED
      BY <1>2, <1>4, <2>2, <3>1
  <2>3. QED
    BY <2>1, <2>2
<1>6. QED
  BY <1>3, <1>4, <1>5

\* Inserting the statement of a text the cache does not have, after the text was
\* marked, appends it and may drop the oldest entry; nothing comes back.
LEMMA InsertMarkedFresh ==
  ASSUME NEW c \in Seq(StmtCacheData), NEW s, NEW d \in StmtCacheData,
         \A i \in 1 .. Len(c) : c[i].sql # d.sql
  PROVE  LET ins == InsertMarked(c, s, d)
         IN  /\ ins.sqls = s \cup {d.sql}
             /\ ins.old = {}
             /\ ins.lru = IF Len(Append(c, d)) > Capacity
                          THEN Tail(Append(c, d)) ELSE Append(c, d)
<1>1. {i \in DOMAIN c : c[i].sql = d.sql} = {}
  OBVIOUS
<1>2. /\ LruInsert(c, d).old = {}
      /\ LruInsert(c, d).lru = IF Len(Append(c, d)) > Capacity
                               THEN Tail(Append(c, d)) ELSE Append(c, d)
  BY <1>1 DEF LruInsert
<1>3. QED
  BY <1>2 DEF InsertMarked, Insert

\* What insert_and_close does with an apart statement.
LEMMA InsertAppends ==
  ASSUME NEW r, NEW q, NEW k,
         CacheOK(r.lru, r.sqls, r.open, r.text, k.cursors, k.stuck),
         Apart(r.stmt, q, r.lru, r.open, r.text),
         InsertAndClose(r, q, k)
  PROVE  LET d == [sql |-> q, stmt |-> r.stmt]
             full == Append(r.lru, d)
         IN  /\ r.lru \in Seq(StmtCacheData) /\ d \in StmtCacheData
             /\ lru' = IF Len(full) > Capacity THEN Tail(full) ELSE full
             /\ sqls' = r.sqls \cup {q}
             /\ text' = r.text
             /\ open' = r.open
             /\ cursors' = k.cursors
             /\ stuck' = k.stuck
             /\ unclosed' = unclosed
<1> DEFINE d == [sql |-> q, stmt |-> r.stmt]
           full == Append(r.lru, d)
           ins == InsertMarked(r.lru, r.sqls, d)
<1>1. r.lru \in Seq(StmtCacheData) /\ d \in StmtCacheData
  BY DEF CacheOK, Apart, StmtCacheData
<1>2. \A i \in 1 .. Len(r.lru) : r.lru[i].sql # d.sql
  BY DEF Apart
<1>3. /\ ins.sqls = r.sqls \cup {d.sql}
      /\ ins.old = {}
      /\ ins.lru = IF Len(full) > Capacity THEN Tail(full) ELSE full
  BY <1>1, <1>2, InsertMarkedFresh
<1>4. /\ lru' = ins.lru /\ sqls' = ins.sqls /\ text' = r.text
      /\ \/ /\ open' = r.open \ ins.old
            /\ cursors' = k.cursors \ ins.old
            /\ stuck' = k.stuck \ ins.old
            /\ unclosed' = unclosed \ ins.old
         \/ ins.old # {}
  BY DEF InsertAndClose
<1>5. d.sql = q
  OBVIOUS
<1> HIDE DEF ins, full, d
<1>6. QED
  BY <1>1, <1>3, <1>4, <1>5 DEF full, d

\* Giving an apart statement back keeps the cache sound.
LEMMA InsertKeepsCacheOK ==
  ASSUME NEW r, NEW q, NEW k,
         CacheOK(r.lru, r.sqls, r.open, r.text, k.cursors, k.stuck),
         Len(r.lru) =< Capacity,
         Apart(r.stmt, q, r.lru, r.open, r.text),
         r.stmt \in k.cursors => r.stmt \in k.stuck,
         InsertAndClose(r, q, k)
  PROVE  /\ CacheOK(lru', sqls', open', text', cursors', stuck')
         /\ Len(lru') =< Capacity
         /\ open' = r.open /\ text' = r.text /\ unclosed' = unclosed
<1> DEFINE d == [sql |-> q, stmt |-> r.stmt]
           full == Append(r.lru, d)
<1>1. r.lru \in Seq(StmtCacheData) /\ d \in StmtCacheData
  BY DEF CacheOK, Apart, StmtCacheData
<1>2. /\ lru' = IF Len(full) > Capacity THEN Tail(full) ELSE full
      /\ sqls' = r.sqls \cup {q}
      /\ text' = r.text
      /\ open' = r.open
      /\ cursors' = k.cursors
      /\ stuck' = k.stuck
      /\ unclosed' = unclosed
  BY InsertAppends
<1>3. /\ full \in Seq(StmtCacheData) /\ Len(full) = Len(r.lru) + 1
      /\ \A i \in 1 .. Len(full) : full[i] = IF i = Len(full) THEN d ELSE r.lru[i]
  BY <1>1, AppendProperties
<1> HIDE DEF full
<1>4. CacheOK(full, sqls', open', text', cursors', stuck')
  <2>1. Len(r.lru) \in Nat /\ r.stmt \in r.open /\ q \in Sqls
    BY <1>1, LenProperties DEF Apart
  <2>2. \A i \in 1 .. Len(full) : /\ full[i].sql \in sqls'
                                  /\ full[i].stmt \in open'
                                  /\ full[i].stmt \in cursors' => full[i].stmt \in stuck'
                                  /\ text'[full[i].stmt] = full[i].sql
    <3> SUFFICES ASSUME NEW i \in 1 .. Len(full)
                 PROVE  /\ full[i].sql \in sqls'
                        /\ full[i].stmt \in open'
                        /\ full[i].stmt \in cursors' => full[i].stmt \in stuck'
                        /\ text'[full[i].stmt] = full[i].sql
      OBVIOUS
    <3>1. CASE i = Len(full)
      BY <1>2, <1>3, <3>1 DEF Apart
    <3>2. CASE i # Len(full)
      <4>1. i \in 1 .. Len(r.lru) /\ full[i] = r.lru[i]
        BY <1>3, <2>1, <3>2
      <4>2. QED
        BY <1>2, <4>1 DEF CacheOK
    <3>3. QED
      BY <3>1, <3>2
  <2>3. \A i, j \in 1 .. Len(full) :
          full[i].stmt = full[j].stmt \/ full[i].sql = full[j].sql => i = j
    <3>1. \A i \in 1 .. Len(full) : i # Len(full) =>
            i \in 1 .. Len(r.lru) /\ full[i] = r.lru[i]
                /\ full[i].stmt # d.stmt /\ full[i].sql # d.sql
      BY <1>3, <2>1 DEF Apart
    <3>2. \A i \in 1 .. Len(full) : i = Len(full) => full[i] = d
      BY <1>3
    <3>3. QED
      BY <3>1, <3>2 DEF CacheOK
  <2>4. QED
    BY <1>2, <1>3, <2>1, <2>2, <2>3 DEF CacheOK
<1>5. CASE Len(full) > Capacity
  <2>1. full # <<>>
    BY <1>3, EmptySeq DEF CacheOK
  <2>2. /\ Tail(full) \in Seq(StmtCacheData)
        /\ Len(Tail(full)) = Len(full) - 1
        /\ \A i \in 1 .. Len(full) - 1 : Tail(full)[i] = full[i + 1]
    BY <1>3, <2>1, HeadTailProperties
  <2>3. CacheOK(Tail(full), sqls', open', text', cursors', stuck')
    <3> PICK tail : tail = Tail(full)
      OBVIOUS
    <3>1. Len(full) \in Nat /\ Len(full) # 0 /\ Len(tail) = Len(full) - 1
      BY <1>3, <2>2, LenProperties DEF CacheOK
    <3>2. \A i \in 1 .. Len(tail) : i + 1 \in 1 .. Len(full) /\ tail[i] = full[i + 1]
      BY <2>2, <3>1
    <3>3. \A i \in 1 .. Len(tail) : /\ tail[i].sql \in sqls'
                                    /\ tail[i].stmt \in open'
                                    /\ tail[i].stmt \in cursors' => tail[i].stmt \in stuck'
                                    /\ text'[tail[i].stmt] = tail[i].sql
      BY <1>4, <3>2 DEF CacheOK
    <3>4. \A i, j \in 1 .. Len(tail) :
            tail[i].stmt = tail[j].stmt \/ tail[i].sql = tail[j].sql => i + 1 = j + 1
      BY <1>4, <3>2 DEF CacheOK
    <3>5. \A i, j \in 1 .. Len(tail) : i + 1 = j + 1 => i = j
      BY <3>1
    <3>6. tail \in Seq(StmtCacheData)
      BY <2>2
    <3>7. CacheOK(tail, sqls', open', text', cursors', stuck')
      BY <1>4, <3>3, <3>4, <3>5, <3>6 DEF CacheOK
    <3>8. QED
      BY <3>7
  <2>4. QED
    BY <1>2, <1>3, <1>5, <2>2, <2>3
<1>6. CASE ~(Len(full) > Capacity)
  <2>1. lru' = full /\ Len(full) \in Nat
    BY <1>2, <1>3, <1>6
  <2>2. QED
    BY <1>2, <1>4, <1>6, <2>1, CapacityAssumption
<1>7. QED
  BY <1>5, <1>6

\* What get_or_prepare serves is apart from the cache that is left.
LEMMA ServedApart ==
  ASSUME CacheInv, held = {}, NEW q \in Sqls, NEW r \in GetOrPrepare(q)
  PROVE  /\ CacheOK(r.lru, r.sqls, r.open, r.text, cursors, stuck)
         /\ Len(r.lru) =< Capacity
         /\ Apart(r.stmt, q, r.lru, r.open, r.text)
         /\ r.stmt \in cursors => r.stmt \in stuck
<1> USE DEF CacheInv
<1>1. CASE r \in Get(q)
  <2>1. PICK i \in 1 .. Len(lru) :
          /\ lru[i].sql = q
          /\ r = [stmt |-> lru[i].stmt, lru |-> RemoveAt(lru, i), sqls |-> sqls \ {q},
                  open |-> open, text |-> text]
    BY <1>1 DEF Get, CacheOK
  <2>2. /\ r.lru \in Seq(StmtCacheData)
        /\ Len(r.lru) = Len(lru) - 1
        /\ \A j \in 1 .. Len(r.lru) :
             r.lru[j] = IF j < i THEN lru[j] ELSE lru[j + 1]
    <3>1. lru \in Seq(StmtCacheData) /\ r.lru = RemoveAt(lru, i)
      BY <2>1 DEF CacheOK
    <3>2. Len(r.lru) = Len(lru) - 1
      BY <3>1, RemoveAtProperties
    <3>3. r.lru \in Seq(StmtCacheData)
      BY <3>1, RemoveAtProperties
    <3>4. \A j \in 1 .. Len(lru) - 1 :
            RemoveAt(lru, i)[j] = IF j < i THEN lru[j] ELSE lru[j + 1]
      BY <3>1, RemoveAtProperties
    <3>5. QED
      BY <3>1, <3>2, <3>3, <3>4
  <2>3. /\ r.stmt = lru[i].stmt /\ r.sqls = sqls \ {q}
        /\ r.open = open /\ r.text = text
    BY <2>1
  <2>0. \A j \in 1 .. Len(r.lru) :
          \E k \in 1 .. Len(lru) : /\ k # i
                                   /\ r.lru[j] = lru[k]
                                   /\ k = IF j < i THEN j ELSE j + 1
    BY <2>2, LenProperties DEF CacheOK
  <2>4. \A j \in 1 .. Len(r.lru) : r.lru[j].stmt # lru[i].stmt /\ r.lru[j].sql # q
    BY <2>0, <2>1 DEF CacheOK
  <2>5. CacheOK(r.lru, r.sqls, r.open, r.text, cursors, stuck)
    <3>1. \A j \in 1 .. Len(r.lru) :
            \E k \in 1 .. Len(lru) : /\ k # i
                                     /\ r.lru[j] = lru[k]
                                     /\ k = IF j < i THEN j ELSE j + 1
      BY <2>0
    <3>2. \A j \in 1 .. Len(r.lru) :
            /\ r.lru[j].sql \in r.sqls
            /\ r.lru[j].stmt \in r.open
            /\ r.lru[j].stmt \in cursors => r.lru[j].stmt \in stuck
            /\ r.text[r.lru[j].stmt] = r.lru[j].sql
      BY <2>3, <2>4, <3>1 DEF CacheOK
    <3>3. \A j, k \in 1 .. Len(r.lru) :
            r.lru[j].stmt = r.lru[k].stmt \/ r.lru[j].sql = r.lru[k].sql => j = k
      <4> SUFFICES ASSUME NEW j \in 1 .. Len(r.lru), NEW k \in 1 .. Len(r.lru),
                          r.lru[j].stmt = r.lru[k].stmt \/ r.lru[j].sql = r.lru[k].sql
                   PROVE  j = k
        OBVIOUS
      <4>1. PICK a \in 1 .. Len(lru) :
              r.lru[j] = lru[a] /\ a = IF j < i THEN j ELSE j + 1
        BY <3>1
      <4>2. PICK b \in 1 .. Len(lru) :
              r.lru[k] = lru[b] /\ b = IF k < i THEN k ELSE k + 1
        BY <3>1
      <4>3. a = b
        BY <4>1, <4>2 DEF CacheOK
      <4>4. QED
        BY <4>1, <4>2, <4>3, <2>2
    <3>4. QED
      BY <2>2, <2>3, <3>2, <3>3 DEF CacheOK
  <2>6. QED
    BY <2>1, <2>2, <2>3, <2>4, <2>5, CapacityAssumption DEF CacheOK, Apart
<1>2. CASE q \notin Keys(lru) /\ r \in Prepare(q)
  <2>1. PICK h \in Handles \ open :
          r = [stmt |-> h, lru |-> lru, sqls |-> sqls,
               open |-> open \cup {h}, text |-> [text EXCEPT ![h] = q]]
    BY <1>2 DEF Prepare
  <2>2. \A j \in 1 .. Len(lru) : lru[j].sql # q
    BY <1>2 DEF Keys, Range, CacheOK
  <2>3. QED
    BY <2>1, <2>2 DEF CacheOK, Apart
<1>3. QED
  BY <1>1, <1>2 DEF GetOrPrepare

---------------------------------------------------------------------------
(***************************************************************************)
(* The invariant                                                           *)
(***************************************************************************)

\* The ways a call leaves the cursor of its statement.
LEMMA ClosingSettles ==
  ASSUME stuck \subseteq cursors, NEW h, NEW q,
         NEW k \in CloseCursor(h, OpenCursor(h, q, Cursors)) \cup CloseCursor(h, Cursors)
                   \cup {LeftOpen(h, OpenCursor(h, q, Cursors))}
  PROVE  Settled(h, k)
<1>1. PICK c \in {Cursors, OpenCursor(h, q, Cursors)} :
        k \in {LeftOpen(h, c), [cursors |-> c.cursors \ {h}, stuck |-> c.stuck \ {h}]}
  BY DEF CloseCursor
<1>2. /\ c = [cursors |-> c.cursors, stuck |-> stuck]
      /\ c.cursors \ {h} = cursors \ {h} /\ cursors \subseteq c.cursors
  BY DEF Cursors, OpenCursor
<1>3. CASE k = LeftOpen(h, c)
  <2>1. k.cursors = c.cursors /\ k.stuck = stuck \cup ({h} \cap c.cursors)
    BY <1>2, <1>3 DEF LeftOpen
  <2> QED BY <1>2, <2>1 DEF Settled
<1>4. CASE k = [cursors |-> c.cursors \ {h}, stuck |-> c.stuck \ {h}]
  <2>1. k.cursors = c.cursors \ {h} /\ k.stuck = stuck \ {h}
    BY <1>2, <1>4
  <2> QED BY <1>2, <2>1 DEF Settled
<1> QED BY <1>1, <1>3, <1>4

\* What they do to the cursor of h leaves a cache without h sound.
LEMMA SettledKeepsCacheOK ==
  ASSUME NEW c, NEW s, NEW o, NEW t, NEW h, NEW q, NEW k,
         CacheOK(c, s, o, t, cursors, stuck), Apart(h, q, c, o, t), Settled(h, k)
  PROVE  /\ CacheOK(c, s, o, t, k.cursors, k.stuck)
         /\ h \in k.cursors => h \in k.stuck
BY DEF CacheOK, Apart, Settled

\* A call that takes a statement and gives it back in the same step.
LEMMA GiveBackKeepsInv ==
  ASSUME CacheInv, Idle, NEW q \in Sqls, NEW r \in GetOrPrepare(q), NEW k, Settled(r.stmt, k),
         InsertAndClose(r, q, k), UNCHANGED <<held, phase>>
  PROVE  CacheInv'
<1>1. /\ CacheOK(r.lru, r.sqls, r.open, r.text, cursors, stuck)
      /\ Len(r.lru) =< Capacity
      /\ Apart(r.stmt, q, r.lru, r.open, r.text)
  BY ServedApart DEF Idle
<1>2. /\ CacheOK(r.lru, r.sqls, r.open, r.text, k.cursors, k.stuck)
      /\ r.stmt \in k.cursors => r.stmt \in k.stuck
  BY <1>1, SettledKeepsCacheOK
<1>3. /\ CacheOK(lru', sqls', open', text', cursors', stuck') /\ Len(lru') =< Capacity
      /\ open' = r.open /\ unclosed' = unclosed
  BY <1>1, <1>2, InsertKeepsCacheOK
<1>4. held' = {} /\ phase' = "open"
  BY DEF Idle
<1>5. open \subseteq r.open
  BY DEF GetOrPrepare, Get, Prepare
<1>6. QED
  BY <1>3, <1>4, <1>5 DEF CacheInv, HeldOK, ClosedOK

\* What execute and query_iter do with the statement r that was served.
LEMMA RefusedOrRan ==
  ASSUME CacheInv, Idle, NEW q \in Sqls, Execute(q) \/ QueryIterFails(q)
  PROVE  \E r \in GetOrPrepare(q) : \E k : Settled(r.stmt, k) /\ InsertAndClose(r, q, k)
<1>1. stuck \subseteq cursors
  BY DEF CacheInv, CacheOK
<1>2. ASSUME NEW r \in GetOrPrepare(q), InsertAndClose(r, q, Cursors)
      PROVE  \E k : Settled(r.stmt, k) /\ InsertAndClose(r, q, k)
  <2>1. r.stmt \in cursors => r.stmt \in stuck
    BY ServedApart DEF Idle
  <2>2. Settled(r.stmt, Cursors)
    BY <1>1, <2>1 DEF Settled, Cursors
  <2> QED BY <1>2, <2>2
<1>3. CASE Execute(q)
  <2>1. PICK r \in GetOrPrepare(q) :
          \/ InsertAndClose(r, q, Cursors)
          \/ \E c \in CloseCursor(r.stmt, OpenCursor(r.stmt, q, Cursors)) :
               InsertAndClose(r, q, c)
    BY <1>3 DEF Execute
  <2>2. CASE InsertAndClose(r, q, Cursors)
    BY <1>2, <2>2
  <2>3. ASSUME NEW c \in CloseCursor(r.stmt, OpenCursor(r.stmt, q, Cursors)),
               InsertAndClose(r, q, c)
        PROVE  \E k : Settled(r.stmt, k) /\ InsertAndClose(r, q, k)
    BY <1>1, <2>3, ClosingSettles
  <2> QED BY <2>1, <2>2, <2>3
<1>4. CASE QueryIterFails(q)
  <2>1. PICK r \in GetOrPrepare(q) :
          \/ InsertAndClose(r, q, Cursors)
          \/ InsertAndClose(r, q, LeftOpen(r.stmt, OpenCursor(r.stmt, q, Cursors)))
    BY <1>4 DEF QueryIterFails
  <2>2. CASE InsertAndClose(r, q, Cursors)
    BY <1>2, <2>2
  <2>3. CASE InsertAndClose(r, q, LeftOpen(r.stmt, OpenCursor(r.stmt, q, Cursors)))
    <3>1. Settled(r.stmt, LeftOpen(r.stmt, OpenCursor(r.stmt, q, Cursors)))
      BY <1>1, ClosingSettles
    <3> QED BY <2>3, <3>1
  <2> QED BY <2>1, <2>2, <2>3
<1> QED BY <1>3, <1>4

\* A Statement that starts or stops fetching stays held as it was.
LEMMA Relabelled ==
  ASSUME CacheInv, NEW m \in held, NEW f \in {"prepare", "fetch"},
         held' = {[m EXCEPT !.from = f]}, UNCHANGED <<lru, open, text>>
  PROVE  HeldOK'
<1>1. m \in [sql : Sqls, stmt : Handles, from : {"cache", "prepare", "fetch"}]
  BY DEF CacheInv, HeldOK
<1>2. PICK n : n = [m EXCEPT !.from = f]
  OBVIOUS
<1>3. /\ n \in [sql : Sqls, stmt : Handles, from : {"cache", "prepare", "fetch"}]
      /\ n.sql = m.sql /\ n.stmt = m.stmt /\ n.from # "cache"
  BY <1>1, <1>2
<1>4. held' = {n}
  BY <1>2
<1> QED BY <1>3, <1>4 DEF CacheInv, HeldOK

LEMMA InitInv == Init => CacheInv
<1> SUFFICES ASSUME Init PROVE CacheInv
  OBVIOUS
<1>1. lru \in Seq(StmtCacheData) /\ Len(lru) = 0
  BY EmptySeq DEF Init
<1>2. CacheOK(lru, sqls, open, text, cursors, stuck)
  BY <1>1 DEF Init, CacheOK
<1>3. QED
  BY <1>1, <1>2, CapacityAssumption DEF Init, CacheInv, HeldOK, ClosedOK

LEMMA NextInv == CacheInv /\ [Next]_vars => CacheInv'
<1> SUFFICES ASSUME CacheInv, [Next]_vars PROVE CacheInv'
  OBVIOUS
<1>1. ASSUME NEW q \in Sqls, Execute(q) \/ QueryIterFails(q) PROVE CacheInv'
  <2>1. Idle /\ UNCHANGED <<held, phase>>
    BY <1>1 DEF Execute, QueryIterFails
  <2>2. PICK r \in GetOrPrepare(q) : \E k : Settled(r.stmt, k) /\ InsertAndClose(r, q, k)
    BY <1>1, <2>1, RefusedOrRan
  <2>3. QED
    BY <2>1, <2>2, GiveBackKeepsInv
<1>2. ASSUME NEW q \in Sqls, QueryIter(q) PROVE CacheInv'
  <2>1. PICK r \in GetOrPrepare(q) :
          /\ r.stmt \notin cursors
          /\ held' = {[sql |-> q, stmt |-> r.stmt, from |-> "cache"]}
          /\ cursors' = OpenCursor(r.stmt, q, Cursors).cursors
          /\ stuck' = stuck /\ unclosed' = unclosed
          /\ lru' = r.lru /\ sqls' = r.sqls /\ open' = r.open /\ text' = r.text
    BY <1>2 DEF QueryIter
  <2>2. /\ CacheOK(r.lru, r.sqls, r.open, r.text, cursors, stuck)
        /\ Len(r.lru) =< Capacity
        /\ Apart(r.stmt, q, r.lru, r.open, r.text)
    BY <1>2, ServedApart DEF Idle, QueryIter
  <2>3. CacheOK(lru', sqls', open', text', cursors', stuck')
    <3>1. cursors \subseteq cursors' /\ cursors' \subseteq cursors \cup {r.stmt}
      BY <2>1 DEF OpenCursor, Cursors
    <3> QED BY <2>1, <2>2, <3>1 DEF CacheOK, Apart
  <2>4. HeldOK'
    BY <2>1, <2>2 DEF HeldOK, Apart, CacheOK
  <2>5. phase' = "open"
    BY <1>2 DEF QueryIter, Idle
  <2>6. unclosed' \subseteq open'
    BY <2>1 DEF CacheInv, GetOrPrepare, Get, Prepare
  <2>7. QED
    BY <2>1, <2>2, <2>3, <2>4, <2>5, <2>6 DEF CacheInv, ClosedOK
<1>3. CASE TransactionEnds
  <2>1. PICK gone \in SUBSET cursors : cursors' = cursors \ gone /\ stuck' = stuck \ gone
    BY <1>3 DEF TransactionEnds
  <2>2. UNCHANGED <<lru, sqls, held, open, text, phase, unclosed>>
    BY <1>3 DEF TransactionEnds
  <2>3. CacheOK(lru', sqls', open', text', cursors', stuck')
    BY <2>1, <2>2 DEF CacheInv, CacheOK
  <2>4. QED
    BY <2>2, <2>3 DEF CacheInv, HeldOK, ClosedOK
<1>4. CASE StmtIterDrop
  <2> DEFINE r(m) == [stmt |-> m.stmt, lru |-> lru, sqls |-> sqls, open |-> open, text |-> text]
  <2>1. PICK m \in held : m.from = "cache" /\ \E k \in CloseCursor(m.stmt, Cursors) :
          InsertAndClose(r(m), m.sql, k)
    BY <1>4 DEF StmtIterDrop
  <2> PICK k \in CloseCursor(m.stmt, Cursors) : InsertAndClose(r(m), m.sql, k)
    BY <2>1
  <2>2. /\ CacheOK(lru, sqls, open, text, cursors, stuck)
        /\ Apart(m.stmt, m.sql, lru, open, text)
        /\ Len(lru) =< Capacity
    BY <2>1 DEF CacheInv, CacheOK, HeldOK, Apart
  <2>7. Settled(m.stmt, k)
    BY <2>2, ClosingSettles DEF CacheOK
  <2>8. /\ CacheOK(lru, sqls, open, text, k.cursors, k.stuck)
        /\ m.stmt \in k.cursors => m.stmt \in k.stuck
    BY <2>2, <2>7, SettledKeepsCacheOK
  <2>9. r(m).lru = lru /\ r(m).sqls = sqls /\ r(m).open = open /\ r(m).text = text /\ r(m).stmt = m.stmt
    OBVIOUS
  <2> HIDE DEF r
  <2>3. /\ CacheOK(lru', sqls', open', text', cursors', stuck') /\ Len(lru') =< Capacity
        /\ open' = open /\ unclosed' = unclosed
    BY <2>2, <2>8, <2>9, InsertKeepsCacheOK
  <2>4. held' = {} /\ phase' = phase
    BY <1>4 DEF StmtIterDrop
  <2>5. phase = "open"
    BY <2>1 DEF CacheInv, ClosedOK
  <2>6. QED
    BY <2>3, <2>4, <2>5 DEF CacheInv, HeldOK, ClosedOK
<1>5. ASSUME NEW q \in Sqls, PrepareFails(q) PROVE CacheInv'
  <2>1. PICK h \in Handles \ open :
          open' = open \cup {h} /\ text' = [text EXCEPT ![h] = NoSql]
    BY <1>5 DEF PrepareFails
  <2>2. UNCHANGED <<lru, sqls, held, cursors, phase, stuck, unclosed>> /\ held = {} /\ phase = "open"
    BY <1>5 DEF PrepareFails, Idle
  <2>3. CacheOK(lru', sqls', open', text', cursors', stuck')
    BY <2>1, <2>2 DEF CacheInv, CacheOK
  <2>4. QED
    BY <2>1, <2>2, <2>3 DEF CacheInv, HeldOK, ClosedOK
<1>6. ASSUME NEW q \in Sqls, PrepareStatement(q) PROVE CacheInv'
  <2>1. PICK h \in Handles \ open :
          /\ held' = {[sql |-> q, stmt |-> h, from |-> "prepare"]}
          /\ open' = open \cup {h}
          /\ text' = [text EXCEPT ![h] = q]
    <3>1. PICK r \in Prepare(q) :
            /\ held' = {[sql |-> q, stmt |-> r.stmt, from |-> "prepare"]}
            /\ open' = r.open /\ text' = r.text
      BY <1>6 DEF PrepareStatement
    <3>2. PICK h \in Handles \ open :
            r = [stmt |-> h, lru |-> lru, sqls |-> sqls,
                 open |-> open \cup {h}, text |-> [text EXCEPT ![h] = q]]
      BY DEF Prepare
    <3>3. r.stmt = h /\ r.open = open \cup {h} /\ r.text = [text EXCEPT ![h] = q]
      BY <3>2
    <3>4. QED
      BY <3>1, <3>3
  <2>2. UNCHANGED <<lru, sqls, cursors, phase, stuck, unclosed>> /\ phase = "open"
    BY <1>6 DEF PrepareStatement, Idle
  <2>3. CacheOK(lru', sqls', open', text', cursors', stuck')
    BY <2>1, <2>2 DEF CacheInv, CacheOK
  <2>4. HeldOK'
    BY <2>1, <2>2 DEF CacheInv, CacheOK, HeldOK
  <2>5. QED
    BY <2>1, <2>2, <2>3, <2>4 DEF CacheInv, ClosedOK
<1>7. CASE StatementQuery
  <2>1. PICK m \in held : /\ cursors' = OpenCursor(m.stmt, m.sql, Cursors).cursors
                          /\ m.from = "prepare"
                          /\ held' = {[m EXCEPT !.from = "fetch"]}
    BY <1>7 DEF StatementQuery
  <2>2. UNCHANGED <<lru, sqls, open, text, phase, stuck, unclosed>>
    BY <1>7 DEF StatementQuery
  <2>3. m.stmt \in open /\ \A i \in 1 .. Len(lru) : lru[i].stmt # m.stmt
    BY DEF CacheInv, HeldOK
  <2>4. CacheOK(lru', sqls', open', text', cursors', stuck')
    <3>1. cursors \subseteq cursors' /\ cursors' \subseteq cursors \cup {m.stmt}
      BY <2>1 DEF OpenCursor, Cursors
    <3> QED BY <2>2, <2>3, <3>1 DEF CacheInv, CacheOK
  <2>5. HeldOK' /\ phase = "open"
    BY <2>1, <2>2, Relabelled DEF CacheInv, ClosedOK
  <2>6. QED
    BY <2>2, <2>4, <2>5 DEF CacheInv, ClosedOK
<1>8. CASE StatementFetchDrop \/ StatementExecute
  <2>1. PICK m \in held : \E k : /\ Settled(m.stmt, k)
                                 /\ cursors' = k.cursors /\ stuck' = k.stuck
                                 /\ \/ m.from = "fetch" /\ held' = {[m EXCEPT !.from = "prepare"]}
                                    \/ held' = held
    <3>1. stuck \subseteq cursors
      BY DEF CacheInv, CacheOK
    <3>2. CASE StatementFetchDrop
      <4>1. PICK m \in held : \E k \in CloseCursor(m.stmt, Cursors) :
              /\ cursors' = k.cursors /\ stuck' = k.stuck
              /\ m.from = "fetch" /\ held' = {[m EXCEPT !.from = "prepare"]}
        BY <3>2 DEF StatementFetchDrop
      <4> QED BY <3>1, <4>1, ClosingSettles
    <3>3. CASE StatementExecute
      <4>1. PICK m \in held : \E k \in CloseCursor(m.stmt, OpenCursor(m.stmt, m.sql, Cursors)) :
              cursors' = k.cursors /\ stuck' = k.stuck
        BY <3>3 DEF StatementExecute
      <4>2. held' = held
        BY <3>3 DEF StatementExecute
      <4> QED BY <3>1, <4>1, <4>2, ClosingSettles
    <3> QED BY <1>8, <3>2, <3>3
  <2>2. UNCHANGED <<lru, sqls, open, text, phase, unclosed>>
    BY <1>8 DEF StatementFetchDrop, StatementExecute
  <2>3. CacheOK(lru', sqls', open', text', cursors', stuck')
    <3>1. m.stmt \in open /\ \A i \in 1 .. Len(lru) : lru[i].stmt # m.stmt
      BY DEF CacheInv, HeldOK
    <3> QED BY <2>1, <2>2, <3>1 DEF CacheInv, CacheOK, Settled
  <2>4. HeldOK' /\ phase = "open"
    <3>1. CASE m.from = "fetch" /\ held' = {[m EXCEPT !.from = "prepare"]}
      BY <2>2, <3>1, Relabelled DEF CacheInv, ClosedOK
    <3>2. CASE held' = held
      BY <2>2, <3>2 DEF CacheInv, HeldOK, ClosedOK
    <3> QED BY <2>1, <3>1, <3>2
  <2>5. QED
    BY <2>2, <2>3, <2>4 DEF CacheInv, ClosedOK
<1>9. CASE StatementDrop
  <2>1. PICK m \in held :
          \/ /\ open' = open \ {m.stmt} /\ cursors' = cursors \ {m.stmt}
             /\ stuck' = stuck \ {m.stmt} /\ unclosed' = unclosed \ {m.stmt}
          \/ unclosed' = unclosed \cup {m.stmt} /\ UNCHANGED <<open, cursors, stuck>>
    BY <1>9 DEF StatementDrop
  <2>2. UNCHANGED <<lru, sqls, text, phase>> /\ held' = {}
    BY <1>9 DEF StatementDrop
  <2>3. m.stmt \in open /\ \A i \in 1 .. Len(lru) : lru[i].stmt # m.stmt
    BY DEF CacheInv, HeldOK
  <2>4. CacheOK(lru', sqls', open', text', cursors', stuck')
    BY <2>1, <2>2, <2>3 DEF CacheInv, CacheOK
  <2>5. unclosed' \subseteq open'
    BY <2>1, <2>3 DEF CacheInv
  <2>6. QED
    BY <2>2, <2>4, <2>5 DEF CacheInv, HeldOK, ClosedOK
<1>10. CASE Close
  <2>1. lru' = <<>> /\ sqls' = {} /\ held' = {} /\ phase' = "closed" /\ text' = text
    BY <1>10 DEF Close, Idle
  <2>2. lru' \in Seq(StmtCacheData) /\ Len(lru') = 0
    BY <2>1, EmptySeq
  <2>3. CASE open' = {} /\ cursors' = {} /\ stuck' = {} /\ unclosed' = {}
    BY <2>1, <2>2, <2>3, CapacityAssumption DEF CacheInv, CacheOK, HeldOK, ClosedOK
  <2>4. ASSUME NEW failed \in SUBSET Cached,
               /\ open' = open \ (Cached \ failed)
               /\ cursors' = cursors \ (Cached \ failed)
               /\ stuck' = stuck \ (Cached \ failed)
               /\ unclosed' = (unclosed \ Cached) \cup failed
        PROVE  CacheInv'
    <3>1. Cached \subseteq open
      BY DEF CacheInv, CacheOK, Cached, Range
    <3>2. CacheOK(lru', sqls', open', text', cursors', stuck')
      BY <2>1, <2>2, <2>4 DEF CacheInv, CacheOK
    <3>3. unclosed' \subseteq open'
      BY <2>4, <3>1 DEF CacheInv
    <3>4. QED
      BY <2>1, <2>2, <3>2, <3>3, CapacityAssumption DEF CacheInv, HeldOK, ClosedOK
  <2>5. QED
    BY <1>10, <2>3, <2>4 DEF Close
<1>11. CASE Open
  <2>1. /\ UNCHANGED <<lru, sqls, held, text>> /\ lru = <<>> /\ held = {}
        /\ open' = {} /\ cursors' = {} /\ stuck' = {} /\ unclosed' = {} /\ phase' = "open"
    BY <1>11 DEF Open, CacheInv, ClosedOK
  <2>2. lru \in Seq(StmtCacheData) /\ Len(lru) = 0
    BY <2>1, EmptySeq
  <2>3. CacheOK(lru', sqls', open', text', cursors', stuck')
    BY <2>1, <2>2 DEF CacheInv, CacheOK
  <2>4. QED
    BY <2>1, <2>2, <2>3 DEF CacheInv, HeldOK, ClosedOK
<1>12. CASE UNCHANGED vars
  BY <1>12 DEF vars, CacheInv, CacheOK, HeldOK, ClosedOK
<1>13. QED
  BY <1>1, <1>2, <1>3, <1>4, <1>5, <1>6, <1>7, <1>8, <1>9, <1>10, <1>11, <1>12 DEF Next

\* The inductive invariant holds throughout.
THEOREM CacheInvariant == Spec => []CacheInv
  BY InitInv, NextInv, PTL DEF Spec

---------------------------------------------------------------------------
(***************************************************************************)
(* What follows from it                                                    *)
(***************************************************************************)

\* The cache structures keep their types, whatever the texts and the capacity.
THEOREM TypeCorrect == Spec => []TypeOK
<1>1. CacheInv => TypeOK
  BY DEF CacheInv, CacheOK, HeldOK, TypeOK
<1>2. QED
  BY <1>1, CacheInvariant, PTL

\* StmtCache::get never unwraps a missing text.
THEOREM TakingNeverPanics == Spec => []TakeNeverPanics
<1>1. CacheInv => TakeNeverPanics
  BY DEF CacheInv, CacheOK, TakeNeverPanics, Keys, Range
<1>2. QED
  BY <1>1, CacheInvariant, PTL

\* No call works on a handle the server closed or prepared for another text.
THEOREM HandlesStayLive == Spec => []HandlesLive
<1>1. CacheInv => HandlesLive
  <2> SUFFICES ASSUME CacheInv, NEW d \in Range(lru) \cup held
               PROVE  d.stmt \in open /\ text[d.stmt] = d.sql
    BY DEF HandlesLive
  <2>1. CASE d \in held
    BY <2>1 DEF CacheInv, HeldOK
  <2>2. CASE d \in Range(lru)
    BY <2>2 DEF CacheInv, CacheOK, Range
  <2>3. QED
    BY <2>1, <2>2
<1>2. QED
  BY <1>1, CacheInvariant, PTL

\* Every handle the client knows has exactly one owner.
THEOREM HandlesHaveOneOwner == Spec => []HeldOnce
<1>1. CacheInv => HeldOnce
  <2> SUFFICES ASSUME CacheInv PROVE HeldOnce
    OBVIOUS
  <2>1. lru \in Seq(StmtCacheData) /\ DOMAIN lru = 1 .. Len(lru)
    BY DEF CacheInv, CacheOK
  <2>2. \A i, j \in DOMAIN lru :
          lru[i].stmt = lru[j].stmt \/ lru[i].sql = lru[j].sql => i = j
    BY <2>1 DEF CacheInv, CacheOK
  <2>3. Held \cap Cached = {}
    BY <2>1 DEF CacheInv, HeldOK, Held, Cached, Range
  <2>4. \A m \in held : m.from = "cache" => m.sql \notin Keys(lru)
    BY <2>1 DEF CacheInv, HeldOK, Keys, Range
  <2>5. QED
    BY <2>2, <2>3, <2>4 DEF HeldOnce
<1>2. QED
  BY <1>1, CacheInvariant, PTL

\* A cached statement can be executed again: its cursor is closed, but where closing
\* it failed or the call that opened it reported an error.
THEOREM CachedStatementsAreReusable == Spec => []CachedCursorsClosed
<1>1. CacheInv => CachedCursorsClosed
  BY DEF CacheInv, CacheOK, CachedCursorsClosed, Cached, Range
<1>2. QED
  BY <1>1, CacheInvariant, PTL
---------------------------------------------------------------------------
(***************************************************************************)
(* What a step may make the client forget                                  *)
(***************************************************************************)

\* The statements of a cache c.
Stmts(c) == {d.stmt : d \in Range(c)}

\* A handle that is open and that the client does not know.
Forgotten(h) == h \in open \ (Cached \cup Held)

\* While the cache is not full, giving an apart statement back forgets nothing.
LEMMA InsertForgetsNothing ==
  ASSUME NEW r, NEW q, NEW k,
         CacheOK(r.lru, r.sqls, r.open, r.text, k.cursors, k.stuck),
         Len(r.lru) < Capacity,
         Apart(r.stmt, q, r.lru, r.open, r.text),
         InsertAndClose(r, q, k)
  PROVE  open' = r.open /\ Cached' = Stmts(r.lru) \cup {r.stmt}
<1> DEFINE d == [sql |-> q, stmt |-> r.stmt]
           full == Append(r.lru, d)
<1>1. /\ r.lru \in Seq(StmtCacheData) /\ d \in StmtCacheData
      /\ lru' = IF Len(full) > Capacity THEN Tail(full) ELSE full
      /\ open' = r.open
  BY InsertAppends
<1>2. d.stmt = r.stmt
  OBVIOUS
<1>3. /\ full \in Seq(StmtCacheData) /\ Len(full) = Len(r.lru) + 1
      /\ \A i \in 1 .. Len(r.lru) : full[i] = r.lru[i]
      /\ full[Len(r.lru) + 1] = d
  BY <1>1, AppendProperties
<1> HIDE DEF d, full
<1>4. Len(r.lru) \in Nat /\ DOMAIN r.lru = 1 .. Len(r.lru) /\ DOMAIN full = 1 .. Len(r.lru) + 1
  BY <1>1, <1>3, LenProperties
<1>5. lru' = full
  BY <1>1, <1>3, <1>4, CapacityAssumption
<1>6. Range(full) = Range(r.lru) \cup {d}
  <2>1. Range(full) = {full[i] : i \in 1 .. Len(r.lru) + 1} /\ Range(r.lru) = {r.lru[i] : i \in 1 .. Len(r.lru)}
    BY <1>4 DEF Range
  <2>2. \A i \in 1 .. Len(r.lru) + 1 : i \in 1 .. Len(r.lru) \/ i = Len(r.lru) + 1
    BY <1>4
  <2>3. Len(r.lru) + 1 \in 1 .. Len(r.lru) + 1 /\ \A i \in 1 .. Len(r.lru) : i \in 1 .. Len(r.lru) + 1
    BY <1>4
  <2> QED BY <1>3, <2>1, <2>2, <2>3
<1>7. Cached' = {e.stmt : e \in Range(r.lru) \cup {d}}
  BY <1>5, <1>6 DEF Cached
<1>8. {e.stmt : e \in Range(r.lru) \cup {d}} = {e.stmt : e \in Range(r.lru)} \cup {d.stmt}
  OBVIOUS
<1> QED BY <1>1, <1>2, <1>7, <1>8 DEF Stmts

\* Of the handles open once get_or_prepare served, the client knows those it knew.
LEMMA ServedForgetsNothing ==
  ASSUME CacheInv, held = {}, NEW q \in Sqls, NEW r \in GetOrPrepare(q)
  PROVE  /\ Len(r.lru) =< Len(lru)
         /\ \A h \in r.open : Forgotten(h) \/ h = r.stmt \/ h \in Stmts(r.lru)
<1>1. lru \in Seq(StmtCacheData) /\ Len(lru) \in Nat /\ DOMAIN lru = 1 .. Len(lru)
  BY LenProperties DEF CacheInv, CacheOK
<1>2. Held = {}
  BY DEF Held
<1>3. CASE r \in Get(q)
  <2>1. PICK i \in 1 .. Len(lru) :
          r = [stmt |-> lru[i].stmt, lru |-> RemoveAt(lru, i), sqls |-> sqls \ {q},
               open |-> open, text |-> text]
    BY <1>1, <1>3 DEF Get
  <2>2. r.stmt = lru[i].stmt /\ r.lru = RemoveAt(lru, i) /\ r.open = open
    BY <2>1, SMTT(20)
  <2>3. /\ r.lru \in Seq(StmtCacheData) /\ Len(r.lru) = Len(lru) - 1
        /\ \A j \in 1 .. Len(lru) - 1 : r.lru[j] = IF j < i THEN lru[j] ELSE lru[j + 1]
    BY <1>1, <2>2, RemoveAtProperties
  <2>4. ASSUME NEW k \in 1 .. Len(lru), k # i
        PROVE  lru[k].stmt \in Stmts(r.lru)
    <3>1. DOMAIN r.lru = 1 .. Len(lru) - 1
      BY <2>3, LenProperties
    <3>2. \E j \in DOMAIN r.lru : r.lru[j] = lru[k]
      <4>1. CASE k < i
        <5>1. k \in 1 .. Len(lru) - 1
          BY <1>1, <4>1
        <5> QED BY <2>3, <3>1, <4>1, <5>1
      <4>2. CASE k > i
        <5>1. k - 1 \in 1 .. Len(lru) - 1 /\ ~(k - 1 < i) /\ (k - 1) + 1 = k
          BY <1>1, <4>2
        <5> QED BY <2>3, <3>1, <5>1
      <4> QED BY <2>4, <4>1, <4>2
    <3> QED BY <3>2 DEF Stmts, Range
  <2>5. \A h \in Cached : h = r.stmt \/ h \in Stmts(r.lru)
    BY <1>1, <2>2, <2>4 DEF Cached, Range
  <2> QED BY <1>1, <1>2, <2>2, <2>3, <2>5 DEF Forgotten
<1>4. CASE r \in Prepare(q)
  <2>1. PICK h \in Handles \ open :
          r = [stmt |-> h, lru |-> lru, sqls |-> sqls,
               open |-> open \cup {h}, text |-> [text EXCEPT ![h] = q]]
    BY <1>4 DEF Prepare
  <2>2. r.stmt = h /\ r.lru = lru /\ r.open = open \cup {h}
    BY <2>1
  <2> QED BY <1>1, <1>2, <2>2 DEF Forgotten, Stmts, Cached
<1> QED BY <1>3, <1>4 DEF GetOrPrepare

\* So a call that takes a statement and gives it back in the same step.
LEMMA GiveBackForgetsNothing ==
  ASSUME CacheInv, Len(lru) # Capacity, Idle, NEW q \in Sqls, Execute(q) \/ QueryIterFails(q)
  PROVE  \A h \in open' \ Cached' : Forgotten(h)
<1>0. PICK r \in GetOrPrepare(q) : \E k : Settled(r.stmt, k) /\ InsertAndClose(r, q, k)
  BY RefusedOrRan
<1> PICK k : Settled(r.stmt, k) /\ InsertAndClose(r, q, k)
  BY <1>0
<1>1. /\ CacheOK(r.lru, r.sqls, r.open, r.text, cursors, stuck)
      /\ Apart(r.stmt, q, r.lru, r.open, r.text)
      /\ Len(r.lru) =< Len(lru)
      /\ \A h \in r.open : Forgotten(h) \/ h = r.stmt \/ h \in Stmts(r.lru)
  BY ServedApart, ServedForgetsNothing DEF Idle
<1>2. Len(r.lru) < Capacity
  <2>1. Len(r.lru) \in Nat /\ Len(lru) \in Nat /\ Len(lru) =< Capacity
    BY <1>1, LenProperties DEF CacheInv, CacheOK
  <2> QED BY <1>1, <2>1, CapacityAssumption
<1>3. CacheOK(r.lru, r.sqls, r.open, r.text, k.cursors, k.stuck)
  BY <1>1, SettledKeepsCacheOK
<1>4. open' = r.open /\ Cached' = Stmts(r.lru) \cup {r.stmt}
  BY <1>1, <1>2, <1>3, InsertForgetsNothing
<1> QED BY <1>1, <1>4

\* A call makes the client forget an allocated handle only when the server rejected
\* its text, by adding a statement to a full cache, or when closing the handle was
\* tried and failed: every error path of execute, query_iter and the iterator, the
\* failure to close a cursor included, gives its statement back.
THEOREM OnlyAFullCacheForgets == Spec => OnlyEvictionForgets
<1> DEFINE Known ==
      \A h \in open' \ (Cached' \cup Held') :
        \/ h \in open \ (Cached \cup Held)
        \/ text'[h] = NoSql
        \/ Len(lru) = Capacity
        \/ h \in unclosed'
<1>1. CacheInv /\ [Next]_vars => [Known]_vars
  <2> SUFFICES ASSUME CacheInv, Next, Len(lru) # Capacity,
                      NEW h \in open' \ (Cached' \cup Held'), text'[h] # NoSql, h \notin unclosed'
               PROVE  Forgotten(h)
    BY DEF Forgotten
  <2>1. ASSUME NEW q \in Sqls, Execute(q) PROVE Forgotten(h)
    BY <2>1, GiveBackForgetsNothing DEF Execute
  <2>2. ASSUME NEW q \in Sqls, QueryIter(q) PROVE Forgotten(h)
    <3>1. PICK r \in GetOrPrepare(q) :
            /\ held' = {[sql |-> q, stmt |-> r.stmt, from |-> "cache"]}
            /\ lru' = r.lru /\ open' = r.open
      BY <2>2 DEF QueryIter
    <3>2. Held' = {r.stmt} /\ Cached' = Stmts(r.lru)
      BY <3>1 DEF Held, Cached, Stmts
    <3> QED BY <2>2, <3>1, <3>2, ServedForgetsNothing DEF QueryIter, Idle
  <2>3. ASSUME NEW q \in Sqls, QueryIterFails(q) PROVE Forgotten(h)
    BY <2>3, GiveBackForgetsNothing DEF QueryIterFails
  <2>4. CASE StmtIterDrop
    <3> DEFINE r(m) == [stmt |-> m.stmt, lru |-> lru, sqls |-> sqls, open |-> open, text |-> text]
    <3>1. PICK m \in held :
            m.from = "cache" /\ \E k \in CloseCursor(m.stmt, Cursors) : InsertAndClose(r(m), m.sql, k)
      BY <2>4 DEF StmtIterDrop
    <3> PICK k \in CloseCursor(m.stmt, Cursors) : InsertAndClose(r(m), m.sql, k)
      BY <3>1
    <3>2. /\ CacheOK(lru, sqls, open, text, k.cursors, k.stuck)
          /\ Apart(m.stmt, m.sql, lru, open, text)
          /\ Len(lru) < Capacity
      <4>1. CacheOK(lru, sqls, open, text, cursors, stuck) /\ Apart(m.stmt, m.sql, lru, open, text)
        BY <3>1 DEF CacheInv, CacheOK, HeldOK, Apart
      <4>2. Len(lru) < Capacity
        BY LenProperties, CapacityAssumption DEF CacheInv, CacheOK
      <4>3. Settled(m.stmt, k)
        BY <4>1, ClosingSettles DEF CacheOK
      <4> QED BY <4>1, <4>2, <4>3, SettledKeepsCacheOK
    <3>5. r(m).lru = lru /\ r(m).sqls = sqls /\ r(m).open = open /\ r(m).text = text /\ r(m).stmt = m.stmt
      OBVIOUS
    <3> HIDE DEF r
    <3>3. open' = open /\ Cached' = Stmts(lru) \cup {m.stmt}
      BY <3>2, <3>5, InsertForgetsNothing
    <3>4. Held = {m.stmt}
      BY DEF CacheInv, HeldOK, Held
    <3> QED BY <3>3, <3>4 DEF Forgotten, Cached, Stmts
  <2>5. ASSUME NEW q \in Sqls, PrepareFails(q) PROVE Forgotten(h)
    BY <2>5 DEF PrepareFails, Forgotten, Cached, Held, CacheInv, CacheOK
  <2>6. ASSUME NEW q \in Sqls, PrepareStatement(q) PROVE Forgotten(h)
    <3>1. PICK r \in Prepare(q) :
            /\ held' = {[sql |-> q, stmt |-> r.stmt, from |-> "prepare"]}
            /\ open' = r.open
      BY <2>6 DEF PrepareStatement
    <3>2. r.open = open \cup {r.stmt} /\ Held' = {r.stmt} /\ Held = {} /\ Cached' = Cached
      BY <2>6, <3>1 DEF Prepare, PrepareStatement, Held, Cached, Idle
    <3> QED BY <3>1, <3>2 DEF Forgotten
  <2>7. CASE TransactionEnds \/ StatementExecute
    BY <2>7 DEF TransactionEnds, StatementExecute, Forgotten, Cached, Held
  <2>11. CASE StatementQuery \/ StatementFetchDrop
    <3>1. PICK m \in held : \/ held' = {[m EXCEPT !.from = "fetch"]}
                            \/ held' = {[m EXCEPT !.from = "prepare"]}
      BY <2>11 DEF StatementQuery, StatementFetchDrop
    <3>2. m \in [sql : Sqls, stmt : Handles, from : {"cache", "prepare", "fetch"}] /\ held = {m}
      BY DEF CacheInv, HeldOK
    <3>3. Held = {m.stmt} /\ Held' = {m.stmt}
      <4>1. PICK n : held' = {n} /\ n \in {[m EXCEPT !.from = "fetch"], [m EXCEPT !.from = "prepare"]}
        BY <3>1
      <4>2. n.stmt = m.stmt
        BY <3>2, <4>1
      <4> QED BY <3>2, <4>1, <4>2 DEF Held
    <3>4. open' = open /\ Cached' = Cached
      BY <2>11 DEF StatementQuery, StatementFetchDrop, Cached
    <3> QED BY <3>3, <3>4 DEF Forgotten
  <2>8. CASE StatementDrop
    <3>1. PICK m \in held :
            \/ open' = open \ {m.stmt}
            \/ unclosed' = unclosed \cup {m.stmt} /\ UNCHANGED <<open, cursors, stuck>>
      BY <2>8 DEF StatementDrop
    <3>2. Held = {m.stmt} /\ Cached' = Cached
      BY <2>8 DEF CacheInv, HeldOK, Held, Cached, StatementDrop
    <3> QED BY <3>1, <3>2 DEF Forgotten
  <2>9. CASE Close
    <3>1. Held = {} /\ open' \subseteq open /\ open' \cap Cached \subseteq unclosed'
      BY <2>9 DEF Close, Idle, Held
    <3> QED BY <3>1 DEF Forgotten
  <2>10. CASE Open
    BY <2>10 DEF Open
  <2> QED BY <2>1, <2>2, <2>3, <2>4, <2>5, <2>6, <2>7, <2>8, <2>9, <2>10, <2>11 DEF Next
<1> QED BY <1>1, CacheInvariant, PTL DEF Spec, OnlyEvictionForgets

---------------------------------------------------------------------------
(* Services                                                                *)

(***************************************************************************)
(* The inductive invariant: the handle, the server's attachment and what   *)
(* was detached so far go together, and only a live manager is in a call.  *)
(***************************************************************************)

HandleHeld == handle = Handle /\ attached = {Handle} /\ released = <<>>
HandleGone == handle = Null /\ attached = {} /\ released \in Seq({Handle}) /\ Len(released) =< 1

HandleInv ==
  /\ ServicesTypeOK
  /\ object # "live" => call = "none"
  /\ object = "none" => handle = Null /\ attached = {} /\ released = <<>>
  /\ object = "live" => HandleHeld \/ HandleGone
  /\ object = "dropped" => /\ handle = Null
                           /\ released \in Seq({Handle}) /\ Len(released) =< 1
                           /\ result = "dropped" => attached = {}

---------------------------------------------------------------------------

LEMMA HandleInit == ServicesInit => HandleInv
<1> SUFFICES ASSUME ServicesInit PROVE HandleInv
  OBVIOUS
<1>1. <<>> \in Seq({Handle}) /\ <<>> \in Seq(OutputLines)
  BY EmptySeq
<1>2. 0 \in 0..MaxActions /\ 0 \in 0..Lines
  BY SizesAssumption
<1>3. ServicesTypeOK
  BY <1>1, <1>2 DEF ServicesInit, ServicesTypeOK
<1> QED BY <1>3 DEF ServicesInit, HandleInv

\* A step keeps the types of the variables.
LEMMA ServicesTypes == ServicesTypeOK /\ [ServicesNext]_servicesVars => ServicesTypeOK'
<1> SUFFICES ASSUME ServicesTypeOK, [ServicesNext]_servicesVars PROVE ServicesTypeOK'
  OBVIOUS
<1> USE SizesAssumption DEF ServicesTypeOK
<1>1. CASE Attach
  BY <1>1 DEF Attach
<1>2. CASE StartAction
  BY <1>2 DEF StartAction
<1>3. CASE StartFails
  BY <1>3 DEF StartFails
<1>4. CASE Drain
  <2>1. out # <<>> => Head(out) \in OutputLines /\ Tail(out) \in Seq(OutputLines)
    BY HeadTailProperties
  <2>2. CASE DrainLine
    BY <2>1, <2>2, AppendProperties DEF DrainLine
  <2>3. CASE DrainOver
    BY <2>3 DEF DrainOver, Return
  <2>4. CASE DrainStops
    BY <2>1, <2>4 DEF DrainStops, Return
  <2>5. CASE DrainFails
    BY <2>5 DEF DrainFails, Return
  <2> QED BY <1>4, <2>2, <2>3, <2>4, <2>5 DEF Drain
<1>5. CASE Detach
  <2>1. handle \in {Handle}
    BY <1>5 DEF Detach
  <2> QED BY <1>5, <2>1, AppendProperties DEF Detach, Released
<1>6. CASE DetachFails
  BY <1>6 DEF DetachFails
<1>7. CASE Drop
  <2>1. handle # Null => handle \in {Handle}
    OBVIOUS
  <2>2. attached' \subseteq {Handle} /\ released' \in Seq({Handle})
    <3>1. CASE handle # Null /\ Released
      BY <2>1, <3>1, AppendProperties DEF Released
    <3>2. CASE UNCHANGED <<attached, released>>
      BY <3>2
    <3> QED BY <1>7, <3>1, <3>2 DEF Drop
  <2> QED BY <1>7, <2>2 DEF Drop
<1>8. CASE Write
  <2>1. PICK k \in Kinds : out' = Append(out, Line(written + 1, k))
    BY <1>8 DEF Write
  <2>2. Line(written + 1, k) \in OutputLines
    BY <1>8 DEF Write, Line, OutputLines
  <2> QED BY <1>8, <2>1, <2>2 DEF Write
<1>9. CASE Finish
  BY <1>9 DEF Finish
<1>10. CASE UNCHANGED servicesVars
  BY <1>10 DEF servicesVars
<1> QED BY <1>1, <1>2, <1>3, <1>4, <1>5, <1>6, <1>7, <1>8, <1>9, <1>10 DEF ServicesNext, Server

\* A handle that is detached is the one held, and it is detached for the first time.
LEMMA ReleasedOnce ==
  ASSUME HandleHeld, Released
  PROVE  attached' = {} /\ released' \in Seq({Handle}) /\ Len(released') =< 1
BY DEF HandleHeld, Released, Handle

LEMMA HandleStep == HandleInv /\ [ServicesNext]_servicesVars => HandleInv'
<1> SUFFICES ASSUME HandleInv, [ServicesNext]_servicesVars PROVE HandleInv'
  OBVIOUS
<1> ServicesTypeOK'
  BY ServicesTypes DEF HandleInv
<1>1. CASE Attach
  BY <1>1 DEF Attach, HandleInv, HandleHeld, HandleGone
<1>2. CASE StartAction
  BY <1>2 DEF StartAction, HandleInv, HandleHeld, HandleGone
<1>3. CASE StartFails
  BY <1>3 DEF StartFails, HandleInv, HandleHeld, HandleGone
<1>4. CASE Drain
  BY <1>4 DEF Drain, DrainLine, DrainOver, DrainStops, DrainFails, Return, HandleInv, HandleHeld, HandleGone
<1>5. CASE Detach
  <2>1. HandleHeld
    BY <1>5 DEF Detach, HandleInv, HandleGone
  <2>2. HandleGone'
    BY <1>5, <2>1, ReleasedOnce DEF Detach, HandleGone
  <2> QED BY <1>5, <2>2 DEF Detach, HandleInv
<1>6. CASE DetachFails
  BY <1>6 DEF DetachFails, HandleInv, HandleHeld, HandleGone
<1>7. CASE Drop
  <2>1. object = "live" /\ object' = "dropped" /\ call' = "none" /\ handle' = Null
    BY <1>7 DEF Drop
  <2>2. CASE handle # Null /\ Released
    <3>1. HandleHeld
      BY <2>1, <2>2 DEF HandleInv, HandleGone
    <3> QED BY <2>1, <2>2, <3>1, ReleasedOnce DEF HandleInv
  <2>3. CASE UNCHANGED <<attached, released>>
    <3>1. CASE HandleHeld
      BY <1>7, <2>1, <2>3, <3>1 DEF Drop, HandleInv, HandleHeld
    <3>2. CASE HandleGone
      BY <2>1, <2>3, <3>2 DEF HandleInv, HandleGone
    <3> QED BY <2>1, <3>1, <3>2 DEF HandleInv
  <2> QED BY <1>7, <2>2, <2>3 DEF Drop
<1>8. CASE Server
  BY <1>8 DEF Server, Write, Finish, HandleInv, HandleHeld, HandleGone
<1>9. CASE UNCHANGED servicesVars
  BY <1>9 DEF servicesVars, HandleInv, HandleHeld, HandleGone
<1> QED BY <1>1, <1>2, <1>3, <1>4, <1>5, <1>6, <1>7, <1>8, <1>9 DEF ServicesNext

\* The invariant of the handle holds in every reachable state.
THEOREM HandleInvariant == ServicesSpec => []HandleInv
BY HandleInit, HandleStep, PTL DEF ServicesSpec

\* A handle is detached once, and dropping the manager leaves it open only where the
\* server refused to close it.
THEOREM ReleasesOnce == ServicesSpec => []HandleIsReleasedOnce
<1>1. ASSUME HandleInv PROVE HandleIsReleasedOnce
  <2>1. Len(released) =< 1
    <3>1. Len(<<>>) = 0
      BY EmptySeq
    <3> QED BY <1>1, <3>1 DEF HandleInv, HandleHeld, HandleGone, ServicesTypeOK
  <2>2. object = "live" => (handle # Null <=> attached # {})
    BY <1>1 DEF HandleInv, HandleHeld, HandleGone, Handle, Null
  <2>3. object = "dropped" /\ result = "dropped" => attached = {}
    BY <1>1 DEF HandleInv
  <2> QED BY <1>1, <2>1, <2>2, <2>3 DEF HandleInv, HandleIsReleasedOnce
<1>2. HandleInv => HandleIsReleasedOnce
  BY <1>1
<1> QED BY <1>2, HandleInvariant, PTL

---------------------------------------------------------------------------
(***************************************************************************)
(* The output of an action.  While a call drains it, the lines handed on   *)
(* and those still unread are all the server wrote, numbered in order, and *)
(* they are lines of the call's own action.                                *)
(***************************************************************************)

DrainInv ==
  /\ ServicesTypeOK
  /\ call = "drain" =>
       /\ number = action
       /\ Len(given) + Len(out) = written
       /\ \A i \in 1 .. Len(given) : given[i].action = number /\ given[i].n = i
       /\ \A i \in 1 .. Len(out) : out[i].action = number /\ out[i].n = Len(given) + i
       /\ ~running => written = Lines

\* No call drains at the start.
LEMMA DrainInit == ServicesInit => DrainInv
BY HandleInit DEF ServicesInit, HandleInv, DrainInv

\* Every step keeps the lines of a call in order.
LEMMA DrainStep == DrainInv /\ [ServicesNext]_servicesVars => DrainInv'
<1> SUFFICES ASSUME DrainInv, [ServicesNext]_servicesVars PROVE DrainInv'
  OBVIOUS
<1>0. ServicesTypeOK /\ ServicesTypeOK'
  BY ServicesTypes DEF DrainInv
<1>1. Len(given) \in Nat /\ Len(out) \in Nat
  BY <1>0, LenProperties DEF ServicesTypeOK
<1>2. CASE StartAction
  <2>1. /\ number' = action' /\ given' = <<>> /\ out' = <<>> /\ written' = 0 /\ running' = TRUE
    BY <1>2 DEF StartAction
  <2> QED BY <1>0, <2>1 DEF DrainInv
<1>3. CASE DrainLine
  <2> DEFINE line == Head(out)
  <2>1. /\ call = "drain" /\ out # <<>> /\ given' = Append(given, line) /\ out' = Tail(out)
        /\ UNCHANGED <<number, action, written, running>>
    BY <1>3 DEF DrainLine
  <2>2. /\ given \in Seq(OutputLines) /\ out \in Seq(OutputLines) /\ line \in OutputLines
        /\ Len(out) > 0 /\ line = out[1]
    BY <1>0, <1>1, <2>1, HeadTailProperties, EmptySeq DEF ServicesTypeOK
  <2> HIDE DEF line
  <2>3. /\ Len(given') = Len(given) + 1 /\ given'[Len(given) + 1] = line
        /\ \A i \in 1 .. Len(given) : given'[i] = given[i]
    BY <2>1, <2>2, AppendProperties
  <2>4. /\ Len(out') = Len(out) - 1
        /\ \A i \in 1 .. Len(out) - 1 : out'[i] = out[i + 1]
    BY <2>1, <2>2, HeadTailProperties
  <2>5. line.action = number /\ line.n = Len(given) + 1
    BY <1>1, <2>1, <2>2 DEF DrainInv
  <2>6. ASSUME NEW i \in 1 .. Len(given')
        PROVE  given'[i].action = number /\ given'[i].n = i
    <3>1. i \in 1 .. Len(given) \/ i = Len(given) + 1
      BY <1>1, <2>3
    <3> QED BY <2>1, <2>3, <2>5, <3>1 DEF DrainInv
  <2>7. ASSUME NEW i \in 1 .. Len(out')
        PROVE  out'[i].action = number /\ out'[i].n = Len(given') + i
    <3>1. /\ i \in 1 .. Len(out) - 1 /\ i + 1 \in 1 .. Len(out)
          /\ Len(given) + (i + 1) = Len(given') + i
      BY <1>1, <2>3, <2>4
    <3> QED BY <2>1, <2>4, <3>1 DEF DrainInv
  <2>8. Len(given') + Len(out') = written /\ number = action /\ (~running => written = Lines)
    BY <1>1, <2>1, <2>2, <2>3, <2>4 DEF DrainInv
  <2> QED BY <1>0, <2>1, <2>6, <2>7, <2>8 DEF DrainInv
<1>4. CASE DrainOver \/ DrainStops \/ DrainFails
  <2>1. call' = "none"
    BY <1>4 DEF DrainOver, DrainStops, DrainFails, Return
  <2> QED BY <1>0, <2>1 DEF DrainInv
<1>5. CASE Write
  <2>1. PICK k \in Kinds : out' = Append(out, Line(written + 1, k))
    BY <1>5 DEF Write
  <2> DEFINE line == Line(written + 1, k)
  <2>2. line \in OutputLines /\ line.action = action /\ line.n = written + 1
    BY <1>0, <1>5, SizesAssumption DEF Write, Line, OutputLines, ServicesTypeOK
  <2> HIDE DEF line
  <2>3. /\ Len(out') = Len(out) + 1 /\ out'[Len(out) + 1] = line
        /\ \A i \in 1 .. Len(out) : out'[i] = out[i]
    BY <1>0, <2>1, <2>2, AppendProperties DEF ServicesTypeOK, line
  <2>4. running /\ written' = written + 1 /\ UNCHANGED <<call, given, action, running, number>>
    BY <1>5 DEF Write
  <2>5. ASSUME call = "drain", NEW i \in 1 .. Len(out')
        PROVE  out'[i].action = number /\ out'[i].n = Len(given) + i
    <3>1. i \in 1 .. Len(out) \/ i = Len(out) + 1
      BY <1>1, <2>3
    <3>2. Len(given) + (Len(out) + 1) = written + 1
      <4>1. Len(given) + Len(out) = written
        BY <2>5 DEF DrainInv
      <4> QED BY <1>1, <4>1
    <3>3. CASE i \in 1 .. Len(out)
      BY <2>3, <2>5, <3>3 DEF DrainInv
    <3>4. CASE i = Len(out) + 1
      BY <2>2, <2>3, <2>5, <3>2, <3>4 DEF DrainInv
    <3> QED BY <3>1, <3>3, <3>4
  <2>6. call = "drain" => Len(given) + Len(out') = written + 1
    BY <1>0, <1>1, <2>3, SizesAssumption DEF DrainInv, ServicesTypeOK
  <2> QED BY <1>0, <2>4, <2>5, <2>6 DEF DrainInv
<1>6. CASE Finish
  BY <1>0, <1>6 DEF Finish, DrainInv
<1>7. CASE Attach \/ StartFails \/ Detach \/ DetachFails \/ Drop
  <2>1. call' = "drain" => UNCHANGED <<number, action, given, out, written, running, call>>
    BY <1>7 DEF Attach, StartFails, Detach, DetachFails, Drop
  <2> QED BY <1>0, <2>1 DEF DrainInv
<1>8. CASE UNCHANGED servicesVars
  BY <1>0, <1>8 DEF servicesVars, DrainInv
<1> QED BY <1>2, <1>3, <1>4, <1>5, <1>6, <1>7, <1>8 DEF ServicesNext, Drain, Server

\* The invariant of the output holds in every reachable state.
THEOREM DrainInvariant == ServicesSpec => []DrainInv
BY DrainInit, DrainStep, PTL DEF ServicesSpec

\* A call that returns Ok handed on every line of its action, in order and no other,
\* and the action is over; or it met a line that looks like the end.
THEOREM OkIsOver == ServicesSpec => OkMeansOver
<1> DEFINE Over ==
      call = "drain" /\ call' = "none" /\ result' = "ok" =>
       \/ /\ ~running
          /\ Len(given) = Lines
          /\ \A i \in DOMAIN given : given[i].action = number /\ given[i].n = i
       \/ out # <<>> /\ Head(out).kind # "text"
<1>1. DrainInv /\ [ServicesNext]_servicesVars => [Over]_servicesVars
  <2> SUFFICES ASSUME DrainInv, ServicesNext, call = "drain", call' = "none", result' = "ok"
               PROVE  \/ /\ ~running
                         /\ Len(given) = Lines
                         /\ \A i \in DOMAIN given : given[i].action = number /\ given[i].n = i
                      \/ out # <<>> /\ Head(out).kind # "text"
    OBVIOUS
  <2>1. DrainOver \/ DrainStops
    BY DEF ServicesNext, Drain, Server, Attach, StartAction, StartFails, Detach, DetachFails, Drop,
           Write, Finish, DrainLine, DrainFails, Return
  <2>2. CASE DrainOver
    <3>1. ~running /\ out = <<>> /\ Len(out) = 0
      BY <2>2 DEF DrainOver
    <3>2. Len(given) \in Nat /\ DOMAIN given = 1 .. Len(given)
      BY LenProperties DEF DrainInv, ServicesTypeOK
    <3> QED BY <3>1, <3>2 DEF DrainInv
  <2>3. CASE DrainStops
    BY <2>3 DEF DrainStops
  <2> QED BY <2>1, <2>2, <2>3
<1> QED BY <1>1, DrainInvariant, PTL DEF ServicesSpec, OkMeansOver
=============================================================================
