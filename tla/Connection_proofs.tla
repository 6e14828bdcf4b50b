------------------------- MODULE Connection_proofs -------------------------
(***************************************************************************)
(* Proofs about Connection: who holds which transaction, whose work is in  *)
(* it, and that the Connection implements the units of work, for any       *)
(* executions, handles and configurations.                                 *)
(***************************************************************************)
EXTENDS Connection, TLAPS

(***************************************************************************)
(* The server, seen from the replies                                       *)
(***************************************************************************)

Servers == [up : BOOLEAN, active : SUBSET TrHandles, conf : [TrHandles -> Confs],
            work : [TrHandles -> SUBSET Works], durable : SUBSET Works]

\* A server that lost the attachment has no transaction, and only one that is alive
\* holds work.
Sound(s) ==
  /\ s \in Servers
  /\ ~s.up => s.active = {}
  /\ \A h \in TrHandles : h \notin s.active => s.work[h] = {}

Ops == {"Commit", "CommitRetaining", "Rollback", "RollbackRetaining"}

\* The work op makes durable in h.
Saved(s, op, h) == IF op \in {"Commit", "CommitRetaining"} THEN s.work[h] ELSE {}

\* From s to t, op was performed on h.
Performed(s, t, op, h) ==
  /\ s.up /\ t.up
  /\ h \in s.active
  /\ t.active = IF op \in {"Commit", "Rollback"} THEN s.active \ {h} ELSE s.active
  /\ t.work[h] = {}
  /\ \A g \in TrHandles : g # h => t.work[g] = s.work[g]
  /\ t.durable = s.durable \cup Saved(s, op, h)

\* From s to t, the attachment was lost.
Lost(s, t) == s.up /\ ~t.up /\ t.active = {} /\ \A g \in TrHandles : t.work[g] = {}

\* A lost attachment holds nothing.
LEMMA GoneOutcome ==
  ASSUME NEW s \in Servers
  PROVE  Sound(Gone(s)) /\ ~Gone(s).up /\ Gone(s).active = {} /\ Gone(s).durable = s.durable
         /\ \A g \in TrHandles : Gone(s).work[g] = {}
BY DEF Gone, Sound, Servers

\* An operation that is performed ends the work of its transaction only.
LEMMA DoneOutcome ==
  ASSUME NEW s, Sound(s), s.up, NEW op \in Ops, NEW h \in s.active
  PROVE  Sound(Done(s, op, h)) /\ Performed(s, Done(s, op, h), op, h)
<1> s \in Servers /\ h \in TrHandles
  BY DEF Sound, Servers
<1> DEFINE t == Done(s, op, h)
<1>1. t \in Servers
  BY DEF Done, Servers
<1>2. /\ t.up = s.up
      /\ t.active = IF op \in {"Commit", "Rollback"} THEN s.active \ {h} ELSE s.active
      /\ t.work = [s.work EXCEPT ![h] = {}]
      /\ t.durable = s.durable \cup Saved(s, op, h)
  BY DEF Done, Servers, Saved
<1>3. t.work[h] = {} /\ \A g \in TrHandles : g # h => t.work[g] = s.work[g]
  BY <1>2 DEF Servers
<1>4. \A g \in TrHandles : g \notin t.active => t.work[g] = {}
  BY <1>2, <1>3 DEF Sound
<1> HIDE DEF t
<1> QED BY <1>1, <1>2, <1>3, <1>4 DEF Sound, Performed, t

\* The replies to transaction_operation: refused, performed, or the link broke,
\* perhaps after it was performed.
LEMMA AskOutcome ==
  ASSUME NEW s, Sound(s), NEW op \in Ops, NEW h \in TrHandles, NEW r \in Ask(s, op, h)
  PROVE  /\ Sound(r.srv)
         /\ \/ ~r.ok /\ r.srv = s
            \/ r.ok /\ Performed(s, r.srv, op, h)
            \/ /\ ~r.ok /\ Lost(s, r.srv) /\ h \in s.active
               /\ r.srv.durable \in {s.durable, s.durable \cup Saved(s, op, h)}
<1>0. s \in Servers
  BY DEF Sound
<1>1. CASE r = [srv |-> s, ok |-> FALSE]
  BY <1>1
<1>2. CASE /\ s.up /\ h \in s.active
           /\ r \in {[srv |-> Done(s, op, h), ok |-> TRUE],
                     [srv |-> Gone(s), ok |-> FALSE],
                     [srv |-> Gone(Done(s, op, h)), ok |-> FALSE]}
  <2>1. Sound(Done(s, op, h)) /\ Performed(s, Done(s, op, h), op, h)
    BY <1>2, DoneOutcome
  <2>2. CASE r = [srv |-> Done(s, op, h), ok |-> TRUE]
    BY <2>1, <2>2
  <2>3. CASE r = [srv |-> Gone(s), ok |-> FALSE]
    BY <1>0, <1>2, <2>3, GoneOutcome DEF Lost
  <2>4. CASE r = [srv |-> Gone(Done(s, op, h)), ok |-> FALSE]
    <3>1. Done(s, op, h) \in Servers
      BY <2>1 DEF Sound
    <3>2. Done(s, op, h).durable = s.durable \cup Saved(s, op, h)
      BY <2>1 DEF Performed
    <3> QED BY <1>2, <2>4, <3>1, <3>2, GoneOutcome DEF Lost
  <2> QED BY <1>2, <2>2, <2>3, <2>4
<1> QED BY <1>1, <1>2 DEF Ask

\* The replies to a rollback: nothing of the transaction becomes durable.
LEMMA RollbackOutcome ==
  ASSUME NEW s, Sound(s), NEW op \in {"Rollback", "RollbackRetaining"}, NEW h \in TrHandles,
         NEW r \in Ask(s, op, h)
  PROVE  /\ Sound(r.srv)
         /\ r.srv.durable = s.durable
         /\ \/ ~r.ok /\ r.srv = s
            \/ r.ok /\ Performed(s, r.srv, op, h)
            \/ ~r.ok /\ Lost(s, r.srv)
<1>1. op \in Ops /\ s.durable \cup Saved(s, op, h) = s.durable
  BY DEF Ops, Saved
<1>2. /\ Sound(r.srv)
      /\ \/ ~r.ok /\ r.srv = s
         \/ r.ok /\ Performed(s, r.srv, op, h)
         \/ /\ ~r.ok /\ Lost(s, r.srv) /\ h \in s.active
            /\ r.srv.durable \in {s.durable, s.durable \cup Saved(s, op, h)}
  BY <1>1, AskOutcome
<1> QED BY <1>1, <1>2 DEF Performed

\* From s to t, h was begun: a handle that was free, and nothing is done in it yet.
Begun(s, t, h) ==
  /\ s.up /\ t.up
  /\ h \in TrHandles /\ h \notin s.active
  /\ t.active = s.active \cup {h}
  /\ t.work = s.work

\* The replies to begin_transaction.
LEMMA BeginOutcome ==
  ASSUME NEW s, Sound(s), NEW c \in Confs, NEW r \in BeginTr(s, c)
  PROVE  /\ Sound(r.srv) /\ r.srv.durable = s.durable
         /\ \/ ~r.ok /\ r.h = NoTr /\ r.srv = s
            \/ ~r.ok /\ r.h = NoTr /\ Lost(s, r.srv)
            \/ r.ok /\ Begun(s, r.srv, r.h)
<1>0. s \in Servers
  BY DEF Sound
<1>1. CASE r = [srv |-> s, ok |-> FALSE, h |-> NoTr]
  BY <1>1
<1>2. CASE s.up /\ r = [srv |-> Gone(s), ok |-> FALSE, h |-> NoTr]
  BY <1>0, <1>2, GoneOutcome DEF Lost
<1>3. CASE s.up /\ \E h \in TrHandles \ s.active :
             r = [srv |-> [s EXCEPT !.active = @ \cup {h}, !.conf = [@ EXCEPT ![h] = c]],
                  ok |-> TRUE, h |-> h]
  <2>1. PICK h \in TrHandles \ s.active :
             r = [srv |-> [s EXCEPT !.active = @ \cup {h}, !.conf = [@ EXCEPT ![h] = c]],
                  ok |-> TRUE, h |-> h]
    BY <1>3
  <2>2. /\ r.srv \in Servers /\ r.srv.up = s.up /\ r.srv.active = s.active \cup {h}
        /\ r.srv.work = s.work /\ r.srv.durable = s.durable /\ r.ok /\ r.h = h
    BY <1>0, <2>1 DEF Servers
  <2> QED BY <1>3, <2>2 DEF Sound, Begun
<1> QED BY <1>1, <1>2, <1>3 DEF BeginTr

\* From s to t, w was run in h.
Ran(s, t, h, w) ==
  /\ s.up /\ t.up
  /\ h \in s.active
  /\ t.active = s.active
  /\ t.work[h] = s.work[h] \cup {w}
  /\ \A g \in TrHandles : g # h => t.work[g] = s.work[g]

\* The replies to a statement.
LEMMA RunOutcome ==
  ASSUME NEW s, Sound(s), NEW h \in TrHandles, NEW w \in Works, NEW r \in Run(s, h, w)
  PROVE  /\ Sound(r.srv) /\ r.srv.durable = s.durable
         /\ \/ ~r.ok /\ ~r.done /\ r.srv = s
            \/ ~r.ok /\ ~r.done /\ Lost(s, r.srv)
            \/ r.done /\ Ran(s, r.srv, h, w)
<1>0. s \in Servers
  BY DEF Sound
<1>1. CASE r = [srv |-> s, ok |-> FALSE, done |-> FALSE]
  BY <1>1
<1>2. CASE s.up /\ r = [srv |-> Gone(s), ok |-> FALSE, done |-> FALSE]
  BY <1>0, <1>2, GoneOutcome DEF Lost
<1>3. CASE /\ s.up /\ h \in s.active
           /\ \E b \in BOOLEAN :
                r = [srv |-> [s EXCEPT !.work[h] = @ \cup {w}], ok |-> b, done |-> TRUE]
  <2>1. /\ r.srv = [s EXCEPT !.work[h] = @ \cup {w}]
        /\ r.done
    BY <1>3
  <2> DEFINE more == [s.work EXCEPT ![h] = @ \cup {w}]
  <2>11. more \in [TrHandles -> SUBSET Works]
    BY <1>0 DEF Servers
  <2>12. r.srv = [s EXCEPT !.work = more]
    BY <2>1, Zenon DEF more
  <2> HIDE DEF more
  <2>2. /\ r.srv \in Servers /\ r.srv.up = s.up /\ r.srv.active = s.active
        /\ r.srv.work = more
        /\ r.srv.durable = s.durable
    BY <1>0, <2>11, <2>12 DEF Servers
  <2>3. r.srv.work[h] = s.work[h] \cup {w} /\ \A g \in TrHandles : g # h => r.srv.work[g] = s.work[g]
    BY <1>0, <2>2 DEF Servers, more
  <2> QED BY <1>3, <2>1, <2>2, <2>3 DEF Sound, Ran
<1> QED BY <1>1, <1>2, <1>3 DEF Run

---------------------------------------------------------------------------
(***************************************************************************)
(* The inductive invariant.  A Connection holds at most two transactions:  *)
(* the one its own statements run in, wherever it is kept just now         *)
(* (DefaultTr), and that of a Transaction object.  Every conjunct of the   *)
(* properties needs another one to be kept by a step, so they go together. *)
(***************************************************************************)

ObjectTr == IF tr.by = "object" THEN tr.h ELSE NoTr

\* What the calls leave in the Connection's own fields.
Shape ==
  /\ tr.by \in {"closure", "execute"} => def_tr = NoTr /\ (tr.auto <=> ~in_transaction)
  /\ tr.by # "none" => iter = NoTr
  /\ iter # NoTr => iter = def_tr
  /\ phase = "closed" => tr.by = "none" /\ iter = NoTr /\ def_tr = NoTr

\* A unit is open only while there is something to end it.
UnitsAreOpen == \A w \in Works :
  /\ told[w] = "obj"  => tr.by = "object"
  /\ told[w] = "conn" => in_transaction
  /\ told[w] = "call" => ~in_transaction /\ (tr.by \in {"closure", "execute"} \/ iter # NoTr)

\* Transaction d is kept for the units of D: it is alive, holds all their work, and
\* beside that only work that is doubtful.
Tended(s, d, D, tell) ==
  /\ s.up /\ d # NoTr => d \in s.active
  /\ d # NoTr => \A w \in s.work[d] : tell[w] \in D \cup {"doubtful"}
  /\ s.up => \A w \in Works : tell[w] \in D => d # NoTr /\ w \in s.work[d]

\* Two transactions are kept, each for its own units, and the server has no other
\* but those that are lost.
Custody(s, d, D, e, E, lost, tell) ==
  /\ Sound(s)
  /\ Tended(s, d, D, tell)
  /\ Tended(s, e, E, tell)
  /\ s.up => /\ d = e => d = NoTr
             /\ {d, e} \cap lost = {}
             /\ lost \subseteq s.active
             /\ s.active \subseteq {d, e} \cup lost

ConnUnits == {"conn", "call"}
ObjUnits == {"obj"}

ConnectionInv ==
  /\ TypeOK
  /\ Shape
  /\ UnitsAreOpen
  /\ Custody(srv, DefaultTr, ConnUnits, ObjectTr, ObjUnits, orphans, told)

---------------------------------------------------------------------------
(***************************************************************************)
(* What the replies of the server do to the custody of a transaction       *)
(***************************************************************************)

Handles == TrHandles \cup {NoTr}
Verdicts == {"committed", "undone", "doubtful"}

\* The units of two transactions are none of them over, and different.
Apart(D, E) == D \cap E = {} /\ (D \cup E) \cap ({"new"} \cup Verdicts) = {}

\* The units of D are told v, the others what they were.
Settled(D, tell, tell2, v) ==
  \A w \in Works : tell2[w] = IF tell[w] \in D THEN v ELSE tell[w]

\* The two transactions play the same part.
LEMMA CustodySwap ==
  ASSUME NEW s, NEW d, NEW D, NEW e, NEW E, NEW lost, NEW tell, Custody(s, d, D, e, E, lost, tell)
  PROVE  Custody(s, e, E, d, D, lost, tell)
BY DEF Custody

\* Without the attachment there is nothing to keep.
LEMMA CustodyDown ==
  ASSUME NEW s, Sound(s), ~s.up, NEW d \in Handles, NEW D, NEW e \in Handles, NEW E, NEW lost, NEW tell
  PROVE  Custody(s, d, D, e, E, lost, tell)
BY DEF Custody, Tended, Sound, Handles

\* A transaction begun is kept where none was.
LEMMA CustodyBegun ==
  ASSUME NEW s, NEW t, Sound(t), NEW h, Begun(s, t, h), NEW D, NEW e \in Handles, NEW E, NEW lost, NEW tell,
         Custody(s, NoTr, D, e, E, lost, tell)
  PROVE  Custody(t, h, D, e, E, lost, tell)
<1>1. s.work[h] = {} /\ h # NoTr
  BY NoTrAssumption DEF Begun, Custody, Sound
<1>2. lost \subseteq s.active /\ s.active \subseteq {e} \cup lost \cup {NoTr} /\ NoTr \notin s.active
  BY NoTrAssumption DEF Begun, Custody, Sound, Servers
<1> QED BY <1>1, <1>2 DEF Custody, Tended, Begun, Handles

\* A transaction is still tended when the units of another one are settled and the
\* server leaves its work alone.
LEMMA TendedStill ==
  ASSUME NEW s, NEW t, Sound(s), s.up, NEW e \in Handles, NEW D, NEW E, Apart(D, E),
         NEW tell, Tended(s, e, E, tell), e # NoTr => e \in t.active /\ t.work[e] = s.work[e],
         NEW tell2, NEW v \in Verdicts, Settled(D, tell, tell2, v)
  PROVE  Tended(t, e, E, tell2)
<1>1. \A w \in Works : tell2[w] \in E <=> tell[w] \in E
  BY DEF Settled, Apart
<1>2. CASE e = NoTr
  BY <1>1, <1>2 DEF Tended
<1>3. CASE e # NoTr
  <2>1. s.work[e] \subseteq Works
    BY <1>3 DEF Sound, Servers, Handles
  <2>2. \A w \in t.work[e] : tell2[w] \in E \cup {"doubtful"}
    BY <1>1, <1>3, <2>1 DEF Tended, Settled, Apart, Verdicts
  <2> QED BY <1>1, <1>3, <2>2 DEF Tended
<1> QED BY <1>2, <1>3

\* A retaining operation that is performed empties its transaction.
LEMMA CustodyRetained ==
  ASSUME NEW s, NEW t, Sound(t), NEW op \in {"CommitRetaining", "RollbackRetaining"},
         NEW d \in TrHandles, Performed(s, t, op, d), NEW D, NEW e \in Handles, NEW E, NEW lost,
         NEW tell, NEW tell2, NEW v \in Verdicts, Apart(D, E), Settled(D, tell, tell2, v),
         Custody(s, d, D, e, E, lost, tell)
  PROVE  Custody(t, d, D, e, E, lost, tell2)
<1>1. t.active = s.active /\ s.up /\ t.up
  BY DEF Performed
<1>2. Tended(t, d, D, tell2)
  BY <1>1 DEF Performed, Custody, Tended, Settled, Apart
<1>3. Tended(t, e, E, tell2)
  <2>1. e # NoTr => e \in t.active /\ t.work[e] = s.work[e]
    BY <1>1, NoTrAssumption DEF Custody, Tended, Handles, Performed
  <2> QED BY <1>1, <2>1, TendedStill DEF Custody
<1> QED BY <1>1, <1>2, <1>3 DEF Custody

\* When an operation is refused, its units are told to be in doubt.
LEMMA CustodyRefused ==
  ASSUME NEW s, NEW d \in Handles, NEW D, NEW e \in Handles, NEW E, NEW lost,
         NEW tell, NEW tell2, Apart(D, E), Settled(D, tell, tell2, "doubtful"),
         Custody(s, d, D, e, E, lost, tell)
  PROVE  Custody(s, d, D, e, E, lost, tell2)
<1>1. \A h \in TrHandles : s.work[h] \subseteq Works
  BY DEF Custody, Sound, Servers
<1>2. Tended(s, d, D, tell2)
  BY <1>1 DEF Custody, Tended, Settled, Apart, Handles, Verdicts
<1>3. Tended(s, e, E, tell2)
  BY <1>1 DEF Custody, Tended, Settled, Apart, Handles, Verdicts
<1> QED BY <1>2, <1>3 DEF Custody

\* A transaction that is ended is kept no more.
LEMMA CustodyEnded ==
  ASSUME NEW s, NEW t, Sound(t), NEW op \in {"Commit", "Rollback"},
         NEW d \in TrHandles, Performed(s, t, op, d), NEW D, NEW e \in Handles, NEW E, NEW lost,
         NEW tell, NEW tell2, NEW v \in Verdicts, Apart(D, E), Settled(D, tell, tell2, v),
         Custody(s, d, D, e, E, lost, tell)
  PROVE  /\ Custody(t, NoTr, D, e, E, lost, tell2)
         /\ lost \cap t.active = lost
<1>1. t.active = s.active \ {d} /\ s.up /\ t.up
  BY DEF Performed
<1>2. lost \subseteq t.active
  BY <1>1 DEF Custody
<1>3. Tended(t, NoTr, D, tell2)
  BY DEF Tended, Settled, Apart
<1>4. Tended(t, e, E, tell2)
  <2>1. e # NoTr => e \in t.active /\ t.work[e] = s.work[e]
    BY <1>1, NoTrAssumption DEF Custody, Tended, Handles, Performed
  <2> QED BY <1>1, <2>1, TendedStill DEF Custody
<1>5. NoTr \notin lost /\ e \notin lost /\ t.active \subseteq {NoTr, e} \cup lost
  BY <1>1, NoTrAssumption DEF Custody, Sound, Servers
<1> QED BY <1>1, <1>2, <1>3, <1>4, <1>5 DEF Custody

\* A transaction that is dropped without being ended is lost.
LEMMA CustodyOrphaned ==
  ASSUME NEW s, NEW d \in TrHandles, NEW D, NEW e \in Handles, NEW E, NEW lost, s.up,
         NEW tell, NEW tell2, NEW v \in Verdicts, Apart(D, E), Settled(D, tell, tell2, v),
         Custody(s, d, D, e, E, lost, tell)
  PROVE  Custody(s, NoTr, D, e, E, lost \cup {d}, tell2)
<1>1. d \in s.active /\ d # NoTr /\ d # e
  BY NoTrAssumption DEF Custody, Tended
<1>2. Tended(s, NoTr, D, tell2)
  BY DEF Tended, Settled, Apart
<1>3. Tended(s, e, E, tell2)
  <2>1. e # NoTr => e \in s.active
    BY DEF Custody, Tended
  <2> QED BY <2>1, TendedStill DEF Custody
<1>4. NoTr \notin lost
  BY NoTrAssumption DEF Custody, Sound, Servers
<1> QED BY <1>1, <1>2, <1>3, <1>4 DEF Custody

\* Dropping a Transaction gives it up, whatever its rollback comes to.
LEMMA CustodyDropped ==
  ASSUME NEW s, NEW d \in TrHandles, NEW D, NEW e \in Handles, NEW E,
         NEW tell2, NEW v \in Verdicts, Apart(D, E), Settled(D, told, tell2, v),
         Custody(s, d, D, e, E, orphans, told), orphans \subseteq TrHandles, DropTr(s, d)
  PROVE  /\ Custody(srv', NoTr, D, e, E, orphans', tell2)
         /\ srv'.durable = s.durable
         /\ ~s.up => ~srv'.up
         /\ orphans' \subseteq TrHandles
<1>1. PICK r \in Ask(s, "Rollback", d) :
        /\ srv' = r.srv
        /\ orphans' = IF ~r.ok /\ r.srv.up THEN orphans \cup {d} ELSE orphans \cap r.srv.active
  BY DEF DropTr
<1>2. Sound(s)
  BY DEF Custody
<1>3. orphans' \subseteq TrHandles
  BY <1>1
<1>4. /\ Sound(r.srv)
      /\ r.srv.durable = s.durable
      /\ \/ ~r.ok /\ r.srv = s
         \/ r.ok /\ Performed(s, r.srv, "Rollback", d)
         \/ ~r.ok /\ Lost(s, r.srv)
  BY <1>2, RollbackOutcome
<1>5. CASE ~r.ok /\ r.srv = s /\ s.up
  BY <1>1, <1>3, <1>5, CustodyOrphaned
<1>6. CASE ~r.ok /\ r.srv = s /\ ~s.up
  BY <1>1, <1>2, <1>3, <1>6, CustodyDown DEF Handles
<1>7. CASE r.ok /\ Performed(s, r.srv, "Rollback", d)
  <2>1. Sound(r.srv) /\ Performed(s, r.srv, "Rollback", d)
    BY <1>4, <1>7
  <2>3. Custody(r.srv, NoTr, D, e, E, orphans, tell2) /\ orphans \cap r.srv.active = orphans
    <3> DEFINE t == r.srv
    <3>1. Sound(t) /\ Performed(s, t, "Rollback", d)
      BY <2>1
    <3> HIDE DEF t
    <3>2. \A op \in {"Commit", "Rollback"} :
            Performed(s, t, op, d) => Custody(t, NoTr, D, e, E, orphans, tell2) /\ orphans \cap t.active = orphans
      BY <3>1, CustodyEnded
    <3> QED BY <3>1, <3>2 DEF t
  <2>2. s.up
    BY <1>7 DEF Performed
  <2> QED BY <1>1, <1>3, <1>4, <1>7, <2>2, <2>3
<1>8. CASE ~r.ok /\ Lost(s, r.srv)
  BY <1>1, <1>3, <1>4, <1>8, CustodyDown DEF Lost, Handles
<1> QED BY <1>4, <1>5, <1>6, <1>7, <1>8

\* A statement adds its work to its transaction, unless it had no effect.
LEMMA CustodyRan ==
  ASSUME NEW s, NEW t, Sound(t), NEW d \in TrHandles, NEW w \in Works, Ran(s, t, d, w),
         NEW D, NEW e \in Handles, NEW E, NEW lost, Apart(D, E),
         NEW tell, NEW tell2, tell[w] = "new", tell2[w] \in D \cup {"doubtful"},
         \A x \in Works : x # w => tell2[x] = tell[x],
         Custody(s, d, D, e, E, lost, tell)
  PROVE  Custody(t, d, D, e, E, lost, tell2)
<1>1. t.active = s.active /\ s.up /\ t.up /\ d # NoTr /\ d # e
  BY NoTrAssumption DEF Ran, Custody
<1>2. \A h \in TrHandles : s.work[h] \subseteq Works
  BY DEF Custody, Sound, Servers
<1>3. Tended(t, d, D, tell2)
  <2>1. t.work[d] = s.work[d] \cup {w}
    BY DEF Ran
  <2> QED BY <1>1, <1>2, <2>1 DEF Custody, Tended, Apart, Verdicts
<1>4. Tended(t, e, E, tell2)
  <2>1. CASE e = NoTr
    BY <1>1, <2>1 DEF Custody, Tended, Apart, Verdicts
  <2>2. CASE e # NoTr
    <3>1. t.work[e] = s.work[e] /\ s.work[e] \subseteq Works
      BY <1>1, <1>2, <2>2 DEF Ran, Handles
    <3>2. w \notin s.work[e]
      BY <1>1, <2>2 DEF Custody, Tended, Apart, Verdicts
    <3> QED BY <1>1, <2>2, <3>1, <3>2 DEF Custody, Tended, Apart, Verdicts
  <2> QED BY <2>1, <2>2
<1> QED BY <1>1, <1>3, <1>4 DEF Custody

\* A statement that had no effect leaves the work of every transaction.
LEMMA CustodyIdle ==
  ASSUME NEW s, NEW d \in Handles, NEW D, NEW e \in Handles, NEW E, NEW lost, Apart(D, E),
         NEW tell, NEW tell2, NEW w \in Works, tell[w] = "new", tell2[w] = "undone",
         \A x \in Works : x # w => tell2[x] = tell[x],
         Custody(s, d, D, e, E, lost, tell)
  PROVE  Custody(s, d, D, e, E, lost, tell2)
<1>1. \A h \in TrHandles : s.work[h] \subseteq Works
  BY DEF Custody, Sound, Servers
<1>2. ASSUME NEW h \in Handles, NEW U \in {D, E}, Tended(s, h, U, tell) PROVE Tended(s, h, U, tell2)
  BY <1>1, <1>2 DEF Tended, Apart, Verdicts, Handles
<1> QED BY <1>2 DEF Custody

---------------------------------------------------------------------------
(***************************************************************************)
(* What the ends of units are to UnitsOfWork                               *)
(***************************************************************************)

UnitStep == [Promise!Next]_<<told, srv.durable>>

\* Only the unit of o is open among D.
Single(D, o) == o \in D /\ \A w \in Works : told[w] \in D => told[w] = o

\* To settle the one unit of a transaction is to settle its units.
LEMMA Settling ==
  ASSUME TypeOK, NEW D, NEW o, Single(D, o), NEW v \in Verdicts, told' = Settle(o, v)
  PROVE  /\ told' \in [Works -> Promise!Tellings]
         /\ Settled(D, told, told', v)
         /\ \A w \in Works : told'[w] = IF told[w] = o THEN v ELSE told[w]
<1>1. \A w \in Works : told'[w] = IF told[w] = o THEN v ELSE told[w]
  BY DEF Settle
<1>2. told' \in [Works -> Promise!Tellings]
  BY DEF Settle, TypeOK, Verdicts, Promise!Tellings, Promise!Verdicts
<1> QED BY <1>1, <1>2 DEF Settled, Single

\* The units of the two transactions are apart.
LEMMA UnitsApart == Apart(ConnUnits, ObjUnits) /\ Apart(ObjUnits, ConnUnits)
BY DEF Apart, ConnUnits, ObjUnits, Verdicts

\* What becomes of a unit when its transaction d ends is what UnitsOfWork allows.
LEMMA UnitEnds ==
  ASSUME TypeOK, NEW s, s.durable = srv.durable, NEW d, NEW D, NEW o \in Promise!Owners,
         Single(D, o), NEW v \in Verdicts, told' = Settle(o, v), Sound(s), Tended(s, d, D, told),
         \/ srv'.durable = s.durable /\ v # "committed"
         \/ s.up /\ d \in TrHandles /\ srv'.durable = s.durable \cup s.work[d] /\ v # "undone"
  PROVE  UnitStep
<1>1. CASE srv'.durable = s.durable /\ v = "undone"
  <2>1. Promise!Undo(o)
    BY <1>1 DEF Promise!Undo, Promise!Tell, Settle
  <2> QED BY <2>1 DEF UnitStep, Promise!Next
<1>2. CASE srv'.durable = s.durable /\ v = "doubtful"
  <2>1. Promise!Tell(o, "doubtful", {} \cup {})
    BY <1>2 DEF Promise!Tell, Settle
  <2>2. Promise!Doubt(o)
    BY <2>1 DEF Promise!Doubt
  <2> QED BY <2>2 DEF UnitStep, Promise!Next
<1>3. CASE s.up /\ d \in TrHandles /\ srv'.durable = s.durable \cup s.work[d] /\ v # "undone"
  <2> DEFINE S == Promise!Told("doubtful") \cap s.work[d]
  <2>1. s.work[d] = Promise!Told(o) \cup S /\ S \in SUBSET Promise!Told("doubtful")
    <3>1. s.work[d] \subseteq Works
      BY <1>3 DEF Sound, Servers
    <3>2. \A w \in s.work[d] : told[w] = o \/ told[w] = "doubtful"
      BY <1>3, NoTrAssumption, <3>1 DEF Tended, Single
    <3>3. \A w \in Works : told[w] = o => w \in s.work[d]
      BY <1>3 DEF Tended, Single
    <3> QED BY <3>1, <3>2, <3>3 DEF Promise!Told
  <2>2. Promise!Tell(o, v, Promise!Told(o) \cup S)
    BY <1>3, <2>1 DEF Promise!Tell, Settle
  <2> HIDE DEF S
  <2>3. CASE v = "committed"
    BY <2>1, <2>2, <2>3 DEF Promise!Commit, UnitStep, Promise!Next
  <2>4. CASE v = "doubtful"
    BY <2>1, <2>2, <2>4 DEF Promise!Doubt, UnitStep, Promise!Next
  <2> QED BY <1>3, <2>3, <2>4 DEF Verdicts
<1> QED BY <1>1, <1>2, <1>3 DEF Verdicts

\* A retaining operation keeps the custody of its transaction and ends its unit.
LEMMA Retained ==
  ASSUME TypeOK, NEW s, s.durable = srv.durable, NEW d \in TrHandles, NEW D, NEW e \in Handles, NEW E,
         Apart(D, E), Custody(s, d, D, e, E, orphans, told), NEW o \in Promise!Owners, Single(D, o),
         NEW op, NEW v, \/ op = "CommitRetaining" /\ v = "committed"
                        \/ op = "RollbackRetaining" /\ v = "undone",
         NEW r \in Ask(s, op, d), srv' = r.srv, told' = Settle(o, IF r.ok THEN v ELSE "doubtful")
  PROVE  /\ Custody(srv', d, D, e, E, orphans, told')
         /\ UnitStep
<1> DEFINE verdict == IF r.ok THEN v ELSE "doubtful"
<1>1. op \in Ops /\ verdict \in Verdicts /\ Sound(s) /\ d # NoTr
  BY NoTrAssumption DEF Ops, Verdicts, Custody
<1>2. Settled(D, told, told', verdict)
  BY <1>1, Settling
<1>3. /\ Sound(r.srv)
      /\ \/ ~r.ok /\ r.srv = s
         \/ r.ok /\ Performed(s, r.srv, op, d)
         \/ /\ ~r.ok /\ Lost(s, r.srv) /\ d \in s.active
            /\ r.srv.durable \in {s.durable, s.durable \cup Saved(s, op, d)}
  BY <1>1, AskOutcome
<1>4. s.durable \cup {} = s.durable
  OBVIOUS
<1>5. Tended(s, d, D, told)
  BY DEF Custody
<1>6. CASE ~r.ok /\ r.srv = s
  <2>1. Custody(srv', d, D, e, E, orphans, told')
    BY <1>2, <1>6, CustodyRefused DEF Handles
  <2>2. srv'.durable = s.durable /\ verdict # "committed"
    BY <1>6
  <2> QED BY <1>1, <1>5, <2>1, <2>2, UnitEnds
<1>7. CASE r.ok /\ Performed(s, r.srv, op, d)
  <2>1. Custody(r.srv, d, D, e, E, orphans, told')
    BY <1>1, <1>2, <1>3, <1>7, CustodyRetained
  <2>2. s.up /\ \/ srv'.durable = s.durable /\ verdict = "undone"
                \/ srv'.durable = s.durable \cup s.work[d] /\ verdict = "committed"
    BY <1>4, <1>7 DEF Performed, Saved
  <2>3. UnitStep
    BY <1>1, <1>5, <2>2, UnitEnds
  <2> QED BY <2>1, <2>3
<1>8. CASE /\ ~r.ok /\ Lost(s, r.srv)
           /\ r.srv.durable \in {s.durable, s.durable \cup Saved(s, op, d)}
  <2>1. Custody(srv', d, D, e, E, orphans, told')
    BY <1>3, <1>8, CustodyDown DEF Lost, Handles
  <2>2. s.up /\ verdict = "doubtful" /\ \/ srv'.durable = s.durable
                                        \/ srv'.durable = s.durable \cup s.work[d]
    BY <1>4, <1>8 DEF Lost, Saved
  <2>3. UnitStep
    BY <1>1, <1>5, <2>2, UnitEnds
  <2> QED BY <2>1, <2>3
<1> QED BY <1>3, <1>6, <1>7, <1>8

---------------------------------------------------------------------------
(***************************************************************************)
(* The calls                                                               *)
(***************************************************************************)

InCall == tr.by \in {"closure", "execute"}

\* Where the handles are, by type.
LEMMA Holders ==
  ASSUME TypeOK
  PROVE  /\ DefaultTr \in Handles /\ ObjectTr \in Handles
         /\ tr.by \in {"none", "closure", "execute", "object"}
         /\ tr.by = "none" => tr = NoTransaction /\ tr.h = NoTr
         /\ tr.by # "none" => tr.h \in TrHandles
BY DEF TypeOK, DefaultTr, ObjectTr, Handles, NoTransaction

\* Taking the default transaction, or beginning one, gives custody of it.
LEMMA Taken ==
  ASSUME ConnectionInv, ~InCall, NEW c \in Confs, NEW t \in TakeTr(c)
  PROVE  /\ Custody(t.srv, t.h, ConnUnits, ObjectTr, ObjUnits, orphans, told)
         /\ t.srv.durable = srv.durable
         /\ t.h \in Handles
         /\ t.ok <=> t.h # NoTr
         /\ def_tr # NoTr => t.h = def_tr /\ t.srv = srv
<1>1. /\ Custody(srv, def_tr, ConnUnits, ObjectTr, ObjUnits, orphans, told)
      /\ ObjectTr \in Handles /\ def_tr \in Handles
  BY Holders DEF ConnectionInv, InCall, DefaultTr, TypeOK, Handles
<1>2. CASE def_tr # NoTr
  BY <1>1, <1>2 DEF TakeTr
<1>3. CASE def_tr = NoTr
  <2>1. Sound(srv) /\ t \in BeginTr(srv, c)
    BY <1>1, <1>3 DEF TakeTr, Custody
  <2>2. /\ Sound(t.srv) /\ t.srv.durable = srv.durable
        /\ \/ ~t.ok /\ t.h = NoTr /\ t.srv = srv
           \/ ~t.ok /\ t.h = NoTr /\ Lost(srv, t.srv)
           \/ t.ok /\ Begun(srv, t.srv, t.h)
    BY <2>1, BeginOutcome
  <2>3. CASE ~t.ok /\ t.h = NoTr /\ t.srv = srv
    BY <1>1, <1>3, <2>2, <2>3 DEF Handles
  <2>4. CASE ~t.ok /\ t.h = NoTr /\ Lost(srv, t.srv)
    BY <1>1, <1>3, <2>2, <2>4, CustodyDown DEF Lost, Handles
  <2>5. CASE t.ok /\ Begun(srv, t.srv, t.h)
    <3>1. Custody(t.srv, t.h, ConnUnits, ObjectTr, ObjUnits, orphans, told)
      BY <1>1, <1>3, <2>2, <2>5, CustodyBegun
    <3> QED BY <1>3, <2>2, <2>5, <3>1, NoTrAssumption DEF Begun, Handles
  <2> QED BY <2>2, <2>3, <2>4, <2>5
<1> QED BY <1>2, <1>3

\* commit, rollback and the end of an iterator: the default transaction is taken and
\* kept, and its unit is over.
LEMMA Finished ==
  ASSUME ConnectionInv, ~InCall, NEW o \in ConnUnits, Single(ConnUnits, o),
         NEW op, NEW v, \/ op = "CommitRetaining" /\ v = "committed"
                        \/ op = "RollbackRetaining" /\ v = "undone",
         FinishDefault(op, o, v)
  PROVE  /\ Custody(srv', def_tr', ConnUnits, ObjectTr, ObjUnits, orphans, told')
         /\ def_tr' \in Handles
         /\ def_tr # NoTr => def_tr' = def_tr
         /\ told' \in [Works -> Promise!Tellings]
         /\ \E u \in Verdicts : \A w \in Works : told'[w] = IF told[w] = o THEN u ELSE told[w]
         /\ UnitStep
<1>1. PICK t \in TakeTr(DefConf) :
        /\ def_tr' = t.h
        /\ \/ ~t.ok /\ srv' = t.srv /\ told' = Settle(o, "doubtful")
           \/ /\ t.ok
              /\ \E r \in Ask(t.srv, op, t.h) :
                   /\ srv' = r.srv
                   /\ told' = Settle(o, IF r.ok THEN v ELSE "doubtful")
  BY DEF FinishDefault
<1>2. /\ Custody(t.srv, t.h, ConnUnits, ObjectTr, ObjUnits, orphans, told)
      /\ t.srv.durable = srv.durable /\ t.h \in Handles /\ (t.ok <=> t.h # NoTr)
      /\ def_tr # NoTr => t.h = def_tr
  BY DefConfAssumption, Taken
<1>3. TypeOK /\ ObjectTr \in Handles /\ o \in Promise!Owners
  BY Holders DEF ConnectionInv, ConnUnits, Promise!Owners
<1>4. CASE ~t.ok /\ srv' = t.srv /\ told' = Settle(o, "doubtful")
  <2>1. "doubtful" \in Verdicts /\ "doubtful" # "committed"
    BY DEF Verdicts
  <2>2. /\ told' \in [Works -> Promise!Tellings]
        /\ Settled(ConnUnits, told, told', "doubtful")
        /\ \A w \in Works : told'[w] = IF told[w] = o THEN "doubtful" ELSE told[w]
    BY <1>3, <1>4, <2>1, Settling
  <2>3. Custody(srv', def_tr', ConnUnits, ObjectTr, ObjUnits, orphans, told')
    BY <1>1, <1>2, <1>3, <1>4, <2>2, CustodyRefused, UnitsApart
  <2>4. Sound(t.srv) /\ Tended(t.srv, t.h, ConnUnits, told)
    BY <1>2 DEF Custody
  <2>5. UnitStep
    BY <1>2, <1>3, <1>4, <2>1, <2>4, UnitEnds
  <2> QED BY <1>1, <1>2, <2>1, <2>2, <2>3, <2>5
<1>5. ASSUME t.ok, NEW r \in Ask(t.srv, op, t.h), srv' = r.srv,
             told' = Settle(o, IF r.ok THEN v ELSE "doubtful")
      PROVE  /\ Custody(srv', def_tr', ConnUnits, ObjectTr, ObjUnits, orphans, told')
             /\ told' \in [Works -> Promise!Tellings]
             /\ \E u \in Verdicts : \A w \in Works : told'[w] = IF told[w] = o THEN u ELSE told[w]
             /\ UnitStep
  <2> DEFINE u == IF r.ok THEN v ELSE "doubtful"
  <2>1. u \in Verdicts
    BY DEF Verdicts
  <2>2. /\ told' \in [Works -> Promise!Tellings]
        /\ \A w \in Works : told'[w] = IF told[w] = o THEN u ELSE told[w]
    BY <1>3, <1>5, <2>1, Settling
  <2>3. t.h \in TrHandles
    BY <1>2, <1>5 DEF Handles
  <2>4. Custody(srv', t.h, ConnUnits, ObjectTr, ObjUnits, orphans, told') /\ UnitStep
    BY <1>2, <1>3, <1>5, <2>3, UnitsApart, Retained
  <2> HIDE DEF u
  <2> QED BY <1>1, <2>1, <2>2, <2>4
<1> QED BY <1>1, <1>2, <1>4, <1>5

\* commit and rollback.
LEMMA CommitStep == ConnectionInv /\ (Commit \/ Rollback) => ConnectionInv' /\ UnitStep
<1> SUFFICES ASSUME ConnectionInv, Commit \/ Rollback PROVE ConnectionInv' /\ UnitStep
  OBVIOUS
<1>1. Free /\ ~InCall /\ in_transaction' = FALSE /\ UNCHANGED <<tr, iter, phase, socket, orphans>>
  BY DEF Commit, Rollback, Free, InCall
<1>2. Single(ConnUnits, "conn") /\ "conn" \in ConnUnits
  BY <1>1 DEF ConnectionInv, UnitsAreOpen, Single, ConnUnits, Free
<1>3. \/ FinishDefault("CommitRetaining", "conn", "committed")
      \/ FinishDefault("RollbackRetaining", "conn", "undone")
  BY DEF Commit, Rollback
<1>4. /\ Custody(srv', def_tr', ConnUnits, ObjectTr, ObjUnits, orphans, told')
      /\ def_tr' \in Handles
      /\ told' \in [Works -> Promise!Tellings]
      /\ \E u \in Verdicts : \A w \in Works : told'[w] = IF told[w] = "conn" THEN u ELSE told[w]
      /\ UnitStep
  BY <1>1, <1>2, <1>3, Finished
<1>5. DefaultTr' = def_tr' /\ ObjectTr' = ObjectTr /\ orphans' = orphans
  BY <1>1 DEF DefaultTr, ObjectTr, InCall
<1>6. Custody(srv, DefaultTr, ConnUnits, ObjectTr, ObjUnits, orphans, told)'
  BY <1>4, <1>5
<1>7. TypeOK'
  <2>1. srv' \in Servers
    BY <1>4 DEF Custody, Sound
  <2> QED BY <1>1, <1>4, <2>1 DEF ConnectionInv, TypeOK, Handles, Servers
<1>8. Shape'
  BY <1>1 DEF ConnectionInv, Shape, Free
<1>9. UnitsAreOpen'
  BY <1>1, <1>4 DEF ConnectionInv, UnitsAreOpen, Free, Verdicts
<1> QED BY <1>4, <1>6, <1>7, <1>8, <1>9 DEF ConnectionInv

\* begin_transaction, and the calls that take the default transaction and do no more.
LEMMA TakingStep ==
  ConnectionInv /\ ((\E c \in Confs : BeginTransaction(c)) \/ QueryIterUnprepared \/ StmtIterNext)
    => ConnectionInv' /\ UnitStep
<1> SUFFICES ASSUME ConnectionInv,
                    (\E c \in Confs : BeginTransaction(c)) \/ QueryIterUnprepared \/ StmtIterNext
             PROVE  ConnectionInv' /\ UnitStep
  OBVIOUS
<1>1. /\ ~InCall /\ phase = "open"
      /\ UNCHANGED <<tr, iter, phase, socket, told, orphans>>
      /\ in_transaction \in BOOLEAN /\ in_transaction' \in BOOLEAN
      /\ in_transaction => in_transaction'
      /\ iter = NoTr \/ (in_transaction <=> in_transaction')
      /\ \E c \in Confs : \E t \in TakeTr(c) : srv' = t.srv /\ def_tr' = t.h
  <2>1. in_transaction \in BOOLEAN
    BY DEF ConnectionInv, TypeOK
  <2>2. CASE \E c \in Confs : BeginTransaction(c)
    <3>1. PICK c \in Confs : BeginTransaction(c)
      BY <2>2
    <3>2. PICK t \in TakeTr(c) : srv' = t.srv /\ def_tr' = t.h /\ in_transaction' = (t.ok \/ in_transaction)
      BY <3>1 DEF BeginTransaction
    <3>3. in_transaction' \in BOOLEAN /\ (in_transaction => in_transaction')
      BY <2>1, <3>2
    <3>4. Free /\ UNCHANGED <<tr, iter, phase, socket, told, orphans>>
      BY <3>1 DEF BeginTransaction
    <3> QED BY <2>1, <3>2, <3>3, <3>4 DEF Free, InCall
  <2>3. CASE QueryIterUnprepared
    BY <2>1, <2>3, DefConfAssumption DEF QueryIterUnprepared, Free, InCall
  <2>4. CASE StmtIterNext
    <3>1. phase \in {"open", "closed"} /\ ~InCall /\ phase = "open"
      BY <2>4 DEF ConnectionInv, TypeOK, Shape, StmtIterNext, InCall
    <3> QED BY <2>1, <2>4, <3>1, DefConfAssumption DEF StmtIterNext
  <2> QED BY <2>2, <2>3, <2>4
<1>2. /\ Custody(srv', def_tr', ConnUnits, ObjectTr, ObjUnits, orphans, told)
      /\ srv'.durable = srv.durable
      /\ def_tr' \in Handles
      /\ def_tr # NoTr => def_tr' = def_tr
  BY <1>1, Taken
<1>3. DefaultTr' = def_tr' /\ ObjectTr' = ObjectTr
  BY <1>1 DEF DefaultTr, ObjectTr, InCall
<1>4. Custody(srv, DefaultTr, ConnUnits, ObjectTr, ObjUnits, orphans, told)'
  BY <1>1, <1>2, <1>3
<1>5. TypeOK'
  <2>1. srv' \in Servers
    BY <1>2 DEF Custody, Sound
  <2> QED BY <1>1, <1>2, <2>1 DEF ConnectionInv, TypeOK, Handles, Servers
<1>6. Shape'
  BY <1>1, <1>2 DEF ConnectionInv, Shape, InCall
<1>7. UnitsAreOpen'
  BY <1>1 DEF ConnectionInv, UnitsAreOpen, InCall
<1> QED BY <1>1, <1>2, <1>4, <1>5, <1>6, <1>7 DEF ConnectionInv, UnitStep

\* with_transaction begins: the default transaction moves into the Transaction value.
LEMMA WithTransactionStep ==
  ConnectionInv /\ (\E c \in Confs, by \in {"closure", "execute"} : WithTransaction(c, by))
    => ConnectionInv' /\ UnitStep
<1> SUFFICES ASSUME ConnectionInv, NEW c \in Confs, NEW by \in {"closure", "execute"},
                    WithTransaction(c, by)
             PROVE  ConnectionInv' /\ UnitStep
  OBVIOUS
<1>1. PICK t \in TakeTr(c) :
        /\ srv' = t.srv
        /\ tr' = IF t.ok
                 THEN [by |-> by, h |-> t.h, auto |-> ~in_transaction, res |-> "none"]
                 ELSE NoTransaction
  BY DEF WithTransaction
<1>2. /\ Free /\ ~InCall /\ def_tr' = NoTr /\ UNCHANGED <<in_transaction, iter, phase, socket, told, orphans>>
  BY DEF WithTransaction, Free, InCall
<1>3. /\ Custody(srv', t.h, ConnUnits, ObjectTr, ObjUnits, orphans, told)
      /\ srv'.durable = srv.durable
      /\ t.h \in Handles
      /\ t.ok <=> t.h # NoTr
  BY <1>1, <1>2, Taken
<1>4. in_transaction \in BOOLEAN /\ ObjectTr = NoTr
  BY <1>2 DEF ConnectionInv, TypeOK, ObjectTr, Free
<1>5. DefaultTr' = t.h /\ ObjectTr' = NoTr /\ (tr'.by = "none" \/ tr'.by \in {"closure", "execute"})
      /\ (tr'.by # "none" => tr'.auto = ~in_transaction) /\ (tr'.by # "none" <=> t.ok)
  BY <1>1, <1>2, <1>3 DEF DefaultTr, ObjectTr, NoTransaction
<1>6. Custody(srv, DefaultTr, ConnUnits, ObjectTr, ObjUnits, orphans, told)'
  BY <1>2, <1>3, <1>4, <1>5
<1>7. TypeOK'
  <2>1. srv' \in Servers
    BY <1>3 DEF Custody, Sound
  <2>2. tr' \in [by : {"closure", "execute", "object"}, h : TrHandles, auto : BOOLEAN,
                 res : {"none", "ok", "err"}] \cup {NoTransaction}
    BY <1>1, <1>3, <1>4 DEF Handles
  <2> QED BY <1>2, <2>1, <2>2 DEF ConnectionInv, TypeOK, Servers
<1>8. Shape'
  BY <1>2, <1>4, <1>5 DEF ConnectionInv, Shape, Free
<1>9. UnitsAreOpen'
  <2>1. \A w \in Works : /\ told[w] \notin {"obj", "call"}
                         /\ told[w] = "conn" => in_transaction
    BY <1>2 DEF ConnectionInv, UnitsAreOpen, Free
  <2>2. told' = told /\ in_transaction' = in_transaction
    BY <1>2
  <2> QED BY <2>1, <2>2 DEF UnitsAreOpen
<1> QED BY <1>2, <1>3, <1>6, <1>7, <1>8, <1>9 DEF ConnectionInv, UnitStep

\* What a failed end and the drop that follows leave of a transaction and its unit.
LEMMA FailedEnd ==
  ASSUME TypeOK, NEW d \in TrHandles, NEW D, NEW e \in Handles, NEW E, Apart(D, E),
         Custody(srv, d, D, e, E, orphans, told), NEW o \in Promise!Owners, Single(D, o),
         NEW op \in Ops, NEW r \in Ask(srv, op, d), ~r.ok, DropTr(r.srv, d),
         NEW v, told' = Settle(o, v),
         \/ op \in {"Commit", "CommitRetaining"} /\ v = Verdict(srv, r)
         \/ op \in {"Rollback", "RollbackRetaining"} /\ v = "undone"
  PROVE  /\ Custody(srv', NoTr, D, e, E, orphans', told')
         /\ orphans' \subseteq TrHandles
         /\ UnitStep
<1>1. v \in {"undone", "doubtful"} /\ v \in Verdicts
  BY DEF Verdict, Verdicts
<1>2. /\ Sound(srv) /\ Sound(r.srv)
      /\ \/ r.srv = srv
         \/ Lost(srv, r.srv) /\ r.srv.durable \in {srv.durable, srv.durable \cup Saved(srv, op, d)}
  <2>1. Sound(srv)
    BY DEF Custody
  <2> QED BY <2>1, AskOutcome
<1>3. Custody(r.srv, d, D, e, E, orphans, told)
  <2>1. CASE r.srv = srv
    BY <2>1
  <2>2. CASE Lost(srv, r.srv)
    BY <1>2, <2>2, CustodyDown DEF Lost, Handles
  <2> QED BY <1>2, <2>1, <2>2
<1>4. Settled(D, told, told', v)
  BY <1>1, Settling
<1>5. orphans \subseteq TrHandles
  BY DEF TypeOK
<1>6. /\ Custody(srv', NoTr, D, e, E, orphans', told')
      /\ srv'.durable = r.srv.durable
      /\ orphans' \subseteq TrHandles
  BY <1>1, <1>3, <1>4, <1>5, CustodyDropped
<1>7. \/ srv'.durable = srv.durable
      \/ srv.up /\ srv'.durable = srv.durable \cup srv.work[d] /\ v = "doubtful"
  <2>1. srv.durable \cup {} = srv.durable
    OBVIOUS
  <2>2. CASE op \in {"Commit", "CommitRetaining"}
    <3>1. Lost(srv, r.srv) => v = "doubtful"
      BY <2>2 DEF Lost, Verdict, Ops
    <3> QED BY <1>2, <1>6, <2>2, <3>1 DEF Lost, Saved
  <2>3. CASE op \notin {"Commit", "CommitRetaining"}
    BY <1>2, <1>6, <2>1, <2>3 DEF Saved
  <2> QED BY <2>2, <2>3
<1>8. Tended(srv, d, D, told)
  BY DEF Custody
<1>9. UnitStep
  BY <1>1, <1>2, <1>7, <1>8, UnitEnds
<1> QED BY <1>6, <1>9

\* What the drop of a live transaction leaves of it and its unit.
LEMMA DroppedLive ==
  ASSUME TypeOK, NEW d \in TrHandles, NEW D, NEW e \in Handles, NEW E, Apart(D, E),
         Custody(srv, d, D, e, E, orphans, told), NEW o \in Promise!Owners, Single(D, o),
         DropTr(srv, d), told' = Settle(o, "undone")
  PROVE  /\ Custody(srv', NoTr, D, e, E, orphans', told')
         /\ orphans' \subseteq TrHandles
         /\ UnitStep
<1>1. "undone" \in Verdicts /\ "undone" # "committed" /\ orphans \subseteq TrHandles
  BY DEF Verdicts, TypeOK
<1>2. Settled(D, told, told', "undone")
  BY <1>1, Settling
<1>3. /\ Custody(srv', NoTr, D, e, E, orphans', told')
      /\ srv'.durable = srv.durable
      /\ orphans' \subseteq TrHandles
  BY <1>1, <1>2, CustodyDropped
<1>4. Sound(srv) /\ Tended(srv, d, D, told)
  BY DEF Custody
<1>5. UnitStep
  BY <1>1, <1>3, <1>4, UnitEnds
<1> QED BY <1>3, <1>5

\* The unit of a live Transaction, for each way to hold one.
LEMMA Owners ==
  ASSUME ConnectionInv, tr.by # "none"
  PROVE  /\ tr.h \in TrHandles /\ iter = NoTr /\ phase = "open"
         /\ Owner \in Promise!Owners
         /\ InCall => /\ Single(ConnUnits, Owner) /\ def_tr = NoTr /\ DefaultTr = tr.h /\ ObjectTr = NoTr
                      /\ tr.auto <=> ~in_transaction
                      /\ Owner = IF tr.auto THEN "call" ELSE "conn"
         /\ ~InCall => /\ Single(ObjUnits, Owner) /\ tr.by = "object" /\ Owner = "obj"
                       /\ DefaultTr = def_tr /\ ObjectTr = tr.h
                       /\ \A w \in Works : told[w] # "call"
<1>1. TypeOK /\ Shape /\ UnitsAreOpen
  BY DEF ConnectionInv
<1>2. /\ tr.h \in TrHandles /\ iter = NoTr /\ phase = "open"
      /\ tr.by \in {"closure", "execute", "object"}
  BY <1>1, Holders DEF Shape, TypeOK
<1>3. Owner \in Promise!Owners
  BY DEF Owner, Promise!Owners
<1>4. ASSUME InCall
      PROVE  /\ Single(ConnUnits, Owner) /\ def_tr = NoTr /\ DefaultTr = tr.h /\ ObjectTr = NoTr
             /\ tr.auto <=> ~in_transaction
             /\ Owner = IF tr.auto THEN "call" ELSE "conn"
  <2>1. def_tr = NoTr /\ DefaultTr = tr.h /\ ObjectTr = NoTr /\ (tr.auto <=> ~in_transaction)
    BY <1>1, <1>4 DEF Shape, InCall, DefaultTr, ObjectTr
  <2>2. Owner = IF tr.auto THEN "call" ELSE "conn"
    BY <1>4 DEF Owner, InCall
  <2>3. CASE tr.auto
    BY <1>1, <2>1, <2>2, <2>3 DEF Single, ConnUnits, UnitsAreOpen
  <2>4. CASE ~tr.auto
    BY <1>1, <2>1, <2>2, <2>4 DEF Single, ConnUnits, UnitsAreOpen
  <2> QED BY <2>1, <2>2, <2>3, <2>4
<1>5. ASSUME ~InCall
      PROVE  /\ Single(ObjUnits, Owner) /\ tr.by = "object" /\ Owner = "obj"
             /\ DefaultTr = def_tr /\ ObjectTr = tr.h
             /\ \A w \in Works : told[w] # "call"
  BY <1>1, <1>2, <1>5 DEF Single, ObjUnits, Owner, InCall, DefaultTr, ObjectTr, UnitsAreOpen
<1> QED BY <1>2, <1>3, <1>4, <1>5

\* with_transaction ends: the transaction goes back to the Connection, is ended, or is
\* given up.
LEMMA ClosureReturnStep ==
  ConnectionInv /\ (\E res \in {"ok", "err"} : ClosureReturn(res)) => ConnectionInv' /\ UnitStep
<1> SUFFICES ASSUME ConnectionInv, NEW res \in {"ok", "err"}, ClosureReturn(res)
             PROVE  ConnectionInv' /\ UnitStep
  OBVIOUS
<1>1. /\ InCall /\ tr.by # "none" /\ tr' = NoTransaction
      /\ UNCHANGED <<in_transaction, iter, phase, socket>>
  BY DEF ClosureReturn, InCall
<1>2. /\ tr.h \in TrHandles /\ iter = NoTr /\ phase = "open" /\ def_tr = NoTr
      /\ DefaultTr = tr.h /\ ObjectTr = NoTr
      /\ Owner \in Promise!Owners /\ Single(ConnUnits, Owner)
      /\ Owner = IF tr.auto THEN "call" ELSE "conn"
      /\ tr.auto <=> ~in_transaction
  BY <1>1, Owners
<1>3. TypeOK /\ Custody(srv, tr.h, ConnUnits, NoTr, ObjUnits, orphans, told) /\ NoTr \in Handles
  BY <1>2 DEF ConnectionInv, Handles
<1>4. DefaultTr' = def_tr' /\ ObjectTr' = NoTr
  BY <1>1 DEF DefaultTr, ObjectTr, NoTransaction
<1>5. SUFFICES /\ Custody(srv', def_tr', ConnUnits, NoTr, ObjUnits, orphans', told')
               /\ def_tr' \in Handles
               /\ told' \in [Works -> Promise!Tellings]
               /\ orphans' \subseteq TrHandles
               /\ \A w \in Works : /\ told'[w] \notin {"obj", "call"}
                                   /\ told'[w] = "conn" => in_transaction
               /\ UnitStep
  <2>1. Custody(srv, DefaultTr, ConnUnits, ObjectTr, ObjUnits, orphans, told)'
    BY <1>4, <1>5
  <2>2. TypeOK'
    <3>1. srv' \in Servers
      BY <1>5 DEF Custody, Sound
    <3> QED BY <1>1, <1>3, <1>5, <3>1 DEF TypeOK, Handles, Servers
  <2>3. Shape'
    BY <1>1, <1>2 DEF Shape, NoTransaction
  <2>4. UnitsAreOpen'
    BY <1>1, <1>5 DEF UnitsAreOpen
  <2> QED BY <1>5, <2>1, <2>2, <2>3, <2>4 DEF ConnectionInv
<1>6. CASE ~tr.auto
  <2>1. def_tr' = tr.h /\ UNCHANGED <<srv, told, orphans>>
    BY <1>6 DEF ClosureReturn
  <2>2. \A w \in Works : /\ told[w] \notin {"obj", "call"}
                         /\ told[w] = "conn" => in_transaction
    BY <1>1, <1>2, <1>6 DEF ConnectionInv, UnitsAreOpen, InCall
  <2> QED BY <1>2, <1>3, <2>1, <2>2 DEF UnitStep, TypeOK, Handles
<1>7. CASE tr.auto
  <2> DEFINE op == IF res = "ok" THEN "CommitRetaining" ELSE "RollbackRetaining"
  <2>0. Owner = "call" /\ op \in Ops
    BY <1>2, <1>7 DEF Ops
  <2>1. \A w \in Works : /\ told[w] # "obj"
                         /\ told[w] = "conn" => in_transaction
    BY <1>1 DEF ConnectionInv, UnitsAreOpen, InCall
  <2>2. PICK r \in Ask(srv, op, tr.h) :
          \/ /\ r.ok
             /\ srv' = r.srv
             /\ def_tr' = tr.h
             /\ told' = Settle("call", IF res = "ok" THEN "committed" ELSE "undone")
             /\ UNCHANGED orphans
          \/ /\ ~r.ok
             /\ DropTr(r.srv, tr.h)
             /\ def_tr' = NoTr
             /\ told' = Settle("call", IF res = "ok" THEN Verdict(srv, r) ELSE "undone")
    BY <1>7 DEF ClosureReturn
  <2>3. PICK v \in Verdicts : told' = Settle("call", v)
    BY <2>2 DEF Verdicts, Verdict
  <2>4. /\ told' \in [Works -> Promise!Tellings]
        /\ \A w \in Works : told'[w] = IF told[w] = "call" THEN v ELSE told[w]
    BY <1>2, <1>3, <2>0, <2>3, Settling
  <2>5. \A w \in Works : /\ told'[w] \notin {"obj", "call"}
                         /\ told'[w] = "conn" => in_transaction
    BY <2>1, <2>4 DEF Verdicts
  <2>6. CASE /\ r.ok /\ srv' = r.srv /\ def_tr' = tr.h /\ UNCHANGED orphans
             /\ told' = Settle("call", IF res = "ok" THEN "committed" ELSE "undone")
    <3> DEFINE u == IF res = "ok" THEN "committed" ELSE "undone"
    <3>1. told' = Settle("call", IF r.ok THEN u ELSE "doubtful")
      BY <2>6
    <3>2. \/ op = "CommitRetaining" /\ u = "committed"
          \/ op = "RollbackRetaining" /\ u = "undone"
      OBVIOUS
    <3> HIDE DEF op, u
    <3>3. Custody(srv', tr.h, ConnUnits, NoTr, ObjUnits, orphans, told') /\ UnitStep
      BY <1>2, <1>3, <2>0, <2>6, <3>1, <3>2, UnitsApart, Retained
    <3> QED BY <1>2, <1>3, <2>4, <2>5, <2>6, <3>3 DEF TypeOK, Handles
  <2>7. CASE /\ ~r.ok /\ DropTr(r.srv, tr.h) /\ def_tr' = NoTr
             /\ told' = Settle("call", IF res = "ok" THEN Verdict(srv, r) ELSE "undone")
    <3> DEFINE u == IF res = "ok" THEN Verdict(srv, r) ELSE "undone"
    <3>1. told' = Settle("call", u)
      BY <2>7
    <3>2. \/ op \in {"Commit", "CommitRetaining"} /\ u = Verdict(srv, r)
          \/ op \in {"Rollback", "RollbackRetaining"} /\ u = "undone"
      OBVIOUS
    <3> HIDE DEF op, u
    <3>3. /\ Custody(srv', NoTr, ConnUnits, NoTr, ObjUnits, orphans', told')
          /\ orphans' \subseteq TrHandles /\ UnitStep
      BY <1>2, <1>3, <2>0, <2>7, <3>1, <3>2, UnitsApart, FailedEnd
    <3> QED BY <1>3, <2>4, <2>5, <2>7, <3>3
  <2> QED BY <2>2, <2>6, <2>7
<1> QED BY <1>6, <1>7

\* A closure panics: its transaction is given up.
LEMMA ClosurePanicsStep == ConnectionInv /\ ClosurePanics => ConnectionInv' /\ UnitStep
<1> SUFFICES ASSUME ConnectionInv, ClosurePanics PROVE ConnectionInv' /\ UnitStep
  OBVIOUS
<1>1. /\ InCall /\ tr.by # "none" /\ tr' = NoTransaction
      /\ UNCHANGED <<def_tr, in_transaction, iter, phase, socket>>
      /\ DropTr(srv, tr.h) /\ told' = Settle(Owner, "undone")
  BY DEF ClosurePanics, InCall
<1>2. /\ tr.h \in TrHandles /\ iter = NoTr /\ phase = "open" /\ def_tr = NoTr
      /\ DefaultTr = tr.h /\ ObjectTr = NoTr
      /\ Owner \in Promise!Owners /\ Single(ConnUnits, Owner)
      /\ Owner = IF tr.auto THEN "call" ELSE "conn"
      /\ tr.auto <=> ~in_transaction
  BY <1>1, Owners
<1>3. TypeOK /\ Custody(srv, tr.h, ConnUnits, NoTr, ObjUnits, orphans, told) /\ NoTr \in Handles
  BY <1>2 DEF ConnectionInv, Handles
<1>4. /\ Custody(srv', NoTr, ConnUnits, NoTr, ObjUnits, orphans', told')
      /\ orphans' \subseteq TrHandles /\ UnitStep
  BY <1>1, <1>2, <1>3, UnitsApart, DroppedLive
<1>5. "undone" \in Verdicts
  BY DEF Verdicts
<1>6. /\ told' \in [Works -> Promise!Tellings]
      /\ \A w \in Works : told'[w] = IF told[w] = Owner THEN "undone" ELSE told[w]
  BY <1>1, <1>2, <1>3, <1>5, Settling
<1>7. DefaultTr' = NoTr /\ ObjectTr' = NoTr
  BY <1>1, <1>2 DEF DefaultTr, ObjectTr, NoTransaction
<1>8. Custody(srv, DefaultTr, ConnUnits, ObjectTr, ObjUnits, orphans, told)'
  BY <1>4, <1>7
<1>9. TypeOK'
  <2>1. srv' \in Servers
    BY <1>4 DEF Custody, Sound
  <2> QED BY <1>1, <1>3, <1>4, <1>6, <2>1 DEF TypeOK, Servers
<1>10. Shape'
  BY <1>1, <1>2 DEF Shape, NoTransaction
<1>11. UnitsAreOpen'
  <2>1. \A w \in Works : told[w] # "obj" /\ (told[w] = "conn" => in_transaction)
    BY <1>1 DEF ConnectionInv, UnitsAreOpen, InCall
  <2>2. \A w \in Works : told[w] \in ConnUnits => told[w] = Owner
    BY <1>2 DEF Single
  <2> QED BY <1>1, <1>6, <2>1, <2>2 DEF UnitsAreOpen, ConnUnits
<1> QED BY <1>4, <1>8, <1>9, <1>10, <1>11 DEF ConnectionInv

\* A Transaction object begins a transaction of its own.
LEMMA TransactionNewStep ==
  ConnectionInv /\ (\E c \in Confs : TransactionNew(c)) => ConnectionInv' /\ UnitStep
<1> SUFFICES ASSUME ConnectionInv, NEW c \in Confs, TransactionNew(c) PROVE ConnectionInv' /\ UnitStep
  OBVIOUS
<1>1. Free /\ ~InCall /\ UNCHANGED <<def_tr, in_transaction, iter, phase, socket, told, orphans>>
  BY DEF TransactionNew, Free, InCall
<1>2. PICK t \in BeginTr(srv, c) :
        /\ srv' = t.srv
        /\ tr' = IF t.ok THEN [by |-> "object", h |-> t.h, auto |-> FALSE, res |-> "none"]
                 ELSE NoTransaction
  BY DEF TransactionNew
<1>3. /\ TypeOK /\ DefaultTr = def_tr /\ def_tr \in Handles /\ ObjectTr = NoTr
      /\ Custody(srv, NoTr, ObjUnits, def_tr, ConnUnits, orphans, told)
  BY <1>1, CustodySwap DEF ConnectionInv, DefaultTr, ObjectTr, InCall, TypeOK, Handles, Free
<1>4. Sound(srv)
  BY <1>3 DEF Custody
<1>5. /\ Sound(t.srv) /\ t.srv.durable = srv.durable
      /\ \/ ~t.ok /\ t.h = NoTr /\ t.srv = srv
         \/ ~t.ok /\ t.h = NoTr /\ Lost(srv, t.srv)
         \/ t.ok /\ Begun(srv, t.srv, t.h)
  BY <1>4, BeginOutcome
<1>6. t.ok => t.h \in TrHandles
  BY <1>5 DEF Begun
<1>7. Custody(t.srv, t.h, ObjUnits, def_tr, ConnUnits, orphans, told)
  <2>1. CASE ~t.ok /\ t.h = NoTr /\ t.srv = srv
    BY <1>3, <2>1
  <2>2. CASE ~t.ok /\ t.h = NoTr /\ Lost(srv, t.srv)
    BY <1>3, <1>5, <2>2, CustodyDown DEF Lost, Handles
  <2>3. CASE t.ok /\ Begun(srv, t.srv, t.h)
    BY <1>3, <1>5, <2>3, CustodyBegun
  <2> QED BY <1>5, <2>1, <2>2, <2>3
<1>8. DefaultTr' = def_tr /\ ObjectTr' = t.h
  BY <1>1, <1>2, <1>5 DEF DefaultTr, ObjectTr, NoTransaction
<1>9. Custody(srv, DefaultTr, ConnUnits, ObjectTr, ObjUnits, orphans, told)'
  BY <1>1, <1>2, <1>7, <1>8, CustodySwap
<1>10. TypeOK'
  <2>1. srv' \in Servers
    BY <1>2, <1>5 DEF Sound
  <2>2. tr' \in [by : {"closure", "execute", "object"}, h : TrHandles, auto : BOOLEAN,
                 res : {"none", "ok", "err"}] \cup {NoTransaction}
    BY <1>2, <1>6
  <2> QED BY <1>1, <1>3, <2>1, <2>2 DEF TypeOK, Servers
<1>11. tr'.by \in {"none", "object"}
  BY <1>2 DEF NoTransaction
<1>12. Shape'
  BY <1>1, <1>11 DEF ConnectionInv, Shape, Free
<1>13. UnitsAreOpen'
  <2>1. \A w \in Works : /\ told[w] \notin {"obj", "call"}
                         /\ told[w] = "conn" => in_transaction
    BY <1>1 DEF ConnectionInv, UnitsAreOpen, Free
  <2>2. told' = told /\ in_transaction' = in_transaction
    BY <1>1
  <2> QED BY <2>1, <2>2 DEF UnitsAreOpen
<1> QED BY <1>1, <1>2, <1>5, <1>9, <1>10, <1>12, <1>13 DEF ConnectionInv, UnitStep

\* A Transaction object ends: by commit, rollback, or its drop.
LEMMA ObjectEndsStep ==
  ConnectionInv /\ (TransactionCommit \/ TransactionRollback) => ConnectionInv' /\ UnitStep
<1> SUFFICES ASSUME ConnectionInv, TransactionCommit \/ TransactionRollback
             PROVE  ConnectionInv' /\ UnitStep
  OBVIOUS
<1>1. /\ ~InCall /\ tr.by = "object" /\ tr' = NoTransaction
      /\ UNCHANGED <<def_tr, in_transaction, iter, phase, socket>>
  BY DEF TransactionCommit, TransactionRollback, InCall
<1>2. /\ tr.h \in TrHandles /\ iter = NoTr /\ phase = "open"
      /\ DefaultTr = def_tr /\ ObjectTr = tr.h
      /\ "obj" \in Promise!Owners /\ Single(ObjUnits, "obj")
      /\ \A w \in Works : told[w] # "call"
  BY <1>1, Owners
<1>3. TypeOK /\ Custody(srv, tr.h, ObjUnits, def_tr, ConnUnits, orphans, told)
  BY <1>2, CustodySwap DEF ConnectionInv
<1>4. def_tr \in Handles
  BY <1>3 DEF TypeOK, Handles
<1>5. /\ Custody(srv', NoTr, ObjUnits, def_tr, ConnUnits, orphans', told')
      /\ orphans' \subseteq TrHandles
      /\ UnitStep
      /\ \E v \in Verdicts : told' = Settle("obj", v)
  <2>1. CASE TransactionRollback
    <3>1. DropTr(srv, tr.h) /\ told' = Settle("obj", "undone")
      BY <2>1 DEF TransactionRollback
    <3> QED BY <1>2, <1>3, <1>4, <3>1, UnitsApart, DroppedLive DEF Verdicts
  <2>2. CASE TransactionCommit
    <3>1. PICK r \in Ask(srv, "Commit", tr.h) :
            \/ /\ r.ok
               /\ srv' = r.srv
               /\ told' = Settle("obj", "committed")
               /\ UNCHANGED orphans
            \/ /\ ~r.ok
               /\ DropTr(r.srv, tr.h)
               /\ told' = Settle("obj", Verdict(srv, r))
      BY <2>2 DEF TransactionCommit
    <3>2. "Commit" \in Ops /\ Sound(srv) /\ Tended(srv, tr.h, ObjUnits, told)
          /\ "committed" \in Verdicts /\ Verdict(srv, r) \in Verdicts
      BY <1>3 DEF Ops, Custody, Verdict, Verdicts
    <3>3. CASE ~r.ok
      <4>1. DropTr(r.srv, tr.h) /\ told' = Settle("obj", Verdict(srv, r))
        BY <3>1, <3>3
      <4> QED BY <1>2, <1>3, <1>4, <3>2, <3>3, <4>1, UnitsApart, FailedEnd
    <3>4. CASE r.ok
      <4>1. srv' = r.srv /\ told' = Settle("obj", "committed") /\ UNCHANGED orphans
        BY <3>1, <3>4
      <4>2. Sound(r.srv) /\ Performed(srv, r.srv, "Commit", tr.h)
        BY <1>2, <3>2, <3>4, AskOutcome
      <4>3. Settled(ObjUnits, told, told', "committed")
        BY <1>2, <1>3, <3>2, <4>1, Settling
      <4>4. Custody(r.srv, NoTr, ObjUnits, def_tr, ConnUnits, orphans, told')
        BY <1>2, <1>3, <1>4, <3>2, <4>2, <4>3, UnitsApart, CustodyEnded
      <4>5. srv.up /\ srv'.durable = srv.durable \cup srv.work[tr.h]
        BY <4>1, <4>2 DEF Performed, Saved
      <4>6. "committed" # "undone"
        OBVIOUS
      <4>7. UnitStep
        BY <1>2, <1>3, <3>2, <4>1, <4>5, <4>6, UnitEnds
      <4> QED BY <1>3, <3>2, <4>1, <4>4, <4>7 DEF TypeOK
    <3> QED BY <3>3, <3>4
  <2> QED BY <2>1, <2>2
<1>6. PICK v \in Verdicts : told' = Settle("obj", v)
  BY <1>5
<1>7. /\ told' \in [Works -> Promise!Tellings]
      /\ \A w \in Works : told'[w] = IF told[w] = "obj" THEN v ELSE told[w]
  BY <1>2, <1>3, <1>6, Settling
<1>8. DefaultTr' = def_tr /\ ObjectTr' = NoTr
  BY <1>1 DEF DefaultTr, ObjectTr, NoTransaction
<1>9. Custody(srv, DefaultTr, ConnUnits, ObjectTr, ObjUnits, orphans, told)'
  BY <1>5, <1>8, CustodySwap
<1>10. TypeOK'
  <2>1. srv' \in Servers
    BY <1>5 DEF Custody, Sound
  <2> QED BY <1>1, <1>3, <1>5, <1>7, <2>1 DEF TypeOK, Servers
<1>11. Shape'
  BY <1>1, <1>2 DEF ConnectionInv, Shape, NoTransaction
<1>12. UnitsAreOpen'
  <2>1. \A w \in Works : told[w] = "conn" => in_transaction
    BY DEF ConnectionInv, UnitsAreOpen
  <2> QED BY <1>1, <1>2, <1>7, <2>1 DEF UnitsAreOpen, Verdicts
<1> QED BY <1>5, <1>9, <1>10, <1>11, <1>12 DEF ConnectionInv

\* commit_retaining and rollback_retaining of a Transaction.
LEMMA TrRetainStep ==
  ConnectionInv /\ (TrRetain("CommitRetaining", "committed") \/ TrRetain("RollbackRetaining", "undone"))
    => ConnectionInv' /\ UnitStep
<1> SUFFICES ASSUME ConnectionInv,
                    NEW op, NEW v, \/ op = "CommitRetaining" /\ v = "committed"
                                   \/ op = "RollbackRetaining" /\ v = "undone",
                    TrRetain(op, v)
             PROVE  ConnectionInv' /\ UnitStep
  OBVIOUS
<1>1. /\ tr.by \in {"closure", "object"} /\ tr.by # "none"
      /\ UNCHANGED <<def_tr, in_transaction, tr, iter, phase, socket, orphans>>
  BY DEF TrRetain
<1>2. PICK r \in Ask(srv, op, tr.h) :
        srv' = r.srv /\ told' = Settle(Owner, IF r.ok THEN v ELSE "doubtful")
  BY DEF TrRetain
<1>3. tr.h \in TrHandles /\ Owner \in Promise!Owners /\ TypeOK
  BY <1>1, Owners DEF ConnectionInv
<1>4. /\ Custody(srv', DefaultTr, ConnUnits, ObjectTr, ObjUnits, orphans, told')
      /\ UnitStep
      /\ Single(ConnUnits, Owner) \/ Single(ObjUnits, Owner)
  <2>1. CASE InCall
    <3>1. /\ Single(ConnUnits, Owner) /\ DefaultTr = tr.h /\ ObjectTr \in Handles
          /\ Custody(srv, tr.h, ConnUnits, ObjectTr, ObjUnits, orphans, told)
      BY <1>1, <1>3, <2>1, Owners, Holders DEF ConnectionInv
    <3>2. Custody(srv', tr.h, ConnUnits, ObjectTr, ObjUnits, orphans, told') /\ UnitStep
      BY <1>2, <1>3, <3>1, UnitsApart, Retained
    <3> QED BY <3>1, <3>2
  <2>2. CASE ~InCall
    <3>1. /\ Single(ObjUnits, Owner) /\ ObjectTr = tr.h /\ DefaultTr \in Handles
          /\ Custody(srv, tr.h, ObjUnits, DefaultTr, ConnUnits, orphans, told)
      BY <1>1, <1>3, <2>2, Owners, Holders, CustodySwap DEF ConnectionInv
    <3>2. Custody(srv', tr.h, ObjUnits, DefaultTr, ConnUnits, orphans, told') /\ UnitStep
      BY <1>2, <1>3, <3>1, UnitsApart, Retained
    <3> QED BY <3>1, <3>2, CustodySwap
  <2> QED BY <2>1, <2>2
<1>5. /\ told' \in [Works -> Promise!Tellings]
      /\ \A w \in Works : told'[w] = told[w] \/ told'[w] \in Verdicts
  <2>1. (IF r.ok THEN v ELSE "doubtful") \in Verdicts
    BY DEF Verdicts
  <2>2. PICK D \in {ConnUnits, ObjUnits} : Single(D, Owner)
    BY <1>4
  <2> QED BY <1>2, <1>3, <2>1, <2>2, Settling
<1>6. DefaultTr' = DefaultTr /\ ObjectTr' = ObjectTr
  BY <1>1 DEF DefaultTr, ObjectTr
<1>7. Custody(srv, DefaultTr, ConnUnits, ObjectTr, ObjUnits, orphans, told)'
  BY <1>1, <1>4, <1>6
<1>8. TypeOK'
  <2>1. srv' \in Servers
    BY <1>4 DEF Custody, Sound
  <2> QED BY <1>1, <1>3, <1>5, <2>1 DEF TypeOK, Servers
<1>9. Shape'
  BY <1>1 DEF ConnectionInv, Shape
<1>10. UnitsAreOpen'
  BY <1>1, <1>5 DEF ConnectionInv, UnitsAreOpen, Verdicts
<1> QED BY <1>4, <1>7, <1>8, <1>9, <1>10 DEF ConnectionInv

\* A statement run in transaction d, from a server s that holds what the Connection
\* does, stays in the custody of d.
LEMMA StatementRuns ==
  ASSUME NEW s, NEW d \in TrHandles, NEW D, NEW e \in Handles, NEW E, Apart(D, E),
         Custody(s, d, D, e, E, orphans, told), NEW w \in Works, told[w] = "new",
         NEW r \in Run(s, d, w), NEW tell, \A x \in Works : x # w => tell[x] = told[x],
         r.done => tell[w] \in D \cup {"doubtful"}, ~r.done => tell[w] = "undone"
  PROVE  Custody(r.srv, d, D, e, E, orphans, tell) /\ r.srv.durable = s.durable
<1>1. Sound(s)
  BY DEF Custody
<1>2. /\ Sound(r.srv) /\ r.srv.durable = s.durable
      /\ \/ ~r.ok /\ ~r.done /\ r.srv = s
         \/ ~r.ok /\ ~r.done /\ Lost(s, r.srv)
         \/ r.done /\ Ran(s, r.srv, d, w)
  BY <1>1, RunOutcome
<1>3. CASE ~r.done /\ r.srv = s
  <2>1. d \in Handles /\ tell[w] = "undone"
    BY <1>3 DEF Handles
  <2> QED BY <1>2, <1>3, <2>1, CustodyIdle
<1>4. CASE Lost(s, r.srv)
  BY <1>2, <1>4, CustodyDown DEF Lost, Handles
<1>5. CASE r.done /\ Ran(s, r.srv, d, w)
  <2>1. tell[w] \in D \cup {"doubtful"} /\ Sound(r.srv)
    BY <1>2, <1>5
  <2>2. Custody(r.srv, d, D, e, E, orphans, tell)
    BY <1>5, <2>1, CustodyRan
  <2> QED BY <1>2, <2>2
<1> QED BY <1>2, <1>3, <1>4, <1>5

\* An execution that the application is told of is one of UnitsOfWork.
LEMMA StatementTold ==
  ASSUME TypeOK, NEW w \in Works, told[w] = "new",
         NEW v \in Promise!Owners \cup {"undone", "doubtful"}, told' = [told EXCEPT ![w] = v],
         srv'.durable = srv.durable
  PROVE  /\ UnitStep
         /\ told' \in [Works -> Promise!Tellings]
         /\ told'[w] = v /\ \A x \in Works : x # w => told'[x] = told[x]
<1>1. Promise!Execute(w)
  BY DEF Promise!Execute
<1>2. UnitStep
  BY <1>1 DEF UnitStep, Promise!Next
<1>3. v \in Promise!Tellings
  BY DEF Promise!Tellings, Promise!Owners, Promise!Verdicts
<1> QED BY <1>2, <1>3 DEF TypeOK

\* A Transaction runs a statement.
LEMMA TrExecuteStep ==
  ConnectionInv /\ (\E w \in Works : TrExecute(w)) => ConnectionInv' /\ UnitStep
<1> SUFFICES ASSUME ConnectionInv, NEW w \in Works, TrExecute(w) PROVE ConnectionInv' /\ UnitStep
  OBVIOUS
<1>1. /\ tr.by # "none" /\ told[w] = "new"
      /\ UNCHANGED <<def_tr, in_transaction, iter, phase, socket, orphans>>
  BY DEF TrExecute
<1>2. PICK r \in Run(srv, tr.h, w) :
        /\ srv' = r.srv
        /\ told' = [told EXCEPT ![w] = Report(r, Owner)]
        /\ tr' = [tr EXCEPT !.res = IF tr.by # "execute" THEN @ ELSE IF r.ok THEN "ok" ELSE "err"]
  BY DEF TrExecute
<1>3. /\ tr.h \in TrHandles /\ iter = NoTr /\ phase = "open" /\ Owner \in Promise!Owners
      /\ TypeOK /\ DefaultTr \in Handles /\ ObjectTr \in Handles
  BY <1>1, Owners, Holders DEF ConnectionInv
<1>4. /\ tr \in [by : {"closure", "execute", "object"}, h : TrHandles, auto : BOOLEAN,
                 res : {"none", "ok", "err"}]
      /\ tr' \in [by : {"closure", "execute", "object"}, h : TrHandles, auto : BOOLEAN,
                  res : {"none", "ok", "err"}]
      /\ tr'.by = tr.by /\ tr'.h = tr.h /\ tr'.auto = tr.auto
  <2>1. tr \in [by : {"closure", "execute", "object"}, h : TrHandles, auto : BOOLEAN,
                res : {"none", "ok", "err"}]
    BY <1>1, <1>3 DEF TypeOK, NoTransaction
  <2> QED BY <1>2, <2>1
<1> DEFINE v == Report(r, Owner)
<1>5. IF r.done THEN v \in {Owner, "doubtful"} ELSE v = "undone"
  BY DEF Report
<1>6. v \in Promise!Owners \cup {"undone", "doubtful"}
  BY <1>3, <1>5
<1>21. told' = [told EXCEPT ![w] = v]
  BY <1>2
<1>22. told'[w] = v /\ \A x \in Works : x # w => told'[x] = told[x]
  BY <1>3, <1>21 DEF TypeOK
<1> HIDE DEF v
<1>7. /\ Custody(srv', DefaultTr, ConnUnits, ObjectTr, ObjUnits, orphans, told')
      /\ srv'.durable = srv.durable
  <2>1. CASE InCall
    <3>1. /\ Owner \in ConnUnits /\ DefaultTr = tr.h
          /\ Custody(srv, tr.h, ConnUnits, ObjectTr, ObjUnits, orphans, told)
      BY <1>1, <2>1, Owners DEF ConnectionInv, Single
    <3>2. /\ r.done => told'[w] \in ConnUnits \cup {"doubtful"}
          /\ ~r.done => told'[w] = "undone"
      BY <1>5, <1>22, <3>1
    <3>3. /\ Custody(r.srv, tr.h, ConnUnits, ObjectTr, ObjUnits, orphans, told')
          /\ r.srv.durable = srv.durable
      BY <1>1, <1>3, <1>22, <3>1, <3>2, UnitsApart, StatementRuns
    <3> QED BY <1>2, <3>1, <3>3
  <2>2. CASE ~InCall
    <3>1. /\ Owner \in ObjUnits /\ ObjectTr = tr.h
          /\ Custody(srv, tr.h, ObjUnits, DefaultTr, ConnUnits, orphans, told)
      BY <1>1, <2>2, Owners, CustodySwap DEF ConnectionInv, Single
    <3>2. /\ r.done => told'[w] \in ObjUnits \cup {"doubtful"}
          /\ ~r.done => told'[w] = "undone"
      BY <1>5, <1>22, <3>1
    <3>3. /\ Custody(r.srv, tr.h, ObjUnits, DefaultTr, ConnUnits, orphans, told')
          /\ r.srv.durable = srv.durable
      BY <1>1, <1>3, <1>22, <3>1, <3>2, UnitsApart, StatementRuns
    <3> QED BY <1>2, <3>1, <3>3, CustodySwap
  <2> QED BY <2>1, <2>2
<1>8. /\ UnitStep
      /\ told' \in [Works -> Promise!Tellings]
      /\ told'[w] = v /\ \A x \in Works : x # w => told'[x] = told[x]
  BY <1>1, <1>3, <1>6, <1>7, <1>21, StatementTold
<1>9. DefaultTr' = DefaultTr /\ ObjectTr' = ObjectTr
  BY <1>1, <1>4 DEF DefaultTr, ObjectTr
<1>10. Custody(srv, DefaultTr, ConnUnits, ObjectTr, ObjUnits, orphans, told)'
  BY <1>1, <1>7, <1>9
<1>11. TypeOK'
  <2>1. srv' \in Servers
    BY <1>7 DEF Custody, Sound
  <2> QED BY <1>1, <1>3, <1>4, <1>8, <2>1 DEF TypeOK, Servers
<1>12. Shape'
  BY <1>1, <1>3, <1>4 DEF ConnectionInv, Shape
<1>13. UnitsAreOpen'
  <2>1. /\ v = "obj" => tr.by = "object"
        /\ v = "conn" => in_transaction
        /\ v = "call" => ~in_transaction /\ InCall
    BY <1>1, <1>5, Owners
  <2> QED BY <1>1, <1>4, <1>8, <2>1 DEF ConnectionInv, UnitsAreOpen, InCall
<1> QED BY <1>8, <1>10, <1>11, <1>12, <1>13 DEF ConnectionInv

\* A failed query outside an explicit transaction is undone, or in doubt.
LEMMA QueryUndone ==
  ASSUME TypeOK, NEW s, NEW d \in TrHandles, NEW D, NEW e \in Handles, NEW E, Apart(D, E), D # {},
         Custody(s, d, D, e, E, orphans, told), \A x \in Works : told[x] \notin D,
         NEW w \in Works, told[w] = "new", NEW r \in Run(s, d, w),
         NEW b \in Ask(r.srv, "RollbackRetaining", d), NEW tell,
         \A x \in Works : x # w => tell[x] = told[x],
         tell[w] = IF r.done /\ ~b.ok THEN "doubtful" ELSE "undone"
  PROVE  Custody(b.srv, d, D, e, E, orphans, tell) /\ b.srv.durable = s.durable
<1>1. PICK o \in D : TRUE
  OBVIOUS
<1> DEFINE mid == [x \in Works |-> IF x # w THEN told[x] ELSE IF r.done THEN o ELSE "undone"]
<1>2. /\ \A x \in Works : x # w => mid[x] = told[x]
      /\ r.done => mid[w] \in D \cup {"doubtful"}
      /\ ~r.done => mid[w] = "undone"
  BY <1>1
<1>3. /\ \A x \in Works : x # w => mid[x] \notin D
      /\ mid[w] \in D <=> r.done
  BY <1>1 DEF Apart, Verdicts
<1> HIDE DEF mid
<1>4. Custody(r.srv, d, D, e, E, orphans, mid) /\ r.srv.durable = s.durable
  BY <1>2, StatementRuns
<1>5. Sound(r.srv) /\ d \in Handles
  BY <1>4 DEF Custody, Handles
<1>6. /\ Sound(b.srv)
      /\ b.srv.durable = r.srv.durable
      /\ \/ ~b.ok /\ b.srv = r.srv
         \/ b.ok /\ Performed(r.srv, b.srv, "RollbackRetaining", d)
         \/ ~b.ok /\ Lost(r.srv, b.srv)
  BY <1>5, RollbackOutcome
<1>7. CASE ~b.ok /\ b.srv = r.srv
  <2>1. Settled(D, mid, tell, "doubtful")
    BY <1>2, <1>3, <1>7 DEF Settled
  <2> QED BY <1>4, <1>5, <1>7, <2>1, CustodyRefused
<1>8. CASE b.ok /\ Performed(r.srv, b.srv, "RollbackRetaining", d)
  <2>1. Settled(D, mid, tell, "undone") /\ "undone" \in Verdicts
    BY <1>2, <1>3, <1>8 DEF Settled, Verdicts
  <2>2. Custody(b.srv, d, D, e, E, orphans, tell)
    BY <1>4, <1>6, <1>8, <2>1, CustodyRetained
  <2> QED BY <1>4, <1>6, <2>2
<1>9. CASE ~b.ok /\ Lost(r.srv, b.srv)
  BY <1>4, <1>5, <1>6, <1>9, CustodyDown DEF Lost
<1> QED BY <1>6, <1>7, <1>8, <1>9

\* query_iter opens its cursor, or cleans up behind a statement that failed.
LEMMA QueryIterStep ==
  ConnectionInv /\ (\E w \in Works : QueryIter(w)) => ConnectionInv' /\ UnitStep
<1> SUFFICES ASSUME ConnectionInv, NEW w \in Works, QueryIter(w) PROVE ConnectionInv' /\ UnitStep
  OBVIOUS
<1>1. /\ Free /\ ~InCall /\ told[w] = "new" /\ TypeOK
      /\ UNCHANGED <<in_transaction, tr, phase, socket, orphans>>
  BY DEF QueryIter, Free, InCall, ConnectionInv
<1>2. PICK t \in TakeTr(DefConf) :
        /\ def_tr' = t.h
        /\ \/ /\ ~t.ok
              /\ srv' = t.srv
              /\ UNCHANGED <<told, iter>>
           \/ /\ t.ok
              /\ \E r \in Run(t.srv, t.h, w) :
                   \/ /\ r.ok
                      /\ iter' = t.h
                      /\ srv' = r.srv
                      /\ told' = [told EXCEPT ![w] = IF in_transaction THEN "conn" ELSE "call"]
                   \/ /\ ~r.ok /\ in_transaction
                      /\ srv' = r.srv
                      /\ told' = [told EXCEPT ![w] = Report(r, "conn")]
                      /\ UNCHANGED iter
                   \/ /\ ~r.ok /\ ~in_transaction
                      /\ \E b \in Ask(r.srv, "RollbackRetaining", t.h) :
                           /\ srv' = b.srv
                           /\ told' = [told EXCEPT ![w] = IF r.done /\ ~b.ok THEN "doubtful"
                                                          ELSE "undone"]
                      /\ UNCHANGED iter
  BY DEF QueryIter
<1>3. /\ Custody(t.srv, t.h, ConnUnits, ObjectTr, ObjUnits, orphans, told)
      /\ t.srv.durable = srv.durable
      /\ t.h \in Handles
      /\ t.ok <=> t.h # NoTr
  BY <1>1, DefConfAssumption, Taken
<1>4. iter = NoTr /\ ObjectTr = NoTr /\ NoTr \in Handles
  BY <1>1 DEF Free, ObjectTr, Handles
<1>5. \A x \in Works : /\ told[x] \notin {"obj", "call"}
                       /\ told[x] = "conn" => in_transaction
  BY <1>1 DEF ConnectionInv, UnitsAreOpen, Free
<1>6. SUFFICES /\ Custody(srv', def_tr', ConnUnits, ObjectTr, ObjUnits, orphans, told')
               /\ iter' \in {NoTr, def_tr'}
               /\ told' \in [Works -> Promise!Tellings]
               /\ \A x \in Works : /\ told'[x] # "obj"
                                   /\ told'[x] = "conn" => in_transaction
                                   /\ told'[x] = "call" => ~in_transaction /\ iter' # NoTr
               /\ UnitStep
  <2>1. DefaultTr' = def_tr' /\ ObjectTr' = ObjectTr
    BY <1>1 DEF DefaultTr, ObjectTr, InCall
  <2>2. Custody(srv, DefaultTr, ConnUnits, ObjectTr, ObjUnits, orphans, told)'
    BY <1>1, <1>6, <2>1
  <2>3. TypeOK'
    <3>1. srv' \in Servers
      BY <1>6 DEF Custody, Sound
    <3> QED BY <1>1, <1>2, <1>3, <1>6, <3>1 DEF TypeOK, Handles, Servers
  <2>4. Shape'
    BY <1>1, <1>6 DEF Shape, Free
  <2>5. UnitsAreOpen'
    BY <1>1, <1>6 DEF UnitsAreOpen
  <2> QED BY <1>6, <2>2, <2>3, <2>4, <2>5 DEF ConnectionInv
<1>7. CASE /\ ~t.ok /\ srv' = t.srv /\ UNCHANGED <<told, iter>>
  BY <1>1, <1>2, <1>3, <1>4, <1>5, <1>7 DEF UnitStep, TypeOK
<1>8. CASE /\ t.ok
           /\ \E r \in Run(t.srv, t.h, w) :
                \/ /\ r.ok
                   /\ iter' = t.h
                   /\ srv' = r.srv
                   /\ told' = [told EXCEPT ![w] = IF in_transaction THEN "conn" ELSE "call"]
                \/ /\ ~r.ok /\ in_transaction
                   /\ srv' = r.srv
                   /\ told' = [told EXCEPT ![w] = Report(r, "conn")]
                   /\ UNCHANGED iter
                \/ /\ ~r.ok /\ ~in_transaction
                   /\ \E b \in Ask(r.srv, "RollbackRetaining", t.h) :
                        /\ srv' = b.srv
                        /\ told' = [told EXCEPT ![w] = IF r.done /\ ~b.ok THEN "doubtful"
                                                       ELSE "undone"]
                   /\ UNCHANGED iter
  <2>0. t.h \in TrHandles /\ def_tr' = t.h
    BY <1>2, <1>3, <1>8 DEF Handles
  <2>1. PICK r \in Run(t.srv, t.h, w) :
          \/ /\ r.ok
             /\ iter' = t.h
             /\ srv' = r.srv
             /\ told' = [told EXCEPT ![w] = IF in_transaction THEN "conn" ELSE "call"]
          \/ /\ ~r.ok /\ in_transaction
             /\ srv' = r.srv
             /\ told' = [told EXCEPT ![w] = Report(r, "conn")]
             /\ UNCHANGED iter
          \/ /\ ~r.ok /\ ~in_transaction
             /\ \E b \in Ask(r.srv, "RollbackRetaining", t.h) :
                  /\ srv' = b.srv
                  /\ told' = [told EXCEPT ![w] = IF r.done /\ ~b.ok THEN "doubtful" ELSE "undone"]
             /\ UNCHANGED iter
    BY <1>8
  <2>2. r.ok => r.done
    BY <1>3, <2>0, RunOutcome DEF Custody
  <2>3. SUFFICES ASSUME NEW v \in Promise!Owners \cup {"undone", "doubtful"},
                        told' = [told EXCEPT ![w] = v],
                        v # "obj", v = "conn" => in_transaction,
                        v = "call" => ~in_transaction /\ iter' # NoTr,
                        iter' \in {NoTr, def_tr'},
                        told'[w] = v, \A x \in Works : x # w => told'[x] = told[x],
                        \/ /\ srv' = r.srv
                           /\ r.done => v \in ConnUnits \cup {"doubtful"}
                           /\ ~r.done => v = "undone"
                        \/ \E b \in Ask(r.srv, "RollbackRetaining", t.h) :
                             /\ ~in_transaction
                             /\ srv' = b.srv
                             /\ v = IF r.done /\ ~b.ok THEN "doubtful" ELSE "undone"
                 PROVE  /\ Custody(srv', def_tr', ConnUnits, ObjectTr, ObjUnits, orphans, told')
                        /\ told' \in [Works -> Promise!Tellings]
                        /\ UnitStep
    <3>1. ASSUME NEW v, told' = [told EXCEPT ![w] = v]
          PROVE  told'[w] = v /\ \A x \in Works : x # w => told'[x] = told[x]
      BY <1>1, <3>1 DEF TypeOK
    <3>2. CASE /\ r.ok /\ iter' = t.h /\ srv' = r.srv
               /\ told' = [told EXCEPT ![w] = IF in_transaction THEN "conn" ELSE "call"]
      <4> DEFINE v == IF in_transaction THEN "conn" ELSE "call"
      <4>1. /\ v \in Promise!Owners /\ v \in ConnUnits /\ v # "obj"
            /\ v = "conn" => in_transaction
            /\ v = "call" => ~in_transaction
        BY DEF Promise!Owners, ConnUnits
      <4>2. told' = [told EXCEPT ![w] = v]
        BY <3>2
      <4> HIDE DEF v
      <4>3. told'[w] = v /\ \A x \in Works : x # w => told'[x] = told[x]
        BY <3>1, <4>2
      <4> QED BY <1>5, <2>0, <2>2, <2>3, <3>2, <4>1, <4>2, <4>3, NoTrAssumption
    <3>3. CASE /\ ~r.ok /\ in_transaction /\ srv' = r.srv /\ UNCHANGED iter
               /\ told' = [told EXCEPT ![w] = Report(r, "conn")]
      <4> DEFINE v == Report(r, "conn")
      <4>1. /\ v \in {"undone", "doubtful"} /\ v \in ConnUnits \cup {"undone", "doubtful"}
            /\ r.done => v = "doubtful"
            /\ ~r.done => v = "undone"
        BY <3>3 DEF Report
      <4>2. told' = [told EXCEPT ![w] = v]
        BY <3>3
      <4> HIDE DEF v
      <4>3. told'[w] = v /\ \A x \in Works : x # w => told'[x] = told[x]
        BY <3>1, <4>2
      <4> QED BY <1>4, <1>5, <2>3, <3>3, <4>1, <4>2, <4>3
    <3>4. CASE /\ ~r.ok /\ ~in_transaction /\ UNCHANGED iter
               /\ \E b \in Ask(r.srv, "RollbackRetaining", t.h) :
                    /\ srv' = b.srv
                    /\ told' = [told EXCEPT ![w] = IF r.done /\ ~b.ok THEN "doubtful" ELSE "undone"]
      <4>0. PICK b \in Ask(r.srv, "RollbackRetaining", t.h) :
              /\ srv' = b.srv
              /\ told' = [told EXCEPT ![w] = IF r.done /\ ~b.ok THEN "doubtful" ELSE "undone"]
        BY <3>4
      <4> DEFINE v == IF r.done /\ ~b.ok THEN "doubtful" ELSE "undone"
      <4>1. v \in {"undone", "doubtful"}
        OBVIOUS
      <4>2. told' = [told EXCEPT ![w] = v]
        BY <4>0
      <4>3. \E y \in Ask(r.srv, "RollbackRetaining", t.h) :
              ~in_transaction /\ srv' = y.srv /\ v = IF r.done /\ ~y.ok THEN "doubtful" ELSE "undone"
        BY <3>4, <4>0
      <4> HIDE DEF v
      <4>4. told'[w] = v /\ \A x \in Works : x # w => told'[x] = told[x]
        BY <3>1, <4>2
      <4> QED BY <1>4, <1>5, <2>3, <3>4, <4>1, <4>2, <4>3, <4>4
    <3> QED BY <2>1, <3>2, <3>3, <3>4
  <2>4. Custody(srv', t.h, ConnUnits, ObjectTr, ObjUnits, orphans, told') /\ srv'.durable = t.srv.durable
    <3>1. CASE /\ srv' = r.srv
               /\ r.done => v \in ConnUnits \cup {"doubtful"}
               /\ ~r.done => v = "undone"
      <4>1. /\ r.done => told'[w] \in ConnUnits \cup {"doubtful"}
            /\ ~r.done => told'[w] = "undone"
            /\ \A x \in Works : x # w => told'[x] = told[x]
        BY <2>3, <3>1
      <4>2. Custody(r.srv, t.h, ConnUnits, ObjectTr, ObjUnits, orphans, told') /\ r.srv.durable = t.srv.durable
        BY <1>1, <1>3, <1>4, <2>0, <4>1, UnitsApart, StatementRuns
      <4> QED BY <3>1, <4>2
    <3>2. ASSUME NEW b \in Ask(r.srv, "RollbackRetaining", t.h), ~in_transaction, srv' = b.srv,
                 v = IF r.done /\ ~b.ok THEN "doubtful" ELSE "undone"
          PROVE  Custody(srv', t.h, ConnUnits, ObjectTr, ObjUnits, orphans, told') /\ srv'.durable = t.srv.durable
      <4>1. /\ told'[w] = IF r.done /\ ~b.ok THEN "doubtful" ELSE "undone"
            /\ \A x \in Works : x # w => told'[x] = told[x]
        BY <2>3, <3>2
      <4>2. ConnUnits # {} /\ \A x \in Works : told[x] \notin ConnUnits
        BY <1>5, <3>2 DEF ConnUnits
      <4>3. Custody(b.srv, t.h, ConnUnits, ObjectTr, ObjUnits, orphans, told') /\ b.srv.durable = t.srv.durable
        BY <1>1, <1>3, <1>4, <2>0, <4>1, <4>2, UnitsApart, QueryUndone
      <4> QED BY <3>2, <4>3
    <3> QED BY <2>3, <3>1, <3>2
  <2>5. UnitStep /\ told' \in [Works -> Promise!Tellings]
    BY <1>1, <1>3, <2>3, <2>4, StatementTold
  <2> QED BY <2>0, <2>4, <2>5
<1> QED BY <1>2, <1>7, <1>8

\* Dropping an iterator: outside an explicit transaction its unit is committed.
LEMMA StmtIterDropStep == ConnectionInv /\ StmtIterDrop => ConnectionInv' /\ UnitStep
<1> SUFFICES ASSUME ConnectionInv, StmtIterDrop PROVE ConnectionInv' /\ UnitStep
  OBVIOUS
<1>1. /\ iter # NoTr /\ iter' = NoTr
      /\ UNCHANGED <<in_transaction, tr, phase, socket, orphans>>
  BY DEF StmtIterDrop
<1>2. ~InCall /\ phase = "open" /\ tr.by = "none"
  BY <1>1, Holders DEF ConnectionInv, Shape, InCall, TypeOK
<1>3. ObjectTr' = ObjectTr /\ DefaultTr' = def_tr' /\ DefaultTr = def_tr
  BY <1>1, <1>2 DEF ObjectTr, DefaultTr, InCall
<1>4. SUFFICES /\ Custody(srv', def_tr', ConnUnits, ObjectTr, ObjUnits, orphans, told')
               /\ def_tr' \in Handles
               /\ told' \in [Works -> Promise!Tellings]
               /\ \A w \in Works : /\ told'[w] \notin {"call", "obj"}
                                   /\ told'[w] = "conn" => in_transaction
               /\ UnitStep
  <2>1. Custody(srv, DefaultTr, ConnUnits, ObjectTr, ObjUnits, orphans, told)'
    BY <1>1, <1>3, <1>4
  <2>2. TypeOK'
    <3>1. srv' \in Servers
      BY <1>4 DEF Custody, Sound
    <3> QED BY <1>1, <1>4, <3>1 DEF ConnectionInv, TypeOK, Handles, Servers
  <2>3. Shape'
    BY <1>1, <1>2 DEF ConnectionInv, Shape
  <2>4. UnitsAreOpen'
    BY <1>1, <1>4 DEF UnitsAreOpen
  <2> QED BY <1>4, <2>1, <2>2, <2>3, <2>4 DEF ConnectionInv
<1>5. \A w \in Works : /\ told[w] # "obj"
                       /\ told[w] = "conn" => in_transaction
                       /\ told[w] = "call" => ~in_transaction
  BY <1>2 DEF ConnectionInv, UnitsAreOpen
<1>6. CASE in_transaction
  <2>1. UNCHANGED <<def_tr, srv, told>>
    BY <1>6 DEF StmtIterDrop
  <2> QED BY <1>3, <1>5, <1>6, <2>1 DEF ConnectionInv, TypeOK, Handles, UnitStep
<1>7. CASE ~in_transaction
  <2>1. FinishDefault("CommitRetaining", "call", "committed")
    BY <1>7 DEF StmtIterDrop
  <2>2. Single(ConnUnits, "call") /\ "call" \in ConnUnits
    BY <1>5, <1>7 DEF Single, ConnUnits
  <2>3. /\ Custody(srv', def_tr', ConnUnits, ObjectTr, ObjUnits, orphans, told')
        /\ def_tr' \in Handles
        /\ told' \in [Works -> Promise!Tellings]
        /\ \E u \in Verdicts : \A w \in Works : told'[w] = IF told[w] = "call" THEN u ELSE told[w]
        /\ UnitStep
    BY <1>2, <2>1, <2>2, Finished
  <2>4. PICK u \in Verdicts : \A w \in Works : told'[w] = IF told[w] = "call" THEN u ELSE told[w]
    BY <2>3
  <2>5. \A w \in Works : /\ told'[w] \notin {"call", "obj"}
                         /\ told'[w] = "conn" => in_transaction
    BY <1>5, <2>4 DEF Verdicts
  <2> QED BY <2>3, <2>5
<1> QED BY <1>6, <1>7

\* What the Connection leaves behind when it ends: nothing, or, where the attachment
\* was not let go, what dropping its default transaction leaves.
LEMMA Detached ==
  ASSUME ConnectionInv, Free, Detach
  PROVE  /\ Custody(srv', NoTr, ConnUnits, NoTr, ObjUnits, orphans', told')
         /\ orphans' \subseteq TrHandles
         /\ UnitStep
<1>1. /\ TypeOK /\ UnitsAreOpen /\ Sound(srv) /\ def_tr \in Handles /\ NoTr \in Handles
      /\ DefaultTr = def_tr /\ ObjectTr = NoTr
      /\ Custody(srv, def_tr, ConnUnits, NoTr, ObjUnits, orphans, told)
  BY DEF ConnectionInv, TypeOK, Custody, DefaultTr, ObjectTr, Free, Handles
<1>2. told' = Settle("conn", "undone") /\ orphans \subseteq TrHandles
  BY <1>1 DEF Detach, TypeOK
<1>3. Single(ConnUnits, "conn") /\ "conn" \in Promise!Owners /\ "undone" \in Verdicts
  BY <1>1 DEF UnitsAreOpen, Free, Single, ConnUnits, Promise!Owners, Verdicts
<1>4. Tended(srv, def_tr, ConnUnits, told)
  BY <1>1 DEF Custody
<1>5. CASE srv' = Gone(srv) /\ orphans' = {}
  <2>1. Sound(srv') /\ ~srv'.up /\ srv'.durable = srv.durable
    BY <1>1, <1>5, GoneOutcome DEF Sound
  <2>2. UnitStep
    BY <1>1, <1>2, <1>3, <1>4, <2>1, UnitEnds
  <2>3. Custody(srv', NoTr, ConnUnits, NoTr, ObjUnits, orphans', told')
    BY <1>1, <2>1, CustodyDown
  <2> QED BY <1>5, <2>2, <2>3
<1>6. CASE def_tr = NoTr /\ UNCHANGED <<srv, orphans>>
  <2>1. UnitStep
    BY <1>1, <1>2, <1>3, <1>4, <1>6, UnitEnds
  <2>2. CASE srv.up
    <3>1. \A w \in Works : told[w] # "conn"
      BY <1>4, <1>6, <2>2 DEF Tended, ConnUnits
    <3>2. \A w \in Works : told'[w] = told[w]
      BY <1>2, <3>1 DEF Settle
    <3>3. \A h \in TrHandles : srv.work[h] \subseteq Works
      BY <1>1 DEF Sound, Servers
    <3>4. Custody(srv, NoTr, ConnUnits, NoTr, ObjUnits, orphans, told')
      BY <1>1, <1>6, <3>2 DEF Custody, Tended
    <3> QED BY <1>2, <1>6, <2>1, <3>4
  <2>3. CASE ~srv.up
    <3>1. Custody(srv, NoTr, ConnUnits, NoTr, ObjUnits, orphans, told')
      BY <1>1, <2>3, CustodyDown
    <3> QED BY <1>2, <1>6, <2>1, <3>1
  <2> QED BY <2>2, <2>3
<1>7. CASE def_tr # NoTr /\ DropTr(srv, def_tr)
  <2>1. def_tr \in TrHandles
    BY <1>1, <1>7 DEF Handles
  <2> QED BY <1>1, <1>2, <1>3, <1>7, <2>1, UnitsApart, DroppedLive
<1> QED BY <1>5, <1>6, <1>7 DEF Detach

\* The Connection ends, and with it its transaction and unit.
LEMMA CloseStep == ConnectionInv /\ (Close \/ DropConnection) => ConnectionInv' /\ UnitStep
<1> SUFFICES ASSUME ConnectionInv, Close \/ DropConnection PROVE ConnectionInv' /\ UnitStep
  OBVIOUS
<1>1. /\ Free /\ Detach /\ socket' \in {"open", "closed"}
      /\ TypeOK /\ UnitsAreOpen
  BY DEF Close, DropConnection, ConnectionInv, TypeOK
<1>2. /\ def_tr' = NoTr /\ phase' = "closed"
      /\ told' = Settle("conn", "undone")
      /\ UNCHANGED <<in_transaction, tr, iter>>
  BY <1>1 DEF Detach
<1>3. /\ Custody(srv', NoTr, ConnUnits, NoTr, ObjUnits, orphans', told')
      /\ orphans' \subseteq TrHandles /\ UnitStep
  BY <1>1, Detached
<1>4. \A w \in Works : told[w] \notin {"obj", "call"}
  BY <1>1 DEF UnitsAreOpen, Free
<1>5. Single(ConnUnits, "conn") /\ "undone" \in Verdicts
  BY <1>4 DEF Single, ConnUnits, Verdicts
<1>6. /\ told' \in [Works -> Promise!Tellings]
      /\ \A w \in Works : told'[w] = IF told[w] = "conn" THEN "undone" ELSE told[w]
  BY <1>1, <1>2, <1>5, Settling
<1>8. DefaultTr' = NoTr /\ ObjectTr' = NoTr
  BY <1>1, <1>2 DEF DefaultTr, ObjectTr, Free
<1>9. Custody(srv, DefaultTr, ConnUnits, ObjectTr, ObjUnits, orphans, told)'
  BY <1>3, <1>8
<1>10. TypeOK'
  <2>1. srv' \in Servers
    BY <1>3 DEF Custody, Sound
  <2> QED BY <1>1, <1>2, <1>3, <1>6, <2>1 DEF TypeOK, Servers
<1>11. Shape'
  BY <1>1, <1>2 DEF Shape, Free
<1>12. UnitsAreOpen'
  BY <1>4, <1>6 DEF UnitsAreOpen
<1> QED BY <1>3, <1>9, <1>10, <1>11, <1>12 DEF ConnectionInv

\* The link breaks between two calls, or in the middle of one.
LEMMA LinkLostStep == ConnectionInv /\ LinkLost => ConnectionInv' /\ UnitStep
<1> SUFFICES ASSUME ConnectionInv, LinkLost PROVE ConnectionInv' /\ UnitStep
  OBVIOUS
<1>1. /\ srv' = Gone(srv) /\ orphans' = {}
      /\ UNCHANGED <<def_tr, in_transaction, tr, iter, phase, socket, told>>
  BY DEF LinkLost
<1>2. TypeOK /\ Sound(srv) /\ srv \in Servers
  BY DEF ConnectionInv, Custody, Sound
<1>3. Sound(srv') /\ ~srv'.up /\ srv'.durable = srv.durable
  BY <1>1, <1>2, GoneOutcome
<1>4. DefaultTr' = DefaultTr /\ ObjectTr' = ObjectTr /\ DefaultTr \in Handles /\ ObjectTr \in Handles
  BY <1>1, <1>2, Holders DEF DefaultTr, ObjectTr
<1>5. Custody(srv, DefaultTr, ConnUnits, ObjectTr, ObjUnits, orphans, told)'
  BY <1>3, <1>4, CustodyDown
<1>6. TypeOK'
  <2>1. srv' \in Servers
    BY <1>3 DEF Sound
  <2> QED BY <1>1, <1>2, <2>1 DEF TypeOK, Servers
<1>7. Shape' /\ UnitsAreOpen'
  BY <1>1, <1>3 DEF ConnectionInv, Shape, UnitsAreOpen
<1> QED BY <1>1, <1>3, <1>5, <1>6, <1>7 DEF ConnectionInv, UnitStep

---------------------------------------------------------------------------
(***************************************************************************)
(* The theorems                                                            *)
(***************************************************************************)

\* A new Connection holds no transaction, and no statement was run.
LEMMA InitHolds == Init => ConnectionInv /\ Promise!Init
<1> SUFFICES ASSUME Init PROVE ConnectionInv /\ Promise!Init
  OBVIOUS
<1>1. TypeOK
  BY DefConfAssumption DEF Init, TypeOK, NoTransaction, Promise!Tellings
<1>2. Sound(srv)
  BY DefConfAssumption DEF Init, Sound, Servers
<1>3. DefaultTr = NoTr /\ ObjectTr = NoTr
  BY DEF Init, DefaultTr, ObjectTr, NoTransaction
<1>4. Custody(srv, DefaultTr, ConnUnits, ObjectTr, ObjUnits, orphans, told)
  BY <1>2, <1>3 DEF Init, Custody, Tended, ConnUnits, ObjUnits
<1>5. Shape /\ UnitsAreOpen
  BY DEF Init, Shape, UnitsAreOpen, NoTransaction
<1>6. Promise!Init
  BY DEF Init, Promise!Init
<1> QED BY <1>1, <1>4, <1>5, <1>6 DEF ConnectionInv

\* Every step of the Connection keeps its invariant, and is a step of UnitsOfWork or
\* changes nothing there.
LEMMA StepHolds == ConnectionInv /\ [Next]_vars => ConnectionInv' /\ UnitStep
<1> SUFFICES ASSUME ConnectionInv, [Next]_vars PROVE ConnectionInv' /\ UnitStep
  OBVIOUS
<1>1. CASE UNCHANGED vars
  BY <1>1 DEF vars, ConnectionInv, TypeOK, Shape, UnitsAreOpen, DefaultTr, ObjectTr, UnitStep
<1>2. CASE Commit \/ Rollback
  BY <1>2, CommitStep
<1>3. CASE (\E c \in Confs : BeginTransaction(c)) \/ QueryIterUnprepared \/ StmtIterNext
  BY <1>3, TakingStep
<1>4. CASE \E c \in Confs : WithTransaction(c, "closure") \/ WithTransaction(c, "execute")
  BY <1>4, WithTransactionStep
<1>5. CASE \E c \in Confs : TransactionNew(c)
  BY <1>5, TransactionNewStep
<1>6. CASE \E res \in {"ok", "err"} : ClosureReturn(res)
  BY <1>6, ClosureReturnStep
<1>7. CASE ClosurePanics
  BY <1>7, ClosurePanicsStep
<1>8. CASE \E w \in Works : TrExecute(w)
  BY <1>8, TrExecuteStep
<1>9. CASE \E w \in Works : QueryIter(w)
  BY <1>9, QueryIterStep
<1>10. CASE TrRetain("CommitRetaining", "committed") \/ TrRetain("RollbackRetaining", "undone")
  BY <1>10, TrRetainStep
<1>11. CASE TransactionCommit \/ TransactionRollback
  BY <1>11, ObjectEndsStep
<1>12. CASE StmtIterDrop
  BY <1>12, StmtIterDropStep
<1>13. CASE Close \/ DropConnection
  BY <1>13, CloseStep
<1>14. CASE LinkLost
  BY <1>14, LinkLostStep
<1> QED BY <1>1, <1>2, <1>3, <1>4, <1>5, <1>6, <1>7, <1>8, <1>9, <1>10, <1>11, <1>12, <1>13, <1>14
        DEF Next

\* In every reachable state the Connection and its Transaction object hold their
\* transactions, and each transaction the work of its unit.
THEOREM ConnectionInvariant == Spec => []ConnectionInv
<1>1. Init => ConnectionInv
  BY InitHolds
<1>2. ConnectionInv /\ [Next]_vars => ConnectionInv'
  BY StepHolds
<1> QED BY <1>1, <1>2, PTL DEF Spec

\* The handles the client keeps are alive at the server, and kept once.
THEOREM HandlesStayLive == Spec => []HandlesAreLive
<1>1. ConnectionInv => HandlesAreLive
  <2> SUFFICES ASSUME ConnectionInv PROVE HandlesAreLive
    OBVIOUS
  <2>1. /\ TypeOK /\ Shape
        /\ Custody(srv, DefaultTr, ConnUnits, ObjectTr, ObjUnits, orphans, told)
    BY DEF ConnectionInv
  <2>2. ASSUME srv.up
        PROVE  /\ def_tr # NoTr => def_tr \in srv.active
               /\ tr.h # NoTr => tr.h \in srv.active
               /\ def_tr = tr.h => def_tr = NoTr
               /\ {def_tr, tr.h} \cap orphans = {}
    <3>1. NoTr \notin orphans
      BY <2>1, NoTrAssumption DEF TypeOK
    <3>2. CASE tr.by = "none"
      BY <2>1, <2>2, <3>1, <3>2, Holders DEF Custody, Tended, DefaultTr, ObjectTr
    <3>3. CASE tr.by = "object"
      BY <2>1, <2>2, <3>1, <3>3 DEF Custody, Tended, DefaultTr, ObjectTr
    <3>4. CASE tr.by \in {"closure", "execute"}
      BY <2>1, <2>2, <3>1, <3>4, NoTrAssumption, Holders
      DEF Custody, Tended, DefaultTr, ObjectTr, Shape
    <3> QED BY <2>1, <3>2, <3>3, <3>4, Holders
  <2> QED BY <2>1, <2>2 DEF HandlesAreLive, Shape
<1> QED BY <1>1, ConnectionInvariant, PTL

\* Only a transaction the server refused to roll back outlives its holder.
THEOREM TransactionsAreHeld == Spec => []NoTransactionLeaks
<1>1. ConnectionInv => NoTransactionLeaks
  <2> SUFFICES ASSUME ConnectionInv, NEW h \in srv.active PROVE h \in {def_tr, tr.h} \cup orphans
    BY DEF NoTransactionLeaks
  <2>1. /\ srv.active \subseteq {DefaultTr, ObjectTr} \cup orphans
        /\ h # NoTr
    BY NoTrAssumption DEF ConnectionInv, Custody, Sound, Servers
  <2> QED BY <2>1 DEF DefaultTr, ObjectTr
<1> QED BY <1>1, ConnectionInvariant, PTL

\* The work of an unfinished unit waits in the transaction that its end acts on.
THEOREM OpenWorkStaysHeld == Spec => []OpenWorkIsHeld
<1>1. ConnectionInv => OpenWorkIsHeld
  <2> SUFFICES ASSUME ConnectionInv, srv.up, NEW w \in Works
               PROVE  /\ told[w] \in {"conn", "call"} => DefaultTr # NoTr /\ w \in srv.work[DefaultTr]
                      /\ told[w] = "obj" => tr.by = "object" /\ w \in srv.work[tr.h]
    BY DEF OpenWorkIsHeld
  <2> QED BY DEF ConnectionInv, Custody, Tended, ConnUnits, ObjUnits, ObjectTr
<1> QED BY <1>1, ConnectionInvariant, PTL

\* The transaction the next automatic call will reuse holds nothing but the work of a
\* commit or rollback that failed.
THEOREM DefaultStaysClean == Spec => []DefaultIsClean
<1>1. ConnectionInv => DefaultIsClean
  <2> SUFFICES ASSUME ConnectionInv, Free, ~in_transaction, def_tr # NoTr, NEW w \in srv.work[def_tr]
               PROVE  w \in Told("doubtful")
    BY DEF DefaultIsClean
  <2>1. DefaultTr = def_tr /\ Tended(srv, def_tr, ConnUnits, told) /\ UnitsAreOpen /\ TypeOK
    BY DEF ConnectionInv, Custody, DefaultTr, Free
  <2>2. w \in Works
    BY <2>1 DEF TypeOK
  <2>3. told[w] \in ConnUnits \cup {"doubtful"}
    BY <2>1 DEF Tended
  <2> QED BY <2>1, <2>2, <2>3 DEF UnitsAreOpen, ConnUnits, Told, Free
<1> QED BY <1>1, ConnectionInvariant, PTL

\* Whatever is refused and wherever the link breaks, the work done through the
\* Connection is a behaviour of UnitsOfWork: units end as wholes, and what the
\* application is told of them is true.
THEOREM ConnectionIsUnitsOfWork == Spec => ImplementsUnitsOfWork
<1>1. Init => Promise!Init
  BY InitHolds
<1>2. ConnectionInv /\ [Next]_vars => [Promise!Next]_<<told, srv.durable>>
  BY StepHolds DEF UnitStep
<1> QED BY <1>1, <1>2, ConnectionInvariant, PTL DEF Spec, ImplementsUnitsOfWork, Promise!Spec

============================================================================
