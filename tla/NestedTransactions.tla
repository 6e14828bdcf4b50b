------------------------ MODULE NestedTransactions ------------------------
(***************************************************************************)
(* What nested transactions promise: each level of nesting keeps its own   *)
(* work apart.  Rolling a level back undoes exactly the work done since it *)
(* began, committing it hands that work to the level around it, and only   *)
(* committing the outermost one makes work durable, all of it at once.     *)
(* A level that cannot be ended breaks the connection: what was open is    *)
(* then in limbo, and still ends as one unit.                              *)
(***************************************************************************)
EXTENDS Naturals, Sequences

CONSTANT Works          \* the executions of statements that change something

VARIABLES
  frames,               \* the work of each open level, outermost first
  limbo,                \* the open work of a broken connection
  durable,              \* the work that is committed
  broken,               \* a transaction could not be ended
  lost,                 \* the server is gone
  result                \* of the last call

vars == <<frames, limbo, durable, broken, lost, result>>

Init ==
  /\ frames = <<>>
  /\ limbo = {}
  /\ durable = {}
  /\ broken = FALSE
  /\ lost = FALSE
  /\ result = "ok"

New(w) == w \notin durable \cup limbo \cup UNION {frames[d] : d \in DOMAIN frames}

Top == Len(frames)
Outer == SubSeq(frames, 1, Top - 1)

Begin ==
  /\ ~broken
  /\ frames' = Append(frames, {})
  /\ result' = "ok"
  /\ UNCHANGED <<limbo, durable, broken, lost>>

\* A call that leaves no trace but its result.
Nothing ==
  /\ result' \in {"ok", "error"}
  /\ UNCHANGED <<frames, limbo, durable, broken, lost>>

\* w takes effect in the innermost level, whatever its call returns.
WorkInside(w) ==
  /\ ~broken /\ ~lost /\ frames # <<>> /\ New(w)
  /\ frames' = [frames EXCEPT ![Top] = @ \cup {w}]
  /\ result' \in {"ok", "error"}
  /\ UNCHANGED <<limbo, durable, broken, lost>>

\* Outside every level w is durable when its call succeeds.
WorkOutside(w) ==
  /\ ~broken /\ ~lost /\ frames = <<>> /\ New(w)
  /\ durable' = durable \cup {w}
  /\ result' = "ok"
  /\ UNCHANGED <<frames, limbo, broken, lost>>

RollbackLevel ==
  /\ ~broken /\ frames # <<>>
  /\ frames' = Outer
  /\ result' = "ok"
  /\ UNCHANGED <<limbo, durable, broken, lost>>

CommitLevel ==
  /\ ~broken /\ Top > 1
  /\ frames' = [Outer EXCEPT ![Top - 1] = @ \cup frames[Top]]
  /\ result' = "ok"
  /\ UNCHANGED <<limbo, durable, broken, lost>>

CommitOutermost ==
  /\ ~broken /\ ~lost /\ Top = 1
  /\ frames' = <<>>
  /\ durable' = durable \cup frames[1]
  /\ result' = "ok"
  /\ UNCHANGED <<limbo, broken, lost>>

\* The commit fails and the level is rolled back for it.
CommitUndone ==
  /\ ~broken /\ Top = 1
  /\ frames' = <<>>
  /\ result' = "error"
  /\ UNCHANGED <<limbo, durable, broken, lost>>

\* A level cannot be ended; its own work may be undone all the same.
Break ==
  /\ ~broken /\ frames # <<>>
  /\ broken' = TRUE
  /\ frames' = <<>>
  /\ \E n \in {Top - 1, Top} : limbo' = UNION {frames[d] : d \in 1 .. n}
  /\ result' = "error"
  /\ UNCHANGED <<durable, lost>>

\* The connection is used although it is broken: the work in limbo grows, is
\* committed, or is undone.
BrokenWork(W) ==
  /\ broken /\ ~lost
  /\ \A w \in W : New(w)
  /\ \/ limbo' = limbo \cup W /\ UNCHANGED durable
     \/ limbo' = {} /\ durable' = durable \cup limbo \cup W
     \/ limbo' = {} /\ UNCHANGED durable
  /\ result' \in {"ok", "error"}
  /\ UNCHANGED <<frames, broken, lost>>

\* The server is lost and undoes everything that is open; only a call that was
\* committing has doubtful work W.
Lose(W) ==
  /\ ~lost /\ lost' = TRUE
  /\ \/ frames' = [d \in DOMAIN frames |-> {}] /\ UNCHANGED broken
     \/ frames' = <<>> /\ frames # <<>> /\ broken' = TRUE
  /\ limbo' = {}
  /\ durable' \in {durable, durable \cup W}
  /\ result' \in {result, "error"}

\* The work a lost call may have been committing.
InFlight(W) ==
  \/ Top = 1 /\ W = frames[1]
  \/ Top = 0 /\ W = limbo
  \/ Top = 0 /\ \E w \in Works : New(w) /\ W = limbo \cup {w}

Next ==
  \/ Begin \/ Nothing \/ RollbackLevel \/ CommitLevel \/ CommitOutermost
  \/ CommitUndone \/ Break
  \/ \E w \in Works : WorkInside(w) \/ WorkOutside(w) \/ BrokenWork({w})
  \/ BrokenWork({})
  \/ Lose({})
  \/ \E W \in SUBSET Works : InFlight(W) /\ Lose(W)

Spec == Init /\ [][Next]_vars

============================================================================
