---------------------------- MODULE UnitsOfWork ----------------------------
(***************************************************************************)
(* What a Connection promises about the work done through it, without      *)
(* transactions or a server.                                               *)
(*                                                                         *)
(* Every executed statement belongs to one unit: the automatic call        *)
(* running ("call"), the explicit transaction of the connection ("conn")   *)
(* or a Transaction object ("obj").  A unit ends as a whole.  When the end *)
(* was reported as failed the work is doubtful: it may turn out durable,   *)
(* then or later, but the work of one unit cannot be torn apart by the     *)
(* failure itself.                                                         *)
(***************************************************************************)
EXTENDS Naturals

CONSTANT Works      \* the executions of statements

VARIABLES
  told,             \* what the application was told of each execution
  durable           \* the executions whose effect is permanent

Owners == {"call", "conn", "obj"}
Verdicts == {"committed", "undone", "doubtful"}
Tellings == {"new"} \cup Owners \cup Verdicts

Told(v) == {w \in Works : told[w] = v}

Init ==
  /\ told = [w \in Works |-> "new"]
  /\ durable = {}

\* A statement runs: for a unit, without effect, or with an error that does not
\* say whether it took effect.
Execute(w) ==
  /\ told[w] = "new"
  /\ \E v \in Owners \cup {"undone", "doubtful"} : told' = [told EXCEPT ![w] = v]
  /\ UNCHANGED durable

\* The unit of o ends with verdict v, and the work S becomes durable.
Tell(o, v, S) ==
  /\ told' = [w \in Works |-> IF told[w] = o THEN v ELSE told[w]]
  /\ durable' = durable \cup S

\* A successful end makes all of the unit durable, with any doubtful work that
\* was still pending.
Commit(o) == \E D \in SUBSET Told("doubtful") : Tell(o, "committed", Told(o) \cup D)

Undo(o) == Tell(o, "undone", {})

\* A failed end: all of the unit took effect, or none of it.
Doubt(o) ==
  \E S \in {{}, Told(o)}, D \in SUBSET Told("doubtful") : Tell(o, "doubtful", S \cup D)

\* Work told doubtful may become durable with the end of an empty unit.
Resolve == \E D \in SUBSET Told("doubtful") : durable' = durable \cup D /\ UNCHANGED told

Next ==
  \/ \E w \in Works : Execute(w)
  \/ \E o \in Owners : Commit(o) \/ Undo(o) \/ Doubt(o)
  \/ Resolve

Spec == Init /\ [][Next]_<<told, durable>>

============================================================================
