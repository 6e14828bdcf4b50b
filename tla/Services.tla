------------------------------ MODULE Services ------------------------------
(***************************************************************************)
(* The services API (src/services.rs over NativeServiceManager of          *)
(* rsfbclient-native/src/services.rs): attach to a service manager, start  *)
(* a backup or a restore, read its output line by line, detach, drop.      *)
(*                                                                         *)
(* The server runs one action per attachment, in a process of its own: it  *)
(* writes lines into a buffer, and waits while that is full.  A line is    *)
(* what the reply to a query makes of it: text, no text at all, or too     *)
(* long for the reply.  Request blocks are module Blocks.                  *)
(***************************************************************************)
EXTENDS Naturals, Sequences

CONSTANTS
  MaxActions,   \* actions an application starts
  Lines,        \* lines of an action's output
  Room          \* lines the server keeps unread

ASSUME SizesAssumption == MaxActions \in Nat /\ Lines \in Nat /\ Room \in Nat \ {0}

VARIABLES
  handle,       \* NativeServiceManager.handle
  object,       \* the ServiceManager: "none", "live" or "dropped"
  call,         \* what runs: "none" or "drain" (start and then drain_output)
  given,        \* history: lines handed to on_line by the last call
  result,       \* history: how the last call ended
  attached,     \* server: handles it has open
  released,     \* history: handles detached
  action,       \* server: number of the action started last
  written,      \* server: lines that action has written
  out,          \* server: those not read yet
  running,      \* server: the action is not over
  number        \* the action of the call

servicesVars == <<handle, object, call, given, result, attached, released, action, written, out,
          running, number>>

Null == 0
Handle == 1
Kinds == {"text", "empty", "long"}
Line(n, k) == [action |-> action, n |-> n, kind |-> k]

---------------------------------------------------------------------------

\* ServiceManagerBuilder::attach: no object without a handle.
Attach ==
  /\ object = "none"
  /\ \/ handle' = Handle /\ attached' = attached \cup {Handle} /\ object' = "live"
     \/ UNCHANGED <<handle, attached, object>>
  /\ UNCHANGED <<call, given, result, released, action, written, out, running, number>>

\* backup_with_output and restore_with_output, when the action starts.  The
\* library refuses a null handle, the server a second action.
StartAction ==
  /\ object = "live" /\ call = "none" /\ handle # Null
  /\ ~running /\ action < MaxActions
  /\ action' = action + 1 /\ written' = 0 /\ out' = <<>> /\ running' = TRUE
  /\ number' = action' /\ given' = <<>> /\ call' = "drain"
  /\ UNCHANGED <<handle, object, result, attached, released>>

\* start fails: nothing is drained.
StartFails ==
  /\ object = "live" /\ call = "none"
  /\ result' = "error" /\ given' = <<>>
  /\ UNCHANGED <<handle, object, call, attached, released, action, written, out, running, number>>

Return(r) == call' = "none" /\ result' = r

\* Mutant of DrainLine: one request takes two lines when there are two.
DrainLineSkips ==
  /\ call = "drain" /\ out # <<>> /\ Head(out).kind = "text"
  /\ given' = Append(given, Head(out))
  /\ out' = IF Len(out) > 1 THEN Tail(Tail(out)) ELSE <<>>
  /\ UNCHANGED <<handle, object, call, result, attached, released, action, written, running, number>>

\* drain_output: a line, handed to on_line.
DrainLine ==
  /\ call = "drain" /\ out # <<>> /\ Head(out).kind = "text"
  /\ given' = Append(given, Head(out))
  /\ out' = Tail(out)
  /\ UNCHANGED <<handle, object, call, result, attached, released, action, written, running, number>>

\* Mutant of DrainOver: a line of length zero is a line like another.
DrainOverLoops ==
  /\ call = "drain" /\ out = <<>> /\ ~running
  /\ UNCHANGED servicesVars

\* drain_output, when nothing is left: isc_info_end or a line of length zero.
DrainOver ==
  /\ call = "drain" /\ out = <<>> /\ ~running
  /\ Return("ok")
  /\ UNCHANGED <<handle, object, given, attached, released, action, written, out, running, number>>

\* The same replies in the middle: an empty line has length zero, and one that
\* does not fit in 4096 bytes comes as isc_info_truncated.
DrainStops ==
  /\ call = "drain" /\ out # <<>> /\ Head(out).kind # "text"
  /\ Return("ok")
  /\ out' = Tail(out)
  /\ UNCHANGED <<handle, object, given, attached, released, action, written, running, number>>

\* query fails: the call ends with the error, whatever the action does.
DrainFails ==
  /\ call = "drain"
  /\ Return("error")
  /\ UNCHANGED <<handle, object, given, attached, released, action, written, out, running, number>>

\* What the server does to a handle that is detached: nobody reads the output of
\* its action any more, which goes on.
Released == /\ attached' = attached \ {handle}
            /\ released' = Append(released, handle)

\* Mutant of Detach: the handle is not forgotten.
DetachKeepsHandle ==
  /\ object = "live" /\ call = "none" /\ handle # Null
  /\ Released
  /\ UNCHANGED <<handle, object, call, given, result, action, written, out, running, number>>

\* detach: nothing for a null handle; one the server refuses to detach is kept.
Detach ==
  /\ object = "live" /\ call = "none" /\ handle # Null
  /\ Released
  /\ handle' = Null
  /\ UNCHANGED <<object, call, given, result, action, written, out, running, number>>

DetachFails ==
  /\ object = "live" /\ call = "none" /\ handle # Null
  /\ result' = "error"
  /\ UNCHANGED <<handle, object, call, given, attached, released, action, written, out, running, number>>

\* NativeServiceManager::drop: detach, its failure ignored.
Drop ==
  /\ object = "live" /\ call = "none"
  /\ object' = "dropped"
  /\ \/ handle # Null /\ Released
     \/ UNCHANGED <<attached, released>>
  /\ handle' = Null
  /\ result' = IF handle \in attached' THEN "error" ELSE "dropped"
  /\ UNCHANGED <<call, given, action, written, out, running, number>>

---------------------------------------------------------------------------
(* The server: an action writes its lines, when there is room, and ends.   *)

Write ==
  /\ running /\ written < Lines /\ (Len(out) < Room \/ attached = {})
  /\ \E k \in Kinds : out' = Append(out, Line(written + 1, k))
  /\ written' = written + 1
  /\ UNCHANGED <<handle, object, call, given, result, attached, released, action, running, number>>

Finish ==
  /\ running /\ written = Lines
  /\ running' = FALSE
  /\ UNCHANGED <<handle, object, call, given, result, attached, released, action, written, out, number>>

---------------------------------------------------------------------------

ServicesInit ==
  /\ handle = Null /\ object = "none" /\ call = "none"
  /\ given = <<>> /\ result = "none"
  /\ attached = {} /\ released = <<>>
  /\ action = 0 /\ written = 0 /\ out = <<>> /\ running = FALSE /\ number = 0

Drain == DrainLine \/ DrainOver \/ DrainStops \/ DrainFails
Server == Write \/ Finish

ServicesNext ==
  \/ Attach \/ StartAction \/ StartFails \/ Drain \/ Detach \/ DetachFails \/ Drop \/ Server

\* A call goes on as long as its queries are answered, and so does an action.
ServicesSpec ==
  /\ ServicesInit /\ [][ServicesNext]_servicesVars
  /\ WF_servicesVars(DrainLine \/ DrainOver \/ DrainStops) /\ WF_servicesVars(Server)

---------------------------------------------------------------------------

\* A call returns Ok when the action is over and every line of its output was
\* handed to on_line, in order, those of an earlier action that outlived its call
\* not among them; or at a line that looks like the end.  services.rs:344-363.
OkMeansOver ==
  [][call = "drain" /\ call' = "none" /\ result' = "ok" =>
       \/ /\ ~running
          /\ Len(given) = Lines
          /\ \A i \in DOMAIN given : given[i].action = number /\ given[i].n = i
       \/ out # <<>> /\ Head(out).kind # "text"]_servicesVars

\* The types of the variables, a part of HandleIsReleasedOnce.
OutputLines == [action : 0..MaxActions, n : 1..Lines, kind : Kinds]
ServicesTypeOK ==
  /\ handle \in {Null, Handle} /\ attached \subseteq {Handle} /\ released \in Seq({Handle})
  /\ object \in {"none", "live", "dropped"} /\ call \in {"none", "drain"}
  /\ result \in {"none", "ok", "error", "dropped"}
  /\ action \in 0..MaxActions /\ number \in 0..MaxActions /\ written \in 0..Lines
  /\ given \in Seq(OutputLines) /\ out \in Seq(OutputLines) /\ running \in BOOLEAN

\* The variables have their types; a handle is detached once, and dropping the manager leaves it open only
\* where the server refused to close it.  native services.rs:127-145.
HandleIsReleasedOnce ==
  /\ ServicesTypeOK
  /\ Len(released) =< 1
  /\ object = "live" => (handle # Null <=> attached # {})
  /\ object = "dropped" /\ result = "dropped" => attached = {}

\* A backup or restore returns, even though the server waits while its output
\* is not read.
CallsReturn == call = "drain" ~> call = "none"
===========================================================================
