------------------------------- MODULE Events -------------------------------
(***************************************************************************)
(* Waiting for a posted event with the pure-rust client: wait_for_event    *)
(* and its helpers (rsfbclient-rust/src/client.rs, events.rs), and the     *)
(* listener thread that calls it in a loop (src/events.rs).                *)
(*                                                                         *)
(* Registrations are asked for, acknowledged and cancelled on the main     *)
(* connection; notifications arrive on an auxiliary channel that either    *)
(* side may close at any moment.  A wait registers twice: with a counter   *)
(* of zero, which the server answers at once with the counter to wait for, *)
(* and then with that counter.                                             *)
(*                                                                         *)
(* Abstraction: one event name; a notification is an id and a counter, and *)
(* is read whole (the framing of partial reads is fill's, and a keep-alive *)
(* packet has no effect).  What the server sends is well formed.           *)
(***************************************************************************)
EXTENDS Naturals, Sequences, SequencesExt

CONSTANTS
  MaxId,            \* the largest registration id, u32::MAX in the code
  MaxRegistrations, \* bound: registrations ever made
  MaxPosts          \* bound: posts of the event

\* As long as fewer registrations than ids were ever made no id is used twice.
ASSUME IdAssumption == MaxId \in Nat \ {0} /\ MaxRegistrations \in 0 .. MaxId
ASSUME PostsAssumption == MaxPosts \in Nat

VARIABLES
  pc,               \* where wait_for_event is
  next_event_id,
  event_channel,    \* whether the client holds a channel
  waited,           \* the registration waited for: its id and its number
  posted,           \* the counter the synchronization carried
  listener,         \* the thread of listen_event, when there is one
  attached,         \* the main connection: "yes", "no", or "broken"
  aux,              \* the server's side of the channel is up
  wire,             \* notifications in the channel, oldest first
  registered,       \* the registrations the server holds
  counter,          \* how often the event was posted
  result,           \* of the last wait
  base,             \* history: counter when the wait began
  made,             \* history: how many registrations were made
  refused           \* history: registrations whose cancellation was refused

client == <<pc, next_event_id, event_channel, waited, posted, listener>>
server == <<attached, aux, wire, registered, counter>>
history == <<base, made, refused>>
eventsVars == <<client, server, result, history>>

Waiting == pc # "idle"

---------------------------------------------------------------------------
(***************************************************************************)
(* The server                                                              *)
(***************************************************************************)

Post ==
  /\ counter < MaxPosts
  /\ counter' = counter + 1
  /\ UNCHANGED <<client, attached, aux, wire, registered, result, history>>

\* A registration is answered once the counter has reached its own, with the
\* counter the next post will reach.  An id of zero marks one already handled.
Notify ==
  /\ aux
  /\ \E r \in registered :
       /\ r.id # 0 /\ counter >= r.count
       /\ registered' = registered \ {r}
       /\ wire' = Append(wire, [id |-> r.id, no |-> r.no, count |-> counter + 1])
  /\ UNCHANGED <<client, attached, aux, counter, result, history>>

\* The channel is closed by the server or the network, with or without what was
\* in it.
ChannelDies ==
  /\ aux
  /\ aux' = FALSE
  /\ wire' \in {wire, <<>>}
  /\ UNCHANGED <<client, attached, registered, counter, result, history>>

\* The main connection breaks: the attachment is gone with all it held.
LinkBreaks ==
  /\ attached = "yes"
  /\ attached' = "broken"
  /\ registered' = {}
  /\ aux' = FALSE
  /\ wire' \in {wire, <<>>}
  /\ UNCHANGED <<client, counter, result, history>>

---------------------------------------------------------------------------
(***************************************************************************)
(* wait_for_event                                                          *)
(***************************************************************************)

Fail == pc' = "idle" /\ result' = "error"

\* open_event_channel finds the channel of this attachment, or closes what it has.
WaitForEvent ==
  /\ ~Waiting
  /\ listener = "none" \/ (listener = "between" /\ result = "none")
  /\ made + 2 =< MaxRegistrations
  /\ pc' = IF event_channel THEN "synchronize" ELSE "open"
  /\ result' = "none"
  /\ base' = counter
  /\ UNCHANGED <<next_event_id, event_channel, waited, posted, listener, server, made, refused>>

\* The server answers the port, and the client connects to it.
OpenEventChannel ==
  /\ pc = "open"
  /\ \/ /\ attached = "yes"
        /\ event_channel' = TRUE
        /\ aux' = TRUE
        /\ wire' = <<>>
        /\ pc' = "synchronize"
        /\ UNCHANGED result
     \/ Fail /\ UNCHANGED <<event_channel, aux, wire>>
  /\ UNCHANGED <<next_event_id, waited, posted, listener, attached, registered, counter, history>>

\* Mutant of NewEventId: zero is not skipped.
NewEventIdZero == next_event_id' = (next_event_id + 1) % (MaxId + 1)

\* Mutant of NewEventId: the id is not advanced.
NewEventIdSame == UNCHANGED next_event_id

NewEventId == next_event_id' = IF next_event_id = MaxId THEN 1 ELSE next_event_id + 1

\* que_events, until the registration is acknowledged.
QueEvents(count, then) ==
  /\ NewEventId
  /\ made' = made + 1
  /\ waited' = [id |-> next_event_id, no |-> made + 1]
  /\ \/ /\ attached = "yes"
        /\ registered' = registered \cup {[id |-> next_event_id, no |-> made + 1, count |-> count]}
        /\ pc' = then
        /\ UNCHANGED result
     \/ Fail /\ UNCHANGED registered
  /\ UNCHANGED <<event_channel, posted, listener, attached, aux, wire, counter, base, refused>>

Synchronize == pc = "synchronize" /\ QueEvents(0, "sync")

\* Mutant of Register: the counter before the one the server carried.
RegisterEarly == pc = "register" /\ QueEvents(posted - 1, "event")

Register == pc = "register" /\ QueEvents(posted, "event")

\* Mutant of RecvStale: the packet is not taken from the buffer.
RecvStalePeeks ==
  /\ pc \in {"sync", "event"}
  /\ wire # <<>> /\ Head(wire).id # waited.id
  /\ UNCHANGED eventsVars

\* recv_event, on a notification of another registration.
RecvStale ==
  /\ pc \in {"sync", "event"}
  /\ wire # <<>> /\ Head(wire).id # waited.id
  /\ wire' = Tail(wire)
  /\ UNCHANGED <<client, attached, aux, registered, counter, result, history>>

\* recv_event, on the notification waited for.
RecvEvent ==
  /\ pc \in {"sync", "event"}
  /\ wire # <<>> /\ Head(wire).id = waited.id
  /\ wire' = Tail(wire)
  /\ IF pc = "sync"
     THEN posted' = Head(wire).count /\ pc' = "register" /\ UNCHANGED result
     ELSE pc' = "idle" /\ result' = "event" /\ UNCHANGED posted
  /\ UNCHANGED <<next_event_id, event_channel, waited, listener>>
  /\ UNCHANGED <<attached, aux, registered, counter, history>>

\* Mutant of RecvFails: the registration is left to the server.
RecvFailsOnly ==
  /\ pc \in {"sync", "event"}
  /\ wire = <<>> /\ ~aux
  /\ event_channel' = FALSE
  /\ Fail
  /\ UNCHANGED <<next_event_id, waited, posted, listener, server, history>>

\* recv_event fails: the channel is dropped and the registration cancelled, as far
\* as the main connection allows.
RecvFails ==
  /\ pc \in {"sync", "event"}
  /\ wire = <<>> /\ ~aux
  /\ event_channel' = FALSE
  /\ \/ registered' = {r \in registered : r.no # waited.no} /\ UNCHANGED refused
     \/ UNCHANGED registered /\ refused' = refused \cup {waited.no}
  /\ Fail
  /\ UNCHANGED <<next_event_id, waited, posted, listener, attached, aux, wire, counter, base, made>>

---------------------------------------------------------------------------
(***************************************************************************)
(* The rest of the connection's life                                       *)
(***************************************************************************)

\* Dropping the channel closes its socket; the server drops its side.
ChannelClosed == event_channel' = FALSE /\ aux' = FALSE /\ wire' = <<>>

\* detach_database, also when the listener thread drops its connection.  One that
\* is refused leaves a connection that can be used again.
DetachDatabase ==
  /\ ~Waiting /\ listener \in {"none", "over"}
  /\ attached = "yes"
  /\ ChannelClosed
  /\ \/ attached' = "no" /\ registered' = {}
     \/ UNCHANGED <<attached, registered>>
  /\ UNCHANGED <<pc, next_event_id, waited, posted, listener, counter, result, history>>

\* listen_event, given the connection.
ListenEvent ==
  /\ listener = "none" /\ ~Waiting
  /\ listener' = "between"
  /\ result' = "none"
  /\ UNCHANGED <<pc, next_event_id, event_channel, waited, posted, server, history>>

\* The wait has returned: the handler is called, or the error ends the thread.
ListenerWoken ==
  /\ listener = "between" /\ ~Waiting /\ result # "none"
  /\ listener' = IF result = "event" THEN "handling" ELSE "over"
  /\ result' = "none"
  /\ UNCHANGED <<pc, next_event_id, event_channel, waited, posted, server, history>>

\* The handler asks to hold on; or it returns false or an error.
HandlerReturns ==
  /\ listener = "handling"
  /\ listener' \in {"between", "over"}
  /\ UNCHANGED <<pc, next_event_id, event_channel, waited, posted, server, result, history>>

---------------------------------------------------------------------------

\* The connection may have waited before, so that any id may be next.
EventsInit ==
  /\ pc = "idle"
  /\ next_event_id \in 1 .. MaxId
  /\ event_channel = FALSE
  /\ waited = [id |-> 0, no |-> 0]
  /\ posted = 0
  /\ listener = "none"
  /\ attached = "yes"
  /\ aux = FALSE
  /\ wire = <<>>
  /\ registered = {}
  /\ counter = 0
  /\ result = "none"
  /\ base = 0
  /\ made = 0
  /\ refused = {}

WaitStep ==
  \/ OpenEventChannel
  \/ Synchronize
  \/ Register
  \/ RecvStale
  \/ RecvEvent
  \/ RecvFails

EventsNext ==
  \/ Post
  \/ Notify
  \/ ChannelDies
  \/ LinkBreaks
  \/ WaitForEvent
  \/ WaitStep
  \/ DetachDatabase
  \/ ListenEvent
  \/ ListenerWoken
  \/ HandlerReturns

\* The server delivers what it owes and the waiting thread goes on reading; nobody
\* has to post, wait or break anything.
EventsSpec == EventsInit /\ [][EventsNext]_eventsVars /\ WF_eventsVars(Notify) /\ WF_eventsVars(WaitStep)

---------------------------------------------------------------------------
(***************************************************************************)
(* Properties                                                              *)
(***************************************************************************)

Registrations == [id : 0 .. MaxId, no : 1 .. MaxRegistrations, count : 0 .. MaxPosts + 1]

\* The types of the variables; zero is never an id.
EventsTypeOK ==
  /\ pc \in {"idle", "open", "synchronize", "sync", "register", "event"}
  /\ next_event_id \in 1 .. MaxId
  /\ event_channel \in BOOLEAN
  /\ waited \in [id : 0 .. MaxId, no : 0 .. MaxRegistrations]
  /\ posted \in 0 .. MaxPosts + 1
  /\ listener \in {"none", "between", "handling", "over"}
  /\ attached \in {"yes", "no", "broken"}
  /\ aux \in BOOLEAN
  /\ wire \in Seq(Registrations)
  /\ registered \subseteq Registrations
  /\ counter \in 0 .. MaxPosts
  /\ result \in {"none", "event", "error"}
  /\ base \in 0 .. counter
  /\ made \in 0 .. MaxRegistrations
  /\ refused \subseteq 1 .. MaxRegistrations

\* A wait succeeds only if the event was posted since it was called, whatever was
\* posted before, and whatever an earlier wait left in the channel.
NoSpuriousWake == result = "event" => counter > base

\* What bears the id of the registration waited for is that registration or its
\* notification, so a late notification is never taken for an answer.
NotificationsAreOwn ==
  pc \in {"sync", "event"} =>
    \A n \in ToSet(wire) \cup registered : n.id = waited.id => n.no = waited.no

\* The server holds no registration but the one waited for and those it refused to
\* cancel.
NothingStaysRegistered ==
  \A r \in registered :
    \/ pc \in {"sync", "event"} /\ r.no = waited.no
    \/ r.no \in refused

\* A wait comes to its end, or to wait for a post that has not happened: the
\* synchronization is always answered, and a post behind it always wakes.
PostsWake == Waiting ~> (~Waiting \/ (pc = "event" /\ counter < posted))

============================================================================
