---------------------------- MODULE EventDelivery ----------------------------
(***************************************************************************)
(* How the events of one project reach a browser: the event log, the       *)
(* broker and the WebSocket handler of src/aura/workspace/server.py, the   *)
(* narration of each batch, and the connection the workspace frontend      *)
(* keeps (the effect on projectId in WorkspaceApp.tsx).  A connection      *)
(* lives as long as its project is open; the session of the page, which    *)
(* decides whether a message is listened to, comes and goes meanwhile.     *)
(*                                                                         *)
(* Events are their ids: append_events and save_commit number them from    *)
(* MAX(event_id)+1 in the transaction that stores them.  A handler stores  *)
(* a batch and publishes it without giving up the event loop (the queues   *)
(* are unbounded), so the WebSocket handler runs only between batches; the *)
(* process can die anywhere.                                               *)
(***************************************************************************)
EXTENDS Naturals, Sequences

CONSTANTS
    MaxEvents,       \* bound: events ever stored
    MaxBatch,        \* bound: events stored in one transaction
    MaxBreaks,       \* bound: connections that break
    MaxRetries       \* reconnections tried in a row, 6 in the frontend

ASSUME DeliveryAssumption ==
    /\ MaxEvents \in Nat /\ MaxBreaks \in Nat
    /\ MaxBatch \in Nat \ {0} /\ MaxRetries \in Nat \ {0}

VARIABLES
    stored,          \* the events table: ids 1..stored
    publishing,      \* the batch a handler is publishing: ids left, narrations owed
    session,         \* the WebSocket handler of the browser's connection
    wire,            \* ids sent to the browser and not handled yet
    phase,           \* of the browser's connection
    last,            \* the id the browser handled last
    retry,           \* reconnections tried since the last one that opened
    ours,            \* session.identity of the page is of this project
    brought,         \* history: the id taken off the wire last, since `last' was asked for
    handled,         \* history: ids handled, in order
    dropped,         \* history: ids that came while the session was not of this project
    breaks           \* history: connections that broke

seen == <<last, ours, brought, handled, dropped>>
vars == <<stored, publishing, session, wire, phase, retry, breaks, seen>>

Idle == [todo |-> <<>>, owed |-> 0]
Absent == [open |-> FALSE, replay |-> <<>>, queue |-> <<>>]
Phases == {"connecting", "connected", "waiting", "paused"}

\* The event loop is free for another handler.
LoopIsFree == publishing = Idle

Ids(from, to) == [i \in 1..(to - from + 1) |-> from + i - 1]

-----------------------------------------------------------------------------
(* publish_with_narration.                                                 *)

\* A transaction stores a batch; `owed' of its events are worth narrating.
Store ==
    /\ LoopIsFree
    /\ \E n \in 1..MaxBatch, owed \in 0..1 :
          /\ stored + n + owed <= MaxEvents
          /\ stored' = stored + n
          /\ publishing' = [todo |-> Ids(stored + 1, stored + n), owed |-> owed]
    /\ UNCHANGED <<session, wire, phase, retry, breaks, seen>>

\* The queues an event is put in: those registered with the broker, whether
\* or not the handler is still replaying the past.
CollectsAfterReplay == session.open /\ session.replay = <<>>                \* mutant
Collects == session.open

Publish ==
    /\ publishing.todo # <<>>
    /\ publishing' = [publishing EXCEPT !.todo = Tail(@)]
    /\ session' = IF Collects
                  THEN [session EXCEPT !.queue = Append(@, Head(publishing.todo))]
                  ELSE session
    /\ UNCHANGED <<stored, wire, phase, retry, breaks, seen>>

\* The narrations of the batch are stored in one more transaction, and then
\* published as it was; they are never narrated themselves.
Narrate ==
    /\ publishing.todo = <<>> /\ publishing.owed > 0
    /\ stored' = stored + publishing.owed
    /\ publishing' = [todo |-> Ids(stored + 1, stored + publishing.owed), owed |-> 0]
    /\ UNCHANGED <<session, wire, phase, retry, breaks, seen>>

-----------------------------------------------------------------------------
(* The WebSocket handler: accept, register a queue, send the stored events *)
(* after the one the browser names, then send what the queue collects.     *)

\* Registering and reading the log are one stretch of loop code.
Accept ==
    /\ LoopIsFree
    /\ phase = "connecting"
    /\ session' = [open |-> TRUE, replay |-> Ids(last + 1, stored), queue |-> <<>>]
    /\ phase' = "connected"
    /\ retry' = 0
    /\ brought' = last
    /\ dropped' = {id \in dropped : id <= last}
    /\ UNCHANGED <<stored, publishing, wire, last, ours, handled, breaks>>

SendReplay ==
    /\ LoopIsFree
    /\ session.replay # <<>>
    /\ wire' = Append(wire, Head(session.replay))
    /\ session' = [session EXCEPT !.replay = Tail(@)]
    /\ UNCHANGED <<stored, publishing, phase, retry, breaks, seen>>

SendQueue ==
    /\ LoopIsFree
    /\ session.replay = <<>> /\ session.queue # <<>>
    /\ wire' = Append(wire, Head(session.queue))
    /\ session' = [session EXCEPT !.queue = Tail(@)]
    /\ UNCHANGED <<stored, publishing, phase, retry, breaks, seen>>

-----------------------------------------------------------------------------
(* The browser.                                                            *)

\* onmessage ignores what comes while the session is not of this project,
\* and what it has handled already.
SkipsOne(id) == id > last + 1                                               \* mutant
Fresh(id) == id > last

Receive ==
    /\ phase = "connected"
    /\ wire # <<>>
    /\ wire' = Tail(wire)
    /\ LET id == Head(wire) IN
       /\ brought' = id
       /\ \/ /\ ours /\ Fresh(id)
             /\ last' = id
             /\ handled' = Append(handled, id)
             /\ UNCHANGED dropped
          \/ /\ ours /\ ~Fresh(id)
             /\ UNCHANGED <<last, handled, dropped>>
          \/ /\ ~ours
             /\ dropped' = dropped \cup {id}
             /\ UNCHANGED <<last, handled>>
    /\ UNCHANGED <<stored, publishing, session, phase, retry, ours, breaks>>

\* The project that is open is chosen again, which clears the session, or a
\* scenario of another project is answered, whose load takes it.  The
\* connection stays.
LoseSession ==
    /\ ours
    /\ ours' = FALSE
    /\ UNCHANGED <<stored, publishing, session, wire, phase, last, retry,
                   brought, handled, dropped, breaks>>

\* A scenario of this project is answered, whose load begins a session.
FindSession ==
    /\ ~ours
    /\ ours' = TRUE
    /\ UNCHANGED <<stored, publishing, session, wire, phase, last, retry,
                   brought, handled, dropped, breaks>>

\* onclose: six attempts, then the browser shows itself offline for good.
GivesUp == retry >= MaxRetries

Close ==
    /\ phase' = IF GivesUp THEN "paused" ELSE "waiting"
    /\ retry' = retry + 1
    /\ session' = Absent
    /\ wire' = <<>>
    /\ UNCHANGED seen

\* The connection breaks, or a new one cannot be opened: messages under way
\* are lost, the server's handler ends at its next send.
Break ==
    /\ phase \in {"connecting", "connected"}
    /\ breaks < MaxBreaks
    /\ breaks' = breaks + 1
    /\ Close
    /\ UNCHANGED <<stored, publishing>>

\* The process dies in the middle of a batch or between two: events that are
\* stored and not published are never published.
Crash ==
    /\ breaks < MaxBreaks
    /\ breaks' = breaks + 1
    /\ publishing' = Idle
    /\ IF phase \in {"connecting", "connected"}
       THEN Close
       ELSE UNCHANGED <<session, wire, phase, retry, seen>>
    /\ UNCHANGED stored

Reconnect ==
    /\ phase = "waiting"
    /\ phase' = "connecting"
    /\ UNCHANGED <<stored, publishing, session, wire, retry, breaks, seen>>

-----------------------------------------------------------------------------
Init ==
    /\ stored = 0
    /\ publishing = Idle
    /\ session = Absent
    /\ wire = <<>>
    /\ phase = "connecting"
    /\ last = 0
    /\ retry = 0
    /\ ours = TRUE
    /\ brought = 0
    /\ handled = <<>>
    /\ dropped = {}
    /\ breaks = 0

Server == Publish \/ Narrate \/ Accept \/ SendReplay \/ SendQueue
Browser == Receive \/ Reconnect
Next == Store \/ Server \/ Browser \/ LoseSession \/ FindSession \/ Break \/ Crash

Spec == Init /\ [][Next]_vars

\* The loop runs what it can run, and the browser handles its messages and
\* timers.  Nothing makes a handler store an event, a connection break or a
\* session come back.
FairSpec == Spec /\ WF_vars(Server) /\ WF_vars(Browser)

-----------------------------------------------------------------------------
(* Properties.                                                             *)

\* An open connection owes the browser exactly the events it has not brought,
\* in order: under way, to be replayed, collected during the replay, and still
\* to be published.  Nothing is in two of those places, nothing in none.  And
\* what was brought has been handled, unless the session was away just then.
Pending == wire \o session.replay \o session.queue \o publishing.todo
Handled == {handled[i] : i \in DOMAIN handled}
OwesTheRest == session.open => Pending = Ids(brought + 1, stored)
IsAccountedFor == \A id \in 1..brought : id \in Handled \cup dropped
NothingIsMissed == OwesTheRest /\ IsAccountedFor

\* The browser handles the log in order, no event twice and none left out but
\* those that came while the session was away and that no reconnection asked
\* for again, across reconnections and restarts (test_goal10_reliability.py:77).
Stream == INSTANCE EventStream
RefinesEventStream == Stream!Spec

\* A browser that has not given up comes to handle every stored event, those
\* included that a crash kept from being published, or loses it to a session
\* that is away.
CatchesUp ==
    \A n \in 1..MaxEvents :
        stored >= n ~> (last >= n \/ n \in dropped \/ phase = "paused")
=============================================================================
