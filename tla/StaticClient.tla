----------------------------- MODULE StaticClient -----------------------------
(***************************************************************************)
(* The static client, app.js: one WebSocket, reopened by timers, and the   *)
(* narrations it brings read out by SpeechQueue.  connect closes the       *)
(* socket before it and leaves its onclose in place, so that an old socket *)
(* asks for a reconnection of its own.  What a load puts on the page is    *)
(* left out: here it is a wait before connect(0).                          *)
(***************************************************************************)
EXTENDS SpeechQueue

CONSTANTS
    Projects,
    MaxReconnects,   \* MAX_RECONNECT_ATTEMPTS
    MaxEvents,       \* bound: events of a project
    MaxClicks        \* bound: projects opened or created, reconnections asked for

ASSUME ClientAssumption ==
    /\ MaxReconnects \in Nat /\ MaxEvents \in Nat /\ MaxClicks \in Nat

Socket == [projectId : Projects, cursor : 0..MaxEvents, open : BOOLEAN]

ASSUME NothingAssumption == None \notin Projects \cup Socket

VARIABLES
    stored,          \* the server: the events of each project, none before it exists
    projectId,
    waiting,         \* handlers on their way to connect(0), by what they wait for
    socket,          \* state.socket
    closing,         \* closed sockets whose onclose is to run
    timer,           \* state.reconnectTimer is pending
    lost,            \* pending timers that a later one has replaced there
    attempt,         \* state.reconnectAttempt
    offered,         \* the reconnect button is shown
    lastEventId,
    timeline,        \* the ids of state.events
    clicks

clientVars == <<stored, projectId, waiting, socket, closing, timer, lost, attempt, offered,
                lastEventId, timeline, clicks>>
connection == <<socket, closing, timer, lost, attempt, offered>>
vars == <<clientVars, speechVars>>

-----------------------------------------------------------------------------
(* The connection.                                                         *)

IsOpen == socket # None /\ socket.open

Connect(after) ==
    /\ timer' = FALSE
    /\ closing' = IF IsOpen THEN closing + 1 ELSE closing
    /\ socket' = [projectId |-> projectId, cursor |-> after, open |-> TRUE]

\* socket.onclose
TriesAgain == attempt < MaxReconnects

OffersNothing == offered                                                    \* mutant
OffersReconnect == TRUE

OnClose ==
    \/ /\ ~TriesAgain
       /\ offered' = OffersReconnect
       /\ UNCHANGED <<attempt, timer, lost>>
    \/ /\ TriesAgain
       /\ attempt' = attempt + 1
       /\ timer' = TRUE
       /\ lost' = IF timer THEN lost + 1 ELSE lost
       /\ UNCHANGED offered

Closed ==
    /\ closing > 0
    /\ closing' = closing - 1
    /\ OnClose
    /\ UNCHANGED <<stored, projectId, waiting, socket, lastEventId, timeline, clicks, speechVars>>

\* The network or the server closes the socket.
Break ==
    /\ IsOpen
    /\ socket' = [socket EXCEPT !.open = FALSE]
    /\ OnClose
    /\ UNCHANGED <<stored, projectId, waiting, closing, lastEventId, timeline, clicks, speechVars>>

\* setTimeout(() => connect(state.lastEventId), delay)
FreshAttempts == 0                                                          \* mutant
AttemptsSoFar == attempt

TimerFires ==
    /\ \/ timer /\ UNCHANGED lost
       \/ lost > 0 /\ lost' = lost - 1
    /\ Connect(lastEventId)
    /\ attempt' = AttemptsSoFar
    /\ UNCHANGED <<stored, projectId, waiting, offered, lastEventId, timeline, clicks, speechVars>>

-----------------------------------------------------------------------------
(* Events.                                                                 *)

Happens(id) ==
    /\ stored[id] \in 1..(MaxEvents - 1)
    /\ stored' = [stored EXCEPT ![id] = @ + 1]
    /\ UNCHANGED <<projectId, waiting, connection, lastEventId, timeline, clicks, speechVars>>

\* socket.onmessage.  An event tells of a narration or of something else, and
\* only a narration that is neither historical, known nor spoken is read out.
AnyIsNew(e) == TRUE                                                         \* mutant
IsNew(e) == e > lastEventId
OnMessage ==
    /\ IsOpen /\ socket.cursor < stored[socket.projectId]
    /\ socket' = [socket EXCEPT !.cursor = @ + 1]
    /\ LET e == socket.cursor + 1 IN
       \/ /\ IsNew(e)
          /\ lastEventId' = e
          /\ timeline' = Append(timeline, e)
          /\ attempt' = 0 /\ offered' = FALSE
          /\ (\E p \in Priorities : Enqueue(p)) \/ UNCHANGED speechVars
       \/ /\ ~IsNew(e)
          /\ UNCHANGED <<lastEventId, timeline, attempt, offered, speechVars>>
    /\ UNCHANGED <<stored, projectId, waiting, closing, timer, lost, clicks>>

-----------------------------------------------------------------------------
(* Clicks.                                                                 *)

Click == clicks < MaxClicks /\ clicks' = clicks + 1

Empty == lastEventId' = 0 /\ timeline' = << >>

Steps == {"opening", "asking", "creating"}

\* open-project
Open(id) ==
    /\ stored[id] > 0
    /\ Click
    /\ projectId' = id
    /\ ClearSpeech
    /\ Empty
    /\ waiting' = [waiting EXCEPT !["opening"] = @ + 1]
    /\ UNCHANGED <<stored, connection, voice>>

\* create empties the page before it asks, and learns the project after.
Create ==
    /\ Click
    /\ Empty
    /\ waiting' = [waiting EXCEPT !["asking"] = @ + 1]
    /\ UNCHANGED <<stored, projectId, connection, speechVars>>

Created(id) ==
    /\ waiting["asking"] > 0
    /\ stored[id] = 0
    /\ \E n \in 1..MaxEvents : stored' = [stored EXCEPT ![id] = n]
    /\ projectId' = id
    /\ ClearSpeech
    /\ waiting' = [waiting EXCEPT !["asking"] = @ - 1, !["creating"] = @ + 1]
    /\ UNCHANGED <<connection, lastEventId, timeline, clicks, voice>>

\* loadProject has returned.  After creating, presentFreshNarrations reads out
\* the last urgent narration and the last completion, unless they are spoken.
Loaded(step) ==
    /\ step # "asking"
    /\ waiting[step] > 0
    /\ waiting' = [waiting EXCEPT ![step] = @ - 1]
    /\ Connect(0)
    /\ \/ UNCHANGED speechVars
       \/ step = "creating" /\ \E p \in Priorities : Enqueue(p)
    /\ UNCHANGED <<stored, projectId, lost, attempt, offered, lastEventId, timeline, clicks>>

\* Creating is refused, or a load fails: connect(0) is not reached.
Refused(step) ==
    /\ waiting[step] > 0
    /\ waiting' = [waiting EXCEPT ![step] = @ - 1]
    /\ UNCHANGED <<stored, projectId, connection, lastEventId, timeline, clicks, speechVars>>

AskReconnect ==
    /\ offered
    /\ Click
    /\ attempt' = 0 /\ offered' = FALSE
    /\ Connect(lastEventId)
    /\ UNCHANGED <<stored, projectId, waiting, lost, lastEventId, timeline, speechVars>>

Speech == (Done \/ ToggleVoice \/ StopSpeaking) /\ UNCHANGED clientVars

-----------------------------------------------------------------------------
\* The page opens with the project it showed last, or with none.
Init ==
    /\ stored \in [Projects -> {0, 1}]
    /\ projectId \in {None} \cup {id \in Projects : stored[id] > 0}
    /\ waiting = [step \in Steps |-> IF step = "opening" /\ projectId # None THEN 1 ELSE 0]
    /\ socket = None /\ closing = 0
    /\ timer = FALSE /\ lost = 0 /\ attempt = 0 /\ offered = FALSE
    /\ lastEventId = 0 /\ timeline = << >>
    /\ clicks = 0
    /\ SpeechInit

Next ==
    \/ Closed \/ Break \/ TimerFires \/ OnMessage \/ Create \/ AskReconnect \/ Speech
    \/ \E id \in Projects : Happens(id) \/ Open(id) \/ Created(id)
    \/ \E step \in Steps : Loaded(step) \/ Refused(step)

\* The browser runs onclose and its timers, and an utterance ends.
Fairness == WF_vars(Closed) /\ WF_vars(TimerFires) /\ WF_vars(Done /\ UNCHANGED clientVars)

Spec == Init /\ [][Next]_vars /\ Fairness

-----------------------------------------------------------------------------
(* Properties.                                                             *)

\* Once there was a connection, the page has one, is about to try again or
\* offers the button: no order of old sockets closing, of timers that replace
\* each other and of clicks leaves it cut off without saying so.
NeverCutOff ==
    socket # None => IsOpen \/ closing > 0 \/ timer \/ lost > 0 \/ offered

\* The timeline shows each event once and in order, however often the page
\* reconnects.
TimelineIsOrdered ==
    \A i, j \in DOMAIN timeline : i < j => timeline[i] < timeline[j]

\* Each reconnection closes a socket whose onclose asks for another, but the
\* chain ends.
ReconnectionsEnd == <>[](closing = 0 /\ ~timer /\ lost = 0)
=============================================================================
