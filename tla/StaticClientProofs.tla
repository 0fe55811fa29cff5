-------------------------- MODULE StaticClientProofs --------------------------
(***************************************************************************)
(* What holds of the static client for any number of projects, events,     *)
(* reconnections and clicks: the page is never cut off without offering a  *)
(* way back, its timeline is in order, and it reads out what is urgent     *)
(* before what is not.                                                     *)
(***************************************************************************)
EXTENDS StaticClient, SequenceTheorems, FiniteSetTheorems, TLAPS

\* The variables the two arguments look at.  Nothing of speech is needed, nor
\* whose socket it is.
AnySocket == [projectId : Projects \cup {None}, cursor : Nat, open : BOOLEAN]

Typed ==
    /\ projectId \in Projects \cup {None}
    /\ socket # None => socket \in AnySocket
    /\ closing \in Nat /\ lost \in Nat
    /\ timer \in BOOLEAN /\ offered \in BOOLEAN
    /\ lastEventId \in Nat
    /\ timeline \in Seq(Nat)

\* The timeline goes no further than the last event the page has taken, so
\* that what IsNew lets in belongs at its end.
UpToLast == \A i \in DOMAIN timeline : timeline[i] <= lastEventId

IInv == Typed /\ NeverCutOff /\ UpToLast /\ TimelineIsOrdered

events == <<lastEventId, timeline>>

-----------------------------------------------------------------------------
\* Init starts without a connection and with an empty timeline.
LEMMA InitOK == Init => IInv
<1> SUFFICES ASSUME Init PROVE IInv
    OBVIOUS
<1>1. projectId \in Projects \cup {None} /\ socket = None
  BY DEF Init
<1>2. closing \in Nat /\ lost \in Nat /\ lastEventId \in Nat
  BY DEF Init
<1>3. timer \in BOOLEAN /\ offered \in BOOLEAN
  BY DEF Init
<1>4. timeline = << >>
  BY DEF Init
<1>5. Typed
  BY <1>1, <1>2, <1>3, <1>4 DEF Typed
<1>6. NeverCutOff
  BY <1>1 DEF NeverCutOff
<1>7. UpToLast /\ TimelineIsOrdered
  BY <1>4 DEF UpToLast, TimelineIsOrdered
<1> QED
  BY <1>5, <1>6, <1>7 DEF IInv

\* What a step of the connection has to show.
Connected ==
    /\ socket # None => socket \in AnySocket
    /\ closing \in Nat /\ lost \in Nat
    /\ timer \in BOOLEAN /\ offered \in BOOLEAN
    /\ NeverCutOff

\* What a step of the timeline has to show.
InOrder ==
    /\ lastEventId \in Nat /\ timeline \in Seq(Nat)
    /\ UpToLast /\ TimelineIsOrdered

\* The parts make the invariant.
LEMMA PartsOK ==
  ASSUME projectId' \in Projects \cup {None}, Connected', InOrder'
  PROVE  IInv'
  BY DEF Connected, InOrder, IInv, Typed

\* A connection that is left alone stays as it is.
LEMMA ConnectionKept ==
  ASSUME IInv, UNCHANGED connection PROVE Connected'
  BY DEF connection, IInv, Typed, Connected, NeverCutOff, IsOpen

\* connect opens a socket: whatever timers and old sockets there are, the page
\* is not cut off.
LEMMA ConnectOK ==
  ASSUME IInv, NEW after \in Nat, Connect(after), lost' \in Nat, offered' \in BOOLEAN
  PROVE  Connected'
<1>1. socket' \in AnySocket /\ socket'.open = TRUE
  BY DEF Connect, IInv, Typed, AnySocket
<1>2. closing \in Nat
  BY DEF IInv, Typed
<1>3. closing' \in Nat
  BY <1>2 DEF Connect
<1>4. timer' = FALSE
  BY DEF Connect
<1>5. NeverCutOff'
  BY <1>1 DEF NeverCutOff, IsOpen
<1> QED
  BY <1>1, <1>3, <1>4, <1>5 DEF Connected

\* onclose tries again or offers the button.
LEMMA OnCloseOK ==
  ASSUME IInv, OnClose
  PROVE  /\ lost' \in Nat
         /\ timer' \in BOOLEAN /\ offered' \in BOOLEAN
         /\ timer' = TRUE \/ offered' = TRUE
<1>1. lost \in Nat /\ timer \in BOOLEAN /\ offered \in BOOLEAN
  BY DEF IInv, Typed
<1>2. CASE TriesAgain
  BY <1>1, <1>2 DEF OnClose
<1>3. CASE ~TriesAgain
  BY <1>1, <1>3 DEF OnClose, OffersReconnect
<1> QED
  BY <1>2, <1>3

\* The page keeps or empties its timeline.
LEMMA TimelineOK ==
  ASSUME IInv, UNCHANGED events \/ Empty PROVE InOrder'
<1>1. CASE UNCHANGED events
  BY <1>1 DEF events, IInv, Typed, InOrder, UpToLast, TimelineIsOrdered
<1>2. CASE Empty
  BY <1>2 DEF Empty, InOrder, UpToLast, TimelineIsOrdered
<1> QED
  BY <1>1, <1>2

-----------------------------------------------------------------------------
(* The steps of the connection.                                            *)

LEMMA ClosedOK == ASSUME IInv, Closed PROVE IInv'
<1>1. /\ lost' \in Nat /\ timer' \in BOOLEAN /\ offered' \in BOOLEAN
      /\ timer' = TRUE \/ offered' = TRUE
  BY OnCloseOK DEF Closed
<1>2. closing' \in Nat /\ (socket' # None => socket' \in AnySocket)
  BY DEF Closed, IInv, Typed
<1>3. NeverCutOff'
  BY <1>1 DEF NeverCutOff
<1>4. Connected'
  BY <1>1, <1>2, <1>3 DEF Connected
<1>5. InOrder'
  BY TimelineOK DEF Closed, events
<1>6. projectId' \in Projects \cup {None}
  BY DEF Closed, IInv, Typed
<1> QED
  BY <1>4, <1>5, <1>6, PartsOK

LEMMA BreakOK == ASSUME IInv, Break PROVE IInv'
<1>1. /\ lost' \in Nat /\ timer' \in BOOLEAN /\ offered' \in BOOLEAN
      /\ timer' = TRUE \/ offered' = TRUE
  BY OnCloseOK DEF Break
<1>2. closing' \in Nat
  BY DEF Break, IInv, Typed
<1>3. socket' \in AnySocket
  BY DEF Break, IsOpen, IInv, Typed, AnySocket
<1>4. NeverCutOff'
  BY <1>1 DEF NeverCutOff
<1>5. Connected'
  BY <1>1, <1>2, <1>3, <1>4 DEF Connected
<1>6. InOrder'
  BY TimelineOK DEF Break, events
<1>7. projectId' \in Projects \cup {None}
  BY DEF Break, IInv, Typed
<1> QED
  BY <1>5, <1>6, <1>7, PartsOK

LEMMA TimerFiresOK == ASSUME IInv, TimerFires PROVE IInv'
<1>1. lost' \in Nat /\ offered' \in BOOLEAN /\ lastEventId \in Nat
  BY DEF TimerFires, IInv, Typed
<1>2. Connected'
  BY <1>1, ConnectOK DEF TimerFires
<1>3. InOrder'
  BY TimelineOK DEF TimerFires, events
<1>4. projectId' \in Projects \cup {None}
  BY DEF TimerFires, IInv, Typed
<1> QED
  BY <1>2, <1>3, <1>4, PartsOK

-----------------------------------------------------------------------------
(* Events.                                                                 *)

\* A new event comes after all that is shown.
LEMMA AppendOK ==
  ASSUME IInv, NEW e \in Nat, IsNew(e), lastEventId' = e, timeline' = Append(timeline, e)
  PROVE  InOrder'
<1>1. timeline \in Seq(Nat) /\ lastEventId \in Nat /\ lastEventId < e
  BY DEF IInv, Typed, IsNew
<1>2. /\ timeline' \in Seq(Nat)
      /\ Len(timeline') = Len(timeline) + 1
      /\ timeline'[Len(timeline) + 1] = e
      /\ \A i \in 1..Len(timeline) : timeline'[i] = timeline[i]
  BY <1>1
<1>3. \A i \in 1..Len(timeline) : timeline[i] \in Nat /\ timeline[i] <= lastEventId
  BY <1>1 DEF IInv, UpToLast
<1>4. \A i, j \in 1..Len(timeline) : i < j => timeline[i] < timeline[j]
  BY <1>1 DEF IInv, TimelineIsOrdered
<1>5. DOMAIN timeline' = 1..(Len(timeline) + 1)
  BY <1>2
<1>6. UpToLast'
  BY <1>1, <1>2, <1>3, <1>5 DEF UpToLast
<1>7. TimelineIsOrdered'
  BY <1>1, <1>2, <1>3, <1>4, <1>5 DEF TimelineIsOrdered
<1> QED
  BY <1>2, <1>6, <1>7 DEF InOrder

LEMMA OnMessageOK == ASSUME IInv, OnMessage PROVE IInv'
<1>1. /\ socket \in AnySocket /\ socket.open = TRUE
      /\ lost \in Nat /\ closing \in Nat /\ timer \in BOOLEAN /\ offered \in BOOLEAN
  BY DEF OnMessage, IsOpen, IInv, Typed, AnySocket
<1>2. socket' \in AnySocket /\ socket'.open = TRUE
  BY <1>1 DEF OnMessage, AnySocket
<1>3. lost' = lost /\ closing' = closing /\ timer' = timer
  BY DEF OnMessage
<1>4. offered' \in BOOLEAN
  BY <1>1 DEF OnMessage
<1>5. NeverCutOff'
  BY <1>2 DEF NeverCutOff, IsOpen
<1>6. Connected'
  BY <1>1, <1>2, <1>3, <1>4, <1>5 DEF Connected
<1>7. socket.cursor + 1 \in Nat
  BY <1>1 DEF AnySocket
<1>8. InOrder'
  <2>1. CASE IsNew(socket.cursor + 1)
    BY <1>7, <2>1, AppendOK DEF OnMessage
  <2>2. CASE ~IsNew(socket.cursor + 1)
    BY <2>2, TimelineOK DEF OnMessage, events
  <2> QED
    BY <2>1, <2>2
<1>9. projectId' \in Projects \cup {None}
  BY DEF OnMessage, IInv, Typed
<1> QED
  BY <1>6, <1>8, <1>9, PartsOK

-----------------------------------------------------------------------------
(* Clicks.                                                                 *)

LEMMA LoadedOK == ASSUME IInv, NEW step \in Steps, Loaded(step) PROVE IInv'
<1>1. lost' \in Nat /\ offered' \in BOOLEAN
  BY DEF Loaded, IInv, Typed
<1>2. Connected'
  BY <1>1, ConnectOK DEF Loaded
<1>3. InOrder'
  BY TimelineOK DEF Loaded, events
<1>4. projectId' \in Projects \cup {None}
  BY DEF Loaded, IInv, Typed
<1> QED
  BY <1>2, <1>3, <1>4, PartsOK

LEMMA AskReconnectOK == ASSUME IInv, AskReconnect PROVE IInv'
<1>1. lost' \in Nat /\ lastEventId \in Nat
  BY DEF AskReconnect, IInv, Typed
<1>2. offered' \in BOOLEAN
  BY DEF AskReconnect
<1>3. Connected'
  BY <1>1, <1>2, ConnectOK DEF AskReconnect
<1>4. InOrder'
  BY TimelineOK DEF AskReconnect, events
<1>5. projectId' \in Projects \cup {None}
  BY DEF AskReconnect, IInv, Typed
<1> QED
  BY <1>3, <1>4, <1>5, PartsOK

\* The other clicks, other events and speech leave the connection alone.
LEMMA AwayOK ==
  ASSUME IInv, UNCHANGED connection, UNCHANGED events \/ Empty,
         projectId' \in Projects \cup {None}
  PROVE  IInv'
  BY ConnectionKept, TimelineOK, PartsOK

-----------------------------------------------------------------------------
LEMMA StepOK == IInv /\ [Next]_vars => IInv'
<1> SUFFICES ASSUME IInv, [Next]_vars PROVE IInv'
    OBVIOUS
<1> USE DEF events
<1>0. projectId \in Projects \cup {None}
  BY DEF IInv, Typed
<1>1. CASE Closed
  BY <1>1, ClosedOK
<1>2. CASE Break
  BY <1>2, BreakOK
<1>3. CASE TimerFires
  BY <1>3, TimerFiresOK
<1>4. CASE OnMessage
  BY <1>4, OnMessageOK
<1>5. CASE AskReconnect
  BY <1>5, AskReconnectOK
<1>6. CASE Create
  BY <1>0, <1>6, AwayOK DEF Create
<1>7. CASE Speech
  BY <1>0, <1>7, AwayOK DEF Speech, clientVars, connection
<1>8. ASSUME NEW id \in Projects, Happens(id) PROVE IInv'
  BY <1>0, <1>8, AwayOK DEF Happens
<1>9. ASSUME NEW id \in Projects, Open(id) PROVE IInv'
  BY <1>9, AwayOK DEF Open
<1>10. ASSUME NEW id \in Projects, Created(id) PROVE IInv'
  BY <1>10, AwayOK DEF Created
<1>11. ASSUME NEW step \in Steps, Loaded(step) PROVE IInv'
  BY <1>11, LoadedOK
<1>12. ASSUME NEW step \in Steps, Refused(step) PROVE IInv'
  BY <1>0, <1>12, AwayOK DEF Refused
<1>13. CASE UNCHANGED vars
  BY <1>0, <1>13, AwayOK DEF vars, clientVars, connection
<1> QED
  BY <1>1, <1>2, <1>3, <1>4, <1>5, <1>6, <1>7, <1>8, <1>9, <1>10, <1>11, <1>12, <1>13 DEF Next

\* The strengthened invariant holds.
LEMMA Invariant == Spec => []IInv
  BY InitOK, StepOK, PTL DEF Spec

\* Once there was a connection, the page has one, is about to try again or
\* offers the button, for any limit of reconnections.
THEOREM NobodyIsCutOff == Spec => []NeverCutOff
<1>1. IInv => NeverCutOff
  BY DEF IInv
<1> QED
  BY <1>1, Invariant, PTL

\* The timeline shows each event once and in order, however often the page
\* reconnects.
THEOREM EventsStayInOrder == Spec => []TimelineIsOrdered
<1>1. IInv => TimelineIsOrdered
  BY DEF IInv
<1> QED
  BY <1>1, Invariant, PTL
-----------------------------------------------------------------------------
(* The narrations.                                                         *)

\* Urgent narrations stand before the others.
UrgentFirst(q) == \A i \in DOMAIN q : IsHigh(q[i]) => \A j \in 1..i : IsHigh(q[j])

HasUrgent(q) == \E i \in DOMAIN q : IsHigh(q[i])

\* The invariant of the queue.  The rest of the page does not matter to it.
SpeechInv ==
    /\ items \in Seq(Priorities)
    /\ active \in Priorities \cup {None}
    /\ UrgentFirst(items)
    /\ HasUrgent(items) => active = "high"

LEMMA SpeechInvIsHighFirst == SpeechInv => HighFirst
  BY DEF SpeechInv, UrgentFirst, HasUrgent, HighFirst

\* next() reads the first that waits, which is urgent if any is.
LEMMA ResumeOK ==
  ASSUME NEW q \in Seq(Priorities), UrgentFirst(q), NEW a \in Priorities \cup {None},
         HasUrgent(q) => a \in {None, "high"}, NEW n, Resume(q, a, n)
  PROVE  SpeechInv'
<1>1. CASE (a # None \/ q = << >>) /\ items' = q /\ active' = a
  <2>1. HasUrgent(q) => a = "high"
    BY <1>1 DEF HasUrgent
  <2> QED
    BY <1>1, <2>1 DEF SpeechInv
<1>2. CASE q # << >> /\ items' = Tail(q) /\ active' = Head(q)
  <2>1. /\ Tail(q) \in Seq(Priorities) /\ Head(q) \in Priorities /\ Head(q) = q[1]
        /\ Len(q) \in Nat /\ Len(q) # 0 /\ Len(Tail(q)) = Len(q) - 1
        /\ \A i \in 1..Len(Tail(q)) : Tail(q)[i] = q[i + 1]
    BY <1>2, HeadTailProperties, EmptySeq
  <2>2. ASSUME NEW i \in DOMAIN Tail(q), IsHigh(Tail(q)[i])
        PROVE  \A j \in 1..(i + 1) : IsHigh(q[j])
    <3>1. i \in 1..Len(Tail(q)) /\ i + 1 \in 1..Len(q)
      BY <2>1
    <3> QED
      BY <2>1, <2>2, <3>1 DEF UrgentFirst
  <2>3. UrgentFirst(Tail(q))
    <3> SUFFICES ASSUME NEW i \in DOMAIN Tail(q), IsHigh(Tail(q)[i]), NEW j \in 1..i
                 PROVE  IsHigh(Tail(q)[j])
      BY DEF UrgentFirst
    <3>1. i \in 1..Len(Tail(q))
      BY <2>1
    <3>2. j \in 1..Len(Tail(q)) /\ j + 1 \in 1..(i + 1)
      BY <2>1, <3>1
    <3> QED
      BY <2>1, <2>2, <3>2
  <2>4. HasUrgent(Tail(q)) => Head(q) = "high"
    <3> SUFFICES ASSUME NEW i \in DOMAIN Tail(q), IsHigh(Tail(q)[i]) PROVE Head(q) = "high"
      BY DEF HasUrgent
    <3>1. 1 \in 1..(i + 1)
      BY <2>1
    <3> QED
      BY <2>1, <2>2, <3>1 DEF IsHigh
  <2> QED
    BY <1>2, <2>1, <2>3, <2>4 DEF SpeechInv
<1> QED
  BY <1>1, <1>2 DEF Resume

\* What is kept of a queue that is too long is its end.
LEMMA NewestOK ==
  ASSUME NEW q \in Seq(Priorities), UrgentFirst(q)
  PROVE  /\ Newest(q) \in Seq(Priorities)
         /\ UrgentFirst(Newest(q))
         /\ HasUrgent(Newest(q)) => HasUrgent(q)
<1>1. CASE Len(q) > Limit
  <2> DEFINE k == Len(q) - Limit
             s == SubSeq(q, k + 1, Len(q))
  <2>1. Len(q) \in Nat /\ k \in Nat /\ k + 1 \in 1..(Len(q) + 1) /\ DOMAIN q = 1..Len(q)
    BY <1>1, SpeechAssumption
  <2>2. s \in Seq(Priorities) /\ Len(s) = Len(q) - k /\ \A i \in 1..(Len(q) - k) : s[i] = q[i + k]
    BY <2>1, SubSeqProperties
  <2>3. DOMAIN s = 1..(Len(q) - k)
    BY <2>2
  <2>4. Newest(q) = s
    BY <1>1, <2>1, SpeechAssumption DEF Newest
  <2> HIDE DEF k, s
  <2>5. UrgentFirst(s)
    <3> SUFFICES ASSUME NEW i \in DOMAIN s, IsHigh(s[i]), NEW j \in 1..i PROVE IsHigh(s[j])
      BY DEF UrgentFirst
    <3>1. /\ i \in 1..(Len(q) - k) /\ j \in 1..(Len(q) - k)
          /\ i + k \in DOMAIN q /\ j + k \in 1..(i + k)
      BY <2>1, <2>3
    <3> QED
      BY <2>2, <3>1 DEF UrgentFirst
  <2>6. HasUrgent(s) => HasUrgent(q)
    <3> SUFFICES ASSUME NEW i \in DOMAIN s, IsHigh(s[i]) PROVE HasUrgent(q)
      BY DEF HasUrgent
    <3>1. i \in 1..(Len(q) - k) /\ i + k \in DOMAIN q
      BY <2>1, <2>3
    <3> QED
      BY <2>2, <3>1 DEF HasUrgent
  <2> QED
    BY <2>2, <2>4, <2>5, <2>6
<1>2. CASE ~(Len(q) > Limit)
  BY <1>2 DEF Newest
<1> QED
  BY <1>1, <1>2

\* What is left of a queue without the others.
LEMMA UrgentOK ==
  ASSUME NEW q \in Seq(Priorities)
  PROVE  /\ Urgent(q) \in Seq(Priorities)
         /\ \A i \in DOMAIN Urgent(q) : Urgent(q)[i] = "high"
<1> DEFINE S == {i \in DOMAIN q : IsHigh(q[i])}
<1>1. IsFiniteSet(DOMAIN q)
  BY FS_Interval
<1>2. IsFiniteSet(S)
  BY <1>1, FS_Subset
<1>3. Cardinality(S) \in Nat
  BY <1>2, FS_CardinalityType
<1>4. Urgent(q) = [n \in 1..Cardinality(S) |-> "high"]
  BY DEF Urgent
<1> HIDE DEF S
<1> QED
  BY <1>3, <1>4 DEF Priorities

\* An urgent narration that arrives silences the one that is read and drives
\* out those that are not urgent; another one waits at the end.
LEMMA EnqueueOK ==
  ASSUME SpeechInv, NEW p \in Priorities, Enqueue(p)
  PROVE  SpeechInv'
<1>1. CASE UNCHANGED <<items, active>>
  BY <1>1 DEF SpeechInv
<1>2. CASE Resume(Newest(Append(Keeps(p), p)), IF IsHigh(p) THEN None ELSE active, utterances)
  <2> DEFINE kept == Keeps(p)
             q == Append(kept, p)
  <2>1. CASE p = "high"
    <3>1. kept \in Seq(Priorities) /\ \A i \in DOMAIN kept : kept[i] = "high"
      BY <2>1, UrgentOK DEF SpeechInv, Keeps, IsHigh
    <3> HIDE DEF kept
    <3>2. /\ q \in Seq(Priorities) /\ Len(q) = Len(kept) + 1
          /\ \A i \in 1..Len(kept) : q[i] = kept[i]
          /\ q[Len(kept) + 1] = p
      BY <3>1, AppendProperties
    <3>3. \A i \in DOMAIN q : q[i] = "high"
      BY <2>1, <3>1, <3>2
    <3> HIDE DEF q
    <3>4. UrgentFirst(q)
      BY <3>2, <3>3 DEF UrgentFirst, IsHigh
    <3>5. Newest(q) \in Seq(Priorities) /\ UrgentFirst(Newest(q))
      BY <3>2, <3>4, NewestOK
    <3>6. Resume(Newest(q), None, utterances)
      BY <1>2, <2>1 DEF q, kept, IsHigh
    <3> QED
      BY <3>5, <3>6, ResumeOK
  <2>2. CASE p = "normal"
    <3>1. kept = items
      BY <2>2 DEF Keeps, IsHigh
    <3>2. /\ q \in Seq(Priorities) /\ Len(q) = Len(items) + 1
          /\ \A i \in 1..Len(items) : q[i] = items[i]
          /\ q[Len(items) + 1] = p
      BY <3>1, AppendProperties DEF SpeechInv
    <3> HIDE DEF q
    <3>3. Len(items) \in Nat /\ DOMAIN items = 1..Len(items) /\ DOMAIN q = 1..(Len(items) + 1)
      BY <3>2 DEF SpeechInv
    <3>4. ASSUME NEW i \in DOMAIN q, IsHigh(q[i])
          PROVE  i \in DOMAIN items /\ IsHigh(items[i])
      BY <2>2, <3>2, <3>3, <3>4 DEF IsHigh
    <3>5. UrgentFirst(q)
      <4> SUFFICES ASSUME NEW i \in DOMAIN q, IsHigh(q[i]), NEW j \in 1..i PROVE IsHigh(q[j])
        BY DEF UrgentFirst
      <4>1. i \in DOMAIN items /\ IsHigh(items[i])
        BY <3>4
      <4>2. j \in 1..Len(items)
        BY <3>3, <4>1
      <4> QED
        BY <3>2, <4>1, <4>2 DEF SpeechInv, UrgentFirst
    <3>6. HasUrgent(q) => HasUrgent(items)
      BY <3>4 DEF HasUrgent
    <3>7. /\ Newest(q) \in Seq(Priorities) /\ UrgentFirst(Newest(q))
          /\ HasUrgent(Newest(q)) => active = "high"
      BY <3>2, <3>5, <3>6, NewestOK DEF SpeechInv
    <3>8. Resume(Newest(q), active, utterances)
      BY <1>2, <2>2 DEF q, IsHigh
    <3> QED
      BY <3>7, <3>8, ResumeOK DEF SpeechInv
  <2> QED
    BY <2>1, <2>2 DEF Priorities
<1> QED
  BY <1>1, <1>2 DEF Enqueue

\* The queue is emptied.
LEMMA ClearOK == ASSUME ClearSpeech PROVE SpeechInv'
  BY DEF ClearSpeech, SpeechInv, UrgentFirst, HasUrgent

\* A callback takes what is active for its own, and reads what comes next.
LEMMA DoneOK == ASSUME SpeechInv, Done PROVE SpeechInv'
<1>1. CASE UNCHANGED <<items, active>>
  BY <1>1 DEF SpeechInv
<1>2. CASE Resume(items, None, utterances - 1)
  BY <1>2, ResumeOK DEF SpeechInv
<1> QED
  BY <1>1, <1>2 DEF Done, AfterCallback

LEMMA SpeechStep == SpeechInv /\ [Next]_vars => SpeechInv'
<1> SUFFICES ASSUME SpeechInv, [Next]_vars PROVE SpeechInv'
    OBVIOUS
<1>1. ASSUME UNCHANGED <<items, active>> PROVE SpeechInv'
  BY <1>1 DEF SpeechInv
<1>2. CASE OnMessage
  BY <1>1, <1>2, EnqueueOK DEF OnMessage, speechVars
<1>3. ASSUME NEW step \in Steps, Loaded(step) PROVE SpeechInv'
  BY <1>1, <1>3, EnqueueOK DEF Loaded, speechVars
<1>4. ASSUME NEW id \in Projects, Open(id) \/ Created(id) PROVE SpeechInv'
  BY <1>4, ClearOK DEF Open, Created
<1>5. CASE Speech
  <2>1. CASE Done
    BY <2>1, DoneOK
  <2>2. CASE ToggleVoice
    BY <1>1, <2>2, ClearOK DEF ToggleVoice
  <2>3. CASE StopSpeaking
    BY <2>3, ClearOK DEF StopSpeaking
  <2> QED
    BY <1>5, <2>1, <2>2, <2>3 DEF Speech
<1>6. CASE Closed \/ Break \/ TimerFires \/ Create \/ AskReconnect \/ UNCHANGED vars
  BY <1>1, <1>6 DEF Closed, Break, TimerFires, Create, AskReconnect, vars, speechVars
<1>7. ASSUME NEW id \in Projects, Happens(id) PROVE SpeechInv'
  BY <1>1, <1>7 DEF Happens, speechVars
<1>8. ASSUME NEW step \in Steps, Refused(step) PROVE SpeechInv'
  BY <1>1, <1>8 DEF Refused, speechVars
<1> QED
  BY <1>2, <1>3, <1>4, <1>5, <1>6, <1>7, <1>8 DEF Next

\* As long as an urgent narration waits an urgent one is read, and nothing
\* else waits before it, whichever utterances were cancelled and call back
\* late, and however many narrations the queue holds.
THEOREM UrgentIsReadFirst == Spec => []HighFirst
<1>1. Init => SpeechInv
  BY DEF Init, SpeechInit, SpeechInv, UrgentFirst, HasUrgent
<1>2. Spec => []SpeechInv
  BY <1>1, SpeechStep, PTL DEF Spec
<1> QED
  BY <1>2, SpeechInvIsHighFirst, PTL
=============================================================================
