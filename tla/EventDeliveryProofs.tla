------------------------- MODULE EventDeliveryProofs -------------------------
(***************************************************************************)
(* What holds of the delivery of events for any number of events, batches, *)
(* crashes, reconnections and sessions that come and go: an open           *)
(* connection owes the browser exactly the events it has not brought, and  *)
(* the browser handles the log in order, each event once, but for those    *)
(* that find the session away.                                             *)
(***************************************************************************)
EXTENDS EventDelivery, SequenceTheorems, TLAPS

Ns == Seq(Nat)

Typed ==
    /\ stored \in Nat /\ last \in Nat /\ brought \in Nat /\ ours \in BOOLEAN
    /\ publishing \in [todo : Ns, owed : Nat]
    /\ session \in [open : BOOLEAN, replay : Ns, queue : Ns]
    /\ wire \in Ns
    /\ handled \in Ns

\* A connection that is not open holds nothing: what it had is lost, not kept
\* to be sent on the next one.
ClosedIsEmpty ==
    /\ session.open <=> phase = "connected"
    /\ ~session.open => session = Absent /\ wire = <<>>

\* What the browser names when it reconnects is the last event it handled, and
\* it was brought no event that is not stored.
LastIsHandled ==
    /\ last <= brought /\ brought <= stored
    /\ last = Stream!LastHandled

IInv == Typed /\ ClosedIsEmpty /\ LastIsHandled /\ OwesTheRest /\ IsAccountedFor

-----------------------------------------------------------------------------
(* Intervals of ids.                                                       *)

\* An interval is a sequence of ids that goes up by one.
LEMMA IdsAre ==
    ASSUME NEW a \in Nat, NEW b \in Nat, a <= b + 1
    PROVE  /\ Ids(a, b) \in Ns
           /\ Len(Ids(a, b)) = b - a + 1
           /\ \A i \in 1..(b - a + 1) : Ids(a, b)[i] = a + i - 1
<1> DEFINE n == b - a + 1
           e(i) == a + i - 1
<1>1. n \in Nat /\ \A i \in 1..n : e(i) \in Nat
  OBVIOUS
<1>2. [i \in 1..n |-> e(i)] \in Seq(Nat)
  <2> HIDE DEF n, e
  <2> QED BY <1>1, IsASeq, SMT
<1> QED BY <1>1, <1>2 DEF Ids, Ns

\* A sequence of ids that goes up by one is an interval.
LEMMA AreIds ==
    ASSUME NEW a \in Nat, NEW b \in Nat, a <= b + 1,
           NEW s \in Ns, Len(s) = b - a + 1,
           \A i \in 1..Len(s) : s[i] = a + i - 1
    PROVE  s = Ids(a, b)
<1> DEFINE t == Ids(a, b)
<1>1. t \in Seq(Nat) /\ Len(t) = b - a + 1 /\ \A i \in 1..(b - a + 1) : t[i] = a + i - 1
  BY IdsAre DEF Ns
<1> HIDE DEF t
<1>2. s \in Seq(Nat) /\ Len(s) = Len(t) /\ \A i \in 1..Len(s) : s[i] = t[i]
  BY <1>1 DEF Ns
<1>3. s = t
  BY <1>1, <1>2, SeqEqual, SMT
<1> QED BY <1>3 DEF t

\* Two intervals that meet are one.
LEMMA IdsConcat ==
    ASSUME NEW a \in Nat, NEW b \in Nat, NEW c \in Nat, a <= b + 1, b <= c
    PROVE  Ids(a, b) \o Ids(b + 1, c) = Ids(a, c)
<1> DEFINE s == Ids(a, b)
           t == Ids(b + 1, c)
<1>1. s \in Seq(Nat) /\ Len(s) = b - a + 1 /\ \A i \in 1..(b - a + 1) : s[i] = a + i - 1
  BY IdsAre DEF Ns
<1>2. t \in Seq(Nat) /\ Len(t) = c - b /\ \A i \in 1..(c - b) : t[i] = b + i
  <2>1. b + 1 \in Nat /\ b + 1 <= c + 1 /\ c - (b + 1) + 1 = c - b
    OBVIOUS
  <2>2. /\ t \in Seq(Nat) /\ Len(t) = c - (b + 1) + 1
        /\ \A i \in 1..(c - (b + 1) + 1) : t[i] = (b + 1) + i - 1
    BY <2>1, IdsAre DEF Ns
  <2> QED BY <2>1, <2>2
<1> HIDE DEF s, t
<1>3. /\ s \o t \in Seq(Nat)
      /\ Len(s \o t) = Len(s) + Len(t)
      /\ \A i \in 1..(Len(s) + Len(t)) :
            (s \o t)[i] = IF i <= Len(s) THEN s[i] ELSE t[i - Len(s)]
  BY <1>1, <1>2, ConcatProperties
<1>4. Len(s \o t) = c - a + 1 /\ a <= c + 1
  BY <1>1, <1>2, <1>3
<1>5. \A i \in 1..Len(s \o t) : (s \o t)[i] = a + i - 1
  <2> SUFFICES ASSUME NEW i \in 1..Len(s \o t) PROVE (s \o t)[i] = a + i - 1
    OBVIOUS
  <2>1. CASE i <= Len(s)
    BY <2>1, <1>1, <1>2, <1>3
  <2>2. CASE i > Len(s)
    <3>1. (s \o t)[i] = t[i - Len(s)]
      BY <2>2, <1>1, <1>2, <1>3
    <3>2. i - Len(s) \in 1..(c - b)
      BY <2>2, <1>1, <1>2, <1>3
    <3>3. t[i - Len(s)] = b + (i - Len(s))
      BY <3>2, <1>2
    <3> QED BY <3>1, <3>3, <1>1
  <2> QED BY <2>1, <2>2, <1>1
<1> QED BY <1>3, <1>4, <1>5, AreIds DEF s, t, Ns

\* The first id of an interval, and the interval without it.
LEMMA IdsHead ==
    ASSUME NEW a \in Nat, NEW b \in Nat, a <= b
    PROVE  /\ Ids(a, b) # <<>>
           /\ Head(Ids(a, b)) = a
           /\ Tail(Ids(a, b)) = Ids(a + 1, b)
<1> DEFINE s == Ids(a, b)
<1>1. s \in Seq(Nat) /\ Len(s) = b - a + 1 /\ \A i \in 1..(b - a + 1) : s[i] = a + i - 1
  BY IdsAre DEF Ns
<1> HIDE DEF s
<1>2. s # <<>> /\ Head(s) = a
  BY <1>1
<1>3. /\ Tail(s) \in Seq(Nat) /\ Len(Tail(s)) = Len(s) - 1
      /\ \A i \in 1..Len(Tail(s)) : Tail(s)[i] = s[i + 1]
  BY <1>1, <1>2, HeadTailProperties
<1>4. Len(Tail(s)) = b - (a + 1) + 1 /\ a + 1 \in Nat /\ a + 1 <= b + 1
  BY <1>1, <1>3
<1>5. \A i \in 1..Len(Tail(s)) : Tail(s)[i] = (a + 1) + i - 1
  BY <1>1, <1>3, <1>4
<1>6. Tail(s) = Ids(a + 1, b)
  BY <1>3, <1>4, <1>5, AreIds DEF Ns
<1> QED BY <1>2, <1>6 DEF s

\* The empty interval.
LEMMA IdsEmpty ==
    ASSUME NEW a \in Nat
    PROVE  Ids(a + 1, a) = <<>>
<1>1. Ids(a + 1, a) \in Seq(Nat) /\ Len(Ids(a + 1, a)) = 0
  BY a + 1 \in Nat, a + 1 <= a + 1, a - (a + 1) + 1 = 0, IdsAre DEF Ns
<1> QED BY <1>1, EmptySeq, SMT

\* What leaves the front of one queue for the end of the one before it keeps
\* its place in the whole.
LEMMA MoveHead ==
    ASSUME NEW s \in Ns, NEW t \in Ns, t # <<>>
    PROVE  /\ Append(s, Head(t)) \in Ns
           /\ Tail(t) \in Ns
           /\ Append(s, Head(t)) \o Tail(t) = s \o t
<1>1. Head(t) \in Nat /\ Tail(t) \in Seq(Nat)
  BY HeadTailProperties DEF Ns
<1>2. Append(s, Head(t)) \in Seq(Nat) /\ Append(s, Head(t)) = s \o <<Head(t)>>
  BY <1>1, AppendProperties, AppendIsConcat DEF Ns
<1>3. <<Head(t)>> \in Seq(Nat) /\ <<Head(t)>> \o Tail(t) = t
  BY <1>1, SMT DEF Ns
<1>4. (s \o <<Head(t)>>) \o Tail(t) = s \o (<<Head(t)>> \o Tail(t))
  BY <1>1, <1>3, ConcatAssociative, SMT DEF Ns
<1> QED BY <1>1, <1>2, <1>3, <1>4 DEF Ns

\* Queues in a row are one queue, however they are taken together.
LEMMA ConcatOfQueues ==
    ASSUME NEW s \in Ns, NEW t \in Ns
    PROVE  /\ s \o t \in Ns
           /\ s \o <<>> = s /\ <<>> \o s = s
BY ConcatProperties, ConcatEmptySeq, SMT DEF Ns

LEMMA Regroup ==
    ASSUME NEW s \in Ns, NEW t \in Ns, NEW u \in Ns
    PROVE  (s \o t) \o u = s \o (t \o u)
BY ConcatAssociative, SMT DEF Ns

\* What leaves the front of the first queue leaves the front of the whole.
LEMMA TakeHead ==
    ASSUME NEW s \in Ns, NEW t \in Ns, s # <<>>
    PROVE  /\ Head(s \o t) = Head(s) /\ Tail(s \o t) = Tail(s) \o t
           /\ Head(s) \in Nat /\ Tail(s) \in Ns
<1>1. Head(s) \in Nat /\ Tail(s) \in Seq(Nat)
  BY HeadTailProperties DEF Ns
<1>2. /\ s \o t \in Seq(Nat) /\ Len(s \o t) = Len(s) + Len(t)
      /\ \A i \in 1..(Len(s) + Len(t)) : (s \o t)[i] = IF i <= Len(s) THEN s[i] ELSE t[i - Len(s)]
  BY ConcatProperties, SMT DEF Ns
<1>3. Len(s) \in Nat /\ Len(s) > 0 /\ Len(t) \in Nat
  BY EmptySeq DEF Ns
<1>4. Head(s \o t) = Head(s)
  BY <1>2, <1>3 DEF Ns
<1>5. Tail(s \o t) = Tail(s) \o t
  BY <1>3, SMT DEF Ns
<1> QED BY <1>1, <1>4, <1>5 DEF Ns

-----------------------------------------------------------------------------
(* The invariant, action by action.                                        *)

\* Idle and Absent are empty.
LEMMA Empties ==
    /\ <<>> \in Ns /\ Len(<<>>) = 0
    /\ Idle \in [todo : Ns, owed : Nat] /\ Idle.todo = <<>> /\ Idle.owed = 0
    /\ Absent \in [open : BOOLEAN, replay : Ns, queue : Ns]
    /\ Absent.open = FALSE /\ Absent.replay = <<>> /\ Absent.queue = <<>>
BY EmptySeq DEF Ns, Idle, Absent

LEMMA InitOK == Init => IInv
<1> SUFFICES ASSUME Init PROVE IInv
  OBVIOUS
<1>1. Typed /\ ClosedIsEmpty /\ LastIsHandled
  BY Empties DEF Init, Typed, ClosedIsEmpty, LastIsHandled, Stream!LastHandled
<1>2. OwesTheRest /\ IsAccountedFor
  BY Empties DEF Init, OwesTheRest, IsAccountedFor
<1> QED BY <1>1, <1>2 DEF IInv

\* A step that leaves the browser's account alone keeps it.
LEMMA AccountStays ==
    ASSUME IInv, UNCHANGED seen
    PROVE  /\ UNCHANGED Stream!LastHandled
           /\ IsAccountedFor'
BY DEF IInv, IsAccountedFor, Handled, seen, Stream!LastHandled

\* What is owed to the browser before a batch is stored is the log up to it;
\* with the batch to be published, it is the log after.
LEMMA BatchIsOwed ==
    ASSUME IInv, NEW n \in Nat, n > 0,
           publishing.todo = <<>>,
           stored' = stored + n,
           NEW m \in Nat, publishing' = [todo |-> Ids(stored + 1, stored + n), owed |-> m],
           UNCHANGED <<session, wire, phase, seen>>
    PROVE  IInv'
<1> DEFINE old == wire \o session.replay \o session.queue
           batch == Ids(stored + 1, stored + n)
<1>1. batch \in Ns
  BY IdsAre, stored + 1 \in Nat, stored + n \in Nat, stored + 1 <= (stored + n) + 1 DEF IInv, Typed
<1>2. Typed' /\ ClosedIsEmpty' /\ LastIsHandled'
  BY <1>1, AccountStays DEF IInv, Typed, ClosedIsEmpty, LastIsHandled, seen
<1>3. OwesTheRest'
  <2> SUFFICES ASSUME session.open PROVE Pending' = Ids(brought + 1, stored + n)
    BY DEF OwesTheRest, seen
  <2>1. old \in Ns
    BY ConcatOfQueues DEF IInv, Typed
  <2>2. old = Ids(brought + 1, stored)
    <3> HIDE DEF old
    <3>1. old \o <<>> = Ids(brought + 1, stored)
      BY DEF IInv, OwesTheRest, Pending, old
    <3> QED BY <3>1, <2>1, ConcatOfQueues
  <2>3. Pending' = old \o batch
    BY DEF Pending
  <2>4. Ids(brought + 1, stored) \o Ids(stored + 1, stored + n) = Ids(brought + 1, stored + n)
    <3>1. /\ brought + 1 \in Nat /\ stored \in Nat /\ stored + n \in Nat
          /\ brought + 1 <= stored + 1 /\ stored <= stored + n
      BY DEF IInv, Typed, LastIsHandled
    <3> QED BY <3>1, IdsConcat
  <2> HIDE DEF old, batch
  <2> QED BY <2>2, <2>3, <2>4 DEF batch
<1> QED BY <1>2, <1>3, AccountStays DEF IInv

LEMMA StoreOK == ASSUME IInv, Store PROVE IInv'
<1>1. PICK n \in 1..MaxBatch, owed \in 0..1 :
         /\ stored' = stored + n
         /\ publishing' = [todo |-> Ids(stored + 1, stored + n), owed |-> owed]
  BY DEF Store
<1>2. n \in Nat /\ n > 0 /\ owed \in Nat
  BY DeliveryAssumption
<1>3. publishing.todo = <<>> /\ UNCHANGED <<session, wire, phase, seen>>
  BY Empties DEF Store, LoopIsFree
<1> QED BY <1>1, <1>2, <1>3, BatchIsOwed

LEMMA NarrateOK == ASSUME IInv, Narrate PROVE IInv'
<1>1. publishing.owed \in Nat /\ publishing.owed > 0 /\ 0 \in Nat
  BY DEF IInv, Typed, Narrate
<1> QED BY <1>1, BatchIsOwed DEF Narrate

LEMMA PublishOK == ASSUME IInv, Publish PROVE IInv'
<1> DEFINE w == wire
           r == session.replay
           q == session.queue
           t == publishing.todo
<1>1. w \in Ns /\ r \in Ns /\ q \in Ns /\ t \in Ns /\ t # <<>>
  BY DEF IInv, Typed, Publish
<1>2. /\ Append(q, Head(t)) \in Ns /\ Tail(t) \in Ns
      /\ Append(q, Head(t)) \o Tail(t) = q \o t
  BY <1>1, MoveHead
<1>3. publishing' = [publishing EXCEPT !.todo = Tail(t)] /\ publishing'.todo = Tail(t)
  BY DEF Publish, IInv, Typed
<1>4. CASE session.open
  <2>1. session' = [session EXCEPT !.queue = Append(q, Head(t))]
    BY <1>4 DEF Publish, Collects
  <2>2. session'.open /\ session'.replay = r /\ session'.queue = Append(q, Head(t))
    BY <2>1, <1>4 DEF IInv, Typed
  <2>3. Typed' /\ ClosedIsEmpty' /\ LastIsHandled'
    BY <1>2, <1>3, <1>4, <2>1, <2>2, AccountStays
       DEF IInv, Typed, ClosedIsEmpty, LastIsHandled, Publish, seen
  <2>4. Pending' = (w \o r) \o Append(q, Head(t)) \o Tail(t)
    BY <1>3, <2>2 DEF Pending, Publish
  <2>5. w \o r \in Ns
    BY <1>1, ConcatOfQueues
  <2>6. (w \o r) \o Append(q, Head(t)) \o Tail(t) = (w \o r) \o q \o t
    <3> HIDE DEF w, r, q, t
    <3>1. (w \o r) \o Append(q, Head(t)) \o Tail(t) = (w \o r) \o (Append(q, Head(t)) \o Tail(t))
      BY <1>2, <2>5, Regroup
    <3>2. (w \o r) \o q \o t = (w \o r) \o (q \o t)
      BY <1>1, <2>5, Regroup
    <3> QED BY <3>1, <3>2, <1>2
  <2>7. OwesTheRest'
    BY <2>4, <2>6, <1>4 DEF IInv, OwesTheRest, Pending, Publish, seen
  <2> QED BY <2>3, <2>7, AccountStays DEF IInv, Publish
<1>5. CASE ~session.open
  <2>1. session' = session
    BY <1>5 DEF Publish, Collects
  <2>2. Typed' /\ ClosedIsEmpty' /\ LastIsHandled' /\ OwesTheRest'
    BY <1>2, <1>3, <1>5, <2>1, AccountStays
       DEF IInv, Typed, ClosedIsEmpty, LastIsHandled, OwesTheRest, Publish, seen
  <2> QED BY <2>2, AccountStays DEF IInv, Publish
<1> QED BY <1>4, <1>5

\* The connection that opens replays all that follows the last event the
\* browser has handled; of what was dropped it brings that again.
LEMMA AcceptOK == ASSUME IInv, Accept PROVE IInv'
<1> DEFINE owed == Ids(last + 1, stored)
<1>1. last \in Nat /\ stored \in Nat /\ last <= brought /\ brought <= stored /\ brought \in Nat
  BY DEF IInv, Typed, LastIsHandled
<1>2. owed \in Ns
  BY <1>1, IdsAre, last + 1 \in Nat, last + 1 <= stored + 1
<1>3. session' = [open |-> TRUE, replay |-> owed, queue |-> <<>>]
  BY DEF Accept
<1>4. wire = <<>> /\ publishing.todo = <<>>
  BY Empties DEF IInv, ClosedIsEmpty, Accept, LoopIsFree
<1> HIDE DEF owed
<1>5. Typed' /\ ClosedIsEmpty'
  BY <1>1, <1>2, <1>3, Empties DEF IInv, Typed, ClosedIsEmpty, Accept
<1>6. LastIsHandled'
  BY <1>1 DEF IInv, LastIsHandled, Accept, Stream!LastHandled
<1>7. IsAccountedFor'
  <2> SUFFICES ASSUME NEW id \in 1..last PROVE id \in Handled \cup dropped'
    BY DEF IsAccountedFor, Handled, Accept
  <2>1. id \in 1..brought
    BY <1>1
  <2>2. id \in Handled \cup dropped
    BY <2>1 DEF IInv, IsAccountedFor
  <2> QED BY <2>2 DEF Accept
<1>8. Pending' = <<>> \o owed \o <<>> \o <<>>
  BY <1>3, <1>4 DEF Pending, Accept
<1>9. Pending' = owed
  BY <1>2, <1>8, Empties, ConcatOfQueues
<1> QED BY <1>5, <1>6, <1>7, <1>9 DEF IInv, OwesTheRest, Accept, owed

\* The replay moves to the wire; what is behind it stays behind it.
LEMMA SendReplayOK == ASSUME IInv, SendReplay PROVE IInv'
<1> DEFINE w == wire
           r == session.replay
<1>1. w \in Ns /\ r \in Ns /\ r # <<>>
  BY DEF IInv, Typed, SendReplay
<1>2. Append(w, Head(r)) \in Ns /\ Tail(r) \in Ns /\ Append(w, Head(r)) \o Tail(r) = w \o r
  BY <1>1, MoveHead
<1>3. wire' = Append(w, Head(r)) /\ session' = [session EXCEPT !.replay = Tail(r)]
  BY DEF SendReplay
<1>4. /\ session'.open = session.open /\ session'.replay = Tail(r)
      /\ session'.queue = session.queue
  BY <1>3 DEF IInv, Typed
<1>5. session.open
  BY <1>1, Empties DEF IInv, ClosedIsEmpty
<1>6. Typed' /\ ClosedIsEmpty' /\ LastIsHandled'
  BY <1>2, <1>3, <1>4, <1>5, AccountStays
     DEF IInv, Typed, ClosedIsEmpty, LastIsHandled, SendReplay, seen
<1>7. Pending' = Append(w, Head(r)) \o Tail(r) \o session.queue \o publishing.todo
  BY <1>3, <1>4 DEF Pending, SendReplay
<1>8. Pending' = Pending
  BY <1>2, <1>7 DEF Pending
<1> QED BY <1>5, <1>6, <1>8, AccountStays DEF IInv, OwesTheRest, SendReplay, seen

\* Once the replay is sent, the queue is next behind the wire.
LEMMA SendQueueOK == ASSUME IInv, SendQueue PROVE IInv'
<1> DEFINE w == wire
           q == session.queue
<1>1. w \in Ns /\ q \in Ns /\ q # <<>> /\ session.replay = <<>>
  BY DEF IInv, Typed, SendQueue
<1>2. Append(w, Head(q)) \in Ns /\ Tail(q) \in Ns /\ Append(w, Head(q)) \o Tail(q) = w \o q
  BY <1>1, MoveHead
<1>3. wire' = Append(w, Head(q)) /\ session' = [session EXCEPT !.queue = Tail(q)]
  BY DEF SendQueue
<1>4. /\ session'.open = session.open /\ session'.queue = Tail(q)
      /\ session'.replay = <<>>
  BY <1>1, <1>3 DEF IInv, Typed
<1>5. session.open
  BY <1>1, Empties DEF IInv, ClosedIsEmpty
<1>6. Typed' /\ ClosedIsEmpty' /\ LastIsHandled'
  BY <1>1, <1>2, <1>3, <1>4, <1>5, Empties, AccountStays
     DEF IInv, Typed, ClosedIsEmpty, LastIsHandled, SendQueue, seen
<1>7. Pending' = Append(w, Head(q)) \o <<>> \o Tail(q) \o publishing.todo
  BY <1>3, <1>4 DEF Pending, SendQueue
<1>8. Pending = w \o <<>> \o q \o publishing.todo
  BY <1>1 DEF Pending
<1>9. Append(w, Head(q)) \o <<>> = Append(w, Head(q)) /\ w \o <<>> = w
  BY <1>1, <1>2, ConcatOfQueues
<1>10. Pending' = Pending
  BY <1>2, <1>7, <1>8, <1>9
<1> QED BY <1>5, <1>6, <1>10, AccountStays DEF IInv, OwesTheRest, SendQueue, seen

\* What comes first on the wire is the event after the last one brought: the
\* browser never has to skip one, and never skips one it lacks.
LEMMA NextIsFirst ==
    ASSUME IInv, phase = "connected", wire # <<>>
    PROVE  /\ Head(wire) = brought + 1 /\ brought < stored
           /\ Tail(wire) \in Ns
           /\ Tail(wire) \o session.replay \o session.queue \o publishing.todo
                 = Ids(brought + 2, stored)
<1> DEFINE w == wire
           r == session.replay
           q == session.queue
           t == publishing.todo
<1>1. w \in Ns /\ r \in Ns /\ q \in Ns /\ t \in Ns /\ w # <<>>
  BY DEF IInv, Typed
<1>2. w \o r \o q \o t = Ids(brought + 1, stored)
  BY DEF IInv, ClosedIsEmpty, OwesTheRest, Pending
<1>3. brought \in Nat /\ stored \in Nat /\ brought <= stored
  BY DEF IInv, Typed, LastIsHandled
<1> HIDE DEF w, r, q, t
<1>4. r \o q \in Ns /\ (r \o q) \o t \in Ns /\ w \o r \in Ns
  BY <1>1, ConcatOfQueues
<1>5. \A v \in Ns : v \o r \o q \o t = v \o ((r \o q) \o t)
  <2> SUFFICES ASSUME NEW v \in Ns PROVE v \o r \o q \o t = v \o ((r \o q) \o t)
    OBVIOUS
  <2>1. v \o r \o q = v \o (r \o q)
    BY <1>1, Regroup
  <2>2. (v \o (r \o q)) \o t = v \o ((r \o q) \o t)
    BY <1>1, <1>4, Regroup
  <2> QED BY <2>1, <2>2
<1>6. /\ Head(w \o ((r \o q) \o t)) = Head(w) /\ Tail(w) \in Ns
      /\ Tail(w \o ((r \o q) \o t)) = Tail(w) \o ((r \o q) \o t)
  BY <1>1, <1>4, TakeHead
<1>7. Ids(brought + 1, stored) # <<>>
  <2>1. w \o ((r \o q) \o t) # <<>>
    BY <1>1, <1>4, ConcatEqualIffEmpty, SMT DEF Ns
  <2> QED BY <2>1, <1>1, <1>2, <1>5
<1>8. brought < stored
  <2> SUFFICES ASSUME brought = stored PROVE FALSE
    BY <1>3
  <2> QED BY <1>3, <1>7, IdsEmpty
<1>9. /\ Head(Ids(brought + 1, stored)) = brought + 1
      /\ Tail(Ids(brought + 1, stored)) = Ids(brought + 2, stored)
  <2>1. brought + 1 \in Nat /\ brought + 1 <= stored /\ (brought + 1) + 1 = brought + 2
    BY <1>3, <1>8
  <2>2. /\ Head(Ids(brought + 1, stored)) = brought + 1
        /\ Tail(Ids(brought + 1, stored)) = Ids((brought + 1) + 1, stored)
    BY <2>1, <1>3, IdsHead
  <2> QED BY <2>1, <2>2
<1> QED BY <1>1, <1>2, <1>5, <1>6, <1>8, <1>9 DEF w, r, q, t

LEMMA ReceiveStep ==
    ASSUME IInv, Receive
    PROVE  /\ brought' = brought + 1 /\ brought' <= stored
           /\ \/ ours /\ last' = brought' /\ handled' = Append(handled, brought')
                   /\ UNCHANGED dropped
              \/ ~ours /\ UNCHANGED <<last, handled>> /\ dropped' = dropped \cup {brought'}
           /\ Tail(wire) \in Ns
           /\ Tail(wire) \o session.replay \o session.queue \o publishing.todo
                 = Ids(brought' + 1, stored)
<1>1. phase = "connected" /\ wire # <<>>
  BY DEF Receive
<1>2. last \in Nat /\ brought \in Nat /\ stored \in Nat /\ last <= brought
  BY DEF IInv, Typed, LastIsHandled
<1>3. Head(wire) = brought + 1 /\ brought < stored
  BY <1>1, NextIsFirst
<1>4. Fresh(Head(wire))
  BY <1>2, <1>3 DEF Fresh
<1>5. brought' = brought + 1 /\ brought' <= stored /\ brought' + 1 = brought + 2
  BY <1>2, <1>3 DEF Receive
<1>6. \/ ours /\ last' = brought' /\ handled' = Append(handled, brought') /\ UNCHANGED dropped
      \/ ~ours /\ UNCHANGED <<last, handled>> /\ dropped' = dropped \cup {brought'}
  BY <1>4 DEF Receive
<1>7. /\ Tail(wire) \in Ns
      /\ Tail(wire) \o session.replay \o session.queue \o publishing.todo
            = Ids(brought + 2, stored)
  BY <1>1, NextIsFirst
<1> QED BY <1>5, <1>6, <1>7

LEMMA ReceiveOK == ASSUME IInv, Receive PROVE IInv'
<1>1. /\ last \in Nat /\ brought \in Nat /\ stored \in Nat /\ last <= brought
      /\ handled \in Seq(Nat) /\ last = Stream!LastHandled
  BY DEF IInv, Typed, LastIsHandled, Ns
<1>2. brought' = brought + 1 /\ brought' \in Nat /\ brought' <= stored
  BY <1>1, ReceiveStep
<1>3. UNCHANGED <<stored, publishing, session, phase, ours>> /\ wire' = Tail(wire)
  BY DEF Receive
<1>4. handled' \in Ns /\ last' \in Nat /\ last' <= brought' /\ last' = Stream!LastHandled'
  <2>1. CASE ours
    <3>1. last' = brought' /\ handled' = Append(handled, brought')
      BY <2>1, ReceiveStep
    <3>2. /\ handled' \in Seq(Nat) /\ Len(handled') = Len(handled) + 1
          /\ handled'[Len(handled) + 1] = brought' /\ handled' # <<>>
      BY <1>1, <1>2, <3>1, AppendProperties
    <3> QED BY <1>2, <3>1, <3>2 DEF Stream!LastHandled, Ns
  <2>2. CASE ~ours
    BY <1>1, <1>2, <2>2, ReceiveStep DEF Stream!LastHandled, Ns
  <2> QED BY <2>1, <2>2
<1>5. Typed' /\ ClosedIsEmpty' /\ LastIsHandled'
  BY <1>2, <1>3, <1>4, ReceiveStep DEF IInv, Typed, ClosedIsEmpty, LastIsHandled, Receive
<1>6. IsAccountedFor'
  <2>1. Handled \cup dropped \subseteq Handled' \cup dropped' /\ brought' \in Handled' \cup dropped'
    <3>1. CASE ours
      <4>1. handled' = Append(handled, brought') /\ dropped' = dropped
        BY <3>1, ReceiveStep
      <4>2. /\ DOMAIN handled' = DOMAIN handled \cup {Len(handled) + 1}
            /\ \A i \in DOMAIN handled : handled'[i] = handled[i]
            /\ handled'[Len(handled) + 1] = brought'
        BY <1>1, <1>2, <4>1
      <4> QED BY <4>1, <4>2 DEF Handled
    <3>2. CASE ~ours
      BY <3>2, ReceiveStep DEF Handled
    <3> QED BY <3>1, <3>2
  <2>2. \A id \in 1..brought' : id \in 1..brought \/ id = brought'
    BY <1>1, <1>2
  <2> QED BY <2>1, <2>2 DEF IInv, IsAccountedFor
<1>7. Pending' = Ids(brought' + 1, stored')
  BY <1>3, ReceiveStep DEF Pending
<1> QED BY <1>5, <1>6, <1>7 DEF IInv, OwesTheRest

\* A session that goes or comes decides about the next message, and leaves
\* the connection and the account of the past alone.
LEMMA SessionOK == ASSUME IInv, LoseSession \/ FindSession PROVE IInv'
<1>1. ours' \in BOOLEAN /\ UNCHANGED <<stored, publishing, session, wire, phase, last, brought,
                                      handled, dropped>>
  BY DEF LoseSession, FindSession
<1>2. Typed' /\ ClosedIsEmpty' /\ LastIsHandled'
  BY <1>1 DEF IInv, Typed, ClosedIsEmpty, LastIsHandled, Stream!LastHandled
<1>3. OwesTheRest' /\ IsAccountedFor'
  BY <1>1 DEF IInv, OwesTheRest, Pending, IsAccountedFor, Handled
<1> QED BY <1>2, <1>3 DEF IInv

\* A connection that ends takes what it held with it, and owes nothing more.
LEMMA CloseOK ==
    ASSUME IInv, Close, stored' = stored, publishing' \in [todo : Ns, owed : Nat]
    PROVE  IInv'
<1>1. Typed' /\ ClosedIsEmpty' /\ LastIsHandled' /\ OwesTheRest'
  BY Empties, AccountStays
     DEF IInv, Typed, ClosedIsEmpty, LastIsHandled, OwesTheRest, Close, GivesUp, seen
<1> QED BY <1>1, AccountStays DEF IInv, Close

LEMMA BreakOK == ASSUME IInv, Break PROVE IInv'
BY CloseOK DEF Break, IInv, Typed

LEMMA CrashOK == ASSUME IInv, Crash PROVE IInv'
<1>1. CASE phase \in {"connecting", "connected"}
  BY <1>1, CloseOK, Empties DEF Crash
<1>2. CASE phase \notin {"connecting", "connected"}
  <2>1. Typed' /\ ClosedIsEmpty' /\ LastIsHandled' /\ OwesTheRest'
    BY <1>2, Empties, AccountStays
       DEF Crash, IInv, Typed, ClosedIsEmpty, LastIsHandled, OwesTheRest, seen
  <2> QED BY <1>2, <2>1, AccountStays DEF IInv, Crash
<1> QED BY <1>1, <1>2

LEMMA ReconnectOK == ASSUME IInv, Reconnect PROVE IInv'
<1>1. Typed' /\ ClosedIsEmpty' /\ LastIsHandled' /\ OwesTheRest'
  BY AccountStays
     DEF Reconnect, IInv, Typed, ClosedIsEmpty, LastIsHandled, OwesTheRest, Pending, seen
<1> QED BY <1>1, AccountStays DEF IInv, Reconnect

LEMMA StepOK == IInv /\ [Next]_vars => IInv'
<1> SUFFICES ASSUME IInv, [Next]_vars PROVE IInv'
  OBVIOUS
<1>1. CASE UNCHANGED vars
  <2>1. Typed' /\ ClosedIsEmpty' /\ LastIsHandled' /\ OwesTheRest'
    BY <1>1, AccountStays
       DEF vars, IInv, Typed, ClosedIsEmpty, LastIsHandled, OwesTheRest, Pending, seen
  <2> QED BY <1>1, <2>1, AccountStays DEF IInv, vars
<1> QED BY <1>1, StoreOK, PublishOK, NarrateOK, AcceptOK, SendReplayOK, SendQueueOK,
           ReceiveOK, ReconnectOK, SessionOK, BreakOK, CrashOK DEF Next, Server, Browser

\* The invariant holds of every state the server and the browser can reach.
LEMMA Invariance == Spec => []IInv
<1> QED BY InitOK, StepOK, PTL DEF Spec

-----------------------------------------------------------------------------
(* What the invariant gives.                                               *)

\* At every moment an open connection owes the browser exactly the events it
\* has not brought, in order: nothing that is stored while the handler
\* replays, while a batch is published or while a message is under way is
\* left out or sent twice (server.py events, EventBroker).  And every event it
\* brought was handled, unless the session of the page was away just then.
THEOREM NothingIsEverMissed == Spec => []NothingIsMissed
<1>1. IInv => NothingIsMissed
  BY DEF IInv, NothingIsMissed
<1> QED BY <1>1, Invariance, PTL

\* Whatever the handler sends next the browser has not handled: its filter on
\* ids (WorkspaceApp.tsx, event.eventId<=last) never drops a message.
NothingIsSkipped == phase = "connected" /\ wire # <<>> => Fresh(Head(wire))
THEOREM FilterDropsNothing == Spec => []NothingIsSkipped
<1>1. IInv => NothingIsSkipped
  BY NextIsFirst DEF NothingIsSkipped, Fresh, IInv, Typed, LastIsHandled
<1> QED BY <1>1, Invariance, PTL

-----------------------------------------------------------------------------
(* The abstract event stream.                                              *)

LEMMA StreamInit == Init => Stream!Init
BY DEF Init, Stream!Init

\* A browser that takes a message handles the next event of the log or, with
\* its session away, loses it; a connection that opens asks again for what
\* follows the last one handled; a batch that is stored is stored; every other
\* step leaves the stream alone.
LEMMA StreamStep ==
    ASSUME IInv, [Next]_vars
    PROVE  [Stream!Next]_<<stored, ours, brought, handled>>
<1>1. CASE Store
  <2>1. PICK n \in 1..MaxBatch : stored' = stored + n
    BY <1>1 DEF Store
  <2>2. Stream!Store
    BY <1>1, <2>1, DeliveryAssumption DEF Store, Stream!Store, IInv, Typed, seen
  <2> QED BY <2>2 DEF Stream!Next
<1>2. CASE Narrate
  <2>1. Stream!Store
    BY <1>2 DEF Narrate, Stream!Store, IInv, Typed, seen
  <2> QED BY <2>1 DEF Stream!Next
<1>3. CASE Receive
  <2>1. brought \in Nat /\ stored \in Nat /\ stored' = stored /\ ours' = ours
    BY <1>3 DEF Receive, IInv, Typed
  <2>2. Stream!Handle \/ Stream!Lose
    BY <1>3, <2>1, ReceiveStep DEF Stream!Handle, Stream!Lose
  <2> QED BY <2>2 DEF Stream!Next
<1>4. CASE Accept
  <2>1. Stream!AskAgain
    BY <1>4 DEF Accept, Stream!AskAgain, IInv, LastIsHandled
  <2> QED BY <2>1 DEF Stream!Next
<1>5. CASE LoseSession \/ FindSession
  <2>1. Stream!Turn
    BY <1>5 DEF LoseSession, FindSession, Stream!Turn
  <2> QED BY <2>1 DEF Stream!Next
<1>6. CASE Publish \/ SendReplay \/ SendQueue \/ Reconnect
  BY <1>6 DEF Publish, SendReplay, SendQueue, Reconnect, seen
<1>7. CASE Break \/ Crash
  BY <1>7 DEF Break, Crash, Close, seen
<1>8. CASE UNCHANGED vars
  BY <1>8 DEF vars, seen
<1> QED BY <1>1, <1>2, <1>3, <1>4, <1>5, <1>6, <1>7, <1>8 DEF Next, Server, Browser

\* The browser handles the log in order, no event twice, and leaves out none
\* but those that found its session away, across reconnections, missed
\* publications and restarts of the process: the delivery implements the
\* stream of module EventStream.
THEOREM DeliveryRefinesEventStream == Spec => RefinesEventStream
<1> QED BY Invariance, StreamInit, StreamStep, PTL DEF Spec, RefinesEventStream, Stream!Spec
=============================================================================
