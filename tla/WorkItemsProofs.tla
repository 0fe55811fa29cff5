--------------------------- MODULE WorkItemsProofs ---------------------------
(***************************************************************************)
(* Proofs about the engineering work items, for any number of items and    *)
(* threads: no accepted transition is lost, the histories stay paths of    *)
(* the table, and they can be read back as long as the clock was never     *)
(* set back.                                                               *)
(***************************************************************************)
EXTENDS WorkItems, TLAPS

\* A thread in the critical section holds the lock, and the item it has read
\* is still the stored one.
Exclusive ==
    \A t \in Threads : read[t] # None =>
        /\ lock = t
        /\ subject[t] \in Items
        /\ stored[subject[t]] = read[t]

\* A stored item is a path, with a reason where one is required.
Legal(item) ==
    /\ IsPath(item)
    /\ \A n \in DOMAIN item.history :
          item.history[n].to \in ReasonRequired => item.history[n].reason # None

\* Its entries are in order and not in the future.
Timely(item) ==
    /\ IsOrdered(item)
    /\ \A n \in DOMAIN item.history : item.history[n].at <= clock

IInv ==
    /\ TypeOK
    /\ Exclusive
    /\ \A i \in Items : stored[i] # None => Legal(stored[i])
    /\ ~setBack => \A i \in Items : stored[i] # None => Timely(stored[i])

-----------------------------------------------------------------------------
\* An accepted transition extends the history by one entry.
LEMMA MovedType ==
    ASSUME NEW item \in WorkItem, NEW target \in WorkState, NEW reason \in Reasons \cup {None},
           clock \in 0..MaxTime
    PROVE  /\ Moved(item, target, reason) \in WorkItem
           /\ Moved(item, target, reason) # None
           /\ Moved(item, target, reason).state = target
           /\ \E entry \in Transition :
                 /\ entry.from = item.state /\ entry.to = target
                 /\ entry.reason = reason /\ entry.at = clock
                 /\ Moved(item, target, reason).history = Append(item.history, entry)
<1> DEFINE entry == [from |-> item.state, to |-> target, reason |-> reason, at |-> clock]
<1>1. item.state \in WorkState /\ item.history \in Seq(Transition)
  BY DEF WorkItem
<1>2. /\ entry \in Transition /\ entry.from = item.state /\ entry.to = target
      /\ entry.reason = reason /\ entry.at = clock
  BY <1>1 DEF Transition
<1>3. Moved(item, target, reason) = [state |-> target, history |-> Append(item.history, entry)]
  BY DEF Moved
<1> HIDE DEF entry
<1>4. Append(item.history, entry) \in Seq(Transition)
  BY <1>1, <1>2
<1>5. Moved(item, target, reason) \in WorkItem
  BY <1>3, <1>4 DEF WorkItem
<1>6. /\ Moved(item, target, reason).state = target
      /\ Moved(item, target, reason).history = Append(item.history, entry)
  BY <1>3
<1>7. Moved(item, target, reason) # None
  BY <1>5, NoneAssumption
<1> QED
  BY <1>2, <1>5, <1>6, <1>7

\* It keeps a legal item legal, and a timely one timely.
LEMMA MovedLegal ==
    ASSUME NEW item \in WorkItem, NEW target \in WorkState, NEW reason \in Reasons \cup {None},
           clock \in 0..MaxTime, MaxTime \in Nat,
           Accepted(item, target, reason)
    PROVE  /\ Legal(item) => Legal(Moved(item, target, reason))
           /\ Timely(item) => Timely(Moved(item, target, reason))
<1> DEFINE next == Moved(item, target, reason)
           old == item.history
           new == next.history
<1>1. PICK entry \in Transition :
        /\ entry.from = item.state /\ entry.to = target
        /\ entry.reason = reason /\ entry.at = clock
        /\ new = Append(old, entry)
  BY MovedType
<1>2. old \in Seq(Transition) /\ Len(old) \in Nat
  BY DEF WorkItem
<1>3. /\ Len(new) = Len(old) + 1
      /\ DOMAIN new = 1..(Len(old) + 1)
      /\ new[Len(old) + 1] = entry
      /\ \A n \in 1..Len(old) : new[n] = old[n]
      /\ DOMAIN old = 1..Len(old)
  BY <1>1, <1>2
<1>4. next.state = target
  BY MovedType
<1>5. \A n \in DOMAIN new : n \in DOMAIN old \/ n = Len(old) + 1
  BY <1>2, <1>3
<1> HIDE DEF next, old, new
<1>6. ASSUME Legal(item)
      PROVE  Legal(next)
  <2>1. /\ \A n \in DOMAIN old : /\ old[n].from = StateAfter(old, n - 1)
                                 /\ old[n].to \in ValidTransitions[old[n].from]
        /\ item.state = StateAfter(old, Len(old))
    BY <1>6 DEF Legal, IsPath, old
  <2>2. \A n \in 0..Len(old) : StateAfter(new, n) = StateAfter(old, n)
    BY <1>2, <1>3 DEF StateAfter
  <2>3. ASSUME NEW n \in DOMAIN new
        PROVE  /\ new[n].from = StateAfter(new, n - 1)
               /\ new[n].to \in ValidTransitions[new[n].from]
    <3>1. CASE n \in DOMAIN old
      <4>1. n - 1 \in 0..Len(old) /\ new[n] = old[n]
        BY <1>2, <1>3, <3>1
      <4> QED
        BY <2>1, <2>2, <3>1, <4>1
    <3>2. CASE n = Len(old) + 1
      <4>1. n - 1 = Len(old) /\ Len(old) \in 0..Len(old) /\ new[n] = entry
        BY <1>2, <1>3, <3>2
      <4> QED
        BY <1>1, <2>1, <2>2, <4>1 DEF Accepted
    <3> QED
      BY <1>5, <3>1, <3>2
  <2>4. next.state = StateAfter(new, Len(new))
    BY <1>1, <1>2, <1>3, <1>4 DEF StateAfter
  <2>5. ASSUME NEW n \in DOMAIN new, new[n].to \in ReasonRequired
        PROVE  new[n].reason # None
    <3>1. CASE n \in DOMAIN old
      BY <1>3, <1>6, <2>5, <3>1 DEF Legal, old
    <3>2. CASE n = Len(old) + 1
      BY <1>1, <1>3, <2>5, <3>2 DEF Accepted
    <3> QED
      BY <1>5, <3>1, <3>2
  <2> QED
    BY <2>3, <2>4, <2>5 DEF Legal, IsPath, new
<1>7. ASSUME Timely(item)
      PROVE  Timely(next)
  <2>1. /\ \A m, n \in DOMAIN old : m <= n => old[m].at <= old[n].at
        /\ \A n \in DOMAIN old : old[n].at <= clock
    BY <1>7 DEF Timely, IsOrdered, old
  <2>2. \A n \in DOMAIN new : new[n].at <= clock
    BY <1>1, <1>3, <1>5, <2>1
  <2>3. ASSUME NEW m \in DOMAIN new, NEW n \in DOMAIN new, m <= n
        PROVE  new[m].at <= new[n].at
    <3>1. CASE n \in DOMAIN old
      <4>1. m \in DOMAIN old
        BY <1>2, <1>3, <2>3, <3>1
      <4> QED
        BY <1>3, <2>1, <2>3, <3>1, <4>1
    <3>2. CASE n = Len(old) + 1
      BY <1>1, <1>3, <2>2, <3>2
    <3> QED
      BY <1>5, <3>1, <3>2
  <2> QED
    BY <2>2, <2>3 DEF Timely, IsOrdered, new
<1> QED
  BY <1>6, <1>7 DEF next

-----------------------------------------------------------------------------
LEMMA InitOK == Init => IInv
<1> SUFFICES ASSUME Init PROVE IInv
  OBVIOUS
<1>1. setBack \in BOOLEAN
  BY DEF Init
<1> QED
  BY <1>1, WorkAssumption DEF Init, IInv, TypeOK, Exclusive

LEMMA CreateOK ==
    ASSUME IInv, Create
    PROVE  IInv'
<1> DEFINE item == [state |-> "PLANNED", history |-> <<>>]
<1>1. PICK i \in Items : stored[i] = None /\ stored' = [stored EXCEPT ![i] = item]
  BY DEF Create
<1>2. item \in WorkItem
  BY DEF WorkItem, WorkState
<1>3. Legal(item) /\ Timely(item)'
  BY DEF Legal, IsPath, StateAfter, Timely, IsOrdered
<1> HIDE DEF item
<1>4. stored' \in [Items -> WorkItem \cup {None}] /\ UNCHANGED <<clock, lock, read, subject, setBack>>
  BY <1>1, <1>2 DEF Create, IInv, TypeOK
<1>5. TypeOK'
  BY <1>4 DEF IInv, TypeOK
<1>6. Exclusive'
  BY <1>1, <1>4 DEF IInv, TypeOK, Exclusive
<1>7. ASSUME NEW j \in Items
      PROVE  stored'[j] = IF j = i THEN item ELSE stored[j]
  BY <1>1 DEF IInv, TypeOK
<1> QED
  BY <1>3, <1>4, <1>5, <1>6, <1>7 DEF IInv, Timely

LEMMA SaveOK ==
    ASSUME IInv, NEW t \in Threads, Save(t)
    PROVE  IInv'
<1> DEFINE i == subject[t]
<1>1. /\ read[t] # None /\ read[t] \in WorkItem /\ i \in Items
      /\ stored[i] = read[t] /\ stored[i] # None /\ lock = t
  BY DEF Save, IInv, TypeOK, Exclusive
<1>2. PICK target \in WorkState, reason \in Reasons \cup {None} :
        /\ Accepted(read[t], target, reason)
        /\ stored' = [stored EXCEPT ![i] = Moved(read[t], target, reason)]
  BY DEF Save
<1>3. clock' = clock /\ setBack' = setBack /\ Leave(t) /\ clock \in 0..MaxTime /\ MaxTime \in Nat
  BY WorkAssumption DEF Save, IInv, TypeOK
<1>4. Moved(read[t], target, reason) \in WorkItem
  BY <1>1, <1>3, MovedType
<1>5. TypeOK'
  BY <1>1, <1>2, <1>3, <1>4 DEF Leave, IInv, TypeOK
<1>6. Exclusive'
  BY <1>1, <1>3 DEF Leave, IInv, TypeOK, Exclusive
<1>7. /\ stored'[i] = Moved(read[t], target, reason)
      /\ \A j \in Items \ {i} : stored'[j] = stored[j]
  BY <1>1, <1>2 DEF IInv, TypeOK
<1>8. /\ Legal(read[t]) => Legal(stored'[i])
      /\ Timely(read[t]) => Timely(stored'[i])
  BY <1>1, <1>2, <1>3, <1>7, MovedLegal
<1>9. ASSUME NEW j \in Items, stored'[j] # None
      PROVE  Legal(stored'[j]) /\ (~setBack => Timely(stored'[j]))
  <2>1. CASE j = i
    BY <1>1, <1>8, <2>1 DEF IInv
  <2>2. CASE j # i
    BY <1>7, <1>9, <2>2 DEF IInv
  <2> QED
    BY <2>1, <2>2
<1>10. \A j \in Items : Timely(stored'[j]) => Timely(stored[j])'
  BY <1>3 DEF Timely
<1> QED
  BY <1>3, <1>5, <1>6, <1>9, <1>10 DEF IInv

\* The other steps of a thread store nothing.
LEMMA ThreadOK ==
    ASSUME IInv, NEW t \in Threads, Refuse(t) \/ \E i \in Items : Begin(t, i)
    PROVE  IInv'
<1>1. UNCHANGED <<stored, clock, setBack>>
  BY DEF Refuse, Begin
<1>2. CASE Refuse(t)
  <2>1. TypeOK' /\ Exclusive'
    BY <1>2 DEF Refuse, Leave, IInv, TypeOK, Exclusive
  <2> QED
    BY <1>1, <2>1 DEF IInv, Timely
<1>3. ASSUME NEW i \in Items, Begin(t, i)
      PROVE  IInv'
  <2>1. TypeOK'
    BY <1>3 DEF Begin, IInv, TypeOK
  <2>2. Exclusive'
    BY <1>3, WorkAssumption DEF Begin, LockIsFree, IInv, TypeOK, Exclusive
  <2> QED
    BY <1>1, <2>1, <2>2 DEF IInv, Timely
<1> QED
  BY <1>2, <1>3

\* A clock that moves forward keeps the histories in the past.
LEMMA ClockOK ==
    ASSUME IInv, Tick \/ SetBack
    PROVE  IInv'
<1>1. UNCHANGED <<stored, lock, read, subject>>
  BY DEF Tick, SetBack
<1>2. clock' \in 0..MaxTime /\ clock \in Nat
  BY WorkAssumption DEF Tick, SetBack, IInv, TypeOK
<1>4. setBack' \in BOOLEAN
  BY DEF Tick, SetBack, IInv, TypeOK
<1>5. ~setBack' => ~setBack /\ clock' = clock + 1
  BY DEF Tick, SetBack
<1>3. ASSUME ~setBack', NEW i \in Items, stored[i] # None
      PROVE  Timely(stored[i])'
  <2>1. clock' = clock + 1
    BY <1>3, <1>5
  <2>2. stored[i] \in WorkItem /\ Timely(stored[i])
    BY <1>3, <1>5 DEF IInv, TypeOK
  <2>3. ASSUME NEW n \in DOMAIN stored[i].history
        PROVE  stored[i].history[n].at \in Nat
    <3>1. stored[i].history \in Seq(Transition)
      BY <2>2 DEF WorkItem
    <3>2. stored[i].history[n] \in Transition
      BY <3>1
    <3> QED
      BY <3>2, WorkAssumption DEF Transition
  <2> QED
    BY <1>1, <1>2, <2>1, <2>2, <2>3 DEF Timely
<1> QED
  BY <1>1, <1>2, <1>3, <1>4 DEF IInv, TypeOK, Exclusive

LEMMA CrashOK ==
    ASSUME IInv, Crash
    PROVE  IInv'
BY DEF Crash, IInv, TypeOK, Exclusive, Timely

LEMMA StepOK == IInv /\ [Next]_vars => IInv'
<1> SUFFICES ASSUME IInv, [Next]_vars PROVE IInv'
  OBVIOUS
<1>1. CASE UNCHANGED vars
  BY <1>1 DEF vars, IInv, TypeOK, Exclusive, Timely
<1> QED
  BY <1>1, CreateOK, SaveOK, ThreadOK, ClockOK, CrashOK DEF Next

LEMMA Invariance == Spec => []IInv
BY InitOK, StepOK, PTL DEF Spec

-----------------------------------------------------------------------------
\* Every variable of the service keeps its type.
THEOREM TypeCorrect == Spec => []TypeOK
<1>1. IInv => TypeOK
  BY DEF IInv
<1> QED
  BY <1>1, Invariance, PTL

\* Stored histories are paths of the transition table, closed work stays
\* closed, and every pause, skip and abandonment has its reason.
THEOREM PathsAreKept == Spec => []HistoriesArePaths
<1>1. IInv => HistoriesArePaths
  BY DEF IInv, Legal, HistoriesArePaths
<1> QED
  BY <1>1, Invariance, PTL

\* What the service wrote it can read again, if the clock was never set back.
THEOREM ReadableWithForwardClock == Spec => []WhatIsWrittenCanBeRead
<1>1. IInv => WhatIsWrittenCanBeRead
  BY DEF IInv, Legal, Timely, Readable, WhatIsWrittenCanBeRead
<1> QED
  BY <1>1, Invariance, PTL

\* Whatever threads interleave and wherever the process dies, the history of
\* a stored item only grows, one accepted entry at a time.
THEOREM NothingIsOverwritten == Spec => HistoryOnlyGrows
<1> DEFINE Grown(i) == stored[i] # None =>
              \/ stored'[i] = stored[i]
              \/ \E entry \in Transition :
                    stored'[i].history = Append(stored[i].history, entry)
<1>1. ASSUME IInv, Next, NEW i \in Items
      PROVE  Grown(i)
  <2>1. CASE Create
    BY <1>1, <2>1 DEF Create, IInv, TypeOK
  <2>2. ASSUME NEW t \in Threads, Save(t)
        PROVE  Grown(i)
    <3>1. /\ read[t] \in WorkItem /\ subject[t] \in Items /\ clock \in 0..MaxTime
          /\ stored[subject[t]] = read[t] /\ stored \in [Items -> WorkItem \cup {None}]
      BY <1>1, <2>2 DEF Save, IInv, TypeOK, Exclusive
    <3>2. PICK target \in WorkState, reason \in Reasons \cup {None} :
            stored' = [stored EXCEPT ![subject[t]] = Moved(read[t], target, reason)]
      BY <2>2 DEF Save
    <3>3. \E entry \in Transition :
             Moved(read[t], target, reason).history = Append(read[t].history, entry)
      BY <3>1, MovedType
    <3> QED
      BY <3>1, <3>2, <3>3
  <2>3. CASE UNCHANGED stored
    BY <2>3
  <2> QED
    BY <1>1, <2>1, <2>2, <2>3 DEF Next, Tick, SetBack, Crash, Refuse, Begin
<1>2. ASSUME NEW i \in Items, UNCHANGED vars
      PROVE  Grown(i)
  BY <1>2 DEF vars
<1>3. IInv /\ [Next]_vars => [\A i \in Items : Grown(i)]_vars
  BY <1>1, <1>2
<1>4. Spec => [][\A i \in Items : Grown(i)]_vars
  BY <1>3, Invariance, PTL DEF Spec
<1> QED
  BY <1>4 DEF HistoryOnlyGrows
=============================================================================
