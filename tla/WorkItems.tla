------------------------------ MODULE WorkItems ------------------------------
(***************************************************************************)
(* The engineering work items of a project: EngineeringWorkService of      *)
(* src/aura/workspace/work_items.py over save_work_item of the repository. *)
(* Its endpoints are "def" handlers, so they run in worker threads at the  *)
(* same time; a transition reads the stored item, checks the change and    *)
(* writes the item back under the service's lock, and the process may die  *)
(* in between.  Time is the wall clock, which an operator or a time server *)
(* may set back.                                                           *)
(***************************************************************************)
EXTENDS Naturals, Sequences, FiniteSets

CONSTANTS
    Items,           \* ids a work item may draw
    Threads,         \* worker threads
    None,            \* no item, no thread
    Reasons,         \* reasons a client may give, None among them
    MaxTime,         \* bound: the wall clock
    MaxHistory       \* bound: transitions of one item

ASSUME WorkAssumption ==
    /\ None \notin Items \cup Threads
    /\ MaxTime \in Nat /\ MaxHistory \in Nat

WorkState == {"PLANNED", "IN_PROGRESS", "PAUSED", "COMPLETED", "SKIPPED", "ABANDONED"}

ValidTransitions ==
    [PLANNED     |-> {"IN_PROGRESS", "SKIPPED", "ABANDONED"},
     IN_PROGRESS |-> {"PAUSED", "COMPLETED", "ABANDONED"},
     PAUSED      |-> {"IN_PROGRESS", "SKIPPED", "ABANDONED"},
     COMPLETED   |-> {}, SKIPPED |-> {}, ABANDONED |-> {}]

ReasonRequired == {"PAUSED", "SKIPPED", "ABANDONED"}

\* An entry of transition_history; the actor is left out.
Transition == [from : WorkState, to : WorkState, reason : Reasons \cup {None}, at : 0..MaxTime]
WorkItem == [state : WorkState, history : Seq(Transition)]

\* null is not an item.
ASSUME NoneAssumption == None \notin WorkItem

VARIABLES
    stored,          \* work_items table: id -> item
    clock,           \* datetime.now
    lock,            \* the thread that holds the service's lock
    read,            \* the item a thread in the critical section has read
    subject,         \* and its id
    setBack          \* history: whether the wall clock was ever set back

vars == <<stored, clock, lock, read, subject, setBack>>

-----------------------------------------------------------------------------
(* What from_dict accepts: the history is a path from PLANNED to the state *)
(* of the item, at times that never decrease.                              *)

StateAfter(history, n) == IF n = 0 THEN "PLANNED" ELSE history[n].to
IsPath(item) ==
    /\ \A n \in DOMAIN item.history :
          /\ item.history[n].from = StateAfter(item.history, n - 1)
          /\ item.history[n].to \in ValidTransitions[item.history[n].from]
    /\ item.state = StateAfter(item.history, Len(item.history))
IsStrictlyOrdered(item) ==                                                  \* mutant
    \A m, n \in DOMAIN item.history : m < n => item.history[m].at < item.history[n].at
IsOrdered(item) ==
    \A m, n \in DOMAIN item.history : m <= n => item.history[m].at <= item.history[n].at
Readable(item) == IsPath(item) /\ IsOrdered(item)

-----------------------------------------------------------------------------
\* The project and the references of the item are checked against a graph
\* that is not modelled: a create that is refused changes nothing.
Create ==
    /\ \E i \in Items :
          /\ stored[i] = None
          /\ stored' = [stored EXCEPT ![i] = [state |-> "PLANNED", history |-> <<>>]]
    /\ UNCHANGED <<clock, lock, read, subject, setBack>>

LockIgnored(t) == TRUE                                                      \* mutant
LockIsFree(t) == lock = None

\* transition, up to the checks that may refuse it.  An item that cannot be
\* read back raises.
Begin(t, i) ==
    /\ LockIsFree(t)
    /\ read[t] = None
    /\ stored[i] # None /\ Readable(stored[i])
    /\ Len(stored[i].history) < MaxHistory
    /\ lock' = t
    /\ read' = [read EXCEPT ![t] = stored[i]]
    /\ subject' = [subject EXCEPT ![t] = i]
    /\ UNCHANGED <<stored, clock, setBack>>

AnyMove(item, target, reason) == target \in WorkState                       \* mutant
Accepted(item, target, reason) ==
    /\ target \in ValidTransitions[item.state]
    /\ target \in ReasonRequired => reason # None

Moved(item, target, reason) ==
    [state |-> target,
     history |-> Append(item.history,
                        [from |-> item.state, to |-> target, reason |-> reason, at |-> clock])]

Leave(t) ==
    /\ lock' = None
    /\ read' = [read EXCEPT ![t] = None]
    /\ subject' = [subject EXCEPT ![t] = None]

Save(t) ==
    /\ read[t] # None
    /\ \E target \in WorkState, reason \in Reasons \cup {None} :
          /\ Accepted(read[t], target, reason)
          /\ stored' = [stored EXCEPT ![subject[t]] = Moved(read[t], target, reason)]
    /\ Leave(t)
    /\ UNCHANGED <<clock, setBack>>

\* Refused, or the transaction fails.
Refuse(t) ==
    /\ read[t] # None
    /\ Leave(t)
    /\ UNCHANGED <<stored, clock, setBack>>

Tick ==
    /\ clock < MaxTime
    /\ clock' = clock + 1
    /\ UNCHANGED <<stored, lock, read, subject, setBack>>

SetBack ==
    /\ \E now \in 0..MaxTime : now < clock /\ clock' = now
    /\ setBack' = TRUE
    /\ UNCHANGED <<stored, lock, read, subject>>

Crash ==
    /\ lock' = None
    /\ read' = [t \in Threads |-> None]
    /\ subject' = [t \in Threads |-> None]
    /\ UNCHANGED <<stored, clock, setBack>>

Init ==
    /\ stored = [i \in Items |-> None]
    /\ clock = 0
    /\ lock = None
    /\ read = [t \in Threads |-> None]
    /\ subject = [t \in Threads |-> None]
    /\ setBack = FALSE

Next ==
    \/ Create \/ Tick \/ SetBack \/ Crash
    \/ \E t \in Threads : Save(t) \/ Refuse(t) \/ \E i \in Items : Begin(t, i)

Spec == Init /\ [][Next]_vars

-----------------------------------------------------------------------------
(* Properties.                                                             *)

\* Every variable holds a value of its kind.
TypeOK ==
    /\ stored \in [Items -> WorkItem \cup {None}]
    /\ clock \in 0..MaxTime
    /\ lock \in Threads \cup {None}
    /\ read \in [Threads -> WorkItem \cup {None}]
    /\ subject \in [Threads -> Items \cup {None}]
    /\ setBack \in BOOLEAN

\* A transition that was accepted is never lost: whatever threads interleave
\* and wherever the process dies, the history of an item only grows, one
\* entry at a time.
HistoryOnlyGrows ==
    [][\A i \in Items : stored[i] # None =>
          \/ stored'[i] = stored[i]
          \/ \E entry \in Transition :
                stored'[i].history = Append(stored[i].history, entry)]_vars

\* The history of a stored item is a path of allowed transitions that ends in
\* its state, so that closed work stays closed and every pause has a reason.
HistoriesArePaths ==
    \A i \in Items : stored[i] # None =>
        /\ IsPath(stored[i])
        /\ \A n \in DOMAIN stored[i].history :
              stored[i].history[n].to \in ReasonRequired => stored[i].history[n].reason # None

\* work_items.py:75, "Persisted work history violates transition invariants":
\* the service accepts what it wrote, as long as the clock was never set back.
\* Listing the work of a project reads every item, so one that is refused
\* hides them all.
WhatIsWrittenCanBeRead ==
    ~setBack => \A i \in Items : stored[i] # None => Readable(stored[i])
=============================================================================
