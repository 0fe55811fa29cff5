----------------------------- MODULE EventStream -----------------------------
(***************************************************************************)
(* What the event log of a project promises a page that follows it.  The   *)
(* page is brought the events in the order they were stored, and none is   *)
(* left out on the way.  While its session is of this project it handles   *)
(* each of them; what comes while it is not is lost, until a connection    *)
(* asks again for all that follows the last event handled.                 *)
(***************************************************************************)
EXTENDS Naturals, Sequences

VARIABLES
    stored,      \* number of events stored; event ids are 1..stored
    ours,        \* the session of the page is of this project
    brought,     \* the id brought last
    handled      \* the ids the page has handled, in its order

LastHandled == IF handled = <<>> THEN 0 ELSE handled[Len(handled)]

Init == stored = 0 /\ ours = TRUE /\ brought = 0 /\ handled = <<>>

Store == stored' \in Nat /\ stored' > stored /\ UNCHANGED <<ours, brought, handled>>

Turn == ours' \in BOOLEAN /\ UNCHANGED <<stored, brought, handled>>

Handle ==
    /\ ours
    /\ brought < stored
    /\ brought' = brought + 1
    /\ handled' = Append(handled, brought')
    /\ UNCHANGED <<stored, ours>>

Lose ==
    /\ ~ours
    /\ brought < stored
    /\ brought' = brought + 1
    /\ UNCHANGED <<stored, ours, handled>>

AskAgain == brought' = LastHandled /\ UNCHANGED <<stored, ours, handled>>

Next == Store \/ Turn \/ Handle \/ Lose \/ AskAgain

Spec == Init /\ [][Next]_<<stored, ours, brought, handled>>
=============================================================================
