----------------------------- MODULE ThreadPool ------------------------------
(***************************************************************************)
(* Project creations waiting for one another in the worker threads of the  *)
(* server: create and _create_serialized of src/aura/workspace/server.py   *)
(* take the creation lock in a worker thread, and its holder needs worker  *)
(* threads to plan and to generate while the others keep theirs, waiting.  *)
(* The pool (40 threads) belongs to AnyIO; the load balancer lets 20       *)
(* requests in (infra/gcp/main.tf:132), a local server any number.         *)
(***************************************************************************)
EXTENDS Naturals, FiniteSets

CONSTANTS
    Creations,       \* requests that create a project
    Others,          \* requests whose handler is one job of a worker thread
    Threads          \* worker threads of the pool

ASSUME PoolAssumption ==
    /\ IsFiniteSet(Creations) /\ IsFiniteSet(Others) /\ Creations \cap Others = {}
    /\ Threads \in Nat \ {0}

VARIABLES
    phase,           \* what each request is doing
    lock             \* requests that hold the creation lock

vars == <<phase, lock>>

\* A request waits for a thread ("for..."), holds one, or runs on the loop.
InThread == {"acquiring", "planning", "generating", "working"}
Phases == {"new", "locked", "planned", "generated", "answered",
           "forLock", "forPlan", "forGeneration", "forWork"} \cup InThread

Busy == {r \in DOMAIN phase : phase[r] \in InThread}
HasThread == Cardinality(Busy) < Threads

Step(r, from, to) == phase[r] = from /\ phase' = [phase EXCEPT ![r] = to]

\* creation_lock.acquire, in a thread it blocks.
AskLock(r) == r \in Creations /\ Step(r, "new", "forLock") /\ UNCHANGED lock
StartAcquire(r) == HasThread /\ Step(r, "forLock", "acquiring") /\ UNCHANGED lock
Acquire(r) == lock = {} /\ Step(r, "acquiring", "locked") /\ lock' = {r}

\* The project exists, or a plan is made ...
AskPlan(r) == Step(r, "locked", "forPlan") /\ UNCHANGED lock
StartPlan(r) == HasThread /\ Step(r, "forPlan", "planning") /\ UNCHANGED lock
EndPlan(r) == Step(r, "planning", "planned") /\ UNCHANGED lock

\* ... and, when it is accepted, stored and its representations generated.
AskGeneration(r) == Step(r, "planned", "forGeneration") /\ UNCHANGED lock
StartGeneration(r) == HasThread /\ Step(r, "forGeneration", "generating") /\ UNCHANGED lock
EndGeneration(r) == Step(r, "generating", "generated") /\ UNCHANGED lock

\* The finally clause, reached from every stretch of loop code in between.
KeptOnError(r) == IF phase[r] = "generated" THEN lock \ {r} ELSE lock       \* mutant
Unlocked(r) == lock \ {r}
Release(r) ==
    /\ \E from \in {"locked", "planned", "generated"} : Step(r, from, "answered")
    /\ lock' = Unlocked(r)

\* A "def" handler, or the one wait of another handler.
AskWork(r) == r \in Others /\ Step(r, "new", "forWork") /\ UNCHANGED lock
StartWork(r) == HasThread /\ Step(r, "forWork", "working") /\ UNCHANGED lock
EndWork(r) == Step(r, "working", "answered") /\ UNCHANGED lock

Arrive(r) == AskLock(r) \/ AskWork(r)
Go(r) ==
    \/ StartAcquire(r) \/ Acquire(r)
    \/ AskPlan(r) \/ StartPlan(r) \/ EndPlan(r)
    \/ AskGeneration(r) \/ StartGeneration(r) \/ EndGeneration(r)
    \/ Release(r)
    \/ StartWork(r) \/ EndWork(r)

Init == phase = [r \in Creations \cup Others |-> "new"] /\ lock = {}
Next == \E r \in Creations \cup Others : Arrive(r) \/ Go(r)
Spec == Init /\ [][Next]_vars

\* Threads and the loop run what they can.
FairSpec == Spec /\ \A r \in Creations \cup Others : WF_vars(Go(r))

-----------------------------------------------------------------------------
\* test_workspace_server.py:179: whatever else is going on at the same time,
\* every request is answered.
EveryRequestIsAnswered ==
    \A r \in Creations \cup Others : phase[r] # "new" ~> phase[r] = "answered"
=============================================================================
