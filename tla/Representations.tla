--------------------------- MODULE Representations ---------------------------
(***************************************************************************)
(* The life cycle of one derived representation (a 3D part, the circuit    *)
(* schematic) of an engineering project, as                                *)
(* src/aura/workspace/representations.py and representation_service.py     *)
(* define it.  Operators only: the processes that move a record are in     *)
(* module Workspace.                                                       *)
(***************************************************************************)
EXTENDS Naturals

CONSTANT None            \* the null of the code: no id, no record, no holder

Statuses == {"requested", "generating", "ready", "failed", "fallback",
             "stale", "unsupported"}

\* The table a record's transition() checks.
Transitions ==
    [requested   |-> {"generating", "fallback", "unsupported"},
     generating  |-> {"ready", "failed"},
     ready       |-> {"stale"},
     failed      |-> {"fallback", "generating"},
     fallback    |-> {"generating", "stale"},
     stale       |-> {"generating", "fallback"},
     unsupported |-> {}]

\* "operation" names the generation that may still report a result; uuid4 in
\* the code, here the request that drew it.  The type, the semantic ids, the
\* artifact and the error text are left out.
RepRecord(Operations) ==
    [status : Statuses, revision : Nat, generation : Nat,
     operation : Operations \cup {None}]

Initial(revision, operation) ==
    [status |-> "requested", revision |-> revision, generation |-> 1,
     operation |-> operation]

CanMove(rec, status) == status \in Transitions[rec.status]

Moved(rec, status) == [rec EXCEPT !.status = status]

\* A generation that ends, requested -> generating -> ready, or generating ->
\* failed -> fallback.  The error path is silent: the caller gets a record.
GenerationEnds == {"ready", "fallback"}

\* What persist_specs returns for a record of a new project.
Generated(rec, outcome) == Moved(rec, outcome)

\* What regenerate returns: whatever the status was, the record is made stale,
\* then generated again for `revision' under a new operation.
Regenerated(rec, revision, operation, outcome) ==
    [status |-> outcome, revision |-> revision,
     generation |-> rec.generation + 1, operation |-> operation]

\* What recover_interrupted makes of a generation no client is running.
Interrupted(rec) ==
    [status |-> "fallback", revision |-> rec.revision,
     generation |-> rec.generation + 1, operation |-> None]
=============================================================================
