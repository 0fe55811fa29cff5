------------------------- MODULE WorkspaceProperties -------------------------
(***************************************************************************)
(* What the commit protocol of module Workspace promises, and what its     *)
(* documents and tests say of it that it does not keep.                    *)
(***************************************************************************)
EXTENDS Workspace

\* Every variable holds a value of its kind.
ServerTypeOK ==
    /\ DOMAIN rows \subseteq Nat /\ rows \in [DOMAIN rows -> Row]
    /\ project \in Project \cup {None}
    /\ log \in Seq(LogRow)
    /\ proposals \in [Req -> Proposal \cup {None}]
    /\ operations \in [Keys -> Req \cup {None}]
    /\ scenario \in [id : Req, plan : Proposal] \cup {None}
    /\ lock \in Req \cup {None}
    /\ creating \in Req \cup {None}
    /\ active \subseteq Reps \X Req
    /\ loop \in Req \cup {None}
TypeOK == ServerTypeOK /\ req \in [Req -> Request]

-----------------------------------------------------------------------------
(* The history of the project.                                             *)

\* The revisions table and the graph in the project row tell one linear
\* history, without a gap: each row is the revision the graph lists at that
\* place, its parent the row before.  Handlers that planned on the same
\* revision race for the next number (modify takes no lock), and a
\* transaction that loses leaves no trace of itself in the project row.
LinearHistory ==
    IF project = None
    THEN DOMAIN rows = {}
    ELSE /\ DOMAIN rows = 1..Latest
         /\ \A n \in 1..Latest :
               /\ rows[n].id = project.graph[n]
               /\ rows[n].parent = IF n = 1 THEN None ELSE rows[n - 1].id

\* Every revision was verified against the very revision it follows: no
\* proposal, undo or scenario is applied to a graph that moved while its
\* representations were being regenerated.
AppliedToItsBase == \A n \in DOMAIN rows : rows[n].base = rows[n].parent

\* An undo follows the modification it inverts: nothing is undone twice, and
\* nothing else that was committed meanwhile is undone instead.
UndoFollowsModification ==
    \A n \in DOMAIN rows : rows[n].kind = "undo" =>
        n > 1 /\ rows[n - 1].kind = "modification" /\ rows[n].regenerate = rows[n - 1].regenerate

\* The history is the one module RevisionLog describes: it only grows, each
\* revision on the last, through every race and every restart.
History == INSTANCE RevisionLog WITH
    Ids <- Req,
    history <- [n \in DOMAIN rows |->
                  [id |-> rows[n].id, parent |-> rows[n].parent, base |-> rows[n].base]]
RefinesRevisionLog == History!Spec

-----------------------------------------------------------------------------
(* Operations that are sent again.                                         *)

ModificationRows == {i \in DOMAIN log : log[i].type = "modification.operation_completed"}

\* A key, or a proposal, produces one revision at most, however often and
\* however concurrently it is sent and whatever the process forgets when it
\* dies: completed modifications and their revisions match one to one.
OncePerOperation ==
    /\ \A i, j \in ModificationRows :
          \/ log[i].op = log[j].op
          \/ log[i].subject = log[j].subject
          \/ log[i].revision = log[j].revision
          => i = j
    /\ {log[i].revision : i \in ModificationRows}
          = {n \in DOMAIN rows : rows[n].kind \in {"modification", "undo"}}

\* A request that was answered with a revision tells the truth for ever: the
\* revision is stored and, for one that carried a key, is the recorded result
\* of that key, so that every later answer is the same.
AnswersAreDurable ==
    \A r \in Req : req[r].phase = "answered" /\ req[r].kind \in {"commit", "undo"} =>
        /\ req[r].answer \in DOMAIN rows
        /\ Recorded("modification.operation_completed", req[r].op) = {req[r].answer}

\* The modification lock is held only by a request that is still going to
\* release it: no early return, failure or lost race keeps the project locked.
LockIsReleased ==
    /\ lock # None => req[lock].phase \in {"committing", "committed", "applying", "applied"}
    /\ creating # None => req[creating].phase \in {"planning", "generating", "assessing"}

-----------------------------------------------------------------------------
(* Representations.                                                        *)

\* A stored representation belongs to a revision that was committed, and one
\* that a change regenerated to the revision that very change became: what was
\* generated for a commit that lost its race or failed is never shown.
Changes == {"commit", "undo", "modify", "apply"}
RepresentationsOfTheirRevision ==
    project # None =>
        \A rep \in Reps : project.reps[rep] # None =>
            LET rec == project.reps[rep] IN
            /\ rec.revision \in DOMAIN rows
            /\ rec.operation # None /\ req[rec.operation].kind \in Changes
               => rows[rec.revision].id = rec.operation

\* README.md:7, "keeps representations synchronized around the same system
\* definition": a representation never goes back to an earlier revision.
RepresentationsAdvance ==
    [][\A rep \in Reps :
          project # None /\ project.reps[rep] # None /\ project'.reps[rep] # None
          => project'.reps[rep].revision >= project.reps[rep].revision]_vars

-----------------------------------------------------------------------------
(* Progress.                                                               *)

\* Every request that is accepted is answered or refused, unless the process
\* dies: no handler waits for a lock another one keeps.
EveryRequestCloses == \A r \in Req : Open(r) ~> ~Open(r)
=============================================================================
