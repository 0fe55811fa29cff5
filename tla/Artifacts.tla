------------------------------ MODULE Artifacts ------------------------------
(***************************************************************************)
(* The content of representations: create_artifact, write_artifact and     *)
(* read_artifact of the two project repositories, over the object stores   *)
(* of src/aura/infrastructure/artifacts.py.  An artifact is a row of the   *)
(* database and an object of the store, which no transaction spans: the    *)
(* object is put first, the row made ready after it, and the object        *)
(* deleted when the row could not be.  The process may die between any     *)
(* two of those steps, which happen in worker threads.                     *)
(***************************************************************************)
EXTENDS Naturals

CONSTANT Ids             \* artifact ids, each drawn once

VARIABLES
    row,                 \* artifacts table: absent, pending or ready
    object,              \* whether the store holds the content, whole and hashed
    phase,               \* of the write: what its thread does next
    referenced,          \* whether a stored representation names the artifact
    ambiguous            \* history: artifacts whose commit took effect and raised

vars == <<row, object, phase, referenced, ambiguous>>

Phases == {"unborn", "writing", "uploaded", "written", "cleaning", "closed"}

Advance(a, from, to) == phase[a] = from /\ phase' = [phase EXCEPT ![a] = to]

Create(a) ==
    /\ Advance(a, "unborn", "writing")
    /\ row' = [row EXCEPT ![a] = "pending"]
    /\ UNCHANGED <<object, referenced, ambiguous>>

\* put: a temporary file renamed, or an upload that refuses to overwrite.
Put(a) ==
    /\ Advance(a, "writing", "uploaded")
    /\ object' = [object EXCEPT ![a] = TRUE]
    /\ UNCHANGED <<row, referenced, ambiguous>>

\* It raises, the object possibly there: the upload's metadata is read back.
Ignored(a) == "uploaded"                                                    \* mutant
AfterFailedPut(a) == "closed"
PutFails(a) ==
    /\ Advance(a, "writing", AfterFailedPut(a))
    /\ object' \in {object, [object EXCEPT ![a] = TRUE]}
    /\ UNCHANGED <<row, referenced, ambiguous>>

MarkReady(a) ==
    /\ Advance(a, "uploaded", "written")
    /\ row' = [row EXCEPT ![a] = "ready"]
    /\ UNCHANGED <<object, referenced, ambiguous>>

\* It raises; over a connection that breaks (PostgreSQL, never the local
\* SQLite) the commit may have taken effect all the same.
MarkFails(a) ==
    /\ Advance(a, "uploaded", "cleaning")
    /\ \/ UNCHANGED <<row, ambiguous>>
       \/ /\ row' = [row EXCEPT ![a] = "ready"]
          /\ ambiguous' = ambiguous \cup {a}
    /\ UNCHANGED <<object, referenced>>

\* The exception handler deletes the object, and swallows its own failure.
CleanUp(a) ==
    /\ Advance(a, "cleaning", "closed")
    /\ object' \in {object, [object EXCEPT ![a] = FALSE]}
    /\ UNCHANGED <<row, referenced, ambiguous>>

\* write_artifact returns, and the representation list that names the
\* artifact is stored, unless the commit it was made for fails.
Return(a) ==
    /\ Advance(a, "written", "closed")
    /\ referenced' \in {referenced, [referenced EXCEPT ![a] = TRUE]}
    /\ UNCHANGED <<row, object, ambiguous>>

Crash ==
    /\ phase' = [a \in Ids |-> IF phase[a] = "unborn" THEN "unborn" ELSE "closed"]
    /\ UNCHANGED <<row, object, referenced, ambiguous>>

Init ==
    /\ row = [a \in Ids |-> "absent"]
    /\ object = [a \in Ids |-> FALSE]
    /\ phase = [a \in Ids |-> "unborn"]
    /\ referenced = [a \in Ids |-> FALSE]
    /\ ambiguous = {}

Next ==
    \/ Crash
    \/ \E a \in Ids :
          \/ Create(a) \/ Put(a) \/ PutFails(a) \/ MarkReady(a) \/ MarkFails(a)
          \/ CleanUp(a) \/ Return(a)

Spec == Init /\ [][Next]_vars

-----------------------------------------------------------------------------
\* read_artifact: the row is ready and its object there.
Served(a) == row[a] = "ready" /\ object[a]

\* What a stored representation shows can be read, whatever failed on the way
\* and wherever the process died.
ReferencedIsServed == \A a \in Ids : referenced[a] => Served(a)

\* test_project_repository.py:126: an artifact that is ready has its content,
\* unless the commit that made it ready raised.
ReadyHasContent == \A a \in Ids \ ambiguous : row[a] = "ready" => object[a]
=============================================================================
