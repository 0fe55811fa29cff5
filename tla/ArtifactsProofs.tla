--------------------------- MODULE ArtifactsProofs ---------------------------
(***************************************************************************)
(* Proofs about artifacts, for any number of them: what a representation   *)
(* names can be read, and an artifact that is ready has its content unless *)
(* the commit that made it so raised.                                      *)
(***************************************************************************)
EXTENDS Artifacts, TLAPS

TypeInv ==
    /\ row \in [Ids -> {"absent", "pending", "ready"}]
    /\ object \in [Ids -> BOOLEAN]
    /\ phase \in [Ids -> Phases]
    /\ referenced \in [Ids -> BOOLEAN]

\* How far the write of an artifact is decides what row and store may hold:
\* a row is made ready after the upload, and only a finished write is named.
Staged(a) ==
    /\ phase[a] = "uploaded" => object[a]
    /\ phase[a] = "written" => Served(a)
    /\ referenced[a] => phase[a] = "closed" /\ Served(a)
    /\ phase[a] \in {"unborn", "writing", "uploaded"} => row[a] # "ready"
    /\ a \notin ambiguous /\ row[a] = "ready" => object[a] /\ phase[a] # "cleaning"

IInv == TypeInv /\ \A a \in Ids : Staged(a)

\* The step of one write leaves the other artifacts alone.
Alone(a) ==
    \A b \in Ids \ {a} :
        /\ row'[b] = row[b] /\ object'[b] = object[b]
        /\ phase'[b] = phase[b] /\ referenced'[b] = referenced[b]
        /\ b \in ambiguous' <=> b \in ambiguous

LEMMA AloneStep ==
    ASSUME IInv, NEW a \in Ids, TypeInv', Alone(a), Staged(a)'
    PROVE  IInv'
<1>1. ASSUME NEW b \in Ids \ {a}
      PROVE  Staged(b)'
  BY DEF IInv, Alone, Staged, Served
<1> QED
  BY <1>1 DEF IInv

\* Every step of a write takes one artifact from stage to stage.
LEMMA WriteOK ==
    ASSUME IInv, NEW a \in Ids,
           \/ Create(a) \/ Put(a) \/ PutFails(a) \/ MarkReady(a) \/ MarkFails(a)
           \/ CleanUp(a) \/ Return(a)
    PROVE  IInv'
<1>1. CASE Create(a)
  BY <1>1, AloneStep DEF Create, Advance, IInv, TypeInv, Phases, Alone, Staged, Served
<1>2. CASE Put(a)
  BY <1>2, AloneStep DEF Put, Advance, IInv, TypeInv, Phases, Alone, Staged, Served
<1>3. CASE PutFails(a)
  BY <1>3, AloneStep DEF PutFails, AfterFailedPut, Advance, IInv, TypeInv, Phases, Alone, Staged, Served
<1>4. CASE MarkReady(a)
  BY <1>4, AloneStep DEF MarkReady, Advance, IInv, TypeInv, Phases, Alone, Staged, Served
<1>5. CASE MarkFails(a)
  BY <1>5, AloneStep DEF MarkFails, Advance, IInv, TypeInv, Phases, Alone, Staged, Served
<1>6. CASE CleanUp(a)
  BY <1>6, AloneStep DEF CleanUp, Advance, IInv, TypeInv, Phases, Alone, Staged, Served
<1>7. CASE Return(a)
  BY <1>7, AloneStep DEF Return, Advance, IInv, TypeInv, Phases, Alone, Staged, Served
<1> QED
  BY <1>1, <1>2, <1>3, <1>4, <1>5, <1>6, <1>7

LEMMA Invariance == Spec => []IInv
<1>1. Init => IInv
  BY DEF Init, IInv, TypeInv, Phases, Staged, Served
<1>2. IInv /\ [Next]_vars => IInv'
  <2> SUFFICES ASSUME IInv, [Next]_vars PROVE IInv'
    OBVIOUS
  <2>1. CASE Crash
    BY <2>1 DEF Crash, IInv, TypeInv, Phases, Staged, Served
  <2>2. CASE UNCHANGED vars
    BY <2>2 DEF vars, IInv, TypeInv, Staged, Served
  <2> QED
    BY <2>1, <2>2, WriteOK DEF Next
<1> QED
  BY <1>1, <1>2, PTL DEF Spec

-----------------------------------------------------------------------------
\* What a stored representation names can be read, whatever fails on the way
\* and wherever the process dies.
THEOREM ShownIsServed == Spec => []ReferencedIsServed
<1>1. IInv => ReferencedIsServed
  BY DEF IInv, Staged, ReferencedIsServed
<1> QED
  BY <1>1, Invariance, PTL

\* A row that is ready has its object, unless its commit raised and took
\* effect, which SQLite never does.
THEOREM ReadyIsComplete == Spec => []ReadyHasContent
<1>1. IInv => ReadyHasContent
  BY DEF IInv, Staged, ReadyHasContent
<1> QED
  BY <1>1, Invariance, PTL
=============================================================================
