--------------------------- MODULE WorkspaceProofs ---------------------------
(***************************************************************************)
(* Proofs about the commit protocol, for any number of requests, keys,     *)
(* representations and restarts: every variable keeps its type, and the    *)
(* revisions table and the graph of the project row tell one linear        *)
(* history in which every revision was verified against its parent.        *)
(* Operations may be sent again, undone or raced: a key or a proposal      *)
(* produces one revision at most, an answer stays true, an undo follows    *)
(* the very modification it inverts, and a representation belongs to the   *)
(* revision it was generated for.                                          *)
(***************************************************************************)
EXTENDS WorkspaceProperties, SequenceTheorems, TLAPS

-----------------------------------------------------------------------------
(* The inductive invariant.                                                *)

\* Phases in which a handler will write a project that exists.
Writing == {"generating", "assessing", "reporting", "recovering", "reading",
            "regenerating", "proposing", "analyzing"}

\* Phases in which a handler holds the revisions it will add one to.
Changing == {"committing", "modifying", "applying"}

\* What a handler holds is what its phase needs.
Equipped(q) ==
    /\ q.phase \in {"generating", "assessing"} => \A rep \in Reps : q.reps[rep] # None
    /\ q.phase = "proposing" => q.op \in Keys \cup {None}
    /\ q.phase \in {"committing", "committed", "undone"} =>
          q.kind \in {"commit", "undo"} /\ q.op \in OpIds
    /\ q.phase \in {"committing", "committed"} => q.subject \in Req
    /\ q.phase \in Changing => q.plan \in Proposal /\ q.plan.baseId = LastOf(q.graph)
    /\ q.phase \in {"regenerating", "regenerated", "reporting", "reported"} => q.subject \in Reps
    /\ q.phase \in {"regenerating", "reporting", "reported"} => q.reps[q.subject] # None
    /\ q.phase \in {"queued", "planning"} => q.graph = <<>>

\* The revisions it read are still the first ones of the project.
UpToDate(q, p) ==
    /\ q.phase \in Writing \cup Changing => p # None
    /\ q.phase \in Changing =>
          /\ Len(q.graph) \in 1..Len(p.graph)
          /\ \A n \in 1..Len(q.graph) : q.graph[n] = p.graph[n]

\* A project has a revision; each was verified against the one before.
HistoryInv ==
    /\ LinearHistory
    /\ project # None => Latest >= 1
    /\ AppliedToItsBase

IInv ==
    /\ TypeOK
    /\ HistoryInv
    /\ \A r \in Req : Equipped(req[r]) /\ UpToDate(req[r], project)

-----------------------------------------------------------------------------
(* Steps of a request.                                                     *)

\* The record of a request that was not sent is well formed.
LEMMA UnsentType == Unsent \in Request /\ NoReps \in RepTable
<1>1. NoReps \in RepTable
  BY DEF NoReps, RepTable
<1> QED
  BY <1>1 DEF Unsent, Request, Phases

\* A step of one request leaves the others alone.
LEMMA SuspendStep ==
    ASSUME NEW r \in Req, NEW record \in Request, req \in [Req -> Request], Suspend(r, record)
    PROVE  /\ req' \in [Req -> Request]
           /\ req'[r] = record
           /\ \A s \in Req \ {r} : req'[s] = req[s]
BY DEF Suspend

\* A request that closes holds nothing any more.
LEMMA CloseStep ==
    ASSUME NEW r \in Req, req \in [Req -> Request],
           NEW kind \in RequestKinds \cup {None}, NEW phase \in Closed,
           NEW op \in OpIds \cup {None}, NEW subject \in Req \cup Reps \cup {None},
           NEW answer \in Nat, NEW status \in Verdicts \cup {"building", None},
           Close(r, kind, phase, op, subject, answer, status)
    PROVE  /\ req' \in [Req -> Request]
           /\ req'[r].phase = phase
           /\ Equipped(req'[r])
           /\ UpToDate(req'[r], project')
           /\ \A s \in Req \ {r} : req'[s] = req[s]
<1>1. [Unsent EXCEPT !.kind = kind, !.phase = phase, !.op = op,
                     !.subject = subject, !.answer = answer, !.status = status] \in Request
  BY UnsentType DEF Unsent, Request, Phases
<1>2. /\ req' \in [Req -> Request]
      /\ req'[r].phase = phase
      /\ \A s \in Req \ {r} : req'[s] = req[s]
  BY <1>1, UnsentType DEF Close, Unsent, Request
<1> QED
  BY <1>2 DEF Equipped, UpToDate, Closed, Writing, Changing

-----------------------------------------------------------------------------
(* The history.                                                            *)

\* What a step may do to the project: create it, or keep its revisions.
Grows ==
    project # None =>
        /\ project' # None
        /\ Latest <= Latest'
        /\ \A n \in 1..Latest : project'.graph[n] = project.graph[n]

\* A handler that waits is not disturbed by a step of another.
LEMMA UpToDateStep ==
    ASSUME NEW q \in Request, project \in Project \cup {None}, project' \in Project \cup {None},
           Grows, UpToDate(q, project)
    PROVE  UpToDate(q, project')
BY DEF Grows, UpToDate, Latest, Project, Request

\* What a handler may still add a revision to: nothing, or revisions that are
\* the first of the project.
IsPrefix(r) ==
    \/ req[r].graph = <<>>
    \/ /\ project # None
       /\ Len(req[r].graph) \in 1..Latest
       /\ \A n \in 1..Len(req[r].graph) : req[r].graph[n] = project.graph[n]

\* The next number is free only if those are all the revisions there are.
LEMMA FreeNumber ==
    ASSUME TypeOK, HistoryInv, NEW r \in Req, IsPrefix(r), NumberIsFree(r)
    PROVE  /\ DOMAIN rows = 1..Len(req[r].graph)
           /\ project = None => req[r].graph = <<>>
           /\ project # None => Latest = Len(req[r].graph)
           /\ \A n \in 1..Len(req[r].graph) : req[r].graph[n] = rows[n].id
<1> DEFINE graph == req[r].graph
<1>1. Len(graph) \in Nat
  BY DEF TypeOK, Request
<1>2. CASE project = None
  BY <1>1, <1>2 DEF HistoryInv, LinearHistory, IsPrefix
<1>3. CASE project # None
  <2>1. DOMAIN rows = 1..Latest /\ Latest \in Nat \ {0}
        /\ \A n \in 1..Latest : rows[n].id = project.graph[n]
    BY <1>3 DEF HistoryInv, LinearHistory, TypeOK, ServerTypeOK, Project, Latest
  <2>2. Len(graph) = Latest
    BY <2>1, <1>1, <1>3 DEF IsPrefix, NumberIsFree
  <2> QED
    BY <2>1, <2>2, <1>1, <1>3 DEF IsPrefix
<1> QED
  BY <1>2, <1>3

\* A revision that is stored is the next one after those that were read.
LEMMA SaveStep ==
    ASSUME TypeOK, HistoryInv,
           NEW r \in Req, NEW kind \in RowKinds, NEW regenerate \in SUBSET Reps,
           NEW reps \in RepTable, NEW status \in Verdicts \cup {"building"}, NEW base,
           base = LastOf(req[r].graph), IsPrefix(r),
           SaveCommit(r, kind, base, regenerate, reps, status)
    PROVE  /\ DOMAIN rows' \subseteq Nat /\ rows' \in [DOMAIN rows' -> Row]
           /\ project' \in Project /\ project' # None
           /\ HistoryInv'
           /\ Grows
<1> DEFINE graph == req[r].graph
           number == Len(graph) + 1
           row == [id |-> r, parent |-> LastOf(graph), base |-> base,
                   kind |-> kind, regenerate |-> regenerate]
<1>1. /\ graph \in Seq(Req) /\ Len(graph) \in Nat /\ number \in Nat \ {0}
      /\ Append(graph, r) \in Seq(Req)
      /\ Len(Append(graph, r)) = number
      /\ Append(graph, r)[number] = r
      /\ \A n \in 1..Len(graph) : Append(graph, r)[n] = graph[n]
  BY DEF TypeOK, ServerTypeOK, Request, Ids
<1>2. LastOf(graph) \in Req \cup {None}
  BY <1>1 DEF LastOf
<1>3. row \in Row
  BY <1>2 DEF Row, Ids
<1>4. /\ number \notin DOMAIN rows
      /\ rows' = [n \in DOMAIN rows \cup {number} |-> IF n = number THEN row ELSE rows[n]]
      /\ project' = [graph |-> Append(graph, r), reps |-> reps, status |-> status]
  BY DEF SaveCommit, NumberIsFree
<1>5. /\ DOMAIN rows' = DOMAIN rows \cup {number}
      /\ rows'[number] = row
      /\ \A n \in DOMAIN rows : rows'[n] = rows[n]
  BY <1>4
<1>6. DOMAIN rows' \subseteq Nat /\ rows' \in [DOMAIN rows' -> Row]
  BY <1>1, <1>3, <1>4 DEF TypeOK, ServerTypeOK
<1>7. /\ project' \in Project /\ project' # None
      /\ project'.graph = Append(graph, r)
      /\ Latest' = number
  <2>1. [graph |-> Append(graph, r), reps |-> reps, status |-> status] \in Project
    BY <1>1 DEF Project, Ids
  <2> QED
    BY <2>1, <1>1, <1>4, NoneAssumption DEF Latest
<1>8. /\ DOMAIN rows = 1..Len(graph)
      /\ project = None => graph = <<>>
      /\ project # None => Latest = Len(graph)
      /\ \A n \in 1..Len(graph) : graph[n] = rows[n].id
  BY FreeNumber DEF SaveCommit
<1>9. Grows
  BY <1>1, <1>7, <1>8 DEF Grows, IsPrefix
<1>10. /\ DOMAIN rows' = 1..number
       /\ \A n \in 1..number :
             /\ rows'[n].id = project'.graph[n]
             /\ rows'[n].parent = IF n = 1 THEN None ELSE rows'[n - 1].id
             /\ rows'[n].base = rows'[n].parent
  <2>1. DOMAIN rows' = 1..number
    BY <1>1, <1>5, <1>8
  <2>2. ASSUME NEW n \in 1..Len(graph)
        PROVE  /\ rows'[n].id = project'.graph[n]
               /\ rows'[n].parent = IF n = 1 THEN None ELSE rows'[n - 1].id
               /\ rows'[n].base = rows'[n].parent
    <3>1. rows'[n] = rows[n] /\ (n # 1 => rows'[n - 1] = rows[n - 1])
      BY <1>1, <1>5, <1>8
    <3>2. /\ rows[n].parent = IF n = 1 THEN None ELSE rows[n - 1].id
          /\ rows[n].base = rows[n].parent
      BY <1>1, <1>8 DEF HistoryInv, LinearHistory, AppliedToItsBase
    <3> QED
      BY <3>1, <3>2, <1>1, <1>7, <1>8
  <2>3. /\ rows'[number].id = project'.graph[number]
        /\ rows'[number].parent = IF number = 1 THEN None ELSE rows'[number - 1].id
        /\ rows'[number].base = rows'[number].parent
    <3>1. CASE graph = <<>>
      BY <3>1, <1>1, <1>5, <1>7 DEF LastOf
    <3>2. CASE graph # <<>>
      <4>1. Len(graph) \in 1..Len(graph) /\ number # 1 /\ number - 1 = Len(graph)
        BY <3>2, <1>1
      <4>2. rows'[number - 1].id = graph[Len(graph)]
        BY <4>1, <1>5, <1>8
      <4> QED
        BY <3>2, <4>1, <4>2, <1>1, <1>5, <1>7 DEF LastOf
    <3> QED
      BY <3>1, <3>2
  <2>4. \A n \in 1..number : n = number \/ n \in 1..Len(graph)
    BY <1>1
  <2> QED
    BY <2>1, <2>2, <2>3, <2>4
<1>11. HistoryInv'
  BY <1>1, <1>7, <1>10 DEF HistoryInv, LinearHistory, AppliedToItsBase
<1> QED
  BY <1>6, <1>7, <1>9, <1>11

\* A step that leaves the revisions and the graph alone.
LEMMA QuietStep ==
    ASSUME HistoryInv, rows' = rows,
           \/ project' = project
           \/ project # None /\ project' # None /\ project'.graph = project.graph
    PROVE  HistoryInv' /\ Grows
<1>1. CASE project' = project
  BY <1>1 DEF HistoryInv, LinearHistory, AppliedToItsBase, Grows, Latest
<1>2. CASE project # None /\ project' # None /\ project'.graph = project.graph
  BY <1>2 DEF HistoryInv, LinearHistory, AppliedToItsBase, Grows, Latest
<1> QED
  BY <1>1, <1>2

\* What a step of request r has to show for the invariant.
Preserved(r) ==
    /\ TypeOK'
    /\ HistoryInv'
    /\ Grows
    /\ Equipped(req'[r])
    /\ UpToDate(req'[r], project')
    /\ \A s \in Req \ {r} : req'[s] = req[s]

LEMMA PreservedStep ==
    ASSUME IInv, NEW r \in Req, Preserved(r)
    PROVE  IInv'
<1>1. TypeOK' /\ HistoryInv'
  BY DEF Preserved
<1>2. ASSUME NEW s \in Req
      PROVE  Equipped(req'[s]) /\ UpToDate(req'[s], project')
  <2>1. CASE s = r
    BY <2>1 DEF Preserved
  <2>2. CASE s # r
    <3>1. req'[s] = req[s] /\ req[s] \in Request
      BY <2>2 DEF Preserved, IInv, TypeOK, ServerTypeOK
    <3>2. project \in Project \cup {None} /\ project' \in Project \cup {None}
      BY DEF Preserved, IInv, TypeOK, ServerTypeOK, ServerTypeOK
    <3>3. Equipped(req[s]) /\ UpToDate(req[s], project)
      BY DEF IInv
    <3> QED
      BY <3>1, <3>2, <3>3, UpToDateStep DEF Preserved
  <2> QED
    BY <2>1, <2>2
<1> QED
  BY <1>1, <1>2 DEF IInv

-----------------------------------------------------------------------------
(* The values a step computes.                                             *)

LEMMA RecordType ==
    ASSUME NEW type \in LogTypes, NEW op \in OpIds, NEW subject \in Req \cup Reps,
           NEW revision \in Nat, TypeOK
    PROVE  Record(type, op, subject, revision) \in Seq(LogRow)
<1>1. [type |-> type, op |-> op, subject |-> subject, revision |-> revision] \in LogRow
  BY DEF LogRow
<1> QED
  BY <1>1 DEF Record, TypeOK, ServerTypeOK

LEMMA RecordedType ==
    ASSUME NEW type, NEW op, TypeOK, NEW result \in Recorded(type, op)
    PROVE  result \in Nat
<1>1. PICK i \in Completed(type, op) : result = log[i].revision
  BY DEF Recorded
<1>2. log[i] \in LogRow
  BY <1>1 DEF Completed, TypeOK, ServerTypeOK
<1> QED
  BY <1>1, <1>2 DEF LogRow

LEMMA RecordTypes ==
    ASSUME NEW rec \in RepRecord(Req), NEW revision \in Nat, NEW operation \in Req
    PROVE  /\ \A end \in GenerationEnds :
                 /\ Generated(rec, end) \in RepRecord(Req)
                 /\ Regenerated(rec, revision, operation, end) \in RepRecord(Req)
           /\ \A status \in Statuses : Moved(rec, status) \in RepRecord(Req)
           /\ Interrupted(rec) \in RepRecord(Req)
           /\ Initial(revision, operation) \in RepRecord(Req)
<1>1. ASSUME NEW status \in Statuses
      PROVE  Moved(rec, status) \in RepRecord(Req)
  BY DEF RepRecord, Moved
<1>2. ASSUME NEW end \in GenerationEnds
      PROVE  /\ Generated(rec, end) \in RepRecord(Req)
             /\ Regenerated(rec, revision, operation, end) \in RepRecord(Req)
  BY <1>1 DEF RepRecord, Generated, Regenerated, GenerationEnds, Statuses
<1>3. Interrupted(rec) \in RepRecord(Req)
  BY DEF RepRecord, Interrupted, Statuses
<1>4. Initial(revision, operation) \in RepRecord(Req)
  BY DEF RepRecord, Initial, Statuses
<1> QED
  BY <1>1, <1>2, <1>3, <1>4

LEMMA RegenerateType ==
    ASSUME TypeOK, NEW r \in Req, NEW set, NEW domain, Reps \cap set \subseteq domain,
           NEW outcome \in [domain -> GenerationEnds], NEW revision \in Nat
    PROVE  Regenerate(r, set, outcome, revision) \in RepTable
<1>1. ASSUME NEW rep \in Reps
      PROVE  Regenerate(r, set, outcome, revision)[rep] \in RepRecord(Req) \cup {None}
  <2>1. req[r].reps[rep] \in RepRecord(Req) \cup {None}
    BY DEF TypeOK, ServerTypeOK, Request, RepTable
  <2>2. CASE rep \in set /\ req[r].reps[rep] # None
    <3>1. outcome[rep] \in GenerationEnds
      BY <2>2
    <3> QED
      BY <2>1, <2>2, <3>1, RecordTypes DEF Regenerate
  <2>3. CASE ~(rep \in set /\ req[r].reps[rep] # None)
    BY <2>1, <2>3 DEF Regenerate
  <2> QED
    BY <2>2, <2>3
<1> QED
  BY <1>1 DEF Regenerate, RepTable

\* A request that starts to wait holds the project as it is.
LEMMA ReadingType ==
    ASSUME TypeOK, project # None,
           NEW kind \in RequestKinds, NEW phase \in Phases, NEW op \in OpIds \cup {None},
           NEW subject \in Req \cup Reps \cup {None}, NEW plan \in Proposal \cup {None}
    PROVE  /\ Reading(kind, phase, op, subject, plan) \in Request
           /\ Reading(kind, phase, op, subject, plan).kind = kind
           /\ Reading(kind, phase, op, subject, plan).phase = phase
           /\ Reading(kind, phase, op, subject, plan).op = op
           /\ Reading(kind, phase, op, subject, plan).subject = subject
           /\ Reading(kind, phase, op, subject, plan).plan = plan
           /\ Reading(kind, phase, op, subject, plan).graph = project.graph
           /\ Reading(kind, phase, op, subject, plan).reps = project.reps
<1>1. project.graph \in Seq(Ids) /\ project.reps \in RepTable
  BY DEF TypeOK, ServerTypeOK, Project
<1>2. Unsent \in Request
  BY UnsentType
<1> QED
  BY <1>1, <1>2 DEF Reading, Unsent, Request

\* A request that stored its change and keeps the loop.
LEMMA StoresStep ==
    ASSUME TypeOK, NEW r \in Req, NEW phase \in Stored, NEW answer \in Nat,
           Stores(r, phase, answer)
    PROVE  /\ req' \in [Req -> Request]
           /\ loop' = r
           /\ req'[r].kind = req[r].kind
           /\ req'[r].phase = phase
           /\ req'[r].op = req[r].op
           /\ req'[r].subject = req[r].subject
           /\ req'[r].answer = answer
           /\ \A s \in Req \ {r} : req'[s] = req[s]
<1> DEFINE record == [Unsent EXCEPT !.kind = req[r].kind, !.phase = phase, !.op = req[r].op,
                                    !.subject = req[r].subject, !.answer = answer]
<1>1. req[r] \in Request /\ req \in [Req -> Request]
  BY DEF TypeOK, ServerTypeOK
<1>2. /\ record \in Request
      /\ record.kind = req[r].kind /\ record.phase = phase /\ record.op = req[r].op
      /\ record.subject = req[r].subject /\ record.answer = answer
  <2>1. /\ req[r].kind \in RequestKinds \cup {None} /\ req[r].op \in OpIds \cup {None}
        /\ req[r].subject \in Req \cup Reps \cup {None}
    BY <1>1 DEF Request
  <2>2. phase \in Phases
    BY DEF Phases
  <2> QED
    BY <2>1, <2>2, UnsentType DEF Unsent, Request
<1>3. req' = [req EXCEPT ![r] = record] /\ loop' = r
  BY DEF Stores, Suspend
<1> HIDE DEF record
<1> QED
  BY <1>1, <1>2, <1>3

-----------------------------------------------------------------------------
(* How a step ends.                                                        *)

\* Nothing but the request changes.
LEMMA QuietServer ==
    ASSUME IInv, UNCHANGED <<durable, memory, loop>>
    PROVE  ServerTypeOK' /\ HistoryInv' /\ Grows
<1>1. HistoryInv' /\ Grows
  BY QuietStep DEF durable, IInv
<1> QED
  BY <1>1 DEF IInv, TypeOK, ServerTypeOK, durable, memory

LEMMA ClosePreserves ==
    ASSUME IInv, NEW r \in Req, ServerTypeOK', HistoryInv', Grows,
           NEW kind \in RequestKinds \cup {None}, NEW phase \in Closed,
           NEW op \in OpIds \cup {None}, NEW subject \in Req \cup Reps \cup {None},
           NEW answer \in Nat, NEW status \in Verdicts \cup {"building", None},
           Close(r, kind, phase, op, subject, answer, status)
    PROVE  Preserved(r)
<1>1. req \in [Req -> Request]
  BY DEF IInv, TypeOK
<1> QED
  BY <1>1, CloseStep DEF Preserved, TypeOK

LEMMA FinishPreserves ==
    ASSUME IInv, NEW r \in Req, ServerTypeOK', HistoryInv', Grows,
           NEW answer \in Nat, NEW status \in Verdicts \cup {"building", None},
           Finish(r, answer, status)
    PROVE  Preserved(r)
<1>1. req[r] \in Request
  BY DEF IInv, TypeOK
<1>2. /\ req[r].kind \in RequestKinds \cup {None} /\ req[r].op \in OpIds \cup {None}
      /\ req[r].subject \in Req \cup Reps \cup {None}
  BY <1>1 DEF Request
<1>3. Close(r, req[r].kind, "answered", req[r].op, req[r].subject, answer, status)
  BY DEF Finish
<1> QED
  BY <1>2, <1>3, ClosePreserves DEF Closed

LEMMA RefusePreserves ==
    ASSUME IInv, NEW r \in Req, ServerTypeOK', HistoryInv', Grows,
           NEW kind \in RequestKinds, NEW op \in OpIds \cup {None}, Refuse(r, kind, op)
    PROVE  Preserved(r)
BY ClosePreserves DEF Refuse, Closed

LEMMA SuspendPreserves ==
    ASSUME IInv, NEW r \in Req, ServerTypeOK', HistoryInv', Grows,
           NEW record \in Request, Suspend(r, record),
           Equipped(record), UpToDate(record, project')
    PROVE  Preserved(r)
<1>1. req \in [Req -> Request]
  BY DEF IInv, TypeOK
<1> QED
  BY <1>1, SuspendStep DEF Preserved, TypeOK

\* A handler that reads the project and waits with it.
LEMMA ReadingPreserves ==
    ASSUME IInv, NEW r \in Req, ServerTypeOK', HistoryInv', Grows,
           project # None, project' = project,
           NEW kind \in RequestKinds, NEW phase \in Awaiting \cup InThread,
           NEW op \in OpIds \cup {None}, NEW subject \in Req \cup Reps \cup {None},
           NEW plan \in Proposal \cup {None},
           phase \notin {"generating", "planning", "queued"},
           phase = "proposing" => op \in Keys \cup {None},
           phase = "committing" => kind \in {"commit", "undo"} /\ op \in OpIds /\ subject \in Req,
           phase \in Changing => plan \in Proposal /\ plan.baseId = LastOf(project.graph),
           phase = "regenerating" => subject \in Reps /\ project.reps[subject] # None,
           Suspend(r, Reading(kind, phase, op, subject, plan))
    PROVE  Preserved(r)
<1> DEFINE record == Reading(kind, phase, op, subject, plan)
<1>1. phase \in Phases
  BY DEF Phases
<1>2. TypeOK
  BY DEF IInv
<1>3. /\ record \in Request /\ record.kind = kind /\ record.phase = phase
      /\ record.op = op /\ record.subject = subject /\ record.plan = plan
      /\ record.graph = project.graph /\ record.reps = project.reps
  BY <1>1, <1>2, ReadingType
<1> HIDE DEF record
<1>4. Equipped(record)
  BY <1>3 DEF Equipped, Awaiting, InThread
<1>5. UpToDate(record, project')
  <2>1. Len(project.graph) \in Nat /\ Len(project.graph) >= 1
    BY DEF IInv, TypeOK, ServerTypeOK, Project, HistoryInv, Latest
  <2> QED
    BY <1>3, <2>1 DEF UpToDate
<1>6. Suspend(r, record)
  BY DEF record
<1> QED
  BY <1>3, <1>4, <1>5, <1>6, SuspendPreserves

LEMMA StoresPreserves ==
    ASSUME IInv, NEW r \in Req, ServerTypeOK', HistoryInv', Grows,
           NEW phase \in Stored \ {"assessing"}, NEW answer \in Nat, Stores(r, phase, answer),
           phase \in {"committed", "undone"} => req[r].kind \in {"commit", "undo"} /\ req[r].op \in OpIds,
           phase = "committed" => req[r].subject \in Req,
           phase = "regenerated" => req[r].subject \in Reps
    PROVE  Preserved(r)
<1>1. TypeOK
  BY DEF IInv
<1>2. /\ req' \in [Req -> Request] /\ req'[r].phase = phase
      /\ req'[r].kind = req[r].kind /\ req'[r].op = req[r].op
      /\ req'[r].subject = req[r].subject
      /\ \A s \in Req \ {r} : req'[s] = req[s]
  BY <1>1, StoresStep
<1>3. Equipped(req'[r])
  BY <1>2 DEF Equipped, Stored, Changing
<1>4. UpToDate(req'[r], project')
  BY <1>2 DEF UpToDate, Stored, Changing, Writing
<1> QED
  BY <1>2, <1>3, <1>4 DEF Preserved, TypeOK

\* A transaction that stores the representations of the project, or its status.
LEMMA ProjectStep ==
    ASSUME IInv, project # None, rows' = rows,
           \/ \E reps \in RepTable : project' = [project EXCEPT !.reps = reps]
           \/ \E status \in Verdicts : project' = [project EXCEPT !.status = status]
    PROVE  project' \in Project /\ project' # None /\ HistoryInv' /\ Grows
<1>1. project \in Project
  BY DEF IInv, TypeOK, ServerTypeOK
<1>2. /\ \A reps \in RepTable : [project EXCEPT !.reps = reps] \in Project
      /\ \A status \in Verdicts : [project EXCEPT !.status = status] \in Project
  BY <1>1 DEF Project
<1>3. project' \in Project /\ project'.graph = project.graph
  BY <1>1, <1>2 DEF Project
<1>4. project' # None
  BY <1>3, NoneAssumption
<1> QED
  BY <1>3, <1>4, QuietStep DEF IInv

\* A transaction that adds a revision to those a handler read.
LEMMA ChangeStep ==
    ASSUME IInv, NEW r \in Req, req[r].phase \in Changing,
           NEW kind \in RowKinds, NEW regenerate \in SUBSET Reps,
           NEW reps \in RepTable, NEW status \in Verdicts,
           SaveCommit(r, kind, req[r].plan.baseId, regenerate, reps, status)
    PROVE  /\ DOMAIN rows' \subseteq Nat /\ rows' \in [DOMAIN rows' -> Row]
           /\ project' \in Project /\ HistoryInv' /\ Grows
<1>1. req[r].plan.baseId = LastOf(req[r].graph)
  BY DEF IInv, Equipped
<1>2. IsPrefix(r)
  BY DEF IInv, UpToDate, Latest, IsPrefix
<1> QED
  BY <1>1, <1>2, SaveStep DEF IInv

\* What a waiting handler read makes a proposal.
LEMMA PlanType ==
    ASSUME IInv, NEW r \in Req
    PROVE  /\ Len(req[r].graph) \in Nat
           /\ LastOf(req[r].graph) \in Ids \cup {None}
<1>1. req[r].graph \in Seq(Ids)
  BY DEF IInv, TypeOK, Request
<1> QED
  BY <1>1 DEF LastOf

\* So does the project as it is.
LEMMA LatestType ==
    ASSUME IInv, project # None
    PROVE  /\ Latest \in Nat /\ Latest \in DOMAIN rows /\ rows[Latest] \in Row
           /\ LastOf(project.graph) \in Ids \cup {None}
<1>1. project.graph \in Seq(Ids)
  BY DEF IInv, TypeOK, ServerTypeOK, Project
<1>2. Latest \in DOMAIN rows /\ Latest \in Nat
  BY <1>1 DEF IInv, HistoryInv, LinearHistory, Latest
<1> QED
  BY <1>1, <1>2 DEF IInv, TypeOK, ServerTypeOK, LastOf

-----------------------------------------------------------------------------
(* Creation.                                                               *)

LEMMA CreateBeginOK ==
    ASSUME IInv, NEW r \in Req, CreateBegin(r)
    PROVE  Preserved(r)
<1> DEFINE record == [Unsent EXCEPT !.kind = "create", !.phase = "queued"]
<1>1. ServerTypeOK' /\ HistoryInv' /\ Grows
  BY QuietServer DEF CreateBegin
<1>2. record \in Request /\ record.phase = "queued" /\ record.graph = <<>>
  BY UnsentType DEF Unsent, Request, RequestKinds, Phases, InThread
<1>3. Suspend(r, record)
  BY DEF CreateBegin
<1> HIDE DEF record
<1> QED
  BY <1>1, <1>2, <1>3, SuspendPreserves DEF Equipped, UpToDate, Writing, Changing

LEMMA CreateLockOK ==
    ASSUME IInv, NEW r \in Req, CreateLock(r)
    PROVE  Preserved(r)
<1>1. HistoryInv' /\ Grows
  BY QuietStep DEF CreateLock, durable, IInv
<1>2. ServerTypeOK'
  BY DEF CreateLock, durable, IInv, TypeOK, ServerTypeOK
<1>3. CASE Exists
  <2>1. Latest \in Nat /\ project.status \in Verdicts \cup {"building"}
    BY <1>3 DEF Exists, IInv, TypeOK, ServerTypeOK, Project, Latest
  <2> QED
    BY <1>1, <1>2, <1>3, <2>1, FinishPreserves DEF CreateLock
<1>4. CASE ~Exists
  <2>1. req' = [req EXCEPT ![r].phase = "planning"] /\ req[r].phase = "queued"
    BY <1>4 DEF CreateLock
  <2>2. req[r] \in Request /\ req \in [Req -> Request]
    BY DEF IInv, TypeOK
  <2>3. req' \in [Req -> Request] /\ \A s \in Req \ {r} : req'[s] = req[s]
    BY <2>1, <2>2 DEF Request, Phases, Awaiting
  <2>4. req'[r].phase = "planning" /\ req'[r].graph = req[r].graph
    BY <2>1, <2>2 DEF Request
  <2>5. req[r].graph = <<>>
    BY <2>1 DEF IInv, Equipped
  <2> QED
    BY <1>1, <1>2, <2>3, <2>4, <2>5 DEF Preserved, TypeOK, Equipped, UpToDate, Writing, Changing
<1> QED
  BY <1>3, <1>4

LEMMA CreateStoreOK ==
    ASSUME IInv, NEW r \in Req, CreateStore(r)
    PROVE  Preserved(r)
<1> DEFINE reps == [rep \in Reps |-> Initial(1, r)]
<1>1. reps \in RepTable /\ \A rep \in Reps : reps[rep] # None
  <2>1. Initial(1, r) \in RepRecord(Req)
    BY DEF Initial, RepRecord, Statuses
  <2> QED
    BY <2>1, NoneAssumption DEF RepTable
<1>2. /\ req[r].phase = "planning" /\ req[r] \in Request /\ req \in [Req -> Request]
      /\ req[r].graph = <<>> /\ LastOf(req[r].graph) = None
  BY DEF CreateStore, IInv, TypeOK, Equipped, LastOf
<1>3. SaveCommit(r, "create", None, {}, reps, "building")
  BY DEF CreateStore
<1> HIDE DEF reps
<1>4. /\ DOMAIN rows' \subseteq Nat /\ rows' \in [DOMAIN rows' -> Row]
      /\ project' \in Project /\ project' # None
      /\ HistoryInv' /\ Grows
  BY <1>1, <1>2, <1>3, SaveStep DEF IInv, RowKinds, IsPrefix
<1>5. ServerTypeOK'
  BY <1>4 DEF CreateStore, memory, IInv, TypeOK, ServerTypeOK
<1> DEFINE record == [Unsent EXCEPT !.kind = "create", !.phase = "generating", !.graph = <<r>>,
                                    !.reps = reps]
<1>6. Suspend(r, record)
  BY DEF CreateStore, reps
<1>7. record \in Request /\ record.phase = "generating" /\ record.reps = reps
  <2>1. <<r>> \in Seq(Ids)
    BY DEF Ids
  <2>2. "create" \in RequestKinds /\ "generating" \in Phases
    BY DEF RequestKinds, Phases, Awaiting
  <2> QED
    BY <1>1, <2>1, <2>2, UnsentType DEF Unsent, Request
<1> HIDE DEF record
<1>8. Equipped(record) /\ UpToDate(record, project')
  BY <1>1, <1>4, <1>7 DEF Equipped, UpToDate, Changing
<1> QED
  BY <1>4, <1>5, <1>6, <1>7, <1>8, SuspendPreserves

LEMMA CreateIncompleteOK ==
    ASSUME IInv, NEW r \in Req, CreateIncomplete(r)
    PROVE  Preserved(r)
<1>1. req[r].graph = <<>> /\ LastOf(req[r].graph) = None
  BY DEF CreateIncomplete, IInv, Equipped, LastOf
<1>2. SaveCommit(r, "create", None, {}, NoReps, "build_incomplete") /\ NoReps \in RepTable
  BY UnsentType DEF CreateIncomplete
<1>3. "build_incomplete" \in Verdicts
  BY ConstantsAssumption
<1>4. /\ DOMAIN rows' \subseteq Nat /\ rows' \in [DOMAIN rows' -> Row]
      /\ project' \in Project /\ HistoryInv' /\ Grows
  BY <1>1, <1>2, <1>3, SaveStep DEF IInv, RowKinds, IsPrefix
<1>5. ServerTypeOK'
  BY <1>4 DEF CreateIncomplete, IInv, TypeOK, ServerTypeOK
<1> QED
  BY <1>3, <1>4, <1>5, FinishPreserves DEF CreateIncomplete

LEMMA CreateRepsOK ==
    ASSUME IInv, NEW r \in Req, CreateReps(r)
    PROVE  Preserved(r)
<1> DEFINE list(end) == [rep \in Reps |->
                Generated(req[r].reps[rep], IF rep = Circuit THEN end ELSE "ready")]
<1>1. PICK end \in GenerationEnds :
        /\ project' = [project EXCEPT !.reps = list(end)]
        /\ req' = [req EXCEPT ![r].phase = "assessing", ![r].reps = list(end)]
  BY DEF CreateReps
<1>2. /\ req[r].phase = "generating" /\ req[r] \in Request /\ req \in [Req -> Request]
      /\ project # None /\ project \in Project
      /\ \A rep \in Reps : req[r].reps[rep] # None
  BY DEF CreateReps, IInv, TypeOK, ServerTypeOK, Equipped, UpToDate, Writing
<1>3. ASSUME NEW rep \in Reps
      PROVE  /\ list(end)[rep] \in RepRecord(Req)
             /\ list(end)[rep] # None
  <2>1. req[r].reps[rep] \in RepRecord(Req)
    BY <1>2 DEF Request, RepTable
  <2>2. (IF rep = Circuit THEN end ELSE "ready") \in GenerationEnds
    BY DEF GenerationEnds
  <2> QED
    BY <2>1, <2>2, RecordTypes, NoneAssumption
<1>4. list(end) \in RepTable
  BY <1>3 DEF RepTable
<1> HIDE DEF list
<1>5. project' \in Project /\ project' # None /\ project'.graph = project.graph
  <2>1. [project EXCEPT !.reps = list(end)] \in Project
    BY <1>2, <1>4 DEF Project
  <2> QED
    BY <2>1, <1>1, <1>2, NoneAssumption DEF Project
<1>6. HistoryInv' /\ Grows
  BY <1>2, <1>5, QuietStep DEF CreateReps, IInv
<1>7. ServerTypeOK'
  BY <1>5 DEF CreateReps, memory, IInv, TypeOK, ServerTypeOK
<1>8. req' \in [Req -> Request] /\ \A s \in Req \ {r} : req'[s] = req[s]
  BY <1>1, <1>2, <1>4 DEF Request, Phases, Stored
<1>9. req'[r].phase = "assessing" /\ req'[r].reps = list(end)
  BY <1>1, <1>2 DEF Request
<1> QED
  BY <1>3, <1>5, <1>6, <1>7, <1>8, <1>9 DEF Preserved, TypeOK, Equipped, UpToDate, Changing

LEMMA CreateStatusOK ==
    ASSUME IInv, NEW r \in Req, CreateStatus(r)
    PROVE  Preserved(r)
<1>1. PICK status \in Verdicts :
        project' = [project EXCEPT !.status = status] /\ Finish(r, 1, status)
  BY DEF CreateStatus
<1>2. project # None /\ project \in Project
  BY DEF CreateStatus, IInv, TypeOK, ServerTypeOK, UpToDate, Writing
<1>3. [project EXCEPT !.status = status] \in Project
  BY <1>2 DEF Project
<1>4. project' \in Project /\ project' # None /\ project'.graph = project.graph
  BY <1>1, <1>2, <1>3, NoneAssumption DEF Project
<1>5. HistoryInv' /\ Grows
  BY <1>2, <1>4, QuietStep DEF CreateStatus, IInv
<1>6. ServerTypeOK'
  BY <1>4 DEF CreateStatus, IInv, TypeOK, ServerTypeOK
<1> QED
  BY <1>1, <1>5, <1>6, FinishPreserves

-----------------------------------------------------------------------------
(* Proposals.                                                              *)

LEMMA ProposeBeginOK ==
    ASSUME IInv, NEW r \in Req, NEW key \in MaybeKey, ProposeBegin(r, key)
    PROVE  Preserved(r)
<1>1. /\ ServerTypeOK' /\ HistoryInv' /\ Grows
      /\ project # None /\ project' = project /\ key \in OpIds \cup {None}
  BY QuietServer DEF ProposeBegin, Exists, durable, MaybeKey, OpIds
<1>2. CASE key # None /\ operations[key] # None
  <2>1. operations[key] \in Req
    BY <1>2 DEF MaybeKey, IInv, TypeOK, ServerTypeOK
  <2>2. Close(r, "propose", "answered", None, operations[key], 0, None)
    BY <1>2 DEF ProposeBegin
  <2> QED
    BY <1>1, <2>1, <2>2, ClosePreserves DEF RequestKinds, Closed
<1>3. CASE ~(key # None /\ operations[key] # None)
  <2>1. Suspend(r, Reading("propose", "proposing", key, None, None))
    BY <1>3 DEF ProposeBegin
  <2>2. "propose" \in RequestKinds /\ "proposing" \in Awaiting /\ key \in Keys \cup {None}
    BY DEF RequestKinds, Awaiting, MaybeKey
  <2> QED
    BY <1>1, <2>1, <2>2, ReadingPreserves DEF Changing
<1> QED
  BY <1>2, <1>3

LEMMA ProposeFinishOK ==
    ASSUME IInv, NEW r \in Req, ProposeFinish(r)
    PROVE  Preserved(r)
<1>1. HistoryInv' /\ Grows
  BY QuietStep DEF ProposeFinish, durable, IInv
<1>2. PICK set \in RegenerateSets :
        proposals' = [proposals EXCEPT ![r] =
            [base |-> Len(req[r].graph), baseId |-> LastOf(req[r].graph),
             mode |-> "edit", regenerate |-> set]]
  BY DEF ProposeFinish
<1>3. [base |-> Len(req[r].graph), baseId |-> LastOf(req[r].graph),
       mode |-> "edit", regenerate |-> set] \in Proposal
  BY PlanType, ConstantsAssumption DEF Proposal
<1>4. proposals' \in [Req -> Proposal \cup {None}]
  BY <1>2, <1>3 DEF IInv, TypeOK, ServerTypeOK
<1>5. operations' \in [Keys -> Req \cup {None}]
  <2>1. req[r].op \in Keys \cup {None}
    BY DEF ProposeFinish, IInv, Equipped
  <2> QED
    BY <2>1 DEF ProposeFinish, IInv, TypeOK, ServerTypeOK
<1>6. ServerTypeOK'
  BY <1>4, <1>5 DEF ProposeFinish, durable, IInv, TypeOK, ServerTypeOK
<1> QED
  BY <1>1, <1>6, ClosePreserves DEF ProposeFinish, RequestKinds, Closed

LEMMA CancelOK ==
    ASSUME IInv, NEW r \in Req, NEW p \in Req, Cancel(r, p)
    PROVE  Preserved(r)
<1>1. HistoryInv' /\ Grows
  BY QuietStep DEF Cancel, IInv
<1>2. CASE proposals[p] = None
  <2>1. ServerTypeOK'
    BY <1>2 DEF Cancel, IInv, TypeOK, ServerTypeOK
  <2> QED
    BY <1>1, <1>2, <2>1, RefusePreserves DEF Cancel, RequestKinds
<1>3. CASE proposals[p] # None
  <2>1. proposals[p].base \in Nat
    BY <1>3 DEF IInv, TypeOK, ServerTypeOK, Proposal
  <2>2. log' \in Seq(LogRow)
    BY <1>3, <2>1, RecordType DEF Cancel, LogTypes, OpIds, IInv
  <2>3. ServerTypeOK'
    BY <1>3, <2>2 DEF Cancel, IInv, TypeOK, ServerTypeOK
  <2> QED
    BY <1>1, <1>3, <2>3, ClosePreserves DEF Cancel, RequestKinds, Closed
<1> QED
  BY <1>2, <1>3

-----------------------------------------------------------------------------
(* Commits and undos.                                                      *)

LEMMA CommitBeginsOK ==
    ASSUME IInv, NEW r \in Req, ServerTypeOK', HistoryInv', Grows,
           project # None, project' = project,
           NEW kind \in {"commit", "undo"}, NEW op \in OpIds, NEW p \in Req,
           NEW plan \in Proposal \cup {None},
           CommitBegins(r, kind, op, p, plan) \/ CommitRefused(r, kind, op, plan)
    PROVE  Preserved(r)
<1>1. kind \in RequestKinds
  BY DEF RequestKinds
<1>2. CASE CommitBegins(r, kind, op, p, plan)
  <2>1. plan \in Proposal /\ plan.baseId = LastOf(project.graph)
    BY <1>2 DEF CommitBegins, Applies
  <2>2. Suspend(r, Reading(kind, "committing", op, p, plan))
    BY <1>2 DEF CommitBegins
  <2>3. "committing" \in Awaiting
    BY DEF Awaiting
  <2> QED
    BY <1>1, <2>1, <2>2, <2>3, ReadingPreserves
<1>3. CASE CommitRefused(r, kind, op, plan)
  BY <1>1, <1>3, RefusePreserves DEF CommitRefused
<1> QED
  BY <1>2, <1>3

LEMMA CommitBeginOK ==
    ASSUME IInv, NEW r \in Req, NEW p \in Req, NEW key \in MaybeKey, CommitBegin(r, p, key)
    PROVE  Preserved(r)
<1> DEFINE op == IF key = None THEN p ELSE key
<1>1. op \in OpIds
  BY DEF OpIds, MaybeKey
<1>2. project # None /\ project' = project /\ HistoryInv' /\ Grows
  BY QuietStep DEF CommitBegin, Exists, durable, IInv
<1>3. proposals[p] \in Proposal \cup {None}
  BY DEF IInv, TypeOK, ServerTypeOK
<1>4. ServerTypeOK'
  BY DEF CommitBegin, CommitBegins, CommitRefused, durable, IInv, TypeOK, ServerTypeOK
<1>5. CASE CommitBegins(r, "commit", op, p, proposals[p]) \/ CommitRefused(r, "commit", op, proposals[p])
  BY <1>1, <1>2, <1>3, <1>4, <1>5, CommitBeginsOK
<1>6. ASSUME NEW result \in Recorded("modification.operation_completed", op),
             Close(r, "commit", "answered", op, p, result, None)
      PROVE  Preserved(r)
  <2>1. result \in Nat
    BY RecordedType DEF IInv
  <2> QED
    BY <1>1, <1>2, <1>4, <1>6, <2>1, ClosePreserves DEF RequestKinds, Closed
<1> QED
  BY <1>5, <1>6 DEF CommitBegin

LEMMA CommitSaveOK ==
    ASSUME IInv, NEW r \in Req, CommitSave(r)
    PROVE  Preserved(r)
<1> DEFINE plan == req[r].plan
           number == Len(req[r].graph) + 1
           kind == IF plan.mode = "undo" THEN "undo" ELSE "modification"
<1>1. /\ req[r].phase = "committing" /\ plan \in Proposal
      /\ req[r].kind \in {"commit", "undo"} /\ req[r].op \in OpIds /\ req[r].subject \in Req
  BY DEF CommitSave, IInv, Equipped, Changing
<1>2. number \in Nat /\ plan.regenerate \in SUBSET Reps /\ kind \in RowKinds
  BY <1>1, PlanType DEF Proposal, RowKinds
<1>3. PICK outcome \in Outcomes, status \in Verdicts :
        SaveCommit(r, kind, plan.baseId, plan.regenerate,
                   Regenerate(r, plan.regenerate, outcome, number), status)
  BY DEF CommitSave
<1>4. Regenerate(r, plan.regenerate, outcome, number) \in RepTable
  BY <1>2, RegenerateType DEF Outcomes, IInv
<1>5. /\ DOMAIN rows' \subseteq Nat /\ rows' \in [DOMAIN rows' -> Row]
      /\ project' \in Project /\ HistoryInv' /\ Grows
  BY <1>1, <1>2, <1>3, <1>4, ChangeStep DEF Changing
<1>6. log' \in Seq(LogRow)
  BY <1>1, <1>2, RecordType DEF CommitSave, LogTypes, IInv
<1>7. Stores(r, "committed", number) /\ UNCHANGED memory
  BY DEF CommitSave
<1>8. ServerTypeOK'
  BY <1>5, <1>6, <1>7 DEF Stores, memory, IInv, TypeOK, ServerTypeOK
<1> QED
  BY <1>1, <1>2, <1>5, <1>7, <1>8, StoresPreserves DEF Stored

LEMMA CommitFinishOK ==
    ASSUME IInv, NEW r \in Req, CommitFinish(r)
    PROVE  Preserved(r)
<1>1. /\ req[r].phase = "committed" /\ req[r].subject \in Req
      /\ req[r].kind \in {"commit", "undo"} /\ req[r].op \in OpIds /\ req[r].answer \in Nat
  BY DEF CommitFinish, IInv, Equipped, TypeOK, Request
<1>2. HistoryInv' /\ Grows
  BY QuietStep DEF CommitFinish, durable, IInv
<1>3. loop' \in Req \cup {None}
  BY DEF CommitFinish, Stores
<1>4. ServerTypeOK'
  BY <1>1, <1>3 DEF CommitFinish, durable, IInv, TypeOK, ServerTypeOK
<1>5. CASE Finish(r, req[r].answer, None)
  BY <1>1, <1>2, <1>4, <1>5, FinishPreserves
<1>6. CASE Stores(r, "undone", req[r].answer)
  BY <1>1, <1>2, <1>4, <1>6, StoresPreserves DEF Stored
<1> QED
  BY <1>5, <1>6 DEF CommitFinish

LEMMA UndoBeginOK ==
    ASSUME IInv, NEW r \in Req, NEW key \in MaybeKey, UndoBegin(r, key)
    PROVE  Preserved(r)
<1> DEFINE op == IF key = None THEN UndoKey(Latest) ELSE key
<1>1. project # None /\ project' = project /\ HistoryInv' /\ Grows
  BY QuietStep DEF UndoBegin, Exists, IInv
<1>2. op \in OpIds /\ UndoPlan \in Proposal
  BY <1>1, LatestType DEF OpIds, UndoKey, MaybeKey, UndoPlan, Proposal, Row
<1>3. proposals' \in [Req -> Proposal \cup {None}] /\ lock' \in Req \cup {None}
  BY <1>2 DEF UndoBegin, CommitBegins, CommitRefused, IInv, TypeOK, ServerTypeOK
<1>4. ASSUME NEW type, NEW result \in Recorded(type, op)
      PROVE  result \in Nat
  BY RecordedType DEF IInv
<1>5. log' \in Seq(LogRow)
  <2>1. ASSUME NEW result \in Recorded("modification.operation_completed", op)
        PROVE  Record("undo.operation_completed", op, r, result) \in Seq(LogRow)
    BY <1>2, <1>4, RecordType DEF LogTypes, IInv
  <2> QED
    BY <2>1 DEF UndoBegin, IInv, TypeOK, ServerTypeOK
<1>6. ServerTypeOK'
  BY <1>3, <1>5 DEF UndoBegin, IInv, TypeOK, ServerTypeOK
<1>7. CASE CommitBegins(r, "undo", op, r, UndoPlan) \/ CommitRefused(r, "undo", op, UndoPlan)
  BY <1>1, <1>2, <1>6, <1>7, CommitBeginsOK
<1>8. CASE Refuse(r, "undo", op)
  BY <1>1, <1>2, <1>6, <1>8, RefusePreserves DEF RequestKinds
<1>9. ASSUME NEW type, NEW subject \in {None, r}, NEW result \in Recorded(type, op),
             Close(r, "undo", "answered", op, subject, result, None)
      PROVE  Preserved(r)
  BY <1>1, <1>2, <1>4, <1>6, <1>9, ClosePreserves DEF RequestKinds, Closed
<1> QED
  BY <1>7, <1>8, <1>9 DEF UndoBegin

LEMMA UndoRecordOK ==
    ASSUME IInv, NEW r \in Req, UndoRecord(r)
    PROVE  Preserved(r)
<1>1. req[r].op \in OpIds /\ req[r].answer \in Nat
  BY DEF UndoRecord, IInv, Equipped, TypeOK, Request
<1>2. HistoryInv' /\ Grows
  BY QuietStep DEF UndoRecord, IInv
<1>3. log' \in Seq(LogRow)
  BY <1>1, RecordType DEF UndoRecord, LogTypes, IInv
<1>4. ServerTypeOK'
  BY <1>3 DEF UndoRecord, memory, IInv, TypeOK, ServerTypeOK
<1> QED
  BY <1>1, <1>2, <1>4, FinishPreserves DEF UndoRecord

-----------------------------------------------------------------------------
(* The direct modification, and scenarios.                                 *)

LEMMA ModifyBeginOK ==
    ASSUME IInv, NEW r \in Req, ModifyBegin(r)
    PROVE  Preserved(r)
<1> DEFINE plan == [base |-> Latest, baseId |-> LastOf(project.graph), mode |-> "edit",
                    regenerate |-> {Circuit}]
<1>1. ServerTypeOK' /\ HistoryInv' /\ Grows /\ project # None /\ project' = project
  BY QuietServer DEF ModifyBegin, Exists, durable
<1>2. plan \in Proposal /\ plan.baseId = LastOf(project.graph)
  BY <1>1, LatestType, ConstantsAssumption DEF Proposal
<1>3. CASE Refuse(r, "modify", None)
  BY <1>1, <1>3, RefusePreserves DEF RequestKinds
<1>4. CASE Suspend(r, Reading("modify", "modifying", None, None, plan))
  <2>1. "modify" \in RequestKinds /\ "modifying" \in Awaiting
    BY DEF RequestKinds, Awaiting
  <2> HIDE DEF plan
  <2> QED
    BY <1>1, <1>2, <1>4, <2>1, ReadingPreserves
<1> QED
  BY <1>3, <1>4 DEF ModifyBegin

LEMMA ModifySaveOK ==
    ASSUME IInv, NEW r \in Req, ModifySave(r)
    PROVE  Preserved(r)
<1> DEFINE number == Len(req[r].graph) + 1
<1>1. req[r].phase \in Changing /\ number \in Nat /\ {} \in SUBSET Reps
  BY PlanType DEF ModifySave, Changing
<1>2. PICK outcome \in [{Circuit} -> GenerationEnds] :
        SaveCommit(r, "direct", req[r].plan.baseId, {},
                   Regenerate(r, {Circuit}, outcome, number), "ready")
  BY DEF ModifySave
<1>3. Regenerate(r, {Circuit}, outcome, number) \in RepTable
  BY <1>1, RegenerateType DEF IInv
<1>4. /\ DOMAIN rows' \subseteq Nat /\ rows' \in [DOMAIN rows' -> Row]
      /\ project' \in Project /\ HistoryInv' /\ Grows
  BY <1>1, <1>2, <1>3, ChangeStep, ConstantsAssumption DEF RowKinds
<1>5. Stores(r, "modified", number) /\ UNCHANGED <<log, memory>>
  BY DEF ModifySave
<1>6. ServerTypeOK'
  BY <1>4, <1>5 DEF Stores, memory, IInv, TypeOK, ServerTypeOK
<1> QED
  BY <1>1, <1>4, <1>5, <1>6, StoresPreserves DEF Stored

LEMMA ModifyFinishOK ==
    ASSUME IInv, NEW r \in Req, ModifyFinish(r)
    PROVE  Preserved(r)
<1>1. HistoryInv' /\ Grows
  BY QuietStep DEF ModifyFinish, durable, IInv
<1>2. ServerTypeOK' /\ req[r].answer \in Nat
  BY DEF ModifyFinish, durable, memory, IInv, TypeOK, ServerTypeOK, Request
<1> QED
  BY <1>1, <1>2, FinishPreserves DEF ModifyFinish

LEMMA AnalyzeBeginOK ==
    ASSUME IInv, NEW r \in Req, AnalyzeBegin(r)
    PROVE  Preserved(r)
<1>1. ServerTypeOK' /\ HistoryInv' /\ Grows /\ project # None /\ project' = project
  BY QuietServer DEF AnalyzeBegin, Exists, durable
<1>2. Suspend(r, Reading("analyze", "analyzing", None, None, None))
  BY DEF AnalyzeBegin
<1>3. "analyze" \in RequestKinds /\ "analyzing" \in Awaiting
  BY DEF RequestKinds, Awaiting
<1> QED
  BY <1>1, <1>2, <1>3, ReadingPreserves DEF Changing

LEMMA AnalyzeFinishOK ==
    ASSUME IInv, NEW r \in Req, AnalyzeFinish(r)
    PROVE  Preserved(r)
<1>1. HistoryInv' /\ Grows
  BY QuietStep DEF AnalyzeFinish, durable, IInv
<1>2. PICK set \in RegenerateSets :
        scenario' = [id |-> r, plan |->
            [base |-> Len(req[r].graph), baseId |-> LastOf(req[r].graph),
             mode |-> "edit", regenerate |-> set \cup {Circuit}]]
  BY DEF AnalyzeFinish
<1>3. [base |-> Len(req[r].graph), baseId |-> LastOf(req[r].graph),
       mode |-> "edit", regenerate |-> set \cup {Circuit}] \in Proposal
  BY PlanType, ConstantsAssumption DEF Proposal
<1>4. ServerTypeOK'
  BY <1>2, <1>3 DEF AnalyzeFinish, durable, IInv, TypeOK, ServerTypeOK
<1> QED
  BY <1>1, <1>4, ClosePreserves DEF AnalyzeFinish, RequestKinds, Closed

LEMMA DiscardOK ==
    ASSUME IInv, NEW r \in Req, Discard(r)
    PROVE  Preserved(r)
<1>1. HistoryInv' /\ Grows
  BY QuietStep DEF Discard, durable, IInv
<1>2. ServerTypeOK'
  BY DEF Discard, durable, IInv, TypeOK, ServerTypeOK
<1>3. CASE scenario = None
  BY <1>1, <1>2, <1>3, RefusePreserves DEF Discard, RequestKinds
<1>4. CASE scenario # None
  <2>1. scenario.id \in Req
    BY <1>4 DEF IInv, TypeOK, ServerTypeOK
  <2> QED
    BY <1>1, <1>2, <1>4, <2>1, ClosePreserves DEF Discard, RequestKinds, Closed
<1> QED
  BY <1>3, <1>4

LEMMA ApplyBeginOK ==
    ASSUME IInv, NEW r \in Req, ApplyBegin(r)
    PROVE  Preserved(r)
<1>1. HistoryInv' /\ Grows /\ project' = project /\ project # None
  BY QuietStep DEF ApplyBegin, Exists, durable, IInv
<1>2. ServerTypeOK'
  BY DEF ApplyBegin, durable, IInv, TypeOK, ServerTypeOK
<1>3. CASE Refuse(r, "apply", None)
  BY <1>1, <1>2, <1>3, RefusePreserves DEF RequestKinds
<1>4. CASE /\ scenario # None /\ Applies(scenario.plan)
           /\ Suspend(r, Reading("apply", "applying", None, scenario.id, scenario.plan))
  <2>1. /\ scenario.id \in Req /\ scenario.plan \in Proposal
        /\ scenario.plan.baseId = LastOf(project.graph)
    BY <1>4 DEF Applies, IInv, TypeOK, ServerTypeOK
  <2>2. "apply" \in RequestKinds /\ "applying" \in Awaiting
    BY DEF RequestKinds, Awaiting
  <2> QED
    BY <1>1, <1>2, <1>4, <2>1, <2>2, ReadingPreserves DEF Changing
<1> QED
  BY <1>3, <1>4 DEF ApplyBegin

LEMMA ApplySaveOK ==
    ASSUME IInv, NEW r \in Req, ApplySave(r)
    PROVE  Preserved(r)
<1> DEFINE set == req[r].plan.regenerate
           number == Len(req[r].graph) + 1
           table(outcome, removed) ==
               [rep \in Reps |-> IF rep \in removed THEN None
                                 ELSE Regenerate(r, set, outcome, number)[rep]]
<1>1. req[r].phase \in Changing /\ number \in Nat /\ {} \in SUBSET Reps
  BY PlanType DEF ApplySave, Changing
<1>2. PICK outcome \in Outcomes, removed \in SUBSET (set \ {Circuit}), status \in Verdicts :
        SaveCommit(r, "scenario", req[r].plan.baseId, {}, table(outcome, removed), status)
  BY DEF ApplySave
<1>3. table(outcome, removed) \in RepTable
  <2>1. Regenerate(r, set, outcome, number) \in RepTable
    BY <1>1, RegenerateType DEF Outcomes, IInv
  <2> QED
    BY <2>1 DEF RepTable
<1> HIDE DEF table
<1>4. /\ DOMAIN rows' \subseteq Nat /\ rows' \in [DOMAIN rows' -> Row]
      /\ project' \in Project /\ HistoryInv' /\ Grows
  BY <1>1, <1>2, <1>3, ChangeStep DEF RowKinds
<1>5. Stores(r, "applied", number) /\ UNCHANGED <<log, memory>>
  BY DEF ApplySave
<1>6. ServerTypeOK'
  BY <1>4, <1>5 DEF Stores, memory, IInv, TypeOK, ServerTypeOK
<1> QED
  BY <1>1, <1>4, <1>5, <1>6, StoresPreserves DEF Stored

LEMMA ApplyFinishOK ==
    ASSUME IInv, NEW r \in Req, ApplyFinish(r)
    PROVE  Preserved(r)
<1>1. HistoryInv' /\ Grows
  BY QuietStep DEF ApplyFinish, durable, IInv
<1>2. ServerTypeOK' /\ req[r].answer \in Nat
  BY DEF ApplyFinish, durable, IInv, TypeOK, ServerTypeOK, Request
<1> QED
  BY <1>1, <1>2, FinishPreserves DEF ApplyFinish

-----------------------------------------------------------------------------
(* Representations.                                                        *)

LEMMA RetryBeginOK ==
    ASSUME IInv, NEW r \in Req, NEW rep \in Reps, NEW key \in MaybeKey, RetryBegin(r, rep, key)
    PROVE  Preserved(r)
<1>1. /\ ServerTypeOK' /\ HistoryInv' /\ Grows
      /\ project # None /\ project' = project /\ key \in OpIds \cup {None}
  BY QuietServer DEF RetryBegin, Exists, durable, MaybeKey, OpIds
<1>2. ASSUME NEW result \in RetryResults(key), Close(r, "retry", "answered", key, rep, result, None)
      PROVE  Preserved(r)
  <2>1. result \in Nat
    BY RecordedType DEF RetryResults, IInv
  <2> QED
    BY <1>1, <1>2, <2>1, ClosePreserves DEF RequestKinds, Closed
<1>3. CASE Refuse(r, "retry", key)
  BY <1>1, <1>3, RefusePreserves DEF RequestKinds
<1>4. CASE Retryable(rep) /\ Suspend(r, Reading("retry", "regenerating", key, rep, None))
  <2>1. "retry" \in RequestKinds /\ "regenerating" \in Awaiting /\ project.reps[rep] # None
    BY <1>4 DEF RequestKinds, Awaiting, Retryable
  <2> QED
    BY <1>1, <1>4, <2>1, ReadingPreserves DEF Changing
<1> QED
  BY <1>2, <1>3, <1>4 DEF RetryBegin

LEMMA RetryStoreOK ==
    ASSUME IInv, NEW r \in Req, RetryStore(r)
    PROVE  Preserved(r)
<1> DEFINE rep == req[r].subject
           table(end) == [req[r].reps EXCEPT ![rep] = Regenerated(@, Len(req[r].graph), r, end)]
<1>1. /\ req[r].reps \in RepTable /\ rep \in Reps /\ req[r].reps[rep] # None
      /\ project # None /\ Len(req[r].graph) \in Nat
  BY PlanType DEF RetryStore, IInv, Equipped, UpToDate, Writing, TypeOK, Request
<1>2. PICK end \in GenerationEnds : project' = [project EXCEPT !.reps = table(end)]
  BY DEF RetryStore
<1>3. table(end) \in RepTable
  <2>1. req[r].reps[rep] \in RepRecord(Req)
    BY <1>1 DEF RepTable
  <2>2. Regenerated(req[r].reps[rep], Len(req[r].graph), r, end) \in RepRecord(Req)
    BY <1>1, <2>1, RecordTypes
  <2> QED
    BY <1>1, <2>2 DEF RepTable
<1> HIDE DEF table
<1>4. project' \in Project /\ HistoryInv' /\ Grows
  BY <1>1, <1>2, <1>3, ProjectStep DEF RetryStore
<1>5. Stores(r, "regenerated", Len(req[r].graph)) /\ UNCHANGED <<rows, log, memory>>
  BY DEF RetryStore
<1>6. ServerTypeOK'
  BY <1>4, <1>5 DEF Stores, memory, IInv, TypeOK, ServerTypeOK
<1> QED
  BY <1>1, <1>4, <1>5, <1>6, StoresPreserves DEF Stored

LEMMA RetryRecordOK ==
    ASSUME IInv, NEW r \in Req, RetryRecord(r)
    PROVE  Preserved(r)
<1>1. HistoryInv' /\ Grows
  BY QuietStep DEF RetryRecord, IInv
<1>2. req[r].subject \in Reps /\ req[r].answer \in Nat /\ req[r].op \in OpIds \cup {None}
  BY DEF RetryRecord, IInv, Equipped, TypeOK, Request
<1>3. log' \in Seq(LogRow)
  BY <1>2, RecordType DEF RetryRecord, LogTypes, IInv, TypeOK, ServerTypeOK
<1>4. ServerTypeOK'
  BY <1>3 DEF RetryRecord, memory, IInv, TypeOK, ServerTypeOK
<1> QED
  BY <1>1, <1>2, <1>4, FinishPreserves DEF RetryRecord

LEMMA ReportBeginOK ==
    ASSUME IInv, NEW r \in Req, NEW rep \in Reps, NEW tag \in Req \cup {None},
           NEW status \in Statuses, ReportBegin(r, rep, tag, status)
    PROVE  Preserved(r)
<1> DEFINE moved == Moved(project.reps[rep], status)
           table == [project.reps EXCEPT ![rep] = moved]
           record == [Unsent EXCEPT !.kind = "report", !.phase = "reporting", !.subject = rep,
                                    !.reps = table]
<1>1. HistoryInv' /\ Grows /\ project' = project /\ project # None /\ project.reps[rep] # None
  BY QuietStep DEF ReportBegin, Exists, durable, IInv
<1>2. ServerTypeOK'
  BY DEF ReportBegin, durable, memory, IInv, TypeOK, ServerTypeOK
<1>3. CASE Refuse(r, "report", None)
  BY <1>1, <1>2, <1>3, RefusePreserves DEF RequestKinds
<1>4. CASE Suspend(r, record)
  <2>1. project.reps \in RepTable /\ project.reps[rep] \in RepRecord(Req)
    BY <1>1 DEF IInv, TypeOK, ServerTypeOK, Project, RepTable
  <2>2. moved \in RepRecord(Req)
    BY <2>1 DEF Moved, RepRecord
  <2> HIDE DEF moved
  <2>3. table \in RepTable /\ table[rep] # None
    BY <2>1, <2>2, NoneAssumption DEF RepTable
  <2> HIDE DEF table
  <2>4. "report" \in RequestKinds /\ "reporting" \in Phases
    BY DEF RequestKinds, Phases
  <2>5. record \in Request /\ record.phase = "reporting" /\ record.subject = rep /\ record.reps = table
    BY <2>3, <2>4, UnsentType DEF Unsent, Request
  <2> HIDE DEF record
  <2>6. Equipped(record) /\ UpToDate(record, project')
    BY <1>1, <2>3, <2>5 DEF Equipped, UpToDate, Changing
  <2> QED
    BY <1>1, <1>2, <1>4, <2>5, <2>6, SuspendPreserves
<1> QED
  BY <1>3, <1>4 DEF ReportBegin

LEMMA ReportStoreOK ==
    ASSUME IInv, NEW r \in Req, ReportStore(r)
    PROVE  Preserved(r)
<1>1. /\ req[r].phase = "reporting" /\ req[r] \in Request /\ req \in [Req -> Request]
      /\ req[r].reps \in RepTable /\ project # None
  BY DEF ReportStore, IInv, UpToDate, Writing, TypeOK, Request
<1>2. project' \in Project /\ HistoryInv' /\ Grows
  BY <1>1, ProjectStep DEF ReportStore
<1>3. ServerTypeOK'
  BY <1>2 DEF ReportStore, memory, IInv, TypeOK, ServerTypeOK
<1>4. req' = [req EXCEPT ![r].phase = "reported"]
  BY DEF ReportStore
<1>5. req' \in [Req -> Request] /\ \A s \in Req \ {r} : req'[s] = req[s]
  BY <1>1, <1>4 DEF Request, Phases
<1>6. /\ req'[r].phase = "reported" /\ req'[r].subject = req[r].subject
      /\ req'[r].reps = req[r].reps
  BY <1>1, <1>4 DEF Request
<1>7. req[r].subject \in Reps /\ req[r].reps[req[r].subject] # None
  BY <1>1 DEF IInv, Equipped
<1> QED
  BY <1>2, <1>3, <1>5, <1>6, <1>7 DEF Preserved, TypeOK, Equipped, UpToDate, Writing, Changing

LEMMA ReportActiveOK ==
    ASSUME IInv, NEW r \in Req, ReportActive(r)
    PROVE  Preserved(r)
<1>1. HistoryInv' /\ Grows
  BY QuietStep DEF ReportActive, durable, IInv
<1>2. req[r].subject \in Reps /\ req[r].reps[req[r].subject] \in RepRecord(Req)
  BY DEF ReportActive, IInv, Equipped, TypeOK, Request, RepTable
<1>3. active' \subseteq Reps \X Req
  <2>1. req[r].reps[req[r].subject].operation \in Req \cup {None}
    BY <1>2 DEF RepRecord
  <2> QED
    BY <1>2, <2>1 DEF ReportActive, ActiveAfter, Generation, IInv, TypeOK, ServerTypeOK
<1>4. ServerTypeOK'
  BY <1>3 DEF ReportActive, durable, IInv, TypeOK, ServerTypeOK
<1> QED
  BY <1>1, <1>4, FinishPreserves DEF ReportActive

LEMMA ReadBeginOK ==
    ASSUME IInv, NEW r \in Req, ReadBegin(r)
    PROVE  Preserved(r)
<1>1. ServerTypeOK' /\ HistoryInv' /\ Grows /\ project # None /\ project' = project
  BY QuietServer DEF ReadBegin, Exists, durable
<1>2. Suspend(r, Reading("read", "reading", None, None, None))
  BY DEF ReadBegin
<1>3. "read" \in RequestKinds /\ "reading" \in InThread
  BY DEF RequestKinds, InThread
<1> QED
  BY <1>1, <1>2, <1>3, ReadingPreserves DEF Changing

LEMMA ReadDecideOK ==
    ASSUME IInv, NEW r \in Req, ReadDecide(r)
    PROVE  Preserved(r)
<1> DEFINE reps == req[r].reps
           table == [rep \in Reps |-> IF Orphaned(rep, reps[rep]) THEN Interrupted(reps[rep])
                                      ELSE reps[rep]]
<1>1. ServerTypeOK' /\ HistoryInv' /\ Grows
  BY QuietServer DEF ReadDecide
<1>2. /\ req[r].phase = "reading" /\ req[r] \in Request /\ req \in [Req -> Request]
      /\ reps \in RepTable /\ project # None /\ project' = project
  BY DEF ReadDecide, durable, IInv, UpToDate, Writing, TypeOK, Request
<1>3. CASE Finish(r, Len(req[r].graph), None)
  BY <1>1, <1>3, PlanType, FinishPreserves
<1>4. CASE req' = [req EXCEPT ![r].phase = "recovering", ![r].reps = table]
  <2>1. ASSUME NEW rep \in Reps
        PROVE  table[rep] \in RepRecord(Req) \cup {None}
    <3>1. reps[rep] \in RepRecord(Req) \cup {None}
      BY <1>2 DEF RepTable
    <3>2. Orphaned(rep, reps[rep]) => Interrupted(reps[rep]) \in RepRecord(Req)
      BY <3>1 DEF Orphaned, Interrupted, RepRecord, Statuses
    <3> QED
      BY <3>1, <3>2
  <2>2. table \in RepTable
    BY <2>1 DEF RepTable
  <2> HIDE DEF table
  <2>3. req' \in [Req -> Request] /\ \A s \in Req \ {r} : req'[s] = req[s]
    BY <1>2, <1>4, <2>2 DEF Request, Phases, InThread
  <2>4. req'[r].phase = "recovering"
    BY <1>2, <1>4 DEF Request
  <2> QED
    BY <1>1, <1>2, <2>3, <2>4 DEF Preserved, TypeOK, Equipped, UpToDate, Changing
<1> QED
  BY <1>3, <1>4 DEF ReadDecide

LEMMA ReadStoreOK ==
    ASSUME IInv, NEW r \in Req, ReadStore(r)
    PROVE  Preserved(r)
<1>1. req[r].reps \in RepTable /\ project # None
  BY DEF ReadStore, IInv, UpToDate, Writing, TypeOK, Request
<1>2. project' \in Project /\ HistoryInv' /\ Grows
  BY <1>1, ProjectStep DEF ReadStore
<1>3. ServerTypeOK'
  BY <1>2 DEF ReadStore, memory, IInv, TypeOK, ServerTypeOK
<1> QED
  BY <1>2, <1>3, PlanType, FinishPreserves DEF ReadStore

-----------------------------------------------------------------------------
(* Failures and restarts.                                                  *)

LEMMA FailOK ==
    ASSUME IInv, NEW r \in Req, Fail(r)
    PROVE  Preserved(r)
<1>1. HistoryInv' /\ Grows
  BY QuietStep DEF Fail, durable, IInv
<1>2. ServerTypeOK'
  BY DEF Fail, GivesUpLock, GivesUpCreating, durable, IInv, TypeOK, ServerTypeOK
<1>3. /\ req[r].kind \in RequestKinds \cup {None} /\ req[r].op \in OpIds \cup {None}
      /\ req[r].subject \in Req \cup Reps \cup {None}
  BY DEF IInv, TypeOK, Request
<1> QED
  BY <1>1, <1>2, <1>3, ClosePreserves DEF Fail, Closed

\* A restart forgets every handler, and keeps what was stored.
LEMMA CrashOK ==
    ASSUME IInv, Crash
    PROVE  IInv'
<1>1. HistoryInv' /\ Grows
  BY QuietStep DEF Crash, durable, IInv
<1>2. ServerTypeOK'
  BY DEF Crash, durable, IInv, TypeOK, ServerTypeOK
<1>3. ASSUME NEW s \in Req
      PROVE  req'[s] \in Request /\ Equipped(req'[s]) /\ UpToDate(req'[s], project')
  <2> DEFINE lost == [Unsent EXCEPT !.kind = req[s].kind, !.phase = "lost",
                                    !.op = req[s].op, !.subject = req[s].subject]
  <2>1. req[s] \in Request /\ req'[s] = IF Open(s) THEN lost ELSE req[s]
    BY DEF Crash, IInv, TypeOK
  <2>2. CASE Open(s)
    <3>1. /\ req[s].kind \in RequestKinds \cup {None} /\ req[s].op \in OpIds \cup {None}
          /\ req[s].subject \in Req \cup Reps \cup {None}
      BY <2>1 DEF Request
    <3>2. "lost" \in Phases
      BY DEF Phases, Closed
    <3>3. lost \in Request /\ lost.phase = "lost"
      BY <3>1, <3>2, UnsentType DEF Unsent, Request
    <3> HIDE DEF lost
    <3> QED
      BY <2>1, <2>2, <3>3 DEF Equipped, UpToDate, Writing, Changing
  <2>3. CASE ~Open(s)
    BY <2>1, <2>3 DEF Open, Closed, Equipped, UpToDate, Writing, Changing
  <2> QED
    BY <2>2, <2>3
<1>4. req' \in [Req -> Request]
  BY <1>3 DEF Crash
<1> QED
  BY <1>1, <1>2, <1>3, <1>4 DEF IInv, TypeOK

-----------------------------------------------------------------------------
(* The theorems.                                                           *)

\* The server starts with no history, or with the first revision of one.
LEMMA InitOK == Init => IInv
<1> SUFFICES ASSUME Init PROVE IInv
  OBVIOUS
<1>1. CASE Seed = None
  <2>1. /\ rows = [n \in {} |-> None] /\ project = None
        /\ req = [r \in Req |-> Unsent]
    BY <1>1 DEF Init
  <2>2. TypeOK
    BY <2>1, UnsentType DEF Init, TypeOK, ServerTypeOK
  <2>3. HistoryInv
    BY <2>1 DEF HistoryInv, LinearHistory, AppliedToItsBase
  <2>4. ASSUME NEW r \in Req
        PROVE  Equipped(req[r]) /\ UpToDate(req[r], project)
    BY <2>1 DEF Unsent, Equipped, UpToDate, Writing, Changing
  <2> QED
    BY <2>2, <2>3, <2>4 DEF IInv
<1>2. CASE Seed # None
  <2> DEFINE row == [id |-> Seed, parent |-> None, base |-> None,
                     kind |-> "create", regenerate |-> {}]
             reps == [rep \in Reps |-> Generated(Initial(1, Seed), "ready")]
             lost == [Unsent EXCEPT !.kind = "create", !.phase = "lost"]
  <2>1. PICK status \in Verdicts :
          project = [graph |-> <<Seed>>, status |-> status, reps |-> reps]
    BY <1>2 DEF Init
  <2>2. /\ rows = [n \in {1} |-> row] /\ Seed \in Req
        /\ req = [r \in Req |-> IF r = Seed THEN lost ELSE Unsent]
    BY <1>2, ConstantsAssumption DEF Init
  <2>3. row \in Row
    BY <2>2 DEF Row, RowKinds, Ids
  <2>4. reps \in RepTable
    <3>1. Generated(Initial(1, Seed), "ready") \in RepRecord(Req)
      BY <2>2 DEF Generated, Moved, Initial, RepRecord, Statuses
    <3> QED
      BY <3>1 DEF RepTable
  <2>5. lost \in Request /\ lost.phase = "lost"
    BY UnsentType DEF Unsent, Request, RequestKinds, Phases, Closed
  <2> HIDE DEF reps, lost
  <2>6. /\ project \in Project /\ project # None
        /\ project.graph = <<Seed>> /\ Latest = 1
    <3>1. <<Seed>> \in Seq(Ids)
      BY <2>2 DEF Ids
    <3>2. [graph |-> <<Seed>>, status |-> status, reps |-> reps] \in Project
      BY <3>1, <2>4 DEF Project
    <3> QED
      BY <2>1, <3>2, NoneAssumption DEF Latest
  <2>7. TypeOK
    <3>1. req \in [Req -> Request]
      BY <2>2, <2>5, UnsentType
    <3>2. DOMAIN rows \subseteq Nat /\ rows \in [DOMAIN rows -> Row]
      BY <2>2, <2>3
    <3> QED
      BY <2>6, <3>1, <3>2 DEF Init, TypeOK, ServerTypeOK
  <2>8. HistoryInv
    BY <2>2, <2>6 DEF HistoryInv, LinearHistory, AppliedToItsBase
  <2>9. ASSUME NEW r \in Req
        PROVE  Equipped(req[r]) /\ UpToDate(req[r], project)
    BY <2>2, <2>5 DEF Unsent, Equipped, UpToDate, Writing, Changing
  <2> QED
    BY <2>7, <2>8, <2>9 DEF IInv
<1> QED
  BY <1>1, <1>2

\* Every request that arrives finds the history, and leaves it, in order.
LEMMA ArrivalOK ==
    ASSUME IInv, NEW r \in Req, Arrival(r)
    PROVE  Preserved(r)
BY CreateBeginOK, ProposeBeginOK, CancelOK, CommitBeginOK, UndoBeginOK, ModifyBeginOK,
   AnalyzeBeginOK, DiscardOK, ApplyBeginOK, RetryBeginOK, ReportBeginOK, ReadBeginOK DEF Arrival

\* So does every handler that goes on with what it read before it waited.
LEMMA ContinuationOK ==
    ASSUME IInv, NEW r \in Req, Continuation(r)
    PROVE  Preserved(r)
BY CreateLockOK, CreateStoreOK, CreateIncompleteOK, CreateRepsOK, CreateStatusOK,
   ProposeFinishOK, CommitSaveOK, CommitFinishOK, UndoRecordOK, ModifySaveOK, ModifyFinishOK,
   AnalyzeFinishOK, ApplySaveOK, ApplyFinishOK, RetryStoreOK, RetryRecordOK,
   ReportStoreOK, ReportActiveOK, ReadDecideOK, ReadStoreOK, FailOK DEF Continuation

\* The invariant is inductive.
LEMMA StepOK == IInv /\ [Next]_vars => IInv'
<1> SUFFICES ASSUME IInv, [Next]_vars PROVE IInv'
  OBVIOUS
<1>1. CASE Crash
  BY <1>1, CrashOK
<1>2. ASSUME NEW r \in Req, Arrival(r)
      PROVE  IInv'
  BY <1>2, ArrivalOK, PreservedStep
<1>3. ASSUME NEW r \in Req, Continuation(r)
      PROVE  IInv'
  BY <1>3, ContinuationOK, PreservedStep
<1>4. CASE UNCHANGED vars
  BY <1>4 DEF vars, durable, memory, IInv, TypeOK, ServerTypeOK, HistoryInv, LinearHistory,
              AppliedToItsBase, Latest
<1> QED
  BY <1>1, <1>2, <1>3, <1>4 DEF Next

\* The invariant holds of every state the server can reach.
LEMMA Invariance == Spec => []IInv
BY InitOK, StepOK, PTL DEF Spec

\* Every variable of the server, and every request, keeps its type.
THEOREM TypeCorrect == Spec => []TypeOK
<1>1. IInv => TypeOK
  BY DEF IInv
<1> QED
  BY <1>1, Invariance, PTL

\* The revisions table and the graph of the project row tell one linear
\* history, whatever handlers race for a number, fail or are killed.
THEOREM HistoryIsLinear == Spec => []LinearHistory
<1>1. IInv => LinearHistory
  BY DEF IInv, HistoryInv
<1> QED
  BY <1>1, Invariance, PTL

\* Every stored revision was verified against the revision it follows.
THEOREM ChangesFitTheirBase == Spec => []AppliedToItsBase
<1>1. IInv => AppliedToItsBase
  BY DEF IInv, HistoryInv
<1> QED
  BY <1>1, Invariance, PTL

-----------------------------------------------------------------------------
(* The revision log.                                                       *)

\* What a step may do to the revisions table: nothing, or add the next row.
Appended ==
    \/ UNCHANGED rows
    \/ \E n \in Nat :
          /\ DOMAIN rows = 1..n /\ DOMAIN rows' = 1..(n + 1)
          /\ \A m \in 1..n : rows'[m] = rows[m]

LEMMA SaveAppends ==
    ASSUME IInv, NEW r \in Req, IsPrefix(r), NEW kind, NEW base, NEW regenerate, NEW reps,
           NEW status, SaveCommit(r, kind, base, regenerate, reps, status)
    PROVE  Appended
<1> DEFINE n == Len(req[r].graph)
<1>1. n \in Nat
  BY PlanType
<1>2. DOMAIN rows = 1..n
  BY FreeNumber DEF SaveCommit, IInv
<1>3. /\ DOMAIN rows' = DOMAIN rows \cup {n + 1}
      /\ \A m \in DOMAIN rows : m # n + 1 => rows'[m] = rows[m]
  BY DEF SaveCommit
<1> HIDE DEF n
<1>4. DOMAIN rows' = 1..(n + 1) /\ \A m \in 1..n : rows'[m] = rows[m]
  BY <1>1, <1>2, <1>3
<1> QED
  BY <1>1, <1>2, <1>4 DEF Appended

\* Only a transaction that adds a revision changes the table.
LEMMA StepAppends ==
    ASSUME IInv, [Next]_vars
    PROVE  Appended
<1>1. ASSUME NEW r \in Req, req[r].phase \in {"planning"} \cup Changing
      PROVE  IsPrefix(r)
  BY <1>1 DEF IInv, Equipped, UpToDate, IsPrefix, Latest, Changing
<1>2. ASSUME NEW r \in Req,
             CreateStore(r) \/ CreateIncomplete(r) \/ CommitSave(r) \/ ModifySave(r) \/ ApplySave(r)
      PROVE  Appended
  <2>1. IsPrefix(r)
    BY <1>1, <1>2 DEF CreateStore, CreateIncomplete, CommitSave, ModifySave, ApplySave, Changing
  <2>2. \E kind, base, regenerate, reps, status :
           SaveCommit(r, kind, base, regenerate, reps, status)
    BY <1>2 DEF CreateStore, CreateIncomplete, CommitSave, ModifySave, ApplySave
  <2> QED
    BY <2>1, <2>2, SaveAppends
<1>3. ASSUME NEW r \in Req, Arrival(r)
      PROVE  UNCHANGED rows
  BY <1>3 DEF Arrival, CreateBegin, ProposeBegin, Cancel, CommitBegin, UndoBegin, ModifyBegin,
              AnalyzeBegin, Discard, ApplyBegin, RetryBegin, ReportBegin, ReadBegin, durable
<1>4. ASSUME NEW r \in Req, Continuation(r)
      PROVE  Appended
  <2>1. CASE CreateStore(r) \/ CreateIncomplete(r) \/ CommitSave(r) \/ ModifySave(r) \/ ApplySave(r)
    BY <1>2, <2>1
  <2>2. CASE \/ CreateLock(r) \/ CreateReps(r) \/ CreateStatus(r)
             \/ ProposeFinish(r) \/ CommitFinish(r) \/ UndoRecord(r) \/ ModifyFinish(r)
             \/ AnalyzeFinish(r) \/ ApplyFinish(r) \/ RetryStore(r) \/ RetryRecord(r)
             \/ ReportStore(r) \/ ReportActive(r) \/ ReadDecide(r) \/ ReadStore(r) \/ Fail(r)
    BY <2>2 DEF CreateLock, CreateReps, CreateStatus, ProposeFinish, CommitFinish, UndoRecord,
                ModifyFinish, AnalyzeFinish, ApplyFinish, RetryStore, RetryRecord, ReportStore,
                ReportActive, ReadDecide, ReadStore, Fail, durable, Appended
  <2> QED
    BY <1>4, <2>1, <2>2 DEF Continuation
<1> QED
  BY <1>3, <1>4 DEF Next, Crash, vars, durable, Appended

\* The abstract history is a sequence.
Entry == [id : Ids, parent : Ids \cup {None}, base : Ids \cup {None}]
Abstract == [n \in DOMAIN rows |->
               [id |-> rows[n].id, parent |-> rows[n].parent, base |-> rows[n].base]]

AbstractIsSeq ==
    /\ Abstract \in Seq(Entry) /\ Len(Abstract) \in Nat
    /\ DOMAIN rows = 1..Len(Abstract)

LEMMA AbstractType == IInv => AbstractIsSeq
<1> SUFFICES ASSUME IInv PROVE AbstractIsSeq
  OBVIOUS
<1>1. PICK n \in Nat : DOMAIN rows = 1..n
  <2>1. CASE project = None
    <3>1. DOMAIN rows = 1..0
      BY <2>1 DEF IInv, HistoryInv, LinearHistory
    <3> QED
      BY <3>1
  <2>2. CASE project # None
    BY <2>2 DEF IInv, HistoryInv, LinearHistory, TypeOK, ServerTypeOK, Project, Latest
  <2> QED
    BY <2>1, <2>2
<1>2. ASSUME NEW m \in DOMAIN rows
      PROVE  [id |-> rows[m].id, parent |-> rows[m].parent, base |-> rows[m].base] \in Entry
  BY DEF IInv, TypeOK, ServerTypeOK, Row, Entry
<1>3. Abstract \in [1..n -> Entry]
  BY <1>1, <1>2 DEF Abstract
<1>4. Abstract \in Seq(Entry)
  BY <1>3, SeqDef
<1>5. Len(Abstract) = n
  BY <1>3, <1>4, LenProperties
<1> QED
  BY <1>1, <1>4, <1>5 DEF AbstractIsSeq

\* A step that adds a row grows the abstract history by it.
LEMMA AbstractGrows ==
    ASSUME IInv, IInv', NEW n \in Nat, DOMAIN rows = 1..n, DOMAIN rows' = 1..(n + 1),
           \A m \in 1..n : rows'[m] = rows[m]
    PROVE  \E i \in Req :
              Abstract' = Append(Abstract, [id |-> i, parent |-> History!Tip, base |-> History!Tip])
<1>1. /\ Abstract \in Seq(Entry) /\ Len(Abstract) = n
      /\ Abstract' \in Seq(Entry) /\ Len(Abstract') = n + 1
  <2>1. /\ Abstract \in Seq(Entry) /\ Len(Abstract) \in Nat
        /\ 1..n = 1..Len(Abstract)
    BY AbstractType DEF AbstractIsSeq
  <2>2. AbstractIsSeq'
    BY AbstractType, PTL
  <2>3. /\ Abstract' \in Seq(Entry) /\ Len(Abstract') \in Nat
        /\ 1..(n + 1) = 1..Len(Abstract')
    BY <2>2 DEF AbstractIsSeq, Entry, Ids
  <2>4. \A k, l \in Nat : 1..k = 1..l => k = l
    <3>1. ASSUME NEW k \in Nat, NEW l \in Nat, 1..k = 1..l, k < l
          PROVE  FALSE
      <4>1. l \in 1..l /\ l \notin 1..k
        BY <3>1
      <4> QED
        BY <3>1, <4>1
    <3>2. ASSUME NEW k \in Nat, NEW l \in Nat, 1..k = 1..l
          PROVE  k = l
      <4>1. ~(k < l) /\ ~(l < k)
        BY <3>1, <3>2
      <4> QED
        BY <4>1
    <3> QED
      BY <3>2
  <2> QED
    BY <2>1, <2>3, <2>4
<1> DEFINE row == rows'[n + 1]
           entry == [id |-> row.id, parent |-> row.parent, base |-> row.base]
<1>2. n + 1 \in DOMAIN rows' /\ row \in Row /\ entry \in Entry /\ row.id \in Req
  BY DEF IInv, TypeOK, ServerTypeOK, Row, Entry, Ids
<1>3. History!Tip = IF n = 0 THEN None ELSE rows[n].id
  <2>1. Abstract = <<>> <=> n = 0
    BY <1>1, EmptySeq
  <2>2. n # 0 => Abstract[n].id = rows[n].id
    BY DEF Abstract
  <2> QED
    BY <1>1, <2>1, <2>2 DEF History!Tip, Abstract
<1>4. row.parent = History!Tip /\ row.base = row.parent
  <2>1. /\ row.parent = IF n + 1 = 1 THEN None ELSE rows'[n].id
        /\ row.base = row.parent
    <3>1. n + 1 \in 1..(n + 1) /\ (n + 1) - 1 = n
      OBVIOUS
    <3>2. project' # None /\ 1..Latest' = 1..(n + 1)
      <4>1. n + 1 \in DOMAIN rows'
        BY <3>1
      <4> QED
        BY <4>1 DEF IInv, HistoryInv, LinearHistory
    <3>3. n + 1 \in 1..Latest'
      BY <3>1, <3>2
    <3>4. row.parent = IF n + 1 = 1 THEN None ELSE rows'[(n + 1) - 1].id
      BY <3>2, <3>3 DEF IInv, HistoryInv, LinearHistory
    <3>5. row.base = row.parent
      BY <1>2 DEF IInv, HistoryInv, AppliedToItsBase
    <3> QED
      BY <3>1, <3>4, <3>5
  <2> QED
    BY <1>3, <2>1
<1>5. Abstract' = Append(Abstract, entry)
  <2>1. Append(Abstract, entry) \in Seq(Entry) /\ Len(Append(Abstract, entry)) = n + 1
    BY <1>1, <1>2
  <2>2. ASSUME NEW m \in 1..(n + 1)
        PROVE  Abstract'[m] = Append(Abstract, entry)[m]
    <3>1. CASE m = n + 1
      BY <1>1, <1>2, <3>1 DEF Abstract
    <3>2. CASE m # n + 1
      <4>1. m \in 1..n /\ m \in DOMAIN rows /\ m \in DOMAIN rows'
        BY <3>2
      <4>2. Append(Abstract, entry)[m] = Abstract[m]
        BY <1>1, <1>2, <4>1
      <4> QED
        BY <4>1, <4>2 DEF Abstract
    <3> QED
      BY <3>1, <3>2
  <2> QED
    BY <1>1, <2>1, <2>2, SeqEqual
<1> QED
  BY <1>2, <1>4, <1>5

\* Whatever requests race, fail or are sent again and wherever the process
\* dies, the revisions table behaves as an append-only log of revisions, each
\* written against the one before it.
THEOREM ImplementsRevisionLog == Spec => RefinesRevisionLog
<1>1. Init => History!Init
  <2> SUFFICES ASSUME Init PROVE History!Init
    OBVIOUS
  <2>1. CASE Seed = None
    <3>1. Abstract = <<>>
      <4>1. IInv /\ DOMAIN rows = {}
        BY <2>1, InitOK DEF Init
      <4>2. Abstract \in Seq(Entry) /\ Len(Abstract) \in Nat /\ 1..Len(Abstract) = {}
        BY <4>1, AbstractType DEF AbstractIsSeq
      <4>3. Len(Abstract) = 0
        <5>1. Len(Abstract) # 0 => 1 \in 1..Len(Abstract)
          BY <4>2
        <5> QED
          BY <4>2, <5>1
      <4> QED
        BY <4>2, <4>3, EmptySeq
    <3> QED
      BY <3>1 DEF History!Init, Abstract
  <2>2. CASE Seed # None
    <3> DEFINE entry == [id |-> Seed, parent |-> None, base |-> None]
    <3>1. /\ DOMAIN rows = {1} /\ Seed \in Req
          /\ rows[1].id = Seed /\ rows[1].parent = None /\ rows[1].base = None
      BY <2>2, ConstantsAssumption DEF Init
    <3>2. Abstract \in Seq(Entry) /\ Len(Abstract) = 1
      <4>1. Abstract \in Seq(Entry) /\ Len(Abstract) \in Nat /\ 1..Len(Abstract) = {1}
        BY <3>1, InitOK, AbstractType DEF AbstractIsSeq
      <4>2. \A l \in Nat : 1..l = {1} => l = 1
        <5>1. ASSUME NEW l \in Nat, 1..l = {1}
              PROVE  l = 1
          <6>1. 1 \in 1..l
            BY <5>1
          <6>2. l \in 1..l
            BY <6>1
          <6>3. l \in {1}
            BY <5>1, <6>2
          <6> QED
            BY <6>3
        <5> QED
          BY <5>1
      <4>4. Len(Abstract) = 1
        BY <4>1, <4>2
      <4> QED
        BY <4>1, <4>4
    <3>3. entry \in Entry
      BY <3>1 DEF Entry, Ids
    <3>4. Abstract[1] = entry
      BY <3>1 DEF Abstract
    <3>5. Abstract = <<entry>>
      <4>1. <<entry>> \in Seq(Entry) /\ Len(<<entry>>) = 1 /\ <<entry>>[1] = entry
        BY <3>3
      <4> HIDE DEF entry
      <4>2. \A i \in 1..1 : Abstract[i] = <<entry>>[i]
        BY <3>4, <4>1
      <4> QED
        BY <3>2, <4>1, <4>2, SeqEqual
    <3> QED
      BY <3>1, <3>5 DEF History!Init, Abstract
  <2> QED
    BY <2>1, <2>2
<1>2. IInv /\ IInv' /\ [Next]_vars => [History!Grow]_Abstract
  <2> SUFFICES ASSUME IInv, IInv', [Next]_vars PROVE [History!Grow]_Abstract
    OBVIOUS
  <2>1. CASE UNCHANGED rows
    BY <2>1 DEF Abstract
  <2>2. CASE \E n \in Nat :
               /\ DOMAIN rows = 1..n /\ DOMAIN rows' = 1..(n + 1)
               /\ \A m \in 1..n : rows'[m] = rows[m]
    BY <2>2, AbstractGrows DEF History!Grow, Abstract
  <2> QED
    BY <2>1, <2>2, StepAppends DEF Appended
<1>3. Spec => [][History!Grow]_Abstract
  BY <1>2, Invariance, PTL DEF Spec
<1> QED
  BY <1>1, <1>3, PTL DEF Spec, RefinesRevisionLog, History!Spec, Abstract

-----------------------------------------------------------------------------
(* The locks.                                                              *)

Locking == {"committing", "committed", "applying", "applied"}
Creating == {"planning", "generating", "assessing"}

\* What a step of request r may do to a lock: leave it to another request,
\* release it, or take it or keep it in a phase that holds it.
Handles(r, holder, next, phases) ==
    \/ next = None
    \/ next = holder /\ holder # r
    \/ next = r /\ req'[r].phase \in phases

LEMMA HandlesStep ==
    ASSUME LockIsReleased, NEW r \in Req, Preserved(r), TypeOK,
           Handles(r, lock, lock', Locking), Handles(r, creating, creating', Creating)
    PROVE  LockIsReleased'
BY DEF LockIsReleased, Preserved, TypeOK, ServerTypeOK, Handles, Locking, Creating

LEMMA ArrivalHandles ==
    ASSUME IInv, LockIsReleased, NEW r \in Req, Arrival(r)
    PROVE  Handles(r, lock, lock', Locking) /\ Handles(r, creating, creating', Creating)
<1>1. req[r].phase = "unsent" /\ lock # r /\ creating # r
  <2>1. req[r].phase = "unsent"
    BY DEF Arrival, CreateBegin, ProposeBegin, Cancel, CommitBegin, UndoBegin, ModifyBegin,
           AnalyzeBegin, Discard, ApplyBegin, RetryBegin, ReportBegin, ReadBegin, Arrives, New
  <2> QED
    BY <2>1, ConstantsAssumption DEF LockIsReleased
<1>2. creating' = creating
  BY DEF Arrival, CreateBegin, ProposeBegin, Cancel, CommitBegin, UndoBegin, ModifyBegin,
         AnalyzeBegin, Discard, ApplyBegin, RetryBegin, ReportBegin, ReadBegin, memory
<1>3. \/ lock' = lock
      \/ /\ lock' = r
         /\ \E kind, op, subject, plan, phase :
               phase \in Locking /\ Suspend(r, Reading(kind, phase, op, subject, plan))
  <2>1. "committing" \in Locking /\ "applying" \in Locking
    BY DEF Locking
  <2> QED
    BY <2>1 DEF Arrival, CreateBegin, ProposeBegin, Cancel, CommitBegin, CommitBegins, CommitRefused,
         UndoBegin, ModifyBegin, AnalyzeBegin, Discard, ApplyBegin, RetryBegin, ReportBegin,
         ReadBegin, memory
<1>4. ASSUME NEW kind, NEW op, NEW subject, NEW plan, NEW phase \in Locking,
             Suspend(r, Reading(kind, phase, op, subject, plan))
      PROVE  req'[r].phase = phase
  BY <1>4 DEF Suspend, Reading, Unsent, IInv, TypeOK
<1> QED
  BY <1>1, <1>2, <1>3, <1>4 DEF Handles

LEMMA ContinuationHandles ==
    ASSUME IInv, LockIsReleased, NEW r \in Req, Continuation(r)
    PROVE  Handles(r, lock, lock', Locking) /\ Handles(r, creating, creating', Creating)
<1> DEFINE q == req[r]
<1>1. /\ lock = r => q.phase \in Locking
      /\ creating = r => q.phase \in Creating
      /\ req \in [Req -> Request]
  BY ConstantsAssumption DEF LockIsReleased, Locking, Creating, IInv, TypeOK
<1>2. CASE CreateLock(r)
  BY <1>1, <1>2 DEF CreateLock, Handles, Locking, Creating, Request
<1>3. CASE CreateStore(r)
  BY <1>1, <1>3 DEF CreateStore, Suspend, Unsent, memory, Handles, Locking, Creating
<1>4. CASE CreateReps(r)
  BY <1>1, <1>4 DEF CreateReps, memory, Handles, Locking, Creating, Request
<1>5. CASE CreateIncomplete(r) \/ CreateStatus(r)
  BY <1>1, <1>5 DEF CreateIncomplete, CreateStatus, Handles, Locking
<1>6. CASE CommitSave(r) \/ ApplySave(r)
  BY <1>1, <1>6 DEF CommitSave, ApplySave, Stores, Suspend, Unsent, memory, Handles, Locking, Creating
<1>7. CASE CommitFinish(r) \/ ApplyFinish(r)
  BY <1>1, <1>7 DEF CommitFinish, ApplyFinish, Handles, Creating
<1>8. CASE Fail(r)
  BY <1>8 DEF Fail, GivesUpLock, GivesUpCreating, Handles
<1>9. CASE \/ ProposeFinish(r) \/ UndoRecord(r) \/ ModifySave(r) \/ ModifyFinish(r)
           \/ AnalyzeFinish(r) \/ RetryStore(r) \/ RetryRecord(r)
           \/ ReportStore(r) \/ ReportActive(r) \/ ReadDecide(r) \/ ReadStore(r)
  <2>1. lock' = lock /\ creating' = creating
    BY <1>9 DEF ProposeFinish, UndoRecord, ModifySave, ModifyFinish, AnalyzeFinish, RetryStore,
                RetryRecord, ReportStore, ReportActive, ReadDecide, ReadStore, memory
  <2>2. q.phase \notin Locking \cup Creating
    BY <1>9 DEF ProposeFinish, UndoRecord, ModifySave, ModifyFinish, AnalyzeFinish, RetryStore,
                RetryRecord, ReportStore, ReportActive, ReadDecide, ReadStore, Locking, Creating
  <2> QED
    BY <1>1, <2>1, <2>2 DEF Handles
<1> QED
  BY <1>2, <1>3, <1>4, <1>5, <1>6, <1>7, <1>8, <1>9 DEF Continuation

\* A lock is only ever held by a request that is still going to release it:
\* no return, failure or lost race leaves the project or the creation locked.
THEOREM LocksAreReleased == Spec => []LockIsReleased
<1>1. Init => LockIsReleased
  BY DEF Init, LockIsReleased
<1>2. IInv /\ LockIsReleased /\ [Next]_vars => LockIsReleased'
  <2> SUFFICES ASSUME IInv, LockIsReleased, [Next]_vars PROVE LockIsReleased'
    OBVIOUS
  <2>1. TypeOK
    BY DEF IInv
  <2>2. CASE Crash
    BY <2>2 DEF Crash, LockIsReleased
  <2>3. ASSUME NEW r \in Req, Arrival(r)
        PROVE  LockIsReleased'
    BY <2>1, <2>3, ArrivalOK, ArrivalHandles, HandlesStep
  <2>4. ASSUME NEW r \in Req, Continuation(r)
        PROVE  LockIsReleased'
    BY <2>1, <2>4, ContinuationOK, ContinuationHandles, HandlesStep
  <2>5. CASE UNCHANGED vars
    BY <2>5 DEF vars, memory, LockIsReleased
  <2> QED
    BY <2>2, <2>3, <2>4, <2>5 DEF Next
<1> QED
  BY <1>1, <1>2, Invariance, PTL DEF Spec

-----------------------------------------------------------------------------
(* The inductive invariant of the operations.                              *)

ModificationType == "modification.operation_completed"
UndoType == "undo.operation_completed"

\* A request that has gone past the point where it makes a proposal.
Settled(r) == req[r].phase \notin {"unsent", "proposing"}

\* A key is on record with a result.
Stands(op, result) ==
    \E i \in ModificationRows : log[i].op = op /\ log[i].revision = result

\* A proposal that undoes inverts the revision it is based on.
Inverts(plan) ==
    plan.mode = "undo" =>
        /\ plan.base \in DOMAIN rows /\ rows[plan.base].kind = "modification"
        /\ plan.regenerate = rows[plan.base].regenerate

\* A request that commits holds the lock, an operation nobody has completed
\* and a proposal nobody has committed: the checks it made before it waited
\* hold as long as it waits.
Commits(r) ==
    LET q == req[r] IN
    q.phase = "committing" =>
        /\ Completed(ModificationType, q.op) = {}
        /\ \A i \in ModificationRows : log[i].subject # q.subject
        /\ Settled(q.subject)
        /\ q.plan.base = Len(q.graph)
        /\ proposals[q.subject] \in {None, q.plan}
        /\ Inverts(q.plan)

\* One that has an answer for a commit or an undo has it from the log.
HasAnswer(q) ==
    \/ q.phase \in {"committed", "undone"}
    \/ q.phase = "answered" /\ q.kind \in {"commit", "undo"}
Answers(r) == HasAnswer(req[r]) => Stands(req[r].op, req[r].answer)

\* Only commits and undos pass through the phases that lead to such an answer;
\* a proposal that was named is made.
Passes(r) ==
    /\ Open(r) /\ req[r].kind \in {"commit", "undo"} =>
          req[r].phase \in {"committing", "committed", "undone"}
    /\ Known(r) => Settled(r)

\* The lock has one holder, and that is the request that changes the project.
Holds(r) == req[r].phase \in Locking => lock = r

\* What was committed is not committed again: its proposal is forgotten, or is
\* based on a revision that is not the last any more.
Spent(i) ==
    LET p == log[i].subject IN
    /\ p \in Req /\ Settled(p)
    /\ proposals[p] # None => proposals[p].base < log[i].revision

OpInv ==
    /\ OncePerOperation
    /\ UndoFollowsModification
    /\ \A i \in ModificationRows : Spent(i)
    /\ \A i \in DOMAIN log : log[i].type = UndoType => Stands(log[i].op, log[i].revision)
    /\ \A p \in Req : proposals[p] # None => Inverts(proposals[p])
    /\ \A r \in Req : Holds(r) /\ Commits(r) /\ Answers(r) /\ Passes(r)

-----------------------------------------------------------------------------
(* What a step of request r may do, the commit of a revision apart.        *)

\* It adds at most one row to the log, and not that of a modification.
LogEffect ==
    \/ UNCHANGED log
    \/ \E row \in LogRow :
          /\ row.type # ModificationType
          /\ row.type = UndoType => Stands(row.op, row.revision)
          /\ log' = Append(log, row)

\* It adds at most one revision, and not that of a commit or an undo.
RowsEffect ==
    \/ UNCHANGED rows
    \/ \E n \in Nat \ DOMAIN rows :
          /\ DOMAIN rows' = DOMAIN rows \cup {n}
          /\ \A m \in DOMAIN rows : rows'[m] = rows[m]
          /\ rows'[n].kind \notin {"modification", "undo"}

\* It forgets proposals, and makes one only of a request that had made none.
ProposalsEffect(r) ==
    \A p \in Req :
       \/ proposals'[p] \in {None, proposals[p]}
       \/ p = r /\ ~Settled(r) /\ Inverts(proposals'[r])

\* It takes the lock when it is free, and gives up no other request's.
LockEffect(r) ==
    /\ lock' = lock \/ lock \in {None, r}
    /\ Holds(r)'

\* It leaves request r as a request must be.
Sends(r) ==
    /\ Settled(r) => Settled(r)'
    /\ Commits(r)' /\ Answers(r)' /\ Passes(r)'

Effects(r) ==
    LogEffect /\ RowsEffect /\ ProposalsEffect(r) /\ LockEffect(r) /\ Sends(r)

\* The rows of the log are where they were, and what is new is no modification.
LEMMA LogFrame ==
    ASSUME TypeOK, LogEffect
    PROVE  /\ DOMAIN log \subseteq DOMAIN log'
           /\ \A i \in DOMAIN log : log'[i] = log[i]
           /\ \A i \in DOMAIN log' \ DOMAIN log :
                 /\ log'[i].type # ModificationType
                 /\ log'[i].type = UndoType => Stands(log'[i].op, log'[i].revision)
           /\ ModificationRows' = ModificationRows
<1>1. CASE UNCHANGED log
  BY <1>1 DEF ModificationRows
<1>2. ASSUME NEW row \in LogRow, row.type # ModificationType,
             row.type = UndoType => Stands(row.op, row.revision), log' = Append(log, row)
      PROVE  /\ DOMAIN log \subseteq DOMAIN log'
             /\ \A i \in DOMAIN log : log'[i] = log[i]
             /\ \A i \in DOMAIN log' \ DOMAIN log :
                   /\ log'[i].type # ModificationType
                   /\ log'[i].type = UndoType => Stands(log'[i].op, log'[i].revision)
             /\ ModificationRows' = ModificationRows
  <2>1. log \in Seq(LogRow) /\ Len(log) \in Nat /\ DOMAIN log = 1..Len(log)
    BY DEF TypeOK, ServerTypeOK
  <2>2. /\ DOMAIN log' = 1..(Len(log) + 1)
        /\ \A i \in 1..Len(log) : log'[i] = log[i]
        /\ log'[Len(log) + 1] = row
    BY <1>2, <2>1, AppendProperties
  <2>3. \A i \in DOMAIN log' : i \in DOMAIN log \/ i = Len(log) + 1
    BY <2>1, <2>2
  <2>4. DOMAIN log \subseteq DOMAIN log'
    BY <2>1, <2>2
  <2>5. ModificationRows' = ModificationRows
    BY <1>2, <2>1, <2>2, <2>3, <2>4 DEF ModificationRows, ModificationType
  <2> QED
    BY <1>2, <2>1, <2>2, <2>3, <2>4, <2>5
<1> QED
  BY <1>1, <1>2 DEF LogEffect

\* A revision that is stored stays, and new ones are no commits.
LEMMA RowsFrame ==
    ASSUME RowsEffect
    PROVE  /\ DOMAIN rows \subseteq DOMAIN rows'
           /\ \A n \in DOMAIN rows : rows'[n] = rows[n]
           /\ \A n \in DOMAIN rows' \ DOMAIN rows : rows'[n].kind \notin {"modification", "undo"}
BY DEF RowsEffect

\* Such a step keeps the invariant.
LEMMA EffectsStep ==
    ASSUME IInv, OpInv, NEW r \in Req, Preserved(r), Effects(r)
    PROVE  OpInv'
<1>1. /\ DOMAIN log \subseteq DOMAIN log'
      /\ \A i \in DOMAIN log : log'[i] = log[i]
      /\ \A i \in DOMAIN log' \ DOMAIN log :
            /\ log'[i].type # ModificationType
            /\ log'[i].type = UndoType => Stands(log'[i].op, log'[i].revision)
      /\ ModificationRows' = ModificationRows
  BY LogFrame DEF IInv, Effects
<1>2. /\ DOMAIN rows \subseteq DOMAIN rows'
      /\ \A n \in DOMAIN rows : rows'[n] = rows[n]
      /\ \A n \in DOMAIN rows' \ DOMAIN rows : rows'[n].kind \notin {"modification", "undo"}
  BY RowsFrame DEF Effects
<1>3. ModificationRows \subseteq DOMAIN log
  BY DEF ModificationRows
<1>4. \A s \in Req \ {r} : req'[s] = req[s]
  BY DEF Preserved
<1>5. \A p \in Req : Settled(p) => Settled(p)'
  BY <1>4 DEF Settled, Effects, Sends
<1>6. OncePerOperation'
  <2>1. \A i \in ModificationRows : log'[i] = log[i]
    BY <1>1, <1>3
  <2>2. {n \in DOMAIN rows' : rows'[n].kind \in {"modification", "undo"}}
           = {n \in DOMAIN rows : rows[n].kind \in {"modification", "undo"}}
    BY <1>2
  <2> QED
    BY <1>1, <2>1, <2>2 DEF OpInv, OncePerOperation
<1>7. UndoFollowsModification'
  <2> SUFFICES ASSUME NEW n \in DOMAIN rows', rows'[n].kind = "undo"
               PROVE  /\ n > 1 /\ rows'[n - 1].kind = "modification"
                      /\ rows'[n].regenerate = rows'[n - 1].regenerate
    BY DEF UndoFollowsModification
  <2>1. n \in DOMAIN rows /\ rows'[n] = rows[n]
    BY <1>2
  <2>2. /\ n > 1 /\ rows[n - 1].kind = "modification"
        /\ rows[n].regenerate = rows[n - 1].regenerate
    BY <2>1 DEF OpInv, UndoFollowsModification
  <2>3. n - 1 \in DOMAIN rows
    <3>1. project # None /\ DOMAIN rows = 1..Latest /\ Latest \in Nat
      BY <2>1 DEF IInv, HistoryInv, LinearHistory, TypeOK, ServerTypeOK, Project, Latest
    <3> QED
      BY <2>1, <2>2, <3>1
  <2> QED
    BY <1>2, <2>1, <2>2, <2>3
<1>8. \A p \in Req : Settled(p) => proposals'[p] \in {None, proposals[p]}
  BY DEF Effects, ProposalsEffect
<1>9. \A i \in ModificationRows' : Spent(i)'
  <2> SUFFICES ASSUME NEW i \in ModificationRows PROVE Spent(i)'
    BY <1>1
  <2>1. log'[i] = log[i] /\ Spent(i)
    BY <1>1, <1>3 DEF OpInv
  <2> QED
    BY <2>1, <1>5, <1>8 DEF Spent
<1>10. (\A i \in DOMAIN log : log[i].type = UndoType => Stands(log[i].op, log[i].revision))'
  <2> SUFFICES ASSUME NEW i \in DOMAIN log', log'[i].type = UndoType
               PROVE  \E j \in ModificationRows :
                         log'[j].op = log'[i].op /\ log'[j].revision = log'[i].revision
    BY <1>1 DEF Stands
  <2>1. Stands(log'[i].op, log'[i].revision)
    BY <1>1 DEF OpInv
  <2> QED
    BY <2>1, <1>1, <1>3 DEF Stands
<1>11. \A p \in Req : proposals'[p] # None => Inverts(proposals[p])'
  <2> SUFFICES ASSUME NEW p \in Req, proposals'[p] # None PROVE Inverts(proposals[p])'
    OBVIOUS
  <2>1. Inverts(proposals'[p])
    BY DEF OpInv, Effects, ProposalsEffect
  <2> QED
    BY <2>1, <1>2 DEF Inverts
<1>12. ASSUME NEW s \in Req
       PROVE  (Holds(s) /\ Commits(s) /\ Answers(s) /\ Passes(s))'
  <2>1. CASE s = r
    BY <2>1 DEF Effects, LockEffect, Sends
  <2>2. CASE s # r
    <3>1. req'[s] = req[s]
      BY <2>2, <1>4
    <3>2. Holds(s) /\ Commits(s) /\ Answers(s) /\ Passes(s)
      BY DEF OpInv
    <3>3. Holds(s)'
      BY <2>2, <3>1, <3>2, ConstantsAssumption DEF Holds, Effects, LockEffect
    <3>4. Answers(s)'
      <4>1. \A i \in ModificationRows : log'[i] = log[i]
        BY <1>1, <1>3
      <4> QED
        BY <3>1, <3>2, <4>1, <1>1 DEF Answers, Stands
    <3>5. Passes(s)'
      BY <3>1, <3>2, <1>5 DEF Passes, Open, Known
    <3>6. Commits(s)'
      <4> SUFFICES ASSUME req[s].phase = "committing"
                   PROVE  Commits(s)'
        BY <3>1 DEF Commits
      <4>1. /\ Completed(ModificationType, req[s].op) = {}
            /\ \A i \in ModificationRows : log[i].subject # req[s].subject
            /\ Settled(req[s].subject)
            /\ req[s].plan.base = Len(req[s].graph)
            /\ proposals[req[s].subject] \in {None, req[s].plan}
            /\ Inverts(req[s].plan)
        BY <3>2 DEF Commits
      <4>2. req[s].subject \in Req
        BY DEF IInv, Equipped
      <4>3. Completed(ModificationType, req[s].op)' = {}
        BY <4>1, <3>1, <1>1 DEF Completed
      <4>4. \A i \in ModificationRows' : log'[i].subject # req'[s].subject
        BY <4>1, <3>1, <1>1, <1>3
      <4>5. Settled(req[s].subject)'
        BY <4>1, <4>2, <3>1, <1>5 DEF Settled
      <4>6. proposals'[req'[s].subject] \in {None, req'[s].plan}
        BY <4>1, <4>2, <3>1, <1>8
      <4>7. Inverts(req[s].plan)'
        BY <4>1, <3>1, <1>2 DEF Inverts
      <4> QED
        BY <4>1, <4>3, <4>4, <4>5, <4>6, <4>7, <3>1 DEF Commits
    <3> QED
      BY <3>3, <3>4, <3>5, <3>6
  <2> QED
    BY <2>1, <2>2
<1> QED
  BY <1>6, <1>7, <1>9, <1>10, <1>11, <1>12 DEF OpInv

-----------------------------------------------------------------------------
(* What the steps of a request do.                                         *)

\* A request that closes is what it is closed as.
LEMMA CloseFields ==
    ASSUME IInv, NEW r \in Req, NEW kind, NEW phase, NEW op, NEW subject, NEW answer, NEW status,
           Close(r, kind, phase, op, subject, answer, status)
    PROVE  /\ req'[r].kind = kind /\ req'[r].phase = phase /\ req'[r].op = op
           /\ req'[r].subject = subject /\ req'[r].answer = answer
BY DEF Close, Unsent, IInv, TypeOK

\* A request that waits has read the project as it is.
LEMMA ReadingFields ==
    ASSUME IInv, NEW r \in Req, NEW kind, NEW phase, NEW op, NEW subject, NEW plan,
           Suspend(r, Reading(kind, phase, op, subject, plan))
    PROVE  /\ req'[r].kind = kind /\ req'[r].phase = phase /\ req'[r].op = op
           /\ req'[r].subject = subject /\ req'[r].plan = plan
           /\ req'[r].graph = project.graph /\ req'[r].reps = project.reps
BY DEF Suspend, Reading, Unsent, IInv, TypeOK

\* A request that is no commit and no undo, and is past its proposal or has
\* not made it.
Ordinary(r) ==
    /\ req'[r].kind \notin {"commit", "undo"}
    /\ req'[r].phase \notin {"unsent", "committing", "committed", "undone"}
    /\ req'[r].phase = "proposing" => ~Settled(r) /\ req'[r].subject # r

LEMMA OrdinarySends ==
    ASSUME NEW r \in Req, Ordinary(r)
    PROVE  Sends(r)
BY DEF Ordinary, Sends, Settled, Commits, Answers, HasAnswer, Passes, Open, Known, Closed

\* A step that leaves log, revisions and proposals alone.
LEMMA NoEffect ==
    ASSUME NEW r \in Req, IInv, UNCHANGED <<rows, log, proposals>>
    PROVE  LogEffect /\ RowsEffect /\ ProposalsEffect(r)
BY DEF LogEffect, RowsEffect, ProposalsEffect

\* An ordinary step has nothing to do with the lock.
LEMMA OrdinaryEffects ==
    ASSUME IInv, NEW r \in Req, Ordinary(r), req'[r].phase \notin Locking, lock' = lock,
           LogEffect, RowsEffect, ProposalsEffect(r)
    PROVE  Effects(r)
BY OrdinarySends DEF Effects, LockEffect, Holds

\* The requests that are no commit and no undo, when they arrive.
LEMMA OrdinaryArrival ==
    ASSUME IInv, OpInv, NEW r \in Req,
           \/ CreateBegin(r) \/ ModifyBegin(r) \/ AnalyzeBegin(r) \/ Discard(r) \/ ReadBegin(r)
           \/ \E key \in MaybeKey : ProposeBegin(r, key)
           \/ \E p \in Req : Cancel(r, p)
           \/ \E rep \in Reps, key \in MaybeKey : RetryBegin(r, rep, key)
           \/ \E rep \in Reps, tag \in Req \cup {None}, status \in Statuses :
                 ReportBegin(r, rep, tag, status)
    PROVE  Effects(r)
<1>1. CASE CreateBegin(r)
  <2>1. req'[r].kind = "create" /\ req'[r].phase = "queued"
    BY <1>1 DEF CreateBegin, Suspend, Unsent, IInv, TypeOK
  <2> QED
    BY <1>1, <2>1, NoEffect, OrdinaryEffects DEF CreateBegin, durable, memory, Ordinary, Locking
<1>2. CASE ModifyBegin(r)
  <2>1. req'[r].kind = "modify" /\ req'[r].phase \in {"refused", "modifying"}
    BY <1>2, CloseFields, ReadingFields DEF ModifyBegin, Refuse
  <2> QED
    BY <1>2, <2>1, NoEffect, OrdinaryEffects DEF ModifyBegin, durable, memory, Ordinary, Locking
<1>3. CASE AnalyzeBegin(r)
  <2>1. req'[r].kind = "analyze" /\ req'[r].phase = "analyzing"
    BY <1>3, ReadingFields DEF AnalyzeBegin
  <2> QED
    BY <1>3, <2>1, NoEffect, OrdinaryEffects DEF AnalyzeBegin, durable, memory, Ordinary, Locking
<1>4. CASE Discard(r)
  <2>1. req'[r].kind = "discard" /\ req'[r].phase \in {"refused", "answered"}
    BY <1>4, CloseFields DEF Discard, Refuse
  <2> QED
    BY <1>4, <2>1, NoEffect, OrdinaryEffects DEF Discard, durable, Ordinary, Locking
<1>5. CASE ReadBegin(r)
  <2>1. req'[r].kind = "read" /\ req'[r].phase = "reading"
    BY <1>5, ReadingFields DEF ReadBegin
  <2> QED
    BY <1>5, <2>1, NoEffect, OrdinaryEffects DEF ReadBegin, durable, memory, Ordinary, Locking
<1>6. ASSUME NEW key \in MaybeKey, ProposeBegin(r, key)
      PROVE  Effects(r)
  <2>1. /\ req'[r].kind = "propose" /\ req'[r].phase \in {"answered", "proposing"}
        /\ req'[r].phase = "proposing" => req'[r].subject = None
    BY <1>6, CloseFields, ReadingFields DEF ProposeBegin
  <2>2. ~Settled(r)
    BY <1>6 DEF ProposeBegin, Arrives, New, Settled
  <2> QED
    BY <1>6, <2>1, <2>2, NoEffect, OrdinaryEffects, ConstantsAssumption
       DEF ProposeBegin, durable, memory, Ordinary, Locking
<1>7. ASSUME NEW p \in Req, Cancel(r, p)
      PROVE  Effects(r)
  <2>1. req'[r].kind = "cancel" /\ req'[r].phase \in {"refused", "answered"}
    BY <1>7, CloseFields DEF Cancel, Refuse
  <2>2. LogEffect
    <3>1. CASE proposals[p] = None
      BY <1>7, <3>1 DEF Cancel, LogEffect
    <3>2. CASE proposals[p] # None
      <4> DEFINE row == [type |-> "modification.cancelled", op |-> p, subject |-> p,
                         revision |-> proposals[p].base]
      <4>1. row \in LogRow
        BY <3>2 DEF LogRow, LogTypes, OpIds, IInv, TypeOK, ServerTypeOK, Proposal
      <4>2. log' = Append(log, row)
        BY <1>7, <3>2 DEF Cancel, Record
      <4>3. row.type = "modification.cancelled"
        OBVIOUS
      <4> HIDE DEF row
      <4> QED
        BY <4>1, <4>2, <4>3 DEF LogEffect, ModificationType, UndoType
    <3> QED
      BY <3>1, <3>2
  <2>3. ProposalsEffect(r)
    BY <1>7 DEF Cancel, ProposalsEffect, IInv, TypeOK, ServerTypeOK
  <2> QED
    BY <1>7, <2>1, <2>2, <2>3, OrdinaryEffects DEF Cancel, Ordinary, Locking, RowsEffect
<1>8. ASSUME NEW rep \in Reps, NEW key \in MaybeKey, RetryBegin(r, rep, key)
      PROVE  Effects(r)
  <2>1. req'[r].kind = "retry" /\ req'[r].phase \in {"refused", "answered", "regenerating"}
    BY <1>8, CloseFields, ReadingFields DEF RetryBegin, Refuse
  <2> QED
    BY <1>8, <2>1, NoEffect, OrdinaryEffects DEF RetryBegin, durable, memory, Ordinary, Locking
<1>9. ASSUME NEW rep \in Reps, NEW tag \in Req \cup {None}, NEW status \in Statuses,
             ReportBegin(r, rep, tag, status)
      PROVE  Effects(r)
  <2>1. req'[r].kind = "report" /\ req'[r].phase \in {"refused", "reporting"}
    <3>1. CASE Refuse(r, "report", None)
      BY <3>1, CloseFields DEF Refuse
    <3>2. ASSUME NEW table,
                 Suspend(r, [Unsent EXCEPT !.kind = "report", !.phase = "reporting",
                                           !.subject = rep, !.reps = table])
          PROVE  req'[r].kind = "report" /\ req'[r].phase = "reporting"
      BY <3>2 DEF Suspend, Unsent, IInv, TypeOK
    <3> QED
      BY <1>9, <3>1, <3>2 DEF ReportBegin
  <2> QED
    BY <1>9, <2>1, NoEffect, OrdinaryEffects DEF ReportBegin, durable, memory, Ordinary, Locking
<1> QED
  BY <1>1, <1>2, <1>3, <1>4, <1>5, <1>6, <1>7, <1>8, <1>9

\* A request that is closed with an answer for a commit or an undo has it from
\* the log.
LEMMA ClosedSends ==
    ASSUME IInv, NEW r \in Req, NEW kind, NEW phase \in Closed, NEW op, NEW subject, NEW answer,
           NEW status, Close(r, kind, phase, op, subject, answer, status),
           phase = "answered" /\ kind \in {"commit", "undo"} =>
              \E i \in ModificationRows' : log'[i].op = op /\ log'[i].revision = answer
    PROVE  Sends(r) /\ req'[r].phase \notin Locking
<1>1. /\ req'[r].kind = kind /\ req'[r].phase = phase /\ req'[r].op = op
      /\ req'[r].answer = answer
  BY CloseFields
<1>2. Answers(r)'
  BY <1>1 DEF Answers, HasAnswer, Stands, Closed
<1> QED
  BY <1>1, <1>2 DEF Sends, Settled, Commits, Passes, Open, Closed, Locking

\* The result recorded for a key is one it is on record with.
LEMMA RecordedStands ==
    ASSUME NEW op, NEW result \in Recorded(ModificationType, op)
    PROVE  Stands(op, result)
BY DEF Recorded, Completed, Stands, ModificationRows, ModificationType

\* A commit that begins is one that nobody has made.
LEMMA CommitBeginsEffect ==
    ASSUME IInv, OpInv, NEW r \in Req, req[r].phase = "unsent",
           NEW kind \in {"commit", "undo"}, NEW op \in OpIds, NEW p \in Req,
           NEW plan, CommitBegins(r, kind, op, p, plan),
           Inverts(plan), Settled(p) \/ p = r,
           \A i \in ModificationRows : log[i].subject # p,
           UNCHANGED <<rows, log>>, proposals'[p] = plan
    PROVE  Sends(r) /\ LockEffect(r)
<1>1. /\ req'[r].kind = kind /\ req'[r].phase = "committing" /\ req'[r].op = op
      /\ req'[r].subject = p /\ req'[r].plan = plan /\ req'[r].graph = project.graph
  BY ReadingFields DEF CommitBegins
<1>2. Commits(r)'
  <2>1. Completed(ModificationType, req[r].op)' = {}
    BY <1>1 DEF CommitBegins, Completed, ModificationType
  <2>2. \A i \in ModificationRows' : log'[i].subject # req'[r].subject
    BY <1>1 DEF ModificationRows
  <2>3. Settled(req[r].subject)'
    <3>1. p # r => req'[p] = req[p]
      BY DEF CommitBegins, Suspend, IInv, TypeOK
    <3> QED
      BY <1>1, <3>1 DEF Settled
  <2>4. req'[r].plan.base = Len(req'[r].graph)
    BY <1>1 DEF CommitBegins, Applies, Latest
  <2>5. Inverts(req[r].plan)'
    BY <1>1 DEF Inverts
  <2> QED
    BY <1>1, <2>1, <2>2, <2>3, <2>4, <2>5 DEF Commits
<1>3. Holds(r)' /\ lock = None
  BY <1>1 DEF CommitBegins, Holds
<1> QED
  BY <1>1, <1>2, <1>3 DEF Sends, Settled, LockEffect, Answers, HasAnswer, Passes, Open, Known

\* A commit that is refused, or answered again, changes nothing.
LEMMA CommitClosesEffect ==
    ASSUME IInv, OpInv, NEW r \in Req,
           NEW kind \in {"commit", "undo"}, NEW op, NEW plan,
           UNCHANGED lock,
           ModificationRows' = ModificationRows,
           \A i \in ModificationRows : log'[i] = log[i],
           \/ CommitRefused(r, kind, op, plan)
           \/ Refuse(r, kind, op)
           \/ \E subject, result : /\ Stands(op, result)
                                   /\ Close(r, kind, "answered", op, subject, result, None)
    PROVE  Sends(r) /\ LockEffect(r)
<1>1. Sends(r) /\ req'[r].phase \notin Locking
  <2>1. CASE CommitRefused(r, kind, op, plan) \/ Refuse(r, kind, op)
    <3>1. Close(r, kind, "refused", op, None, 0, None) /\ "refused" \in Closed
      BY <2>1 DEF CommitRefused, Refuse, Closed
    <3> QED
      BY <3>1, ClosedSends
  <2>2. ASSUME NEW subject, NEW result, Stands(op, result),
               Close(r, kind, "answered", op, subject, result, None)
        PROVE  Sends(r) /\ req'[r].phase \notin Locking
    <3>1. "answered" \in Closed
      BY DEF Closed
    <3>2. \E i \in ModificationRows' : log'[i].op = op /\ log'[i].revision = result
      BY <2>2 DEF Stands
    <3> QED
      BY <2>2, <3>1, <3>2, ClosedSends
  <2> QED
    BY <2>1, <2>2
<1> QED
  BY <1>1 DEF LockEffect, Holds

\* The proposal a client commits was not committed before: it would be based
\* on a revision that is not the last one.
LEMMA NotYetCommitted ==
    ASSUME IInv, OpInv, NEW p \in Req, project # None,
           proposals[p] # None, Applies(proposals[p])
    PROVE  \A i \in ModificationRows : log[i].subject # p
<1> SUFFICES ASSUME NEW i \in ModificationRows, log[i].subject = p PROVE FALSE
  OBVIOUS
<1>1. log[i].revision \in DOMAIN rows
  BY DEF OpInv, OncePerOperation
<1>2. log[i].revision <= Latest /\ log[i].revision \in Nat /\ Latest \in Nat
  BY <1>1, LatestType DEF IInv, HistoryInv, LinearHistory
<1>3. proposals[p].base < log[i].revision /\ proposals[p].base = Latest
  BY DEF OpInv, Spent, Applies
<1> QED
  BY <1>2, <1>3

LEMMA CommitBeginEffects ==
    ASSUME IInv, OpInv, NEW r \in Req, NEW p \in Req, NEW key \in MaybeKey, CommitBegin(r, p, key)
    PROVE  Effects(r)
<1> DEFINE op == IF key = None THEN p ELSE key
<1>1. /\ req[r].phase = "unsent" /\ project # None /\ op \in OpIds
      /\ Settled(p) /\ UNCHANGED <<rows, log, proposals>>
  BY DEF CommitBegin, Arrives, New, Exists, durable, OpIds, MaybeKey, OpInv, Passes
<1> HIDE DEF op
<1>2. LogEffect /\ RowsEffect /\ ProposalsEffect(r)
  BY <1>1, NoEffect
<1>3. Sends(r) /\ LockEffect(r)
  <2>1. CASE CommitBegins(r, "commit", op, p, proposals[p])
    <3>1. proposals[p] # None /\ Applies(proposals[p])
      BY <2>1 DEF CommitBegins
    <3>2. Inverts(proposals[p])
      BY <3>1 DEF OpInv
    <3>3. \A i \in ModificationRows : log[i].subject # p
      BY <1>1, <3>1, NotYetCommitted
    <3>4. proposals'[p] = proposals[p]
      BY <1>1
    <3> QED
      BY <1>1, <2>1, <3>2, <3>3, <3>4, CommitBeginsEffect
  <2>2. CASE CommitRefused(r, "commit", op, proposals[p])
    BY <1>1, <2>2, CommitClosesEffect DEF CommitRefused, ModificationRows
  <2>3. ASSUME NEW result \in Recorded(ModificationType, op),
               Close(r, "commit", "answered", op, p, result, None), UNCHANGED lock
        PROVE  Sends(r) /\ LockEffect(r)
    <3>1. Stands(op, result)
      BY <2>3, RecordedStands
    <3> QED
      BY <1>1, <2>3, <3>1, CommitClosesEffect DEF ModificationRows
  <2> QED
    BY <2>1, <2>2, <2>3 DEF CommitBegin, op, ModificationType
<1> QED
  BY <1>2, <1>3 DEF Effects

\* An undo that is on record is on record as a modification too.
LEMMA UndoneStands ==
    ASSUME OpInv, NEW op, NEW result \in Recorded(UndoType, op)
    PROVE  Stands(op, result)
<1>1. PICK i \in DOMAIN log :
         log[i].type = UndoType /\ log[i].op = op /\ log[i].revision = result
  BY DEF Recorded, Completed
<1>2. Stands(log[i].op, log[i].revision)
  BY <1>1 DEF OpInv
<1> QED
  BY <1>1, <1>2

\* A row that makes an undo repeatable agrees with that of its commit.
LEMMA UndoRow ==
    ASSUME IInv, NEW op \in OpIds, NEW subject \in Req, NEW result \in Nat, Stands(op, result),
           log' = Record(UndoType, op, subject, result)
    PROVE  LogEffect
<1> DEFINE row == [type |-> UndoType, op |-> op, subject |-> subject, revision |-> result]
<1>1. row \in LogRow
  BY DEF LogRow, LogTypes, UndoType
<1>2. row.type # ModificationType /\ row.op = op /\ row.revision = result
  BY DEF UndoType, ModificationType
<1>3. log' = Append(log, row)
  BY DEF Record
<1> HIDE DEF row
<1> QED
  BY <1>1, <1>2, <1>3 DEF LogEffect

LEMMA UndoBeginEffects ==
    ASSUME IInv, OpInv, NEW r \in Req, NEW key \in MaybeKey, UndoBegin(r, key)
    PROVE  Effects(r)
<1> DEFINE op == IF key = None THEN UndoKey(Latest) ELSE key
<1>1. /\ req[r].phase = "unsent" /\ ~Settled(r) /\ project # None /\ UNCHANGED rows
  BY DEF UndoBegin, Arrives, New, Exists, Settled
<1>2. op \in OpIds
  BY <1>1, LatestType DEF OpIds, UndoKey, MaybeKey
<1> HIDE DEF op
<1>3. RowsEffect
  BY <1>1 DEF RowsEffect
<1>4. CASE /\ UNCHANGED <<log, proposals, lock>>
           /\ \/ Refuse(r, "undo", op)
              \/ \E result \in Recorded(UndoType, op) :
                    Close(r, "undo", "answered", op, None, result, None)
  <2>1. ModificationRows' = ModificationRows /\ \A i \in ModificationRows : log'[i] = log[i]
    BY <1>4 DEF ModificationRows
  <2>2. Sends(r) /\ LockEffect(r)
    BY <1>4, <2>1, UndoneStands, CommitClosesEffect
  <2> QED
    BY <1>1, <1>4, <2>2, NoEffect DEF Effects
<1>5. CASE /\ Undoable /\ proposals' = [proposals EXCEPT ![r] = UndoPlan]
           /\ \/ CommitBegins(r, "undo", op, r, UndoPlan) /\ UNCHANGED log
              \/ CommitRefused(r, "undo", op, UndoPlan) /\ UNCHANGED log
              \/ /\ \E result \in Recorded(ModificationType, op) :
                       /\ log' = Record(UndoType, op, r, result)
                       /\ Close(r, "undo", "answered", op, r, result, None)
                 /\ UNCHANGED lock
  <2>1. proposals'[r] = UndoPlan /\ \A p \in Req \ {r} : proposals'[p] = proposals[p]
    BY <1>5 DEF IInv, TypeOK, ServerTypeOK
  <2>2. Inverts(UndoPlan)
    BY <1>1, <1>5, LatestType DEF Inverts, UndoPlan, Undoable
  <2>3. ProposalsEffect(r)
    <3>1. Inverts(proposals'[r])
      BY <2>1, <2>2
    <3> QED
      BY <1>1, <2>1, <3>1 DEF ProposalsEffect
  <2>4. CASE CommitBegins(r, "undo", op, r, UndoPlan) /\ UNCHANGED log
    <3>1. \A i \in ModificationRows : log[i].subject # r
      BY <1>1 DEF OpInv, Spent
    <3> QED
      BY <1>1, <1>2, <1>3, <2>1, <2>2, <2>3, <2>4, <3>1, CommitBeginsEffect
         DEF Effects, LogEffect
  <2>5. CASE CommitRefused(r, "undo", op, UndoPlan) /\ UNCHANGED log
    <3>1. ModificationRows' = ModificationRows /\ \A i \in ModificationRows : log'[i] = log[i]
      BY <2>5 DEF ModificationRows
    <3>2. Sends(r) /\ LockEffect(r)
      BY <2>5, <3>1, CommitClosesEffect DEF CommitRefused
    <3> QED
      BY <1>3, <2>3, <2>5, <3>2 DEF Effects, LogEffect
  <2>6. ASSUME NEW result \in Recorded(ModificationType, op),
               log' = Record(UndoType, op, r, result),
               Close(r, "undo", "answered", op, r, result, None), UNCHANGED lock
        PROVE  Effects(r)
    <3>1. Stands(op, result) /\ result \in Nat
      BY <2>6, RecordedStands, RecordedType DEF IInv
    <3>2. LogEffect
      BY <1>2, <2>6, <3>1, UndoRow
    <3>3. ModificationRows' = ModificationRows /\ \A i \in ModificationRows : log'[i] = log[i]
      BY <3>2, LogFrame DEF ModificationRows, IInv
    <3>4. Sends(r) /\ LockEffect(r)
      BY <2>6, <3>1, <3>3, CommitClosesEffect
    <3> QED
      BY <1>3, <2>3, <3>2, <3>4 DEF Effects
  <2> QED
    BY <1>5, <2>4, <2>5, <2>6
<1> QED
  BY <1>4, <1>5 DEF UndoBegin, op, ModificationType, UndoType

LEMMA ApplyBeginEffects ==
    ASSUME IInv, OpInv, NEW r \in Req, ApplyBegin(r)
    PROVE  Effects(r)
<1>1. LogEffect /\ RowsEffect /\ ProposalsEffect(r)
  BY NoEffect DEF ApplyBegin, durable
<1>2. CASE Refuse(r, "apply", None) /\ UNCHANGED lock
  <2>1. req'[r].kind = "apply" /\ req'[r].phase = "refused"
    BY <1>2, CloseFields DEF Refuse
  <2> QED
    BY <1>1, <1>2, <2>1, OrdinaryEffects DEF Ordinary, Locking
<1>3. CASE /\ lock = None /\ lock' = r
           /\ Suspend(r, Reading("apply", "applying", None, scenario.id, scenario.plan))
  <2>1. req'[r].kind = "apply" /\ req'[r].phase = "applying"
    BY <1>3, ReadingFields
  <2>2. Sends(r)
    BY <2>1, OrdinarySends DEF Ordinary
  <2> QED
    BY <1>1, <1>3, <2>1, <2>2 DEF Effects, LockEffect, Holds
<1> QED
  BY <1>2, <1>3 DEF ApplyBegin

\* A request that arrives.
LEMMA ArrivalEffects ==
    ASSUME IInv, OpInv, NEW r \in Req, Arrival(r)
    PROVE  Effects(r)
BY OrdinaryArrival, CommitBeginEffects, UndoBeginEffects, ApplyBeginEffects DEF Arrival

\* A revision that is neither a modification's nor an undo's.
LEMMA SaveRows ==
    ASSUME IInv, NEW r \in Req, NEW kind, kind \notin {"modification", "undo"},
           NEW base, NEW regenerate, NEW reps, NEW status,
           SaveCommit(r, kind, base, regenerate, reps, status)
    PROVE  RowsEffect
<1> DEFINE number == Len(req[r].graph) + 1
           row == [id |-> r, parent |-> LastOf(req[r].graph), base |-> base,
                   kind |-> kind, regenerate |-> regenerate]
<1>1. number \in Nat
  BY PlanType
<1>2. /\ number \notin DOMAIN rows
      /\ rows' = [n \in DOMAIN rows \cup {number} |-> IF n = number THEN row ELSE rows[n]]
  BY DEF SaveCommit, NumberIsFree
<1>3. row.kind = kind
  OBVIOUS
<1> HIDE DEF number, row
<1> QED
  BY <1>1, <1>2, <1>3 DEF RowsEffect

\* The answer of a request that is finished.
LEMMA FinishFields ==
    ASSUME IInv, NEW r \in Req, NEW answer, NEW status, Finish(r, answer, status)
    PROVE  /\ req'[r].kind = req[r].kind /\ req'[r].phase = "answered"
           /\ req'[r].op = req[r].op /\ req'[r].answer = answer
BY CloseFields DEF Finish

\* A request under way that does not commit is no commit.
LEMMA OrdinaryKind ==
    ASSUME OpInv, NEW r \in Req,
           req[r].phase \notin {"unsent", "committing", "committed", "undone"} \cup Closed
    PROVE  req[r].kind \notin {"commit", "undo"}
BY DEF OpInv, Passes, Open

\* A request that is finished with what it was doing.
LEMMA FinishEffects ==
    ASSUME IInv, OpInv, NEW r \in Req,
           req[r].phase \notin {"unsent", "committing", "committed", "undone"} \cup Closed,
           NEW answer, NEW status, Finish(r, answer, status),
           lock' = lock, LogEffect, RowsEffect, ProposalsEffect(r)
    PROVE  Effects(r)
<1>1. req'[r].kind \notin {"commit", "undo"} /\ req'[r].phase = "answered"
  BY OrdinaryKind, FinishFields
<1> QED
  BY <1>1, OrdinaryEffects DEF Ordinary, Locking

\* A creation.
LEMMA CreateEffects ==
    ASSUME IInv, OpInv, NEW r \in Req,
           \/ CreateLock(r) \/ CreateStore(r) \/ CreateIncomplete(r)
           \/ CreateReps(r) \/ CreateStatus(r)
    PROVE  Effects(r)
<1>1. CASE CreateLock(r)
  <2>1. req[r].phase = "queued" /\ UNCHANGED <<rows, log, proposals, lock>>
    BY <1>1 DEF CreateLock, durable
  <2>2. LogEffect /\ RowsEffect /\ ProposalsEffect(r)
    BY <2>1, NoEffect
  <2>3. CASE Finish(r, Latest, project.status)
    BY <2>1, <2>2, <2>3, FinishEffects DEF Closed
  <2>4. CASE req' = [req EXCEPT ![r].phase = "planning"]
    <3>1. req'[r].kind = req[r].kind /\ req'[r].phase = "planning"
      BY <2>4 DEF IInv, TypeOK, Request
    <3>2. req[r].kind \notin {"commit", "undo"}
      BY <2>1, OrdinaryKind DEF Closed
    <3> QED
      BY <2>1, <2>2, <3>1, <3>2, OrdinaryEffects DEF Ordinary, Locking
  <2> QED
    BY <1>1, <2>3, <2>4 DEF CreateLock
<1>2. CASE CreateStore(r)
  <2>1. RowsEffect
    BY <1>2, SaveRows DEF CreateStore
  <2>2. req'[r].kind = "create" /\ req'[r].phase = "generating"
    BY <1>2 DEF CreateStore, Suspend, Unsent, IInv, TypeOK
  <2> QED
    BY <1>2, <2>1, <2>2, OrdinaryEffects
       DEF CreateStore, memory, LogEffect, ProposalsEffect, Ordinary, Locking
<1>3. CASE CreateIncomplete(r)
  <2>1. RowsEffect
    BY <1>3, SaveRows DEF CreateIncomplete
  <2> QED
    BY <1>3, <2>1, FinishEffects DEF CreateIncomplete, LogEffect, ProposalsEffect, Closed
<1>4. CASE CreateReps(r)
  <2>1. req[r].phase = "generating" /\ UNCHANGED <<rows, log, proposals, lock>>
    BY <1>4 DEF CreateReps, memory
  <2>2. req'[r].kind = req[r].kind /\ req'[r].phase = "assessing"
    <3>1. PICK list : req' = [req EXCEPT ![r].phase = "assessing", ![r].reps = list]
      BY <1>4 DEF CreateReps
    <3> QED
      BY <3>1 DEF IInv, TypeOK, Request
  <2>3. req[r].kind \notin {"commit", "undo"}
    BY <2>1, OrdinaryKind DEF Closed
  <2> QED
    BY <2>1, <2>2, <2>3, NoEffect, OrdinaryEffects DEF Ordinary, Locking
<1>5. CASE CreateStatus(r)
  BY <1>5, NoEffect, FinishEffects DEF CreateStatus, Closed
<1> QED
  BY <1>1, <1>2, <1>3, <1>4, <1>5

\* A proposal that is made is an edit, of a request that had made none.
LEMMA ProposeFinishEffects ==
    ASSUME IInv, OpInv, NEW r \in Req, ProposeFinish(r)
    PROVE  Effects(r)
<1>1. req'[r].kind = "propose" /\ req'[r].phase = "answered"
  BY CloseFields DEF ProposeFinish
<1>2. ProposalsEffect(r)
  <2>1. PICK set \in RegenerateSets :
          proposals' = [proposals EXCEPT ![r] =
              [base |-> Len(req[r].graph), baseId |-> LastOf(req[r].graph),
               mode |-> "edit", regenerate |-> set]]
    BY DEF ProposeFinish
  <2> DEFINE plan == [base |-> Len(req[r].graph), baseId |-> LastOf(req[r].graph),
                      mode |-> "edit", regenerate |-> set]
  <2>2. ~Settled(r) /\ proposals \in [Req -> Proposal \cup {None}]
    BY DEF ProposeFinish, Settled, IInv, TypeOK, ServerTypeOK
  <2>3. Inverts(plan)
    BY DEF Inverts
  <2>4. proposals' = [proposals EXCEPT ![r] = plan]
    BY <2>1
  <2> HIDE DEF plan
  <2> QED
    BY <2>2, <2>3, <2>4 DEF ProposalsEffect
<1> QED
  BY <1>1, <1>2, OrdinaryEffects
     DEF ProposeFinish, durable, LogEffect, RowsEffect, Ordinary, Locking

\* The commit is done: its proposal is forgotten and its lock released.
LEMMA CommitFinishEffects ==
    ASSUME IInv, OpInv, NEW r \in Req, CommitFinish(r)
    PROVE  Effects(r)
<1>1. /\ req[r].phase = "committed" /\ req[r].subject \in Req /\ req[r].answer \in Nat
      /\ req[r].kind \in {"commit", "undo"} /\ UNCHANGED <<rows, log>>
  BY DEF CommitFinish, durable, IInv, Equipped, TypeOK, Request
<1>2. LogEffect /\ RowsEffect
  BY <1>1 DEF LogEffect, RowsEffect
<1>3. ProposalsEffect(r)
  BY <1>1 DEF CommitFinish, ProposalsEffect, IInv, TypeOK, ServerTypeOK
<1>4. lock = r /\ lock' = None
  BY <1>1 DEF CommitFinish, OpInv, Holds, Locking
<1>5. PICK i \in ModificationRows : log[i].op = req[r].op /\ log[i].revision = req[r].answer
  BY <1>1 DEF OpInv, Answers, HasAnswer, Stands
<1>6. i \in ModificationRows' /\ log'[i] = log[i]
  BY <1>1 DEF ModificationRows
<1>7. Sends(r) /\ req'[r].phase \notin Locking
  <2>1. CASE Finish(r, req[r].answer, None)
    <3>1. /\ Close(r, req[r].kind, "answered", req[r].op, req[r].subject, req[r].answer, None)
          /\ "answered" \in Closed
      BY <2>1 DEF Finish, Closed
    <3> QED
      BY <1>5, <1>6, <3>1, ClosedSends
  <2>2. CASE req[r].kind = "undo" /\ Stores(r, "undone", req[r].answer)
    <3>1. /\ req'[r].phase = "undone" /\ req'[r].op = req[r].op
          /\ req'[r].answer = req[r].answer /\ req'[r].kind = "undo"
      <4>1. "undone" \in Stored /\ TypeOK
        BY DEF Stored, IInv
      <4> QED
        BY <1>1, <2>2, <4>1, StoresStep
    <3>2. Answers(r)'
      BY <1>5, <1>6, <3>1 DEF Answers, Stands
    <3> QED
      BY <3>1, <3>2 DEF Sends, Settled, Commits, Passes, Known, Locking
  <2> QED
    BY <2>1, <2>2 DEF CommitFinish
<1> QED
  BY <1>2, <1>3, <1>4, <1>7 DEF Effects, LockEffect, Holds

\* The row that makes an undo repeatable repeats the answer.
LEMMA UndoRecordEffects ==
    ASSUME IInv, OpInv, NEW r \in Req, UndoRecord(r)
    PROVE  Effects(r)
<1>1. /\ req[r].phase = "undone" /\ req[r].op \in OpIds /\ req[r].answer \in Nat
      /\ UNCHANGED <<rows, proposals, lock>>
  BY DEF UndoRecord, memory, IInv, Equipped, TypeOK, Request
<1>2. Stands(req[r].op, req[r].answer)
  BY <1>1 DEF OpInv, Answers, HasAnswer
<1>3. LogEffect
  BY <1>1, <1>2, UndoRow DEF UndoRecord, UndoType
<1>4. PICK i \in ModificationRows : log[i].op = req[r].op /\ log[i].revision = req[r].answer
  BY <1>2 DEF Stands
<1>5. i \in ModificationRows' /\ log'[i] = log[i]
  BY <1>3, LogFrame DEF ModificationRows, IInv
<1>6. /\ Close(r, req[r].kind, "answered", req[r].op, req[r].subject, req[r].answer, None)
      /\ "answered" \in Closed
  BY DEF UndoRecord, Finish, Closed
<1>7. Sends(r) /\ req'[r].phase \notin Locking
  BY <1>4, <1>5, <1>6, ClosedSends
<1> QED
  BY <1>1, <1>3, <1>7 DEF Effects, RowsEffect, ProposalsEffect, LockEffect, Holds

\* A change that is neither a commit nor an undo.
LEMMA ChangeEffects ==
    ASSUME IInv, OpInv, NEW r \in Req,
           ModifySave(r) \/ ModifyFinish(r) \/ ApplySave(r) \/ ApplyFinish(r)
    PROVE  Effects(r)
<1>1. CASE ModifySave(r)
  <2>1. req[r].phase = "modifying" /\ UNCHANGED <<log, proposals, lock>>
    BY <1>1 DEF ModifySave, memory
  <2>2. RowsEffect
    BY <1>1, SaveRows DEF ModifySave
  <2>3. req'[r].kind = req[r].kind /\ req'[r].phase = "modified"
    BY <1>1, PlanType, StoresStep DEF ModifySave, Stored, IInv
  <2>4. req[r].kind \notin {"commit", "undo"}
    BY <2>1, OrdinaryKind DEF Closed
  <2> QED
    BY <2>1, <2>2, <2>3, <2>4, OrdinaryEffects DEF LogEffect, ProposalsEffect, Ordinary, Locking
<1>2. CASE ModifyFinish(r)
  BY <1>2, NoEffect, FinishEffects DEF ModifyFinish, durable, memory, Closed
<1>3. CASE ApplySave(r)
  <2>1. req[r].phase = "applying" /\ UNCHANGED <<log, proposals, lock>>
    BY <1>3 DEF ApplySave, memory
  <2>2. RowsEffect
    BY <1>3, SaveRows DEF ApplySave
  <2>3. req'[r].kind = req[r].kind /\ req'[r].phase = "applied"
    BY <1>3, PlanType, StoresStep DEF ApplySave, Stored, IInv
  <2>4. req[r].kind \notin {"commit", "undo"} /\ lock = r
    BY <2>1, OrdinaryKind DEF Closed, OpInv, Holds, Locking
  <2>5. Sends(r)
    BY <2>3, <2>4, OrdinarySends DEF Ordinary
  <2> QED
    BY <2>1, <2>2, <2>4, <2>5 DEF Effects, LogEffect, ProposalsEffect, LockEffect, Holds
<1>4. CASE ApplyFinish(r)
  <2>1. /\ req[r].phase = "applied" /\ UNCHANGED <<rows, log, proposals>> /\ lock' = None
        /\ Finish(r, req[r].answer, None)
    BY <1>4 DEF ApplyFinish, durable
  <2>2. req[r].kind \notin {"commit", "undo"} /\ lock = r
    BY <2>1, OrdinaryKind DEF Closed, OpInv, Holds, Locking
  <2>3. req'[r].kind = req[r].kind /\ req'[r].phase = "answered"
    BY <2>1, FinishFields
  <2>4. Sends(r)
    BY <2>2, <2>3, OrdinarySends DEF Ordinary
  <2> QED
    BY <2>1, <2>2, <2>3, <2>4, NoEffect DEF Effects, LockEffect, Holds, Locking
<1> QED
  BY <1>1, <1>2, <1>3, <1>4

\* A step about the representations alone, or a failure.
LEMMA RepresentationEffects ==
    ASSUME IInv, OpInv, NEW r \in Req,
           \/ AnalyzeFinish(r) \/ RetryStore(r) \/ RetryRecord(r) \/ ReportStore(r)
           \/ ReportActive(r) \/ ReadDecide(r) \/ ReadStore(r)
    PROVE  Effects(r)
<1>1. CASE AnalyzeFinish(r)
  <2>1. req'[r].kind = "analyze" /\ req'[r].phase = "answered"
    BY <1>1, CloseFields DEF AnalyzeFinish
  <2> QED
    BY <1>1, <2>1, NoEffect, OrdinaryEffects DEF AnalyzeFinish, durable, Ordinary, Locking
<1>2. CASE RetryStore(r)
  <2>1. req[r].phase = "regenerating" /\ UNCHANGED <<rows, log, proposals, lock>>
    BY <1>2 DEF RetryStore, memory
  <2>2. req'[r].kind = req[r].kind /\ req'[r].phase = "regenerated"
    BY <1>2, PlanType, StoresStep DEF RetryStore, Stored, IInv
  <2>3. req[r].kind \notin {"commit", "undo"}
    BY <2>1, OrdinaryKind DEF Closed
  <2> QED
    BY <2>1, <2>2, <2>3, NoEffect, OrdinaryEffects DEF Ordinary, Locking
<1>3. CASE RetryRecord(r)
  <2>1. /\ req[r].phase = "regenerated" /\ UNCHANGED <<rows, proposals, lock>>
        /\ Finish(r, req[r].answer, None)
    BY <1>3 DEF RetryRecord, memory
  <2>2. LogEffect
    <3>1. CASE req[r].op = None
      BY <1>3, <3>1 DEF RetryRecord, LogEffect
    <3>2. CASE req[r].op # None
      <4> DEFINE row == [type |-> "representation.operation_completed", op |-> req[r].op,
                         subject |-> req[r].subject, revision |-> req[r].answer]
      <4>1. req[r].subject \in Reps /\ req[r].answer \in Nat /\ req[r].op \in OpIds
        BY <2>1, <3>2 DEF IInv, Equipped, TypeOK, Request
      <4>2. row \in LogRow /\ row.type = "representation.operation_completed"
        BY <4>1 DEF LogRow, LogTypes
      <4>3. log' = Append(log, row)
        BY <1>3, <3>2 DEF RetryRecord, Record
      <4> HIDE DEF row
      <4> QED
        BY <4>2, <4>3 DEF LogEffect, ModificationType, UndoType
    <3> QED
      BY <3>1, <3>2
  <2> QED
    BY <2>1, <2>2, FinishEffects DEF RowsEffect, ProposalsEffect, Closed
<1>4. CASE ReportStore(r)
  <2>1. req[r].phase = "reporting" /\ UNCHANGED <<rows, log, proposals, lock>>
    BY <1>4 DEF ReportStore, memory
  <2>2. req'[r].kind = req[r].kind /\ req'[r].phase = "reported"
    BY <1>4 DEF ReportStore, IInv, TypeOK, Request
  <2>3. req[r].kind \notin {"commit", "undo"}
    BY <2>1, OrdinaryKind DEF Closed
  <2> QED
    BY <2>1, <2>2, <2>3, NoEffect, OrdinaryEffects DEF Ordinary, Locking
<1>5. CASE ReportActive(r)
  BY <1>5, NoEffect, FinishEffects DEF ReportActive, durable, Closed
<1>6. CASE ReadDecide(r)
  <2>1. req[r].phase = "reading" /\ UNCHANGED <<rows, log, proposals, lock>>
    BY <1>6 DEF ReadDecide, durable, memory
  <2>2. CASE Finish(r, Len(req[r].graph), None)
    BY <2>1, <2>2, NoEffect, FinishEffects DEF Closed
  <2>3. ASSUME NEW table, req' = [req EXCEPT ![r].phase = "recovering", ![r].reps = table]
        PROVE  Effects(r)
    <3>1. req'[r].kind = req[r].kind /\ req'[r].phase = "recovering"
      BY <2>3 DEF IInv, TypeOK, Request
    <3>2. req[r].kind \notin {"commit", "undo"}
      BY <2>1, OrdinaryKind DEF Closed
    <3> QED
      BY <2>1, <3>1, <3>2, NoEffect, OrdinaryEffects DEF Ordinary, Locking
  <2> QED
    BY <1>6, <2>2, <2>3 DEF ReadDecide
<1>7. CASE ReadStore(r)
  BY <1>7, NoEffect, FinishEffects DEF ReadStore, memory, Closed
<1> QED
  BY <1>1, <1>2, <1>3, <1>4, <1>5, <1>6, <1>7

LEMMA FailEffects ==
    ASSUME IInv, OpInv, NEW r \in Req, Fail(r)
    PROVE  Effects(r)
<1>1. "failed" \in Closed /\ UNCHANGED <<rows, log, proposals>>
  BY DEF Fail, Closed, durable
<1>2. Sends(r) /\ req'[r].phase \notin Locking
  BY <1>1, ClosedSends DEF Fail
<1> QED
  BY <1>1, <1>2, NoEffect DEF Fail, GivesUpLock, Effects, LockEffect, Holds

\* The handlers that go on, but for the one that commits.
LEMMA ContinuationEffects ==
    ASSUME IInv, OpInv, NEW r \in Req, Continuation(r), ~CommitSave(r)
    PROVE  Effects(r)
BY CreateEffects, ProposeFinishEffects, CommitFinishEffects, UndoRecordEffects, ChangeEffects,
   RepresentationEffects, FailEffects DEF Continuation

-----------------------------------------------------------------------------
(* The commit.                                                             *)

\* The revision and the row of its operation are stored in one transaction:
\* the operation is new, its proposal was not committed before, and what it
\* undoes is the revision before it.
LEMMA CommitSaveStep ==
    ASSUME IInv, OpInv, NEW r \in Req, Preserved(r), CommitSave(r)
    PROVE  OpInv'
<1> DEFINE q == req[r]
           number == Len(q.graph) + 1
           kind == IF q.plan.mode = "undo" THEN "undo" ELSE "modification"
           entry == [type |-> ModificationType, op |-> q.op, subject |-> q.subject,
                     revision |-> number]
           row == [id |-> r, parent |-> LastOf(q.graph), base |-> q.plan.baseId,
                   kind |-> kind, regenerate |-> q.plan.regenerate]
<1>0. PICK k \in Nat : k = Len(log) + 1
  BY DEF IInv, TypeOK, ServerTypeOK
<1>1. /\ q.phase = "committing" /\ q.subject \in Req /\ q.op \in OpIds
      /\ q.kind \in {"commit", "undo"} /\ q.plan \in Proposal /\ Len(q.graph) \in Nat
      /\ UNCHANGED <<proposals, lock>>
  BY PlanType DEF CommitSave, IInv, Equipped, Changing, memory
<1>2. /\ Completed(ModificationType, q.op) = {}
      /\ \A i \in ModificationRows : log[i].subject # q.subject
      /\ Settled(q.subject)
      /\ q.plan.base = Len(q.graph)
      /\ proposals[q.subject] \in {None, q.plan}
      /\ Inverts(q.plan)
  BY <1>1 DEF OpInv, Commits
<1>3. lock = r
  BY <1>1 DEF OpInv, Holds, Locking
<1>4. /\ req'[r].phase = "committed" /\ req'[r].kind = q.kind /\ req'[r].op = q.op
      /\ req'[r].answer = number
      /\ \A s \in Req \ {r} : req'[s] = req[s]
  <2>1. Stores(r, "committed", number) /\ "committed" \in Stored /\ number \in Nat /\ TypeOK
    BY <1>1 DEF CommitSave, Stored, IInv
  <2> QED
    BY <2>1, StoresStep
<1>5. DOMAIN rows = 1..Len(q.graph)
  <2>1. IsPrefix(r) /\ NumberIsFree(r)
    BY <1>1 DEF IInv, UpToDate, Changing, Latest, IsPrefix, CommitSave, SaveCommit
  <2> QED
    BY <2>1, FreeNumber DEF IInv
<1>6. /\ DOMAIN rows' = DOMAIN rows \cup {number} /\ number \notin DOMAIN rows
      /\ \A n \in DOMAIN rows : rows'[n] = rows[n]
      /\ rows'[number].kind = kind /\ rows'[number].regenerate = q.plan.regenerate
  <2>1. /\ number \notin DOMAIN rows
        /\ rows' = [n \in DOMAIN rows \cup {number} |-> IF n = number THEN row ELSE rows[n]]
    BY DEF CommitSave, SaveCommit, NumberIsFree
  <2>2. row.kind = kind /\ row.regenerate = q.plan.regenerate
    OBVIOUS
  <2> HIDE DEF row, number, kind
  <2> QED
    BY <2>1, <2>2
<1>7. /\ DOMAIN log = 1..Len(log) /\ Len(log) \in Nat
      /\ DOMAIN log' = 1..k /\ log'[k] = entry
      /\ \A i \in DOMAIN log : log'[i] = log[i]
  <2>1. log' = Append(log, entry)
    BY DEF CommitSave, Record, ModificationType
  <2>2. log \in Seq(LogRow) /\ entry \in LogRow
    BY <1>1 DEF IInv, TypeOK, ServerTypeOK, LogRow, LogTypes, ModificationType
  <2> HIDE DEF entry
  <2> QED
    BY <1>0, <2>1, <2>2, AppendProperties
<1>8. /\ entry.type = ModificationType /\ entry.op = q.op /\ entry.subject = q.subject
      /\ entry.revision = number
  OBVIOUS
<1> HIDE DEF entry, row
<1>9. /\ ModificationRows' = ModificationRows \cup {k} /\ k \notin ModificationRows
      /\ \A i \in ModificationRows : i \in DOMAIN log /\ log'[i] = log[i]
  BY <1>0, <1>7, <1>8 DEF ModificationRows, ModificationType
<1>10. kind \in {"modification", "undo"}
  OBVIOUS
<1>11. OncePerOperation'
  <2> USE DEF OncePerOperation
  <2>1. \A i \in ModificationRows : log[i].revision \in DOMAIN rows
    BY DEF OpInv
  <2>2. ASSUME NEW i \in ModificationRows
        PROVE  /\ log'[i].op # log'[k].op
               /\ log'[i].subject # log'[k].subject
               /\ log'[i].revision # log'[k].revision
    <3>1. log[i].op # q.op
      BY <1>2 DEF ModificationRows, Completed, ModificationType
    <3> HIDE DEF number
    <3> QED
      BY <1>2, <1>6, <1>7, <1>8, <1>9, <2>1, <3>1
  <2>3. ASSUME NEW i \in ModificationRows', NEW j \in ModificationRows',
               \/ log'[i].op = log'[j].op
               \/ log'[i].subject = log'[j].subject
               \/ log'[i].revision = log'[j].revision
        PROVE  i = j
    <3>1. CASE i \in ModificationRows /\ j \in ModificationRows
      BY <1>9, <2>3, <3>1 DEF OpInv
    <3>2. CASE i = k \/ j = k
      BY <1>9, <2>2, <2>3, <3>2
    <3> QED
      BY <1>9, <3>1, <3>2
  <2>4. {log'[i].revision : i \in ModificationRows'}
           = {log[i].revision : i \in ModificationRows} \cup {number}
    <3> HIDE DEF number
    <3> QED
      BY <1>7, <1>8, <1>9
  <2>5. {n \in DOMAIN rows' : rows'[n].kind \in {"modification", "undo"}}
           = {n \in DOMAIN rows : rows[n].kind \in {"modification", "undo"}} \cup {number}
    <3> HIDE DEF number, kind
    <3> QED
      BY <1>6, <1>10
  <2>6. {log[i].revision : i \in ModificationRows}
           = {n \in DOMAIN rows : rows[n].kind \in {"modification", "undo"}}
    BY DEF OpInv
  <2> QED
    BY <2>3, <2>4, <2>5, <2>6
<1>12. UndoFollowsModification'
  <2> SUFFICES ASSUME NEW n \in DOMAIN rows', rows'[n].kind = "undo"
               PROVE  /\ n > 1 /\ rows'[n - 1].kind = "modification"
                      /\ rows'[n].regenerate = rows'[n - 1].regenerate
    BY DEF UndoFollowsModification
  <2>1. CASE n = number
    <3>1. q.plan.mode = "undo"
      BY <1>6, <2>1
    <3>2. /\ Len(q.graph) \in DOMAIN rows /\ rows[Len(q.graph)].kind = "modification"
          /\ q.plan.regenerate = rows[Len(q.graph)].regenerate
      BY <1>2, <3>1 DEF Inverts
    <3>3. n - 1 = Len(q.graph) /\ n > 1
      BY <1>1, <1>5, <2>1, <3>2
    <3> QED
      BY <1>6, <2>1, <3>2, <3>3
  <2>2. CASE n # number
    <3>1. n \in DOMAIN rows /\ rows'[n] = rows[n]
      BY <1>6, <2>2
    <3>2. /\ n > 1 /\ rows[n - 1].kind = "modification"
          /\ rows[n].regenerate = rows[n - 1].regenerate
      BY <2>2, <3>1 DEF OpInv, UndoFollowsModification
    <3>3. n - 1 \in DOMAIN rows
      BY <1>1, <1>5, <3>1, <3>2
    <3> QED
      BY <1>6, <3>1, <3>2, <3>3
  <2> QED
    BY <2>1, <2>2
<1>13. \A p \in Req : Settled(p) => Settled(p)'
  BY <1>4 DEF Settled
<1>14. \A i \in ModificationRows' : Spent(i)'
  <2>1. ASSUME NEW i \in ModificationRows
        PROVE  Spent(i)'
    <3>1. Spent(i) /\ log'[i] = log[i]
      BY <1>9 DEF OpInv
    <3> QED
      BY <1>1, <1>13, <3>1 DEF Spent
  <2>2. Spent(k)'
    <3>1. log'[k].subject = q.subject /\ log'[k].revision = number
      BY <1>7, <1>8
    <3>2. proposals[q.subject] # None => proposals[q.subject].base < number
      BY <1>1, <1>2
    <3>3. q.subject \in Req /\ (q.subject # r => req'[q.subject] = req[q.subject])
      BY <1>1, <1>4
    <3>4. req'[q.subject].phase \notin {"unsent", "proposing"}
      BY <1>2, <1>4, <3>3 DEF Settled
    <3> HIDE DEF number, q
    <3> QED
      BY <1>1, <3>1, <3>2, <3>3, <3>4 DEF Spent, Settled
  <2> QED
    BY <1>9, <2>1, <2>2
<1>15. (\A i \in DOMAIN log : log[i].type = UndoType => Stands(log[i].op, log[i].revision))'
  <2> SUFFICES ASSUME NEW i \in DOMAIN log', log'[i].type = UndoType
               PROVE  \E j \in ModificationRows' :
                         log'[j].op = log'[i].op /\ log'[j].revision = log'[i].revision
    BY DEF Stands
  <2>1. i # k
    BY <1>7, <1>8 DEF ModificationType, UndoType
  <2>2. i \in DOMAIN log /\ log'[i] = log[i]
    BY <1>0, <1>7, <2>1
  <2>3. Stands(log[i].op, log[i].revision)
    BY <2>2 DEF OpInv
  <2> QED
    BY <1>9, <2>2, <2>3 DEF Stands
<1>16. (\A p \in Req : proposals[p] # None => Inverts(proposals[p]))'
  <2>1. \A p \in Req : proposals[p] # None => Inverts(proposals[p])
    BY DEF OpInv
  <2> HIDE DEF number, kind
  <2> QED
    BY <1>1, <1>6, <2>1 DEF Inverts
<1>17. ASSUME NEW s \in Req
       PROVE  (Holds(s) /\ Commits(s) /\ Answers(s) /\ Passes(s))'
  <2>1. CASE s = r
    <3>1. Answers(r)'
      BY <1>4, <1>7, <1>8, <1>9 DEF Answers, Stands
    <3> QED
      BY <1>1, <1>3, <1>4, <2>1, <3>1 DEF Holds, Commits, Passes, Known
  <2>2. CASE s # r
    <3>1. req'[s] = req[s] /\ Holds(s) /\ Commits(s) /\ Answers(s) /\ Passes(s)
      BY <1>4, <2>2 DEF OpInv
    <3>2. req[s].phase \notin Locking
      BY <1>3, <2>2, <3>1 DEF Holds
    <3>3. Answers(s)'
      BY <1>9, <3>1 DEF Answers, Stands
    <3>4. Passes(s)'
      BY <1>13, <3>1 DEF Passes, Open, Known
    <3> QED
      BY <3>1, <3>2, <3>3, <3>4 DEF Holds, Commits, Locking
  <2> QED
    BY <2>1, <2>2
<1> QED
  BY <1>11, <1>12, <1>14, <1>15, <1>16, <1>17 DEF OpInv

-----------------------------------------------------------------------------
(* Restarts, and the theorems about operations.                            *)

\* A restart forgets the proposals and the lock, and keeps the log: what was
\* committed before it is still committed once.
LEMMA CrashKeeps ==
    ASSUME IInv, OpInv, Crash
    PROVE  OpInv'
<1>1. UNCHANGED <<rows, log>> /\ lock' = None /\ \A p \in Req : proposals'[p] = None
  BY DEF Crash, durable
<1>2. ASSUME NEW s \in Req
      PROVE  /\ req'[s] = req[s] \/ (Open(s) /\ req'[s].phase = "lost"
                                     /\ req'[s].kind = req[s].kind /\ req'[s].subject = req[s].subject)
             /\ req'[s].phase \notin Locking
  <2>1. req[s] \in Request
    BY DEF IInv, TypeOK
  <2>2. CASE Open(s)
    BY <2>1, <2>2 DEF Crash, Unsent, Request, Locking
  <2>3. CASE ~Open(s)
    BY <2>1, <2>3 DEF Crash, Open, Closed, Locking
  <2> QED
    BY <2>2, <2>3
<1>3. \A p \in Req : Settled(p) => Settled(p)'
  BY <1>2 DEF Settled
<1>4. OncePerOperation' /\ UndoFollowsModification'
  BY <1>1 DEF OpInv, OncePerOperation, UndoFollowsModification, ModificationRows
<1>5. \A i \in ModificationRows' : Spent(i)'
  BY <1>1, <1>3 DEF OpInv, Spent, ModificationRows
<1>6. (\A i \in DOMAIN log : log[i].type = UndoType => Stands(log[i].op, log[i].revision))'
  BY <1>1 DEF OpInv, Stands, ModificationRows
<1>7. (\A p \in Req : proposals[p] # None => Inverts(proposals[p]))'
  BY <1>1
<1>8. ASSUME NEW s \in Req
      PROVE  (Holds(s) /\ Commits(s) /\ Answers(s) /\ Passes(s))'
  <2>1. (Holds(s) /\ Commits(s))'
    BY <1>2 DEF Holds, Commits, Locking
  <2>2. Answers(s)'
    BY <1>1, <1>2 DEF OpInv, Answers, HasAnswer, Stands, ModificationRows
  <2>3. Passes(s)'
    BY <1>2, <1>3 DEF OpInv, Passes, Open, Known, Closed, Settled
  <2> QED
    BY <2>1, <2>2, <2>3
<1> QED
  BY <1>4, <1>5, <1>6, <1>7, <1>8 DEF OpInv

\* A request that was not sent, or was lost with the process that served it,
\* names and holds nothing.
LEMMA InitRequests ==
    ASSUME Init, NEW s \in Req
    PROVE  /\ req[s].phase \in {"unsent", "lost"}
           /\ req[s].subject = None /\ req[s].reps = NoReps
<1>1. \/ req[s] = Unsent
      \/ req[s] = [Unsent EXCEPT !.kind = "create", !.phase = "lost"]
  BY DEF Init
<1>2. /\ Unsent.phase = "unsent" /\ Unsent.subject = None /\ Unsent.reps = NoReps
      /\ [Unsent EXCEPT !.kind = "create", !.phase = "lost"].phase = "lost"
      /\ [Unsent EXCEPT !.kind = "create", !.phase = "lost"].subject = None
      /\ [Unsent EXCEPT !.kind = "create", !.phase = "lost"].reps = NoReps
  BY DEF Unsent
<1> QED
  BY <1>1, <1>2

\* The server starts without operations.
LEMMA OpInit == Init => OpInv
<1> SUFFICES ASSUME Init PROVE OpInv
  OBVIOUS
<1>1. log = <<>> /\ ModificationRows = {} /\ DOMAIN log = {} /\ \A p \in Req : proposals[p] = None
  <2>1. log = <<>> /\ \A p \in Req : proposals[p] = None
    BY DEF Init
  <2>2. DOMAIN log = {}
    BY <2>1
  <2> QED
    BY <2>1, <2>2 DEF ModificationRows
<1>2. \A n \in DOMAIN rows : rows[n].kind = "create"
  BY DEF Init
<1>3. \A s \in Req : req[s].phase \in {"unsent", "lost"} /\ req[s].subject = None
  BY InitRequests
<1>4. OncePerOperation /\ UndoFollowsModification
  <2>1. {n \in DOMAIN rows : rows[n].kind \in {"modification", "undo"}} = {}
    BY <1>2
  <2>2. {log[i].revision : i \in ModificationRows} = {}
    BY <1>1
  <2> QED
    BY <1>1, <1>2, <2>1, <2>2 DEF OncePerOperation, UndoFollowsModification
<1>5. ASSUME NEW s \in Req
      PROVE  Holds(s) /\ Commits(s) /\ Answers(s) /\ Passes(s)
  <2>1. ~Open(s) /\ ~HasAnswer(req[s])
    BY <1>3 DEF Open, Closed, HasAnswer
  <2>2. Known(s) => Settled(s)
    BY <1>3, ConstantsAssumption DEF Known, Settled
  <2> QED
    BY <1>3, <2>1, <2>2 DEF Holds, Locking, Commits, Answers, Passes
<1> QED
  BY <1>1, <1>4, <1>5 DEF OpInv

\* The invariant is inductive.
LEMMA OpStep == IInv /\ OpInv /\ [Next]_vars => OpInv'
<1> SUFFICES ASSUME IInv, OpInv, [Next]_vars PROVE OpInv'
  OBVIOUS
<1>1. CASE Crash
  BY <1>1, CrashKeeps
<1>2. ASSUME NEW r \in Req, Arrival(r)
      PROVE  OpInv'
  BY <1>2, ArrivalOK, ArrivalEffects, EffectsStep
<1>3. ASSUME NEW r \in Req, Continuation(r)
      PROVE  OpInv'
  <2>1. Preserved(r)
    BY <1>3, ContinuationOK
  <2>2. CASE CommitSave(r)
    BY <2>1, <2>2, CommitSaveStep
  <2>3. CASE ~CommitSave(r)
    BY <1>3, <2>1, <2>3, ContinuationEffects, EffectsStep
  <2> QED
    BY <2>2, <2>3
<1>4. CASE UNCHANGED vars
  BY <1>4 DEF vars, durable, memory, OpInv, OncePerOperation, UndoFollowsModification,
              ModificationRows, Spent, Settled, Stands, Inverts, Holds, Commits, Completed,
              Answers, HasAnswer, Passes, Open, Known
<1> QED
  BY <1>1, <1>2, <1>3, <1>4 DEF Next

\* The invariant holds of every state the server can reach.
LEMMA OpInvariance == Spec => []OpInv
BY OpInit, OpStep, Invariance, PTL DEF Spec

\* A key, or a proposal, produces one revision at most, however often and
\* however concurrently it is sent, and whatever the server forgets when it
\* dies between two requests.
THEOREM OneRevisionPerOperation == Spec => []OncePerOperation
<1>1. OpInv => OncePerOperation
  BY DEF OpInv
<1> QED
  BY <1>1, OpInvariance, PTL

\* An undo is stored right after the modification it inverts, although other
\* requests commit while its representations are regenerated.
THEOREM UndoesTheLastModification == Spec => []UndoFollowsModification
<1>1. OpInv => UndoFollowsModification
  BY DEF OpInv
<1> QED
  BY <1>1, OpInvariance, PTL

\* What a request was answered stays true: its revision is stored, and is
\* what every later request with its key is answered.
THEOREM AnswersStayTrue == Spec => []AnswersAreDurable
<1>1. IInv /\ OpInv => AnswersAreDurable
  <2> SUFFICES ASSUME IInv, OpInv, NEW r \in Req, req[r].phase = "answered",
                      req[r].kind \in {"commit", "undo"}
               PROVE  /\ req[r].answer \in DOMAIN rows
                      /\ Recorded(ModificationType, req[r].op) = {req[r].answer}
    BY DEF AnswersAreDurable, ModificationType
  <2>1. Stands(req[r].op, req[r].answer)
    BY DEF OpInv, Answers, HasAnswer
  <2>2. PICK i \in ModificationRows : log[i].op = req[r].op /\ log[i].revision = req[r].answer
    BY <2>1 DEF Stands
  <2>3. req[r].answer \in DOMAIN rows
    BY <2>2 DEF OpInv, OncePerOperation
  <2>4. i <= i
    BY DEF ModificationRows, IInv, TypeOK, ServerTypeOK
  <2>5. Completed(ModificationType, req[r].op) = {i}
    BY <2>2 DEF OpInv, OncePerOperation, Completed, ModificationRows, ModificationType
  <2> QED
    BY <2>2, <2>3, <2>4, <2>5 DEF Recorded
<1> QED
  BY <1>1, Invariance, OpInvariance, PTL
-----------------------------------------------------------------------------
(* The inductive invariant of the representations.                         *)

\* A record belongs to a revision that is stored; one a change generated, to
\* the revision that change became.
Fits(rec, revisions, requests) ==
    /\ rec.revision \in DOMAIN revisions
    /\ rec.operation # None =>
          /\ requests[rec.operation].phase # "unsent"
          /\ requests[rec.operation].kind \in Changes => revisions[rec.revision].id = rec.operation

\* So do all records of a table, stored or held by a request.
Belongs(table, revisions, requests) ==
    \A rep \in Reps : table[rep] # None => Fits(table[rep], revisions, requests)

\* Those that generate for a revision that exists are not changes.
Generates(q, revisions) ==
    /\ q.phase \in {"queued", "planning", "generating", "regenerating"} => q.kind \notin Changes
    /\ q.phase = "regenerating" => Len(q.graph) \in DOMAIN revisions

RepsInv ==
    /\ project # None => Belongs(project.reps, rows, req)
    /\ \A r \in Req : Belongs(req[r].reps, rows, req) /\ Generates(req[r], rows)

-----------------------------------------------------------------------------
(* What a step does to the tables.                                         *)

\* Revisions stay as they are.
Lasting == \A n \in DOMAIN rows : n \in DOMAIN rows' /\ rows'[n] = rows[n]

\* A request that was sent stays sent, and does not turn into a change.
Follows(s) ==
    /\ req'[s].phase = "unsent" => req[s].phase = "unsent"
    /\ req[s].phase # "unsent" /\ req'[s].kind \in Changes => req[s].kind \in Changes

\* A table that is stored, held by the request, or empty.
Held(r, table) ==
    \/ table = NoReps
    \/ table = req[r].reps
    \/ project # None /\ table = project.reps

\* What the step of request r has to show.
RepsEffect(r) ==
    /\ Follows(r)
    /\ project' # None => Belongs(project'.reps, rows', req')
    /\ Belongs(req'[r].reps, rows', req')
    /\ Generates(req'[r], rows')

\* A record that keeps its revision, and its operation or none, still fits.
LEMMA FitsStep ==
    ASSUME Lasting, \A s \in Req : Follows(s),
           NEW old \in RepRecord(Req), Fits(old, rows, req),
           NEW rec, rec.revision = old.revision, rec.operation \in {None, old.operation}
    PROVE  Fits(rec, rows', req')
BY DEF Fits, Lasting, Follows, RepRecord

\* What was held belongs to the history, and goes on belonging to it.
LEMMA HeldBelongs ==
    ASSUME IInv, RepsInv, NEW r \in Req, Lasting, \A s \in Req : Follows(s),
           NEW table, Held(r, table)
    PROVE  Belongs(table, rows', req')
<1>1. table \in RepTable /\ Belongs(table, rows, req)
  <2>1. NoReps \in RepTable /\ Belongs(NoReps, rows, req)
    BY UnsentType DEF NoReps, Belongs
  <2>2. req[r].reps \in RepTable
    BY DEF IInv, TypeOK, Request
  <2>3. project # None => project.reps \in RepTable
    BY DEF IInv, TypeOK, ServerTypeOK, Project
  <2> QED
    BY <2>1, <2>2, <2>3 DEF Held, RepsInv
<1>2. ASSUME NEW rep \in Reps, table[rep] # None
      PROVE  Fits(table[rep], rows', req')
  BY <1>1, <1>2, FitsStep DEF Belongs, RepTable
<1> QED
  BY <1>2 DEF Belongs

\* A table derived from one that was held: each record is dropped, is made for
\* the history as it is now, or is one that was there, moved or interrupted.
LEMMA DerivedBelongs ==
    ASSUME IInv, RepsInv, NEW r \in Req, Lasting, \A s \in Req : Follows(s),
           NEW old \in RepTable, Held(r, old), NEW table,
           \A rep \in Reps :
              \/ table[rep] = None
              \/ Fits(table[rep], rows', req')
              \/ /\ old[rep] # None
                 /\ table[rep].revision = old[rep].revision
                 /\ table[rep].operation \in {None, old[rep].operation}
    PROVE  Belongs(table, rows', req')
<1>1. Belongs(old, rows, req)
  BY DEF Held, RepsInv, Belongs, NoReps
<1>2. ASSUME NEW rep \in Reps, table[rep] # None
      PROVE  Fits(table[rep], rows', req')
  <2>1. old[rep] # None => old[rep] \in RepRecord(Req) /\ Fits(old[rep], rows, req)
    BY <1>1 DEF Belongs, RepTable
  <2> QED
    BY <1>2, <2>1, FitsStep
<1> QED
  BY <1>2 DEF Belongs

\* The other requests do not change.
LEMMA OthersFollow ==
    ASSUME NEW r \in Req, Preserved(r), Follows(r)
    PROVE  \A s \in Req : Follows(s)
BY DEF Preserved, Follows

\* Such a step keeps the invariant.
LEMMA RepsStep ==
    ASSUME IInv, RepsInv, NEW r \in Req, Preserved(r), Lasting, RepsEffect(r)
    PROVE  RepsInv'
<1>1. \A s \in Req : Follows(s)
  BY OthersFollow DEF RepsEffect
<1>2. ASSUME NEW s \in Req
      PROVE  Belongs(req'[s].reps, rows', req') /\ Generates(req'[s], rows')
  <2>1. CASE s = r
    BY <2>1 DEF RepsEffect
  <2>2. CASE s # r
    <3>1. req'[s] = req[s]
      BY <2>2 DEF Preserved
    <3>2. Belongs(req[s].reps, rows', req')
      BY <1>1, HeldBelongs DEF Held
    <3>3. Generates(req[s], rows')
      BY DEF RepsInv, Generates, Lasting
    <3> QED
      BY <3>1, <3>2, <3>3
  <2> QED
    BY <2>1, <2>2
<1> QED
  BY <1>2 DEF RepsInv, RepsEffect

\* A step that only moves tables about.
LEMMA HeldEffect ==
    ASSUME IInv, RepsInv, NEW r \in Req, Preserved(r), Lasting, Follows(r),
           project' # None => Held(r, project'.reps),
           Held(r, req'[r].reps), Generates(req'[r], rows')
    PROVE  RepsEffect(r)
BY OthersFollow, HeldBelongs DEF RepsEffect
\* A request that closes holds nothing.
LEMMA ClosedHolds ==
    ASSUME IInv, NEW r \in Req, NEW kind, NEW phase \in Closed, NEW op, NEW subject, NEW answer,
           NEW status, Close(r, kind, phase, op, subject, answer, status)
    PROVE  req'[r].reps = NoReps /\ Generates(req'[r], rows')
<1>1. req'[r].phase = phase
  BY CloseFields
<1>2. req'[r].reps = NoReps
  BY DEF Close, Unsent, IInv, TypeOK
<1> QED
  BY <1>1, <1>2 DEF Generates, Closed

\* A request that waits holds what is stored.
LEMMA ReadingHolds ==
    ASSUME IInv, NEW r \in Req, NEW kind, NEW phase, NEW op, NEW subject, NEW plan,
           phase \notin {"queued", "planning", "generating"},
           phase = "regenerating" => kind \notin Changes,
           Suspend(r, Reading(kind, phase, op, subject, plan)), project # None, rows' = rows
    PROVE  Held(r, req'[r].reps) /\ Generates(req'[r], rows')
<1>1. /\ req'[r].kind = kind /\ req'[r].phase = phase
      /\ req'[r].graph = project.graph /\ req'[r].reps = project.reps
  BY ReadingFields
<1>2. Len(project.graph) \in DOMAIN rows
  BY LatestType DEF Latest
<1> QED
  BY <1>1, <1>2 DEF Held, Generates

\* A request that stored its change holds nothing any more.
LEMMA StoresHolds ==
    ASSUME IInv, NEW r \in Req, NEW phase \in Stored, NEW answer, Stores(r, phase, answer)
    PROVE  /\ req'[r].reps = NoReps /\ req'[r].kind = req[r].kind /\ req'[r].phase = phase
           /\ Generates(req'[r], rows')
<1>1. req'[r].phase = phase /\ req'[r].reps = NoReps /\ req'[r].kind = req[r].kind
  BY DEF Stores, Suspend, Unsent, IInv, TypeOK
<1> QED
  BY <1>1 DEF Generates, Stored

\* A request that arrives stores nothing.
LEMMA ArrivalKeeps ==
    ASSUME NEW r \in Req, Arrival(r)
    PROVE  req[r].phase = "unsent" /\ UNCHANGED <<rows, project>>
<1>1. UNCHANGED <<rows, project>>
  BY DEF Arrival, CreateBegin, ProposeBegin, Cancel, CommitBegin, UndoBegin, ModifyBegin,
         AnalyzeBegin, Discard, ApplyBegin, RetryBegin, ReportBegin, ReadBegin, durable
<1>2. req[r].phase = "unsent"
  BY DEF Arrival, CreateBegin, ProposeBegin, Cancel, CommitBegin, UndoBegin, ModifyBegin,
         AnalyzeBegin, Discard, ApplyBegin, RetryBegin, ReportBegin, ReadBegin, Arrives, New
<1> QED
  BY <1>1, <1>2

\* A request that arrives closes, waits with what is stored, or is the report
\* of a browser.
LEMMA ArrivalHolds ==
    ASSUME IInv, NEW r \in Req, Arrival(r),
           ~\E rep \in Reps, tag \in Req \cup {None}, status \in Statuses :
               ReportBegin(r, rep, tag, status)
    PROVE  Held(r, req'[r].reps) /\ Generates(req'[r], rows')
<1>1. rows' = rows
  BY ArrivalKeeps
<1>2. ASSUME NEW kind, NEW phase \in Closed, NEW op, NEW subject, NEW answer, NEW status,
             Close(r, kind, phase, op, subject, answer, status)
      PROVE  Held(r, req'[r].reps) /\ Generates(req'[r], rows')
  BY <1>2, ClosedHolds DEF Held
<1>3. "answered" \in Closed /\ "refused" \in Closed
  BY DEF Closed
<1>4. ASSUME NEW kind, NEW op, Refuse(r, kind, op)
      PROVE  Held(r, req'[r].reps) /\ Generates(req'[r], rows')
  BY <1>2, <1>3, <1>4 DEF Refuse
<1>5. ASSUME NEW kind, NEW phase, NEW op, NEW subject, NEW plan, project # None,
             phase \notin {"queued", "planning", "generating", "regenerating"},
             Suspend(r, Reading(kind, phase, op, subject, plan))
      PROVE  Held(r, req'[r].reps) /\ Generates(req'[r], rows')
  BY <1>1, <1>5, ReadingHolds
<1>6. ASSUME NEW kind, NEW op, NEW subject, NEW plan, project # None, kind \notin Changes,
             Suspend(r, Reading(kind, "regenerating", op, subject, plan))
      PROVE  Held(r, req'[r].reps) /\ Generates(req'[r], rows')
  BY <1>1, <1>6, ReadingHolds
<1>7. ASSUME NEW kind, NEW op, NEW p, NEW plan, project # None,
             CommitBegins(r, kind, op, p, plan) \/ CommitRefused(r, kind, op, plan)
      PROVE  Held(r, req'[r].reps) /\ Generates(req'[r], rows')
  BY <1>4, <1>5, <1>7 DEF CommitBegins, CommitRefused
<1>8. CASE CreateBegin(r)
  <2>1. req'[r].kind = "create" /\ req'[r].phase = "queued" /\ req'[r].reps = NoReps
    BY <1>8 DEF CreateBegin, Suspend, Unsent, IInv, TypeOK
  <2> QED
    BY <2>1 DEF Held, Generates, Changes
<1>9. ASSUME NEW key \in MaybeKey, ProposeBegin(r, key)
      PROVE  Held(r, req'[r].reps) /\ Generates(req'[r], rows')
  BY <1>2, <1>3, <1>5, <1>9 DEF ProposeBegin, Exists
<1>10. ASSUME NEW p \in Req, Cancel(r, p)
       PROVE  Held(r, req'[r].reps) /\ Generates(req'[r], rows')
  BY <1>2, <1>3, <1>4, <1>10 DEF Cancel
<1>11. ASSUME NEW p \in Req, NEW key \in MaybeKey, CommitBegin(r, p, key)
       PROVE  Held(r, req'[r].reps) /\ Generates(req'[r], rows')
  BY <1>2, <1>3, <1>7, <1>11 DEF CommitBegin, Exists
<1>12. ASSUME NEW key \in MaybeKey, UndoBegin(r, key)
       PROVE  Held(r, req'[r].reps) /\ Generates(req'[r], rows')
  BY <1>2, <1>3, <1>4, <1>7, <1>12 DEF UndoBegin, Exists
<1>13. CASE ModifyBegin(r)
  BY <1>4, <1>5, <1>13 DEF ModifyBegin, Exists
<1>14. CASE AnalyzeBegin(r)
  BY <1>5, <1>14 DEF AnalyzeBegin, Exists
<1>15. CASE Discard(r)
  BY <1>2, <1>3, <1>4, <1>15 DEF Discard
<1>16. CASE ApplyBegin(r)
  BY <1>4, <1>5, <1>16 DEF ApplyBegin, Exists
<1>17. ASSUME NEW rep \in Reps, NEW key \in MaybeKey, RetryBegin(r, rep, key)
       PROVE  Held(r, req'[r].reps) /\ Generates(req'[r], rows')
  <2>1. "retry" \notin Changes
    BY DEF Changes
  <2> QED
    BY <1>2, <1>3, <1>4, <1>6, <1>17, <2>1 DEF RetryBegin, Exists
<1>18. CASE ReadBegin(r)
  BY <1>5, <1>18 DEF ReadBegin, Exists
<1> QED
  BY <1>8, <1>9, <1>10, <1>11, <1>12, <1>13, <1>14, <1>15, <1>16, <1>17, <1>18 DEF Arrival

\* A report moves one record of the table that is stored.
LEMMA ReportBeginReps ==
    ASSUME IInv, RepsInv, NEW r \in Req, Preserved(r), Lasting, NEW rep \in Reps,
           NEW tag, NEW status, ReportBegin(r, rep, tag, status)
    PROVE  RepsEffect(r)
<1>1. /\ Follows(r) /\ project # None /\ project' = project /\ project.reps \in RepTable
      /\ project.reps[rep] # None
  BY DEF ReportBegin, Arrives, New, Follows, Exists, durable, IInv, TypeOK, ServerTypeOK, Project
<1>2. \A s \in Req : Follows(s)
  BY <1>1, OthersFollow
<1>3. CASE Refuse(r, "report", None)
  BY <1>1, <1>3, ClosedHolds, HeldEffect DEF Refuse, Closed, Held
<1>4. ASSUME NEW table, table = [project.reps EXCEPT ![rep] = Moved(project.reps[rep], status)],
             Suspend(r, [Unsent EXCEPT !.kind = "report", !.phase = "reporting",
                                       !.subject = rep, !.reps = table])
      PROVE  RepsEffect(r)
  <2>1. req'[r].phase = "reporting" /\ req'[r].reps = table
    BY <1>4 DEF Suspend, Unsent, IInv, TypeOK
  <2>2. project.reps[rep] \in RepRecord(Req)
    BY <1>1 DEF RepTable
  <2>3. /\ Moved(project.reps[rep], status).revision = project.reps[rep].revision
        /\ Moved(project.reps[rep], status).operation = project.reps[rep].operation
    BY <2>2 DEF Moved, RepRecord
  <2>4. \A x \in Reps : \/ table[x] = None
                        \/ /\ project.reps[x] # None
                           /\ table[x].revision = project.reps[x].revision
                           /\ table[x].operation \in {None, project.reps[x].operation}
    BY <1>1, <1>4, <2>3 DEF RepTable
  <2>5. Belongs(table, rows', req')
    BY <1>1, <1>2, <2>4, DerivedBelongs DEF Held
  <2>6. Belongs(project'.reps, rows', req')
    BY <1>1, <1>2, HeldBelongs DEF Held
  <2> QED
    BY <1>1, <2>1, <2>5, <2>6 DEF RepsEffect, Generates
<1> QED
  BY <1>3, <1>4 DEF ReportBegin

\* A request that arrives keeps the tables in order.
LEMMA ArrivalReps ==
    ASSUME IInv, RepsInv, NEW r \in Req, Preserved(r), Lasting, Arrival(r)
    PROVE  RepsEffect(r)
<1>1. CASE \E rep \in Reps, tag \in Req \cup {None}, status \in Statuses :
              ReportBegin(r, rep, tag, status)
  BY <1>1, ReportBeginReps
<1>2. CASE ~\E rep \in Reps, tag \in Req \cup {None}, status \in Statuses :
               ReportBegin(r, rep, tag, status)
  <2>1. Follows(r) /\ project' = project
    BY ArrivalKeeps DEF Follows
  <2> QED
    BY <1>2, <2>1, ArrivalHolds, HeldEffect DEF Held
<1> QED
  BY <1>1, <1>2
\* A request that is answered, or fails, holds nothing and is what it was.
LEMMA EndHolds ==
    ASSUME IInv, NEW r \in Req, NEW kind, kind \in Changes => req[r].kind \in Changes,
           NEW phase \in Closed, NEW op, NEW subject, NEW answer, NEW status,
           Close(r, kind, phase, op, subject, answer, status)
    PROVE  Follows(r) /\ Held(r, req'[r].reps) /\ Generates(req'[r], rows')
<1>1. req'[r].kind = kind /\ req'[r].phase = phase
  BY CloseFields
<1>2. phase # "unsent"
  BY DEF Closed
<1> QED
  BY <1>1, <1>2, ClosedHolds DEF Follows, Held

LEMMA FinishHolds ==
    ASSUME IInv, NEW r \in Req, NEW answer, NEW status, Finish(r, answer, status)
    PROVE  Follows(r) /\ Held(r, req'[r].reps) /\ Generates(req'[r], rows')
BY EndHolds DEF Finish, Closed

LEMMA StoresFollows ==
    ASSUME IInv, NEW r \in Req, NEW phase \in Stored, NEW answer, Stores(r, phase, answer)
    PROVE  Follows(r) /\ Held(r, req'[r].reps) /\ Generates(req'[r], rows')
BY StoresHolds DEF Follows, Held, Stored

\* The continuations that store no table, or one they hold.
LEMMA HeldContinuations ==
    ASSUME IInv, RepsInv, NEW r \in Req, Preserved(r), Lasting,
           \/ CreateLock(r) \/ CreateIncomplete(r) \/ CreateStatus(r)
           \/ ProposeFinish(r) \/ CommitFinish(r) \/ UndoRecord(r)
           \/ ModifyFinish(r) \/ AnalyzeFinish(r) \/ ApplyFinish(r) \/ RetryRecord(r)
           \/ ReportStore(r) \/ ReportActive(r) \/ ReadStore(r) \/ Fail(r)
    PROVE  RepsEffect(r)
<1> USE HeldEffect DEF Held
<1>1. CASE CreateLock(r)
  <2>1. project' = project
    BY <1>1 DEF CreateLock, durable
  <2>2. CASE Finish(r, Latest, project.status)
    BY <2>1, <2>2, FinishHolds
  <2>3. CASE req' = [req EXCEPT ![r].phase = "planning"]
    <3>1. /\ req'[r].phase = "planning" /\ req'[r].kind = req[r].kind
          /\ req'[r].reps = req[r].reps
      BY <2>3 DEF IInv, TypeOK, Request
    <3>2. req[r].kind \notin Changes
      BY <1>1 DEF CreateLock, RepsInv, Generates
    <3> QED
      BY <2>1, <3>1, <3>2 DEF Follows, Generates
  <2> QED
    BY <1>1, <2>2, <2>3 DEF CreateLock
<1>2. CASE CreateIncomplete(r)
  <2>1. project'.reps = NoReps
    BY <1>2 DEF CreateIncomplete, SaveCommit
  <2> QED
    BY <1>2, <2>1, FinishHolds DEF CreateIncomplete
<1>3. CASE CreateStatus(r)
  <2>1. PICK status \in Verdicts : project' = [project EXCEPT !.status = status]
                                  /\ Finish(r, 1, status)
    BY <1>3 DEF CreateStatus
  <2>2. project # None
    BY <1>3 DEF CreateStatus, IInv, UpToDate, Writing
  <2>3. project'.reps = project.reps
    BY <2>1, <2>2 DEF IInv, TypeOK, ServerTypeOK, Project
  <2> QED
    BY <2>1, <2>2, <2>3, FinishHolds
<1>4. CASE ProposeFinish(r)
  <2>1. project' = project /\ "propose" \notin Changes /\ "answered" \in Closed
    BY <1>4 DEF ProposeFinish, durable, Changes, Closed
  <2> QED
    BY <1>4, <2>1, EndHolds DEF ProposeFinish
<1>5. CASE CommitFinish(r)
  <2>1. project' = project /\ "undone" \in Stored
    BY <1>5 DEF CommitFinish, durable, Stored
  <2> QED
    BY <1>5, <2>1, FinishHolds, StoresFollows DEF CommitFinish
<1>6. CASE UndoRecord(r)
  BY <1>6, FinishHolds DEF UndoRecord
<1>7. CASE ModifyFinish(r)
  BY <1>7, FinishHolds DEF ModifyFinish, durable
<1>8. CASE AnalyzeFinish(r)
  <2>1. project' = project /\ "analyze" \notin Changes /\ "answered" \in Closed
    BY <1>8 DEF AnalyzeFinish, durable, Changes, Closed
  <2> QED
    BY <1>8, <2>1, EndHolds DEF AnalyzeFinish
<1>9. CASE ApplyFinish(r)
  BY <1>9, FinishHolds DEF ApplyFinish, durable
<1>10. CASE RetryRecord(r)
  BY <1>10, FinishHolds DEF RetryRecord
<1>11. CASE ReportStore(r)
  <2>1. project # None /\ project'.reps = req[r].reps
    BY <1>11 DEF ReportStore, IInv, UpToDate, Writing, TypeOK, ServerTypeOK, Project
  <2>2. /\ req'[r].phase = "reported" /\ req'[r].kind = req[r].kind
        /\ req'[r].reps = req[r].reps
    BY <1>11 DEF ReportStore, IInv, TypeOK, Request
  <2> QED
    BY <2>1, <2>2 DEF Follows, Generates
<1>12. CASE ReportActive(r)
  BY <1>12, FinishHolds DEF ReportActive, durable
<1>13. CASE ReadStore(r)
  <2>1. project # None /\ project'.reps = req[r].reps
    BY <1>13 DEF ReadStore, IInv, UpToDate, Writing, TypeOK, ServerTypeOK, Project
  <2> QED
    BY <1>13, <2>1, FinishHolds DEF ReadStore
<1>14. CASE Fail(r)
  BY <1>14, EndHolds DEF Fail, durable, Closed
<1> QED
  BY <1>1, <1>2, <1>3, <1>4, <1>5, <1>6, <1>7, <1>8, <1>9, <1>10, <1>11, <1>12, <1>13, <1>14

\* What a change regenerates belongs to the revision it becomes.
LEMMA RegenerateBelongs ==
    ASSUME IInv, RepsInv, NEW r \in Req, Lasting, \A s \in Req : Follows(s),
           req'[r].phase # "unsent", NEW number, number \in DOMAIN rows', rows'[number].id = r,
           NEW set, NEW outcome, NEW table,
           \A rep \in Reps : table[rep] \in {None, Regenerate(r, set, outcome, number)[rep]}
    PROVE  Belongs(table, rows', req')
<1>1. req[r].reps \in RepTable
  BY DEF IInv, TypeOK, Request
<1>2. ASSUME NEW rep \in Reps, table[rep] # None
      PROVE  \/ Fits(table[rep], rows', req')
             \/ req[r].reps[rep] # None /\ table[rep] = req[r].reps[rep]
  <2>1. \/ table[rep] = req[r].reps[rep]
        \/ table[rep] = Regenerated(req[r].reps[rep], number, r, outcome[rep])
    BY <1>2 DEF Regenerate
  <2>2. CASE table[rep] = Regenerated(req[r].reps[rep], number, r, outcome[rep])
    BY <2>2 DEF Regenerated, Fits
  <2> QED
    BY <1>2, <2>1, <2>2
<1> QED
  BY <1>1, <1>2, DerivedBelongs DEF Held

\* A commit, an undo, a modification, a scenario.
LEMMA ChangeReps ==
    ASSUME IInv, RepsInv, NEW r \in Req, Preserved(r), Lasting,
           CommitSave(r) \/ ModifySave(r) \/ ApplySave(r)
    PROVE  RepsEffect(r)
<1> DEFINE number == Len(req[r].graph) + 1
<1>1. PICK phase \in Stored : Stores(r, phase, number)
  BY DEF CommitSave, ModifySave, ApplySave, Stored
<1>2. Follows(r) /\ Held(r, req'[r].reps) /\ Generates(req'[r], rows') /\ req'[r].phase # "unsent"
  BY <1>1, StoresFollows, StoresHolds DEF Stored
<1>3. PICK kind, base, regenerate, reps, status, set, outcome :
         /\ SaveCommit(r, kind, base, regenerate, reps, status)
         /\ \A rep \in Reps : reps[rep] \in {None, Regenerate(r, set, outcome, number)[rep]}
  <2>1. CASE CommitSave(r)
    <3>1. PICK outcome \in Outcomes, status \in Verdicts :
             SaveCommit(r, IF req[r].plan.mode = "undo" THEN "undo" ELSE "modification",
                        req[r].plan.baseId, req[r].plan.regenerate,
                        Regenerate(r, req[r].plan.regenerate, outcome, number), status)
      BY <2>1 DEF CommitSave
    <3> QED
      BY <3>1
  <2>2. CASE ModifySave(r)
    <3>1. PICK outcome \in [{Circuit} -> GenerationEnds] :
             SaveCommit(r, "direct", req[r].plan.baseId, {},
                        Regenerate(r, {Circuit}, outcome, number), "ready")
      BY <2>2 DEF ModifySave
    <3> QED
      BY <3>1
  <2>3. CASE ApplySave(r)
    <3>1. PICK outcome \in Outcomes, removed \in SUBSET (req[r].plan.regenerate \ {Circuit}),
               status \in Verdicts :
             SaveCommit(r, "scenario", req[r].plan.baseId, {},
                        [rep \in Reps |-> IF rep \in removed THEN None
                            ELSE Regenerate(r, req[r].plan.regenerate, outcome, number)[rep]],
                        status)
      BY <2>3 DEF ApplySave
    <3> QED
      BY <3>1
  <2> QED
    BY <2>1, <2>2, <2>3
<1>4. /\ number \in DOMAIN rows' /\ rows'[number].id = r /\ project'.reps = reps
  BY <1>3 DEF SaveCommit
<1> HIDE DEF number
<1>5. Belongs(reps, rows', req')
  BY <1>2, <1>3, <1>4, OthersFollow, RegenerateBelongs
<1> QED
  BY <1>2, <1>4, <1>5, OthersFollow, HeldBelongs DEF RepsEffect
\* The representations requested for a new project are those of its first
\* revision.
LEMMA CreateStoreReps ==
    ASSUME IInv, RepsInv, NEW r \in Req, Preserved(r), Lasting, CreateStore(r)
    PROVE  RepsEffect(r)
<1> DEFINE list == [rep \in Reps |-> Initial(1, r)]
           record == [Unsent EXCEPT !.kind = "create", !.phase = "generating", !.graph = <<r>>,
                                    !.reps = list]
<1>1. SaveCommit(r, "create", None, {}, list, "building") /\ Suspend(r, record)
  BY DEF CreateStore
<1>2. /\ req'[r].kind = "create" /\ req'[r].phase = "generating" /\ req'[r].reps = list
  BY <1>1 DEF Suspend, Unsent, IInv, TypeOK
<1>3. Len(req[r].graph) + 1 = 1
  BY DEF CreateStore, IInv, Equipped
<1>4. 1 \in DOMAIN rows' /\ project'.reps = list
  BY <1>1, <1>3 DEF SaveCommit
<1>5. \A rep \in Reps : list[rep].revision = 1 /\ list[rep].operation = r
  BY DEF Initial
<1> HIDE DEF list, record
<1>6. Belongs(list, rows', req')
  BY <1>2, <1>4, <1>5 DEF Belongs, Fits, Changes
<1> QED
  BY <1>2, <1>4, <1>6 DEF RepsEffect, Follows, Generates, Changes

\* Generating them changes neither their revision nor their operation.
LEMMA CreateRepsReps ==
    ASSUME IInv, RepsInv, NEW r \in Req, Preserved(r), Lasting, CreateReps(r)
    PROVE  RepsEffect(r)
<1> DEFINE table(end) == [rep \in Reps |->
                Generated(req[r].reps[rep], IF rep = Circuit THEN end ELSE "ready")]
<1>0. PICK end \in GenerationEnds :
         /\ project' = [project EXCEPT !.reps = table(end)]
         /\ req' = [req EXCEPT ![r].phase = "assessing", ![r].reps = table(end)]
  BY DEF CreateReps
<1>1. PICK list :
         /\ list = table(end)
         /\ project' = [project EXCEPT !.reps = list]
         /\ req' = [req EXCEPT ![r].phase = "assessing", ![r].reps = list]
  BY <1>0
<1>2. project # None /\ req[r].reps \in RepTable /\ \A rep \in Reps : req[r].reps[rep] # None
  BY DEF CreateReps, IInv, Equipped, UpToDate, Writing, TypeOK, Request
<1>3. project'.reps = list
  BY <1>1, <1>2 DEF IInv, TypeOK, ServerTypeOK, Project
<1>4. req'[r].phase = "assessing" /\ req'[r].kind = req[r].kind /\ req'[r].reps = list
  BY <1>1 DEF IInv, TypeOK, Request
<1>5. Follows(r)
  BY <1>4 DEF Follows
<1>6. \A rep \in Reps : /\ list[rep].revision = req[r].reps[rep].revision
                        /\ list[rep].operation = req[r].reps[rep].operation
  <2> SUFFICES ASSUME NEW rep \in Reps
               PROVE  /\ list[rep].revision = req[r].reps[rep].revision
                      /\ list[rep].operation = req[r].reps[rep].operation
    OBVIOUS
  <2>1. req[r].reps[rep] \in RepRecord(Req)
    BY <1>2 DEF RepTable
  <2>2. PICK outcome : list[rep] = [req[r].reps[rep] EXCEPT !.status = outcome]
    BY <1>1 DEF Generated, Moved
  <2> QED
    BY <2>1, <2>2 DEF RepRecord
<1>7. Belongs(list, rows', req')
  BY <1>2, <1>5, <1>6, OthersFollow, DerivedBelongs DEF Held
<1> QED
  BY <1>3, <1>4, <1>5, <1>7 DEF RepsEffect, Generates

\* A retry generates one representation for the revisions it read.
LEMMA RetryStoreReps ==
    ASSUME IInv, RepsInv, NEW r \in Req, Preserved(r), Lasting, RetryStore(r)
    PROVE  RepsEffect(r)
<1>1. PICK end, table :
         /\ end \in GenerationEnds
         /\ table = [req[r].reps EXCEPT ![req[r].subject] = Regenerated(@, Len(req[r].graph), r, end)]
         /\ project' = [project EXCEPT !.reps = table]
  BY DEF RetryStore
<1>2. /\ project # None /\ req[r].reps \in RepTable /\ req[r].subject \in Reps
      /\ req[r].kind \notin Changes /\ Len(req[r].graph) \in DOMAIN rows
  BY DEF RetryStore, IInv, Equipped, UpToDate, Writing, TypeOK, Request, RepsInv, Generates
<1>3. project'.reps = table
  BY <1>1, <1>2 DEF IInv, TypeOK, ServerTypeOK, Project
<1>4. Stores(r, "regenerated", Len(req[r].graph)) /\ "regenerated" \in Stored
  BY DEF RetryStore, Stored
<1>5. /\ Follows(r) /\ Held(r, req'[r].reps) /\ Generates(req'[r], rows')
      /\ req'[r].kind = req[r].kind /\ req'[r].phase = "regenerated"
  BY <1>4, StoresFollows, StoresHolds
<1>6. ASSUME NEW rep \in Reps
      PROVE  table[rep] = req[r].reps[rep] \/ Fits(table[rep], rows', req')
  <2>1. \/ table[rep] = req[r].reps[rep]
        \/ table[rep] = Regenerated(req[r].reps[rep], Len(req[r].graph), r, end)
    BY <1>1, <1>2 DEF RepTable
  <2>2. CASE table[rep] = Regenerated(req[r].reps[rep], Len(req[r].graph), r, end)
    BY <1>2, <1>5, <2>2 DEF Regenerated, Fits, Lasting
  <2> QED
    BY <2>1, <2>2
<1>7. Belongs(table, rows', req')
  BY <1>2, <1>5, <1>6, OthersFollow, DerivedBelongs DEF Held
<1> QED
  BY <1>3, <1>5, <1>7, OthersFollow, HeldBelongs DEF RepsEffect

\* A generation found interrupted keeps its revision and loses its operation.
LEMMA ReadDecideReps ==
    ASSUME IInv, RepsInv, NEW r \in Req, Preserved(r), Lasting, ReadDecide(r)
    PROVE  RepsEffect(r)
<1>1. project' = project
  BY DEF ReadDecide, durable
<1>2. CASE Finish(r, Len(req[r].graph), None)
  BY <1>1, <1>2, FinishHolds, HeldEffect DEF Held
<1>3. ASSUME NEW table,
             table = [rep \in Reps |-> IF Orphaned(rep, req[r].reps[rep])
                                       THEN Interrupted(req[r].reps[rep]) ELSE req[r].reps[rep]],
             req' = [req EXCEPT ![r].phase = "recovering", ![r].reps = table]
      PROVE  RepsEffect(r)
  <2>1. req'[r].phase = "recovering" /\ req'[r].kind = req[r].kind /\ req'[r].reps = table
    BY <1>3 DEF IInv, TypeOK, Request
  <2>2. Follows(r) /\ req[r].reps \in RepTable
    BY <2>1 DEF Follows, IInv, TypeOK, Request
  <2>3. \A rep \in Reps : \/ table[rep] = None
                          \/ /\ req[r].reps[rep] # None
                             /\ table[rep].revision = req[r].reps[rep].revision
                             /\ table[rep].operation \in {None, req[r].reps[rep].operation}
    BY <1>3 DEF Orphaned, Interrupted
  <2>4. Belongs(table, rows', req')
    BY <2>2, <2>3, OthersFollow, DerivedBelongs DEF Held
  <2>5. project' # None => Belongs(project'.reps, rows', req')
    BY <1>1, <2>2, OthersFollow, HeldBelongs DEF Held
  <2> QED
    BY <2>1, <2>2, <2>4, <2>5 DEF RepsEffect, Generates
<1> QED
  BY <1>2, <1>3 DEF ReadDecide

\* A handler that goes on keeps the tables in order.
LEMMA ContinuationReps ==
    ASSUME IInv, RepsInv, NEW r \in Req, Preserved(r), Lasting, Continuation(r)
    PROVE  RepsEffect(r)
BY HeldContinuations, ChangeReps, CreateStoreReps, CreateRepsReps, RetryStoreReps, ReadDecideReps
   DEF Continuation

\* A restart drops what requests held, and changes no table that is stored.
LEMMA CrashReps ==
    ASSUME IInv, RepsInv, Crash
    PROVE  RepsInv'
<1>1. Lasting /\ project' = project
  BY DEF Crash, durable, Lasting
<1>2. ASSUME NEW s \in Req
      PROVE  /\ Follows(s)
             /\ \/ req'[s] = req[s]
                \/ req'[s].phase = "lost" /\ req'[s].reps = NoReps
  <2>1. CASE Open(s)
    <3>1. /\ req'[s].phase = "lost" /\ req'[s].kind = req[s].kind /\ req'[s].reps = NoReps
      BY <2>1 DEF Crash, Unsent
    <3> QED
      BY <3>1 DEF Follows
  <2>2. CASE ~Open(s)
    BY <2>2 DEF Crash, Follows
  <2> QED
    BY <2>1, <2>2
<1>3. ASSUME NEW s \in Req
      PROVE  Belongs(req'[s].reps, rows', req') /\ Generates(req'[s], rows')
  <2>1. Belongs(req'[s].reps, rows', req')
    BY <1>1, <1>2, HeldBelongs DEF Held
  <2>2. Generates(req'[s], rows')
    BY <1>1, <1>2 DEF RepsInv, Generates, Lasting
  <2> QED
    BY <2>1, <2>2
<1>4. ASSUME project' # None, NEW rep \in Reps, project'.reps[rep] # None
      PROVE  Fits(project'.reps[rep], rows', req')
  <2>1. project.reps[rep] \in RepRecord(Req) /\ Fits(project.reps[rep], rows, req)
    BY <1>1, <1>4 DEF RepsInv, Belongs, IInv, TypeOK, ServerTypeOK, Project, RepTable
  <2> QED
    BY <1>1, <1>2, <2>1, FitsStep
<1> QED
  BY <1>3, <1>4 DEF RepsInv, Belongs

\* The seed's representations are those of the first revision.
LEMMA RepsInit == Init => RepsInv
<1> SUFFICES ASSUME Init PROVE RepsInv
  OBVIOUS
<1>1. \A s \in Req : req[s].reps = NoReps /\ req[s].phase \in {"unsent", "lost"}
  BY InitRequests
<1>2. Belongs(NoReps, rows, req)
  BY DEF Belongs, NoReps
<1>3. ASSUME project # None, NEW rep \in Reps
      PROVE  Fits(project.reps[rep], rows, req)
  <2>1. Seed # None /\ Seed \in Req
    BY <1>3, ConstantsAssumption DEF Init
  <2>2. req[Seed].phase = "lost" /\ req[Seed].kind = "create"
    BY <2>1 DEF Init, Unsent
  <2>3. DOMAIN rows = {1}
    BY <2>1 DEF Init
  <2>4. project.reps[rep] = Generated(Initial(1, Seed), "ready")
    BY <2>1 DEF Init
  <2>5. project.reps[rep].revision = 1 /\ project.reps[rep].operation = Seed
    BY <2>4 DEF Generated, Moved, Initial
  <2> QED
    BY <2>2, <2>3, <2>5 DEF Fits, Changes
<1> QED
  BY <1>1, <1>2, <1>3 DEF RepsInv, Belongs, Generates

\* The invariant is inductive.
LEMMA RepsNext == IInv /\ RepsInv /\ [Next]_vars => RepsInv'
<1> SUFFICES ASSUME IInv, RepsInv, [Next]_vars PROVE RepsInv'
  OBVIOUS
<1>1. Lasting
  BY StepAppends DEF Appended, Lasting
<1>2. CASE Crash
  BY <1>2, CrashReps
<1>3. ASSUME NEW r \in Req, Arrival(r)
      PROVE  RepsInv'
  BY <1>1, <1>3, ArrivalOK, ArrivalReps, RepsStep
<1>4. ASSUME NEW r \in Req, Continuation(r)
      PROVE  RepsInv'
  BY <1>1, <1>4, ContinuationOK, ContinuationReps, RepsStep
<1>5. CASE UNCHANGED vars
  BY <1>5 DEF vars, durable, RepsInv
<1> QED
  BY <1>2, <1>3, <1>4, <1>5 DEF Next

\* A representation that is stored belongs to a revision that was committed;
\* one that a change regenerated, to the revision that very change became:
\* what was generated for a change that lost its race, or failed, is not shown.
THEOREM RepresentationsBelong == Spec => []RepresentationsOfTheirRevision
<1>1. RepsInv => RepresentationsOfTheirRevision
  BY DEF RepsInv, Belongs, Fits, RepresentationsOfTheirRevision
<1>2. Spec => []RepsInv
  BY RepsInit, RepsNext, Invariance, PTL DEF Spec
<1> QED
  BY <1>1, <1>2, PTL
=============================================================================
