------------------------------ MODULE Workspace ------------------------------
(***************************************************************************)
(* The commit protocol of one AURA project: every HTTP request that reads  *)
(* or writes the project row, the revisions table, the operation rows of   *)
(* the event log, the proposals and the scenario of                        *)
(* src/aura/workspace/server.py, over the transactions of                  *)
(* src/aura/infrastructure/persistence/project_repository.py.              *)
(*                                                                         *)
(* Handlers declared "async def" share one event loop: they interleave     *)
(* only where they wait for a worker thread (planning, generating,         *)
(* regenerating), so a stretch of code between two waits is one action.    *)
(* Where such a stretch makes two database transactions it is two actions, *)
(* because a crash or a handler running in a worker thread ("def", here    *)
(* GET project and DELETE scenario) can come between them; `loop' keeps    *)
(* the other loop handlers out.                                            *)
(***************************************************************************)
EXTENDS Sequences, FiniteSets, Representations

CONSTANTS
    Req,             \* requests; each is sent at most once and draws its own uuids
    Seed,            \* the request that created the project in an earlier process, or None
    Kinds,           \* the kinds of request the clients of this instance send
    Keys,            \* Idempotency-Key values, and operationId values of proposals
    Reps,            \* the representations of the project
    Circuit,         \* its circuit schematic
    RegenerateSets,  \* the sets of representations a change may have to regenerate
    Verdicts,        \* the statuses a project may end in: ready, build_incomplete, ...
    Interrupts       \* whether the process may die and restart

ASSUME ConstantsAssumption ==
    /\ Circuit \in Reps
    /\ Seed \in Req \cup {None}
    /\ None \notin Req \cup Keys
    /\ RegenerateSets \subseteq SUBSET Reps
    /\ {"ready", "build_incomplete"} \subseteq Verdicts /\ "building" \notin Verdicts
    /\ Interrupts \in BOOLEAN

VARIABLES
    \* the database
    rows,            \* revisions table: revision number -> row
    project,         \* projects row: revision ids of graph_json, representations, status
    log,             \* operation rows of the events table, oldest first
    \* the memory of the server
    proposals,       \* modification_proposals
    operations,      \* modification_operations: operationId -> proposal
    scenario,        \* the one What-If scenario kept
    lock,            \* holder of the project's modification lock
    creating,        \* holder of the creation lock
    active,          \* active_representation_operations: the generations a client runs
    loop,            \* the handler in the middle of a stretch of loop code
    \* the requests
    req

durable  == <<rows, project, log>>
memory   == <<proposals, operations, scenario, lock, creating, active>>
vars     == <<durable, memory, loop, req>>

-----------------------------------------------------------------------------
Ids == Req

\* operation_id: the client's key, or the proposal's id, or for an undo the
\* text "undo-project-n", n the revision it starts from.
OpIds == Keys \cup Req \cup ({"undo"} \X Nat)
UndoKey(n) == <<"undo", n>>

RootOf(graph) == IF graph = <<>> THEN None ELSE graph[1]                     \* mutant
LastOf(graph) == IF graph = <<>> THEN None ELSE graph[Len(graph)]

Proposal ==
    [base : Nat, baseId : Ids \cup {None}, mode : {"edit", "undo"}, regenerate : SUBSET Reps]
RepTable == [Reps -> RepRecord(Req) \cup {None}]
Project == [graph : Seq(Ids), reps : RepTable, status : Verdicts \cup {"building"}]

\* null is not a record.
ASSUME NoneAssumption == None \notin Project /\ None \notin RepRecord(Req)

RowKinds == {"create", "modification", "undo", "direct", "scenario"}
Row ==
    [id : Ids, parent : Ids \cup {None}, base : Ids \cup {None},
     kind : RowKinds, regenerate : SUBSET Reps]
LogTypes ==
    {"modification.operation_completed", "undo.operation_completed",
     "representation.operation_completed", "modification.cancelled"}
LogRow == [type : LogTypes, op : OpIds, subject : Req \cup Reps, revision : Nat]
RequestKinds ==
    {"create", "propose", "cancel", "commit", "undo", "modify", "analyze",
     "discard", "apply", "retry", "report", "read"}

\* Where a request is.  The awaiting phases are the points where a handler
\* has given up the event loop and holds what it read before; in the stored
\* ones it has made a transaction, keeps the loop and has another one to make.
Awaiting == {"planning", "generating", "proposing", "committing", "modifying",
             "analyzing", "applying", "regenerating"}
InThread == {"queued", "reading", "recovering"}
Stored == {"assessing", "committed", "undone", "modified", "applied", "regenerated"}
Closed == {"answered", "refused", "failed", "lost"}
Phases == {"unsent", "reporting", "reported"} \cup Awaiting \cup InThread \cup Stored \cup Closed

NoReps == [rep \in Reps |-> None]
Request ==
    [kind : RequestKinds \cup {None}, phase : Phases,
     op : OpIds \cup {None},                     \* operation_id
     subject : Req \cup Reps \cup {None},        \* proposal, scenario or representation named
     plan : Proposal \cup {None},                \* the change being made
     graph : Seq(Ids), reps : RepTable,          \* the project as it was read
     answer : Nat, status : Verdicts \cup {"building", None}]
Unsent ==
    [kind |-> None, phase |-> "unsent", op |-> None, subject |-> None,
     plan |-> None, graph |-> <<>>, reps |-> NoReps, answer |-> 0, status |-> None]

-----------------------------------------------------------------------------
(* Steps of a request.                                                     *)

\* Between two waits of one handler no other handler of the loop runs.
HasLoop(r) == loop \in {None, r}

New(r, kind) ==
    /\ kind \in Kinds
    /\ req[r].phase = "unsent"

Arrives(r, kind) == HasLoop(r) /\ New(r, kind)

Suspend(r, record) == req' = [req EXCEPT ![r] = record]

\* What a closed request keeps: what it was about and what it was told.
Close(r, kind, phase, op, subject, answer, status) ==
    req' = [req EXCEPT ![r] =
              [Unsent EXCEPT !.kind = kind, !.phase = phase, !.op = op,
                             !.subject = subject, !.answer = answer, !.status = status]]

Refuse(r, kind, op) == Close(r, kind, "refused", op, None, 0, None)

Finish(r, answer, status) ==
    Close(r, req[r].kind, "answered", req[r].op, req[r].subject, answer, status)

Exists == project # None
Latest == Len(project.graph)
Reading(kind, phase, op, subject, plan) ==
    [Unsent EXCEPT !.kind = kind, !.phase = phase, !.op = op, !.subject = subject,
                   !.plan = plan, !.graph = project.graph, !.reps = project.reps]

\* find_operation: the completed operations of a type with a key, and the
\* result recorded by the newest, the one to be answered again.
LastCompleted(type, op) ==                                                  \* mutant
    {i \in DOMAIN log : i = Len(log) /\ log[i].type = type /\ log[i].op = op}
Completed(type, op) == {i \in DOMAIN log : log[i].type = type /\ log[i].op = op}
Recorded(type, op) ==
    {log[i].revision : i \in {i \in Completed(type, op) : \A j \in Completed(type, op) : j <= i}}

RecordUnkeyed(type, op, subject, revision) ==                               \* mutant
    Append(log, [type |-> type, op |-> subject, subject |-> subject, revision |-> revision])

\* The subject is the proposal or the representation the rows of the same
\* transaction name (proposalId of modification.committed).
Record(type, op, subject, revision) ==
    Append(log, [type |-> type, op |-> op, subject |-> subject, revision |-> revision])

-----------------------------------------------------------------------------
(* save_commit: one transaction writes the project row, the revision and   *)
(* the events.  The revision's primary key refuses a number that is taken, *)
(* and the whole transaction rolls back.                                   *)

NumberIsReplaced(r) == TRUE                                                 \* mutant
NumberIsFree(r) == Len(req[r].graph) + 1 \notin DOMAIN rows

\* Mutant: the project row is written although the revision is refused.
SaveProjectFirst(r, kind, base, regenerate, reps, status) ==
    LET number == Len(req[r].graph) + 1
        row == [id |-> r, parent |-> LastOf(req[r].graph), base |-> base,
                kind |-> kind, regenerate |-> regenerate]
    IN  /\ rows' = [n \in DOMAIN rows \cup {number} |-> IF n \in DOMAIN rows THEN rows[n] ELSE row]
        /\ project' = [graph |-> Append(req[r].graph, r), reps |-> reps, status |-> status]

SaveCommit(r, kind, base, regenerate, reps, status) ==
    LET number == Len(req[r].graph) + 1
        row == [id |-> r, parent |-> LastOf(req[r].graph), base |-> base,
                kind |-> kind, regenerate |-> regenerate]
    IN  /\ NumberIsFree(r)
        /\ rows' = [n \in DOMAIN rows \cup {number} |-> IF n = number THEN row ELSE rows[n]]
        /\ project' = [graph |-> Append(req[r].graph, r), reps |-> reps, status |-> status]

\* A representation list with those of a set generated anew, each with its
\* own outcome; absent ones stay absent.
Regenerate(r, set, outcome, revision) ==
    [rep \in Reps |->
        IF rep \in set /\ req[r].reps[rep] # None
        THEN Regenerated(req[r].reps[rep], revision, r, outcome[rep])
        ELSE req[r].reps[rep]]

Outcomes == [Reps -> GenerationEnds]

\* A handler raises: an artifact that cannot be written, a planner that gives
\* up, a verification that rejects, a transaction that rolls back.  Its finally
\* clauses release what it holds; what it stored before stays stored.
KeepsLock(r) == UNCHANGED lock                                              \* mutant
GivesUpLock(r) == lock' = IF lock = r THEN None ELSE lock
KeepsCreating(r) == UNCHANGED creating                                      \* mutant
GivesUpCreating(r) == creating' = IF creating = r THEN None ELSE creating

Fail(r) ==
    /\ HasLoop(r)
    /\ req[r].phase \in Awaiting \cup Stored
    /\ Close(r, req[r].kind, "failed", req[r].op, req[r].subject, 0, None)
    /\ GivesUpLock(r)
    /\ GivesUpCreating(r)
    /\ loop' = None
    /\ UNCHANGED <<durable, proposals, operations, scenario, active>>

-----------------------------------------------------------------------------
(* POST /api/projects: one at a time under the creation lock, which a      *)
(* worker thread waits for.                                                *)

CreateBegin(r) ==
    /\ Arrives(r, "create")
    /\ Suspend(r, [Unsent EXCEPT !.kind = "create", !.phase = "queued"])
    /\ UNCHANGED <<durable, memory, loop>>

CreateLock(r) ==
    /\ HasLoop(r)
    /\ req[r].phase = "queued"
    /\ creating = None
    /\ \/ /\ Exists
          /\ Finish(r, Latest, project.status)
          /\ UNCHANGED creating
       \/ /\ ~Exists
          /\ req' = [req EXCEPT ![r].phase = "planning"]
          /\ creating' = r
    /\ UNCHANGED <<durable, proposals, operations, scenario, lock, active, loop>>

\* The plan is verified: the project is stored as "building", its
\* representations requested.
CreateStore(r) ==
    /\ HasLoop(r)
    /\ req[r].phase = "planning"
    /\ SaveCommit(r, "create", None, {}, [rep \in Reps |-> Initial(1, r)], "building")
    /\ Suspend(r, [Unsent EXCEPT !.kind = "create", !.phase = "generating", !.graph = <<r>>,
                                 !.reps = [rep \in Reps |-> Initial(1, r)]])
    /\ UNCHANGED <<log, memory, loop>>

\* The plan is rejected twice: only a diagnostic project is stored.
CreateIncomplete(r) ==
    /\ HasLoop(r)
    /\ req[r].phase = "planning"
    /\ SaveCommit(r, "create", None, {}, NoReps, "build_incomplete")
    /\ Finish(r, 1, "build_incomplete")
    /\ creating' = None
    /\ UNCHANGED <<log, proposals, operations, scenario, lock, active, loop>>

\* persist_specs is back: the list it returns replaces the stored one ...
CreateReps(r) ==
    /\ HasLoop(r)
    /\ req[r].phase = "generating"
    /\ \E end \in GenerationEnds :
          LET list == [rep \in Reps |->
                          Generated(req[r].reps[rep], IF rep = Circuit THEN end ELSE "ready")]
          IN  /\ project' = [project EXCEPT !.reps = list]
              /\ req' = [req EXCEPT ![r].phase = "assessing", ![r].reps = list]
    /\ loop' = r
    /\ UNCHANGED <<rows, log, memory>>

\* ... and a second transaction gives the project its status.
CreateStatus(r) ==
    /\ req[r].phase = "assessing"
    /\ \E status \in Verdicts :
          /\ req[r].reps[Circuit].status = "fallback" => status = "build_incomplete"
          /\ project' = [project EXCEPT !.status = status]
          /\ Finish(r, 1, status)
    /\ creating' = None
    /\ loop' = None
    /\ UNCHANGED <<rows, log, proposals, operations, scenario, lock, active>>

-----------------------------------------------------------------------------
(* Proposals of a modification.                                            *)

\* POST modification-proposals (key: its operationId) and, without a key,
\* POST repair-proposal.  The model plans against the graph as read here.
ProposeBegin(r, key) ==
    /\ Arrives(r, "propose")
    /\ Exists
    /\ IF key # None /\ operations[key] # None
       THEN Close(r, "propose", "answered", None, operations[key], 0, None)
       ELSE Suspend(r, Reading("propose", "proposing", key, None, None))
    /\ UNCHANGED <<durable, memory, loop>>

ProposeFinish(r) ==
    /\ HasLoop(r)
    /\ req[r].phase = "proposing"
    /\ \E set \in RegenerateSets :
          proposals' = [proposals EXCEPT ![r] =
              [base |-> Len(req[r].graph), baseId |-> LastOf(req[r].graph),
               mode |-> "edit", regenerate |-> set]]
    /\ operations' = IF req[r].op = None THEN operations
                     ELSE [operations EXCEPT ![req[r].op] = r]
    /\ Close(r, "propose", "answered", None, r, 0, None)
    /\ UNCHANGED <<durable, scenario, lock, creating, active, loop>>

\* The ids a client can name: those a proposal request was answered with.
Known(p) == req[p].kind = "propose" /\ req[p].subject = p

\* DELETE modification-proposals/p: takes no lock.
Cancel(r, p) ==
    /\ Arrives(r, "cancel")
    /\ Known(p)
    /\ \/ /\ proposals[p] # None
          /\ proposals' = [proposals EXCEPT ![p] = None]
          /\ log' = Record("modification.cancelled", p, p, proposals[p].base)
          /\ Close(r, "cancel", "answered", None, p, 0, None)
       \/ /\ proposals[p] = None
          /\ Refuse(r, "cancel", None)
          /\ UNCHANGED <<proposals, log>>
    /\ UNCHANGED <<rows, project, operations, scenario, lock, creating, active, loop>>

-----------------------------------------------------------------------------
(* commit_modification, called for POST commit and by the undo handler.    *)
(* `plan' is the proposal found in memory, None when there is none.        *)

\* The change is made to the graph it was planned for: the number of
\* revisions, then the id of the last one (apply_patch).
AppliesUnchecked(plan) == TRUE                                              \* mutant
Applies(plan) == plan.base = Latest /\ plan.baseId = LastOf(project.graph)

CommitBegins(r, kind, op, p, plan) ==
    /\ Completed("modification.operation_completed", op) = {}
    /\ plan # None
    /\ lock = None
    /\ Applies(plan)
    /\ lock' = r
    /\ Suspend(r, Reading(kind, "committing", op, p, plan))

CommitRefused(r, kind, op, plan) ==
    /\ Completed("modification.operation_completed", op) = {}
    /\ plan # None /\ lock = None => ~Applies(plan)
    /\ Refuse(r, kind, op)
    /\ UNCHANGED lock

CommitBegin(r, p, key) ==
    LET op == IF key = None THEN p ELSE key IN
    /\ Arrives(r, "commit")
    /\ Exists
    /\ Known(p)
    /\ \/ CommitBegins(r, "commit", op, p, proposals[p])
       \/ CommitRefused(r, "commit", op, proposals[p])
       \/ /\ \E result \in Recorded("modification.operation_completed", op) :
                Close(r, "commit", "answered", op, p, result, None)
          /\ UNCHANGED lock
    /\ UNCHANGED <<durable, proposals, operations, scenario, creating, active, loop>>

\* The handler keeps the loop with a result to answer, and needs no longer
\* what it read.
Stores(r, phase, answer) ==
    /\ Suspend(r, [Unsent EXCEPT !.kind = req[r].kind, !.phase = phase, !.op = req[r].op,
                                 !.subject = req[r].subject, !.answer = answer])
    /\ loop' = r

\* Everything is regenerated: one transaction stores the revision and the
\* completed operation.
CommitSave(r) ==
    LET plan == req[r].plan
        number == Len(req[r].graph) + 1
        kind == IF plan.mode = "undo" THEN "undo" ELSE "modification"
    IN  /\ HasLoop(r)
        /\ req[r].phase = "committing"
        /\ \E outcome \in Outcomes, status \in Verdicts :
              SaveCommit(r, kind, plan.baseId, plan.regenerate,
                         Regenerate(r, plan.regenerate, outcome, number), status)
        /\ log' = Record("modification.operation_completed", req[r].op, req[r].subject, number)
        /\ Stores(r, "committed", number)
        /\ UNCHANGED memory

\* A second one stores its narration; then the proposal and the lock are
\* given up, and the result returned to the client or to the undo handler.
CommitFinish(r) ==
    /\ req[r].phase = "committed"
    /\ proposals' = [proposals EXCEPT ![req[r].subject] = None]
    /\ lock' = None
    /\ \/ req[r].kind = "commit" /\ Finish(r, req[r].answer, None) /\ loop' = None
       \/ req[r].kind = "undo" /\ Stores(r, "undone", req[r].answer)
    /\ UNCHANGED <<durable, operations, scenario, creating, active>>

-----------------------------------------------------------------------------
(* POST revisions/undo: a proposal that inverts the last revision, run     *)
(* through commit_modification under the same key, then a transaction of   *)
(* its own for the row that makes the undo repeatable.                     *)

UndoPlan == [base |-> Latest, baseId |-> LastOf(project.graph), mode |-> "undo",
             regenerate |-> rows[Latest].regenerate]

UndoableAgain == rows[Latest].kind # "create"                               \* mutant
Undoable == rows[Latest].kind = "modification"

\* Refused when there is nothing to undo, or when the change, which is not in
\* the model, is one inverse_proposal cannot invert.
UndoBegin(r, key) ==
    LET op == IF key = None THEN UndoKey(Latest) ELSE key IN
    /\ Arrives(r, "undo")
    /\ Exists
    /\ \/ /\ \E result \in Recorded("undo.operation_completed", op) :
                Close(r, "undo", "answered", op, None, result, None)
          /\ UNCHANGED <<log, proposals, lock>>
       \/ /\ Completed("undo.operation_completed", op) = {}
          /\ Refuse(r, "undo", op)
          /\ UNCHANGED <<log, proposals, lock>>
       \/ /\ Completed("undo.operation_completed", op) = {}
          /\ Undoable
          /\ proposals' = [proposals EXCEPT ![r] = UndoPlan]
          /\ \/ CommitBegins(r, "undo", op, r, UndoPlan) /\ UNCHANGED log
             \/ CommitRefused(r, "undo", op, UndoPlan) /\ UNCHANGED log
             \/ /\ \E result \in Recorded("modification.operation_completed", op) :
                      /\ log' = Record("undo.operation_completed", op, r, result)
                      /\ Close(r, "undo", "answered", op, r, result, None)
                /\ UNCHANGED lock
    /\ UNCHANGED <<rows, project, operations, scenario, creating, active, loop>>

UndoRecord(r) ==
    /\ req[r].phase = "undone"
    /\ log' = Record("undo.operation_completed", req[r].op, r, req[r].answer)
    /\ Finish(r, req[r].answer, None)
    /\ loop' = None
    /\ UNCHANGED <<rows, project, memory>>

-----------------------------------------------------------------------------
(* POST modifications: the relay-to-MOSFET change, planned, verified and   *)
(* committed in one request.  It takes no lock.                            *)

ModifyBegin(r) ==
    /\ Arrives(r, "modify")
    /\ Exists
    /\ IF project.reps[Circuit] = None
       THEN Refuse(r, "modify", None)
       ELSE Suspend(r, Reading("modify", "modifying", None, None,
                [base |-> Latest, baseId |-> LastOf(project.graph), mode |-> "edit",
                 regenerate |-> {Circuit}]))
    /\ UNCHANGED <<durable, memory, loop>>

ModifySave(r) ==
    LET number == Len(req[r].graph) + 1 IN
    /\ HasLoop(r)
    /\ req[r].phase = "modifying"
    /\ \E outcome \in [{Circuit} -> GenerationEnds] :
          SaveCommit(r, "direct", req[r].plan.baseId, {},
                     Regenerate(r, {Circuit}, outcome, number), "ready")
    /\ Stores(r, "modified", number)
    /\ UNCHANGED <<log, memory>>

ModifyFinish(r) ==
    /\ req[r].phase = "modified"
    /\ Finish(r, req[r].answer, None)
    /\ loop' = None
    /\ UNCHANGED <<durable, memory>>

-----------------------------------------------------------------------------
(* What-If scenarios: the server keeps the last one analysed.              *)

AnalyzeBegin(r) ==
    /\ Arrives(r, "analyze")
    /\ Exists
    /\ Suspend(r, Reading("analyze", "analyzing", None, None, None))
    /\ UNCHANGED <<durable, memory, loop>>

AnalyzeFinish(r) ==
    /\ HasLoop(r)
    /\ req[r].phase = "analyzing"
    /\ \E set \in RegenerateSets :
          scenario' = [id |-> r, plan |->
              [base |-> Len(req[r].graph), baseId |-> LastOf(req[r].graph),
               mode |-> "edit", regenerate |-> set \cup {Circuit}]]
    /\ Close(r, "analyze", "answered", None, r, 0, None)
    /\ UNCHANGED <<durable, proposals, operations, lock, creating, active, loop>>

\* DELETE scenarios/s, in a worker thread.  A request that names another
\* scenario is refused as one is when there is none, here and below.
Discard(r) ==
    /\ New(r, "discard")
    /\ IF scenario = None
       THEN Refuse(r, "discard", None)
       ELSE Close(r, "discard", "answered", None, scenario.id, 0, None)
    /\ scenario' = None
    /\ UNCHANGED <<durable, proposals, operations, lock, creating, active, loop>>

\* POST scenarios/s/apply.
ApplyBegin(r) ==
    /\ Arrives(r, "apply")
    /\ Exists
    /\ \/ /\ scenario # None
          /\ Applies(scenario.plan)
          /\ lock = None
          /\ lock' = r
          /\ Suspend(r, Reading("apply", "applying", None, scenario.id, scenario.plan))
       \/ /\ scenario # None /\ lock = None => ~Applies(scenario.plan)
          /\ Refuse(r, "apply", None)
          /\ UNCHANGED lock
    /\ UNCHANGED <<durable, proposals, operations, scenario, creating, active, loop>>

\* The part of a removed component loses its 3D representation.
ApplySave(r) ==
    LET set == req[r].plan.regenerate
        number == Len(req[r].graph) + 1
    IN  /\ HasLoop(r)
        /\ req[r].phase = "applying"
        /\ \E outcome \in Outcomes, removed \in SUBSET (set \ {Circuit}), status \in Verdicts :
              SaveCommit(r, "scenario", req[r].plan.baseId, {},
                  [rep \in Reps |-> IF rep \in removed THEN None
                                    ELSE Regenerate(r, set, outcome, number)[rep]],
                  status)
        /\ Stores(r, "applied", number)
        /\ UNCHANGED <<log, memory>>

ApplyFinish(r) ==
    /\ req[r].phase = "applied"
    /\ scenario' = IF scenario # None /\ scenario.id = req[r].subject THEN None ELSE scenario
    /\ lock' = None
    /\ Finish(r, req[r].answer, None)
    /\ loop' = None
    /\ UNCHANGED <<durable, proposals, operations, creating, active>>

-----------------------------------------------------------------------------
(* POST representations/rep/retry: regenerate one representation of the    *)
(* current revision.  It takes no lock, and writes back the whole list it  *)
(* read before the wait.                                                   *)

RetryResults(key) ==
    IF key = None THEN {} ELSE Recorded("representation.operation_completed", key)

Retryable(rep) == project.reps[rep] # None /\ project.reps[rep].revision = Latest

RetryBegin(r, rep, key) ==
    /\ Arrives(r, "retry")
    /\ Exists
    /\ \/ \E result \in RetryResults(key) : Close(r, "retry", "answered", key, rep, result, None)
       \/ /\ RetryResults(key) = {}
          /\ ~Retryable(rep)
          /\ Refuse(r, "retry", key)
       \/ /\ RetryResults(key) = {}
          /\ Retryable(rep)
          /\ Suspend(r, Reading("retry", "regenerating", key, rep, None))
    /\ UNCHANGED <<durable, memory, loop>>

RetryStore(r) ==
    LET rep == req[r].subject IN
    /\ HasLoop(r)
    /\ req[r].phase = "regenerating"
    /\ \E end \in GenerationEnds :
          project' = [project EXCEPT !.reps =
              [req[r].reps EXCEPT ![rep] = Regenerated(@, Len(req[r].graph), r, end)]]
    /\ Stores(r, "regenerated", Len(req[r].graph))
    /\ UNCHANGED <<rows, log, memory>>

RetryRecord(r) ==
    /\ req[r].phase = "regenerated"
    /\ log' = IF req[r].op = None THEN log
              ELSE Record("representation.operation_completed", req[r].op, req[r].subject, req[r].answer)
    /\ Finish(r, req[r].answer, None)
    /\ loop' = None
    /\ UNCHANGED <<rows, project, memory>>

-----------------------------------------------------------------------------
(* POST representations/rep/status: a browser reports the state of a       *)
(* generation it runs.  A report tagged with an operation that is no       *)
(* longer the record's is ignored; so is one tagged with another revision  *)
(* or generation, which change with the operation.                         *)

ReportBegin(r, rep, tag, status) ==
    LET current == project.reps[rep] IN
    /\ Arrives(r, "report")
    /\ Exists /\ current # None
    /\ IF tag \in {None, current.operation} /\ CanMove(current, status)
       THEN /\ Suspend(r, [Unsent EXCEPT !.kind = "report", !.phase = "reporting", !.subject = rep,
                              !.reps = [project.reps EXCEPT ![rep] = Moved(current, status)]])
            /\ loop' = r
       ELSE Refuse(r, "report", None) /\ UNCHANGED loop
    /\ UNCHANGED <<durable, memory>>

ReportStore(r) ==
    /\ req[r].phase = "reporting"
    /\ project' = [project EXCEPT !.reps = req[r].reps]
    /\ req' = [req EXCEPT ![r].phase = "reported"]
    /\ UNCHANGED <<rows, log, memory, loop>>

\* The set of live generations follows, after the list is stored.
Generation(rep, rec) == <<rep, rec.operation>>
ActiveAfter(rep, rec) ==
    IF rec.operation = None THEN active
    ELSE IF rec.status = "generating" THEN active \cup {Generation(rep, rec)}
    ELSE active \ {Generation(rep, rec)}

ReportActive(r) ==
    /\ req[r].phase = "reported"
    /\ active' = ActiveAfter(req[r].subject, req[r].reps[req[r].subject])
    /\ Finish(r, 0, None)
    /\ loop' = None
    /\ UNCHANGED <<durable, proposals, operations, scenario, lock, creating>>

-----------------------------------------------------------------------------
(* GET project, in a worker thread: recover_interrupted replaces the       *)
(* generations nobody runs any more and writes the whole list back.        *)

Orphaned(rep, rec) ==
    rec # None /\ rec.status = "generating" /\ Generation(rep, rec) \notin active

ReadBegin(r) ==
    /\ New(r, "read")
    /\ Exists
    /\ Suspend(r, Reading("read", "reading", None, None, None))
    /\ UNCHANGED <<durable, memory, loop>>

ReadDecide(r) ==
    LET reps == req[r].reps IN
    /\ req[r].phase = "reading"
    /\ IF \E rep \in Reps : Orphaned(rep, reps[rep])
       THEN req' = [req EXCEPT ![r].phase = "recovering",
                ![r].reps = [rep \in Reps |-> IF Orphaned(rep, reps[rep]) THEN Interrupted(reps[rep])
                                              ELSE reps[rep]]]
       ELSE Finish(r, Len(req[r].graph), None)
    /\ UNCHANGED <<durable, memory, loop>>

ReadStore(r) ==
    /\ req[r].phase = "recovering"
    /\ project' = [project EXCEPT !.reps = req[r].reps]
    /\ Finish(r, Len(req[r].graph), None)
    /\ UNCHANGED <<rows, log, memory, loop>>

-----------------------------------------------------------------------------
(* The process dies between any two transactions and is started again: its *)
(* memory is empty, the requests it was serving are never answered.        *)

Open(r) == req[r].phase \notin {"unsent"} \cup Closed

Crash ==
    /\ Interrupts
    /\ req' = [r \in Req |-> IF Open(r)
                 THEN [Unsent EXCEPT !.kind = req[r].kind, !.phase = "lost",
                                     !.op = req[r].op, !.subject = req[r].subject]
                 ELSE req[r]]
    /\ proposals' = [p \in Req |-> None]
    /\ operations' = [key \in Keys |-> None]
    /\ scenario' = None
    /\ lock' = None
    /\ creating' = None
    /\ active' = {}
    /\ loop' = None
    /\ UNCHANGED durable

-----------------------------------------------------------------------------
\* The server starts on an empty database, or on one that holds the project
\* the request Seed created in an earlier process.
Init ==
    /\ \/ /\ Seed = None
          /\ rows = [n \in {} |-> None]
          /\ project = None
          /\ req = [r \in Req |-> Unsent]
       \/ /\ Seed # None
          /\ rows = [n \in {1} |-> [id |-> Seed, parent |-> None, base |-> None,
                                    kind |-> "create", regenerate |-> {}]]
          /\ \E status \in Verdicts :
                project = [graph |-> <<Seed>>, status |-> status,
                           reps |-> [rep \in Reps |-> Generated(Initial(1, Seed), "ready")]]
          /\ req = [r \in Req |-> IF r = Seed
                                  THEN [Unsent EXCEPT !.kind = "create", !.phase = "lost"]
                                  ELSE Unsent]
    /\ log = <<>>
    /\ proposals = [p \in Req |-> None]
    /\ operations = [key \in Keys |-> None]
    /\ scenario = None
    /\ lock = None
    /\ creating = None
    /\ active = {}
    /\ loop = None

MaybeKey == Keys \cup {None}

Arrival(r) ==
    \/ CreateBegin(r)
    \/ \E key \in MaybeKey : ProposeBegin(r, key)
    \/ \E p \in Req : Cancel(r, p)
    \/ \E p \in Req, key \in MaybeKey : CommitBegin(r, p, key)
    \/ \E key \in MaybeKey : UndoBegin(r, key)
    \/ ModifyBegin(r)
    \/ AnalyzeBegin(r)
    \/ Discard(r)
    \/ ApplyBegin(r)
    \/ \E rep \in Reps, key \in MaybeKey : RetryBegin(r, rep, key)
    \/ \E rep \in Reps, tag \in Req \cup {None}, status \in Statuses :
          ReportBegin(r, rep, tag, status)
    \/ ReadBegin(r)

Continuation(r) ==
    \/ CreateLock(r) \/ CreateStore(r) \/ CreateIncomplete(r) \/ CreateReps(r) \/ CreateStatus(r)
    \/ ProposeFinish(r)
    \/ CommitSave(r) \/ CommitFinish(r)
    \/ UndoRecord(r)
    \/ ModifySave(r) \/ ModifyFinish(r)
    \/ AnalyzeFinish(r)
    \/ ApplySave(r) \/ ApplyFinish(r)
    \/ RetryStore(r) \/ RetryRecord(r)
    \/ ReportStore(r) \/ ReportActive(r)
    \/ ReadDecide(r) \/ ReadStore(r)
    \/ Fail(r)

Next == Crash \/ \E r \in Req : Arrival(r) \/ Continuation(r)

Spec == Init /\ [][Next]_vars

\* The event loop and the worker threads keep running a handler that can go
\* on: every generator, model call and subprocess ends or times out.
Fairness == \A r \in Req : WF_vars(Continuation(r))
FairSpec == Spec /\ Fairness
=============================================================================
