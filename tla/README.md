# AURA workspace: a verification development

AURA turns a sentence such as "build me an automatic plant watering system"
into a versioned engineering project: a graph of parts and connections with its
revisions, the 3D parts and the circuit schematic derived from it, a log of
events, work items and artifacts. This directory models the concurrent and
durable core of that program in TLA+, the browser clients that show it, the
way from electrical relationships to a drawn circuit, and what edits, undos and
scenarios do to the graph; checks it with TLC on
small instances and proves the main safety results with TLAPS for every
instance. Paths are
relative to the repository; `server.py`, `project_repository.py` and so on
stand for the files under `src/aura/`.

Contents: [1 the system](#1-the-system-inventory),
[2 the modules](#2-the-modules), [3 atomicity, fairness](#3-atomicity-and-fairness),
[4 runs and bounds](#4-the-runs), [5 where code and documents disagree](#5-where-the-code-and-its-documents-disagree),
[6 proofs](#6-the-proofs), [7 what is not covered](#7-what-is-not-modelled-and-why),
[8 the plan](#8-the-plan).

## 1. The system: inventory

### Components, their state and operations

| Component (source) | State | Operations |
|---|---|---|
| Commit protocol (`workspace/server.py`, handlers of one project) | projects row (graph, representations, status), revisions table, operation rows of the events table; in memory: proposals, operation ids of proposals, one scenario, modification lock, creation lock | create, propose a modification, cancel, commit, undo, direct modification, analyse/discard/apply a What-If scenario, retry a representation, report on one, read the project |
| Representation life cycle (`workspace/representations.py`, `representation_service.py`) | status, revision, generation, operation of each record; `active_representation_operations` in memory | initial records, generate, regenerate, a browser's report, recovery of interrupted generations |
| Event delivery (`EventBroker`, WebSocket handler, `publish_with_narration`; `WorkspaceApp.tsx`) | events table; one queue per connection; in the browser the last id handled, a retry counter, and whether the session is of the project | store and publish a batch, narrate it, accept and replay, send, hear or drop an event, reconnect with the last id, give up |
| Work items (`workspace/work_items.py`) | work_items table: state and transition history | create, transition, read back and list |
| Artifacts (`infrastructure/artifacts.py`, `write_artifact` of both repositories) | artifacts table and object store | create a row, put the object, make the row ready, clean up, read |
| Worker threads (Starlette/AnyIO, external) | a pool of threads; the creation lock is waited for inside one | run a `def` handler, plan, generate, acquire |
| Repositories (`project_repository.py`, `postgres_repository.py`) | the database | `save_commit`, `update_representations`, `update_project_status`, `append_events`, work items, artifacts, schema |
| React frontend (`workspace/web/frontend/src`: `workspaceSession.ts`, `WorkspaceApp.tsx`) | open project, session identity and token, what is displayed, proposal, change lock, events handled, inspector | load, open, create, switch, propose, apply, cancel, undo, apply a scenario, hear an event; evidence, work, scenarios |
| Static client (`workspace/web/app.js`) | socket, timer, attempts, last event, timeline; speech queue | connect, reconnect, open, create, speak, stop |
| Circuit schematic (`electrical.py`, `representation_service.py`, validator of `representations.py`, `generate-circuit.mjs`) | none: a pipeline | join terminals to nets, assign pins, connect, judge fidelity, validate, draw |
| Engineering graph (`engineering_graph/`) | value: components, ports, connections, revisions | validate and apply a patch, serialise, electrical and interface invariants |
| Graph edits (`workspace/modifications.py`, `scenarios.py`) | revisions table with the diff of each revision | attach, scale, set a parameter, replace, repair, undo; remove, replace or change a component in a scenario |
| Planners (`planner/`), verification (`verification/`), assembly and view models | none | text or a graph to a plan, a verdict, a view |
| Frontend views (`selection.ts`, `presentation.ts`, the scene and markup of `WorkspaceApp.tsx`) | selection | select, present |
| Built frontend (`workspace/web/representation/assets`) | - | what vite makes of the React frontend and its libraries |
| Storage migration (`storage_migration.py`) | two databases | copy one to the other |
| Voice (`infrastructure/voice`), local model client (`infrastructure/llm/ollama.py`) | speech queue; circuit breaker | speak, stop, call with retries |
| Legacy assistant, Unreal domain, tools, safety policies, desktop | of their own | not used by the workspace (`docs/ARCHITECTURE.md`) |

### How they interact

Every HTTP request is a handler of one FastAPI application. `async def`
handlers share one event loop and give it up only at `await` (in practice
`run_in_threadpool` around planning and generating); `def` handlers (GET
project, DELETE scenario, the work items) run in worker threads, in parallel
with the loop. All of them share the `WorkspaceApplication` object (proposals,
scenario, locks) and the database, each of whose operations is one transaction.
A committed change is a transaction followed by a publication to the queues of
the open WebSockets and by a second transaction for the narration. A browser
reconnects with the id of the last event it handled.

The React page reads with `fetch` and awaits: every way to a project starts a
`load`, and several are in flight at once. `WorkspaceSession` hands out a token
with each; an answer is used only if its token is the current one. Changes hold
`mutationLock` until the load that follows them is over; applying a scenario takes
no lock, and its load does not ask which project is open by then. An event is heard
only while the session is of the project whose connection brings it. The circuit schematic
crosses two languages: Python compiles the graph to components, pins and
connections, and a Node process draws them with tscircuit.

### What is hard

* Handlers read the project, wait for a generator, and write what they computed
  from the old value, some under the modification lock (commit, undo, apply),
  some without (modify, retry), while threads recover and reports arrive.
* Requests are sent again, concurrently, later or after a restart; the answer
  is found in the operation rows.
* One operation is several transactions (project then status; undo revision
  then the row that makes it repeatable; object then row): the process can die
  in between, and every step can fail.
* Creations wait for a lock in the threads the holder needs.
* Events are stored while a connection replays the past; connections and the
  process die with events under way.
* Threads transition the same work item; wall clocks step back.
* In the browser, loads overtake each other; answers come for a project or a
  revision that is not shown any more; events arrive while a load reads, or find
  a session that was cleared or taken under an open connection; old sockets close after new ones opened; cancelled utterances call back.
* An edit looks at one component and the interfaces in use, yet many edits in a
  row must leave a mechanism that can be assembled; an undo is computed from what
  the edit reported.
* Relationships are joined to nets in any order, and the schematic must keep
  apart what the graph keeps apart.

`PROJECT.json` lists these as hazards with their lines; each names the
properties that cover it, or says why none does.

### What makes each component correct

| Component | Correct means |
|---|---|
| Commit protocol | one linear history, each revision on the one it was verified against; an operation takes effect once and its answer stays true; locks are given back; every request closes |
| Representations | what is shown belongs to a committed revision and to the change that revision is |
| Event delivery | each event handled once, in order, but for those that find the session away; a browser that did not give up catches up |
| Work items | no accepted transition lost; histories are paths of the table; what was written can be read |
| Artifacts | what a representation names can be read; a ready row has its object |
| Thread pool | creations and other requests never block one another for good |
| React page | shows what its session names, of no project an earlier revision than before, and comes to show the last that was announced; a proposal is offered on its revision only; a change gives its lock back |
| Static client | never cut off without a way back; events once and in order; reconnecting ends; speech drains, urgent first |
| Graph edits | mates never close a cycle; an interface serves one relationship; relationships and their interfaces agree and fit; an undo restores the graph |
| Circuit schematic | nets are the connected components; they stay apart in the drawing; a circuit that says it is complete is wired; what is compiled is accepted |

## 2. The modules

| Module | Models | Lines it stands for |
|---|---|---|
| `Representations` | the record's transition table and what generation, regeneration and recovery make of a record (operators only) | `representations.py`, `representation_service.py` |
| `Workspace` | all requests of one project over rows, project row, operation log, proposals, scenario, locks; crash and restart | `server.py` 166-912, `project_repository.py` 115-201 |
| `RevisionLog` | abstract: an append-only log of revisions, each written against the last | - |
| `WorkspaceProperties` | type invariant, safety and liveness of `Workspace`, its refinement of `RevisionLog` | - |
| `EventStream` | abstract: events handled in order, once, and which may be left out | - |
| `EventDelivery` | event log, broker, WebSocket handler, narrations, browser connection, the session that comes and goes under it | `server.py` 141-157, 409-417, 924-939; `WorkspaceApp.tsx` 155, 180, 191 |
| `WorkItems` | the work item service with concurrent threads | `work_items.py` |
| `Artifacts` | two-phase write of row and object | `write_artifact`, `read_artifact` |
| `ThreadPool` | creations waiting in worker threads | `server.py` 292-374; AnyIO's limiter is external |
| `WorkspaceApp` | the React page: loads, events, navigation, changes, applied scenarios | `WorkspaceApp.tsx` 119-163, 179-180, 191; `workspaceSession.ts`; `server.py` 777-800, 877-910 |
| `WorkspacePanels` | the inspector beside it: evidence, work, scenarios | `WorkspaceApp.tsx` 136-146, 182-192 |
| `SpeechQueue` | the narrations the static client reads out | `app.js` 173-197 |
| `StaticClient` | its connection, timeline and clicks, with the queue | `app.js` 216-288, 322-337 |
| `Schematic` | nets, pins, connections, validation, traces | `electrical.py` 13-57, `representation_service.py` 42-110, `representations.py` 129-157, `generate-circuit.mjs` |
| `Modifications` | edits, undos and scenarios on the mechanical part of a graph, over a history of revisions | `modifications.py` 163-370, `patches.py` 60-94, `scenarios.py` 92-112 |
| `MC*` | model values and symmetry for TLC | - |
| `*Proofs` | the theorems | - |

Correspondence in `Workspace`:

* A request is a member of `Req`. Its id is also the uuid it draws (of a
  revision, proposal, scenario or generation), so ids are unique by
  construction, as uuid4 is taken to be. `req[r]` holds what the handler's
  local variables hold between two steps: operation id, the thing named, the
  plan, and `graph` and `reps` *as they were read*.
* A graph is the sequence of its revision ids: `Len` is `len(record.graph.revisions)`,
  `LastOf` is `current_revision_id`. Components and ports are left out; the
  verdict of a verification is a choice.
* `SaveCommit` is `save_commit`: the revision's primary key
  (`project_id, revision_number`) refuses a taken number and the transaction
  rolls back, which is the `Fail` action of a request whose `SaveCommit` is not
  enabled.
* `log` keeps of the events table the rows that decide an answer
  (`*.operation_completed`) and `modification.cancelled`.
* `Recorded` is `find_operation`: the newest row with the type and the key.
* A handler's `finally` clauses are in `Fail` (`GivesUpLock`, `GivesUpCreating`).
* Names follow the handlers: `CommitBegin`, `CommitSave`, `CommitFinish` are the
  three stretches of `commit_modification`, and so on; `PROJECT.json` maps each
  definition to its lines.

Correspondence in the browser's modules:

* In `EventDelivery` `ours` says that the session is of the connection's project.
  Choosing the open project again clears it (`LoseSession`, `WorkspaceApp.tsx:180`) and
  leaves the connection alone; the load of an applied scenario takes it or brings it
  back (`FindSession`, 191). `Receive` has the guard of `onmessage` (155): a message
  that finds another session is consumed, `last` stays, and the next one that is heard
  is handled after a gap. `brought` and `dropped` are history: what the connection has
  brought, and what was dropped and not asked for again.
* `load` is the call of `load` whose token has `session.generation`, `overtaken` are the
  other calls in flight: whose project, who awaits it (the effect that opened the
  project, an event, a change, an applied scenario), how far it is, and a revision. Each
  answer of the `Promise.all` is of a moment between the start of the load and its end,
  so `Show` takes the revisions of project and graph from those the server had since
  the load began, each on its own. An overtaken load keeps what it began with, so a
  token that were not checked would show it. `identity` is `session.identity`, with
  revision 0 until an answer is accepted.
* `page` keeps of everything React displays the revision it was read from, and
  `None` when it is empty; `seen` is a history variable, for each project, that
  leaving it does not reset.
* `silent` are the revisions a scenario made: `apply_scenario` stores `scenario.applied`
  (`server.py:909`), and the page loads only on `revision.committed` and `project.ready`.
  `Announced` are the others. The creation of a project counts as announced even when
  its build is incomplete (then it is not); the effect that opens the project loads it
  anyway.
* `scenarios` are the calls of `applyScenario` between the click and the load. Only
  those that the server can still commit are begun, because a refused one changes
  nothing but its message.
* A click runs to its end, effects included, so that `setProjectId` and the
  effects it triggers are one action (`Enter`); `SwitchToSame` is the click that
  changes no state and so triggers none.
* `change` is the request that holds `mutationLock`, up to the load it awaits;
  its release in the `finally` is part of whatever ends that load
  (`ReleasesLock`).
* `last` and `cursor` are the last event handled and the last one brought by the
  open connection; `EventDelivery` models the connection in detail.
* In `StaticClient` `closing` counts sockets whose `onclose` is still to run and
  `lost` the timers that `state.reconnectTimer` no longer names. `waiting` counts
  the click handlers between their first `await` and `connect(0)`.
* In `Schematic` the union-find loop takes one step a pair, then grouping,
  compiling and drawing are a step each. Terminals are numbered in the order of
  their names, which is how the code compares them. `nets` is indexed by roots, as
  `groups` is; nets, terminals and connections are sets, since nothing depends on
  their order but the first terminal of a net, which is its least.

Correspondence in `Modifications`:

* `revisions[k]` is a row of the revisions table: the graph, the `kind` in its
  verification column, and `change`, what `undo_revision` reads of its `diff`
  (operation, target, old values). Computing, verifying and storing a change are one
  step because `Workspace` shows that a change is stored on the revision it was
  computed from; rejected changes do nothing.
* A graph has `parts` (COMPONENT entities), `mates` (relationships of the
  structural types) and `connections` (the CONNECTION entities with the interfaces).
  A relationship and its connection share an id here; in the code one is named by
  the other's metadata, which nothing rewrites.
* `meta` is the metadata of a component as a function from paths to values:
  dimensions, `definition` (`component_definition_id`), `pinned` (its copy and version
  in the parameters), `setting` and `protection` (`driver_type`,
  `flyback_protection`). A path that is absent has the value `None`.
* `Offers` gives a family its interfaces with the kinds they fit: the names and kinds of
  `component_interfaces` depend on the family alone, dimensions only move them.
* `IsPlaced` says without the solver on which graphs it places everything: from
  the parts that are nobody's target, the mates lead to every part. It says so
  for every subset of the mates, because the assembly skips those whose interfaces
  it does not find. Such a graph has no directed cycle.

`UndoBegin` contains `commit_modification`, which the undo handler calls with a
proposal of its own; the operators `CommitBegins` and `CommitRefused` are shared
with `CommitBegin`. The verification-repair endpoint is a `propose` without a
key. Definitions marked `mutant` are faulty versions of the definition below
them; the mutation list in `PROJECT.json` substitutes them one at a time to show
that each property can fail.

## 3. Atomicity and fairness

*Atomic steps.* A stretch of loop code between two awaits is one action when it
makes at most one transaction. When it makes two, it is two actions: the
variable `loop` keeps other loop handlers out in between (they cannot run), but
a crash or a worker thread can come there. Requests of worker threads (`read`,
`discard`) are split at their database accesses. One simplification: a
`def` handler never interleaves *inside* a stretch that makes one transaction,
because what such a thread reads is one row, before or after the transaction.

*Crash.* `Crash` empties everything `WorkspaceApplication.__init__` creates and
abandons open requests. Transactions are atomic and durable. `Crash` is enabled
by the constant `Interrupts`.

*Fairness.* `FairSpec` of `Workspace` assumes weak fairness of each request's
continuation. It is justified by the code: planning and generating have
timeouts (`planner_timeout`, `circuit_timeout`), model calls are bounded, and a
handler that fails runs its `finally` clauses. No fairness is assumed of arriving
requests or of crashes. A handler that waits for the creation lock is enabled
when the lock is free; the lock is not queued, so a request could in principle
lose it again and again, but each request arrives once and the instance is
finite. In `EventDelivery` the server loop and the browser are weakly fair as
wholes; breaking connections and storing events are not. In `WorkspaceApp` the
steps of loads are weakly fair, since a `fetch` is answered or fails, and so is
`HearEvent`, which takes the connection to be open in the end: the property is
about pages whose connection has not given up. Failing loads, changes, scenarios,
clicks and reconnections are not fair. In `StaticClient` the browser runs a pending
`onclose` and a timer, and an utterance ends; the server, the user and the
answers of loads are not fair. `Schematic` has only safety properties.
In `ThreadPool` every
request that has a thread or can get one goes on.

## 4. The runs

| Run | Instance | Shows |
|---|---|---|
| `changes` | a stored project, 4 requests over propose, commit, undo, modify, cancel, analyse, apply, discard; 1 key; 2 representations; restarts | `LinearHistory`, `AppliedToItsBase`, `UndoFollowsModification`, `OncePerOperation`, `AnswersAreDurable`, `LockIsReleased`, `RefinesRevisionLog` |
| `lifecycle` | empty database, 3 requests over create, propose, commit, cancel, modify, retry, report, read; fair | `TypeOK`, `RepresentationsOfTheirRevision`, `EveryRequestCloses` |
| `event_delivery` | 6 events in batches of up to 2, narrations, 4 breaks, 2 retries, a session that goes and comes back | `NothingIsMissed`, `RefinesEventStream`, `CatchesUp` |
| `work_items` | 2 items, 2 threads, histories of 3, clock 0..2 that may step back | `HistoriesArePaths`, `WhatIsWrittenCanBeRead`, `HistoryOnlyGrows` |
| `artifacts` | 3 artifacts, commits that may take effect and raise | `ReferencedIsServed`, `ReadyHasContent` |
| `thread_pool` | 3 creations, 1 other request, 3 threads | `EveryRequestIsAnswered` |
| `workspace_app` | 2 projects, one of which is changed, 2 revisions, 2 loads in flight, 1 scenario being applied | `TypeOK`, `ShownIsOfTheSession`, `NeverGoesBack`, `ProposalFitsThePage`, `LockHasHolder`, `CatchesUp` |
| `static_client` | 2 projects of 2 events, 2 clicks, 2 attempts, a queue of 2 | `NeverCutOff`, `TimelineIsOrdered`, `HighFirst`, `ReconnectionsEnd`, `AlwaysDrains` |
| `schematic` | a controller, two sensors, a bare relay, a battery; 12 terminals, all sequences of up to 4 of 9 relationships | `NetsAreComponents`, `CompleteIsWired`, `NetsStayApart`, `CompiledIsAccepted` |
| `modifications` | 4 components of 4 families, 3 connections, 2 dimensions, 1 catalogue part, 4 revisions | `TypeOK`, `EveryPartIsPlaced`, `InterfacesAreNotShared`, `ConnectionsAgree`, `MatesFit`, `UndoRestores` |
| `lost_representation`, `late_answers` | small instances | violations, section 5 |

Why the bounds are enough:

* `changes`: with a stored first revision, four requests are propose + commit +
  undo + one more of any kind (a second commit with the same key, a racing
  modification, a scenario), or two proposals and two racing commits. A key can
  be shared by a commit and an undo. Of the two representations a commit
  regenerates the part (`OnlyPart`), modify and scenarios the circuit, and each keeps
  the other as it is. Requests are
  symmetric but for the seed; all properties of this run are safety properties,
  for which symmetry is sound.
* `lifecycle`: three requests are create + read/report/retry + a racing change.
  One representation suffices because these handlers write the list as a whole.
  No symmetry, since liveness is checked. `CHECK_DEADLOCK FALSE`: when every
  request is closed the system may stop.
* `event_delivery`: two retries instead of the frontend's six reach the same
  phases; four breaks exhaust them and break once more; six events fill a
  replay, a queue and a batch at once. It may stop when the browser is paused
  and no event may be stored.
* `work_items`: three entries reach a closed state through a pause; three clock
  values allow a step forward and back between two entries. `MaxTime` and
  `MaxHistory` are bounds of the model only. The actions of the service never
  block for good; the run may stop at the bounds.
* `workspace_app`: two loads in flight are enough for one to overtake the other,
  of the same project or of two; two revisions are enough for a page, a proposal
  or a schematic to be of an earlier one; one project that changes and one to
  switch to. One scenario is enough to be answered late, over another project, behind
  the welcome screen, or while a load or a change of the same project is under way. `MaxLoads` disables a step that would start a third load until one
  of the two has ended. No symmetry (liveness). It may stop on the welcome
  screen.
* `static_client`: two clicks open a project over another that is still
  loading, or ask for a reconnection; two attempts reach the limit and the code
  beyond it (six in `app.js`); a queue of two overflows with the third narration.
  It may stop when everything was clicked and every event has come.
* `schematic`: a rail needs three relationships to have two roots joined in
  either order, and the fourth joins the halves; the components include a
  terminal without a pin, a switched rail and both forms of a controller's
  signal. It stops when the circuit is drawn.
* `thread_pool`: with a thread for each creation that is let in the holder
  always finds one once the others wait. In production the load balancer lets
  20 requests in (`infra/gcp/main.tf`) against AnyIO's 40 threads. With fewer
  threads than waiting creations (2 for 3, say) `EveryRequestIsAnswered`
  fails in this model: the holder waits for a thread and the others for the
  lock. A local server has no such limit; this is recorded as the `deadlock`
  hazard.

* `modifications`: the families and interfaces are the ones of `interfaces.py` for an
  enclosure, a servo, an arm and a motor driver. Three changes are an attachment, another
  that builds on it and the undo of that, and the first that can close a cycle is the
  second; four parts are a chain of three and one to mount or to move. A third
  connection identity is what an attachment draws. Longer histories are left to the
  theorems. It stops at `MaxRevisions`, a bound of the model only.

What `UndoFollowsModification` excludes is undoing an undo, a creation, a direct
modification or a scenario (`nothing_to_undo`), and inverting anything but the
revision just before. `OncePerOperation` matches completed operations and their
revisions one to one, over keys, proposals and revision numbers, across
restarts. `RepresentationsOfTheirRevision` excludes that what was generated for
a commit that lost its race or failed is ever shown.

## 5. Where the code and its documents disagree

Each is a run that must end in a violation, with the trace TLC prints.

* `lost_representation`: a retry reads the list of representations, waits, and
  writes the whole list back without the lock (`server.py:702`). A commit in
  between is overwritten and its representations return to the earlier
  revision, against `README.md:7` ("keeps representations synchronized around
  the same system definition").
* `late_answers`: work created in one project is answered after the page went to
  another, and is appended to that one's list (`WorkspaceApp.tsx:186`, and 192 for
  the work of a scenario); `openEvidence`, beside it, asks the session first.
  `workspaceSession.ts:3`: "Owns the single visible workspace session and rejects
  late async results".

Observations without a run of their own:

* A project is stored as `building` before its representations exist
  (`server.py:373`); when the process dies or persisting fails there, nothing resumes
  it and the creation sent again is answered with the project that is building
  (`server.py:305`). `Workspace` has the trace (`CreateStore`, then `Crash`).
* An undo writes back the paths the modification reported
  (`modifications.py:365`). Replacing a component by a catalogue one writes its
  definition, version and dimensions and reports the definition (264-280); the repair of
  a driver sets its flyback protection and reports the type (322-324). The other values
  stay after the undo, although its verification says "Prior structured values restored"
  (`modifications.py:370`). `UndoRestores` excepts exactly these (`Unreported`).
* Choosing in the list the project that is open (`WorkspaceApp.tsx:180`) clears the
  session and the page and starts no load; the connection stays, and the guard of
  `onmessage` (155) drops every event from then on, until a load begins a session or the
  connection breaks and asks again from `last`. `NothingIsMissed` and `CatchesUp` of
  `EventDelivery` speak of these events as `dropped`, `CatchesUp` of `WorkspaceApp` of pages
  that have a session.
* `applyScenario` loads the project of the click whatever is open by then
  (`WorkspaceApp.tsx:191`): `LoadApplied` can show one project while `projectId` and the
  connection are of another, or begin a session behind the welcome screen.
  `ShownIsOfTheSession` and `NeverGoesBack` hold all the same, since the load takes the
  session with it; that the page shows the open project does not.
* A scenario applied in another browser is not announced (`server.py:909`): the page stays
  at its revision until something else makes it load. `CatchesUp` therefore promises the
  last announced revision. For the same reason a page can show the project at one revision
  and the graph at the next, read before and after such a commit, until it loads again.
* The row that makes an undo repeatable is written in a transaction after the
  undo's (`server.py:820`). After a crash in between, the same undo is refused
  with `nothing_to_undo`; `Workspace` has the trace.
* A transition is stamped with the wall clock and not compared with the one
  before (`work_items.py:120`); after the clock steps back the item cannot be
  read any more (`work_items.py:75`), and listing the work of the project fails
  with it. `WhatIsWrittenCanBeRead` is stated for clocks that were not set back,
  and Theorem `ReadableWithForwardClock` shows that this is the only cause.
* A cancellation that arrives while its proposal is being committed is
  acknowledged and the commit goes on.
* With PostgreSQL a commit that raises after taking effect can leave a ready row
  whose object the cleanup deleted (`ReadyHasContent` excepts these), though no
  stored representation ever names it.
* React page: choosing the project that is open already (`SwitchToSame`) empties
  the page, and nothing loads it again. A load that an event or a change started
  and that fails is caught by nobody that returns to a usable page (`Stuck`).
  Opening a project replays its events, and each starts a load of its own.
* Static client: each `connect` leaves the old socket's `onclose` in place, so one
  connection costs a chain of reconnections (it ends: `ReconnectionsEnd`) that
  may finish by offering the button while connected. Opening a project sets
  `lastEventId` to 0 while the old socket still delivers, so that its events
  can make the first ones of the new project be skipped.
* Schematic: the ninth and later signals of a controller share `signal-8`
  (`planner/service.py:298`), and `signal` shares `IO1` with `signal-1`
  (`representation_service.py:64`): nets that are apart in a graph with both
  would meet in the drawing. The instance has one controller output of each form
  on different pins, as the planner makes them.

## 6. The proofs

All theorems hold for every value of the constants under the named assumptions:
`ConstantsAssumption`, `NoneAssumption` (null is neither a record nor an id; one
in each module that has a null), `WorkAssumption`, `AppAssumption`, `SchematicAssumption` (its constants are
sequences of the records they are meant to be), and `PlanAssumption` of
`Modifications`: the first graph is sound, as the planner's `connect` makes it
(`planner/service.py` 302-321: interfaces that fit and that no other connection uses,
from a mount outwards). TLC evaluates
each of them in the runs.

| Theorem | States |
|---|---|
| `WorkspaceProofs!TypeCorrect` | `Spec => []TypeOK` |
| `WorkspaceProofs!HistoryIsLinear` | `Spec => []LinearHistory` |
| `WorkspaceProofs!ChangesFitTheirBase` | `Spec => []AppliedToItsBase` |
| `WorkspaceProofs!ImplementsRevisionLog` | `Spec => RefinesRevisionLog` |
| `WorkspaceProofs!LocksAreReleased` | `Spec => []LockIsReleased` |
| `WorkspaceProofs!OneRevisionPerOperation` | `[]OncePerOperation` |
| `WorkspaceProofs!UndoesTheLastModification` | `[]UndoFollowsModification` |
| `WorkspaceProofs!AnswersStayTrue` | `[]AnswersAreDurable` |
| `WorkspaceProofs!RepresentationsBelong` | `[]RepresentationsOfTheirRevision` |
| `EventDeliveryProofs!NothingIsEverMissed` | `[]NothingIsMissed` |
| `EventDeliveryProofs!FilterDropsNothing` | the browser's filter on ids never drops a message: only a session that is away does |
| `EventDeliveryProofs!DeliveryRefinesEventStream` | `RefinesEventStream` |
| `WorkItemsProofs!TypeCorrect`, `PathsAreKept`, `NothingIsOverwritten` | `[]TypeOK`, `[]HistoriesArePaths`, `HistoryOnlyGrows` |
| `WorkItemsProofs!ReadableWithForwardClock` | `[]WhatIsWrittenCanBeRead`: unless the clock was set back |
| `ArtifactsProofs!ShownIsServed` | `[]ReferencedIsServed` |
| `ArtifactsProofs!ReadyIsComplete` | `[]ReadyHasContent`: unless the commit took effect and raised |
| `WorkspaceAppProofs!PageTypes` | `[]TypeOK` |
| `WorkspaceAppProofs!LateArtifactsAreKeptOut` | `[]ShownIsOfTheSession` |
| `WorkspaceAppProofs!PageNeverGoesBack` | `[]NeverGoesBack` |
| `WorkspaceAppProofs!ProposalsFit` | `[]ProposalFitsThePage` |
| `WorkspaceAppProofs!LockIsHeld` | `[]LockHasHolder` |
| `StaticClientProofs!NobodyIsCutOff` | `[]NeverCutOff` |
| `StaticClientProofs!EventsStayInOrder` | `[]TimelineIsOrdered` |
| `StaticClientProofs!UrgentIsReadFirst` | `[]HighFirst` |
| `SchematicProofs!NetsAreTheComponents` | `[]NetsAreComponents` |
| `SchematicProofs!CompleteMeansWired` | `[]CompleteIsWired` |
| `SchematicProofs!NetsAreDrawnApart` | `[]NetsStayApart`: if `OnePortPerPin` |
| `SchematicProofs!CompiledAreAccepted` | `[]CompiledIsAccepted`: if `FewComponents` |
| `ModificationsProofs!RevisionsAreGraphs` | `[]TypeOK` |
| `ModificationsProofs!PartsStayPlaced` | `[]EveryPartIsPlaced` |
| `ModificationsProofs!InterfacesStayApart` | `[]InterfacesAreNotShared` |
| `ModificationsProofs!ConnectionsStayPaired` | `[]ConnectionsAgree` |
| `ModificationsProofs!MatesStayFit` | `[]MatesFit`: but for what a scenario changed |
| `ModificationsProofs!UndoIsFaithful` | `[]UndoRestores`: but for unreported values |

*The commit protocol.* `LinearHistory` alone is not inductive: whether a
`SaveCommit` keeps it depends on what the request holds. The invariant `IInv`
adds

* `TypeOK`, and that a project has at least one revision;
* `Equipped(req[r])`: what a phase needs is there (a committing request has an
  operation id, a proposal as subject and a plan whose base is the last
  revision *it read*; a queued or planning one has read nothing; a retried or
  reported representation exists);
* `UpToDate(req[r], project)`: the revisions a changing request read are still
  the first ones of the project.

`SaveStep` is the heart: a request that read the first `n` revisions may write
only if number `n + 1` is free; by `LinearHistory` that means that `n` is all
there is (`FreeNumber`), so its row continues the history, its parent is the
last row and the base of its plan is that row too. This is why `modify` needs no
lock and why the check under the lock is not what keeps the history linear.
`UpToDateStep` shows that a step that only appends (`Grows`) does not disturb
the others. `Preserved(r)` collects what one step of one request has to show;
there is one lemma per action, then `CrashOK`, `InitOK` and `StepOK`.

`ImplementsRevisionLog` uses `IInv` before and after a step: every step leaves
the table alone or adds the next row (`StepAppends`), and a history that is
linear on both sides of such a step has grown by one entry on its tip
(`AbstractGrows`). `LocksAreReleased` shows for each action what it does to the
two locks (`Handles`).

*Operations.* That a key is used once rests on a chain of facts none of which is
inductive alone; `OpInv` has them all.

* `Commits(r)`: a request that waits with the modification lock (`committing`) still
  holds what it checked before it waited: no completed row has its key or its
  proposal, its plan is for the last revision it read, and the proposal in memory is
  either its own or forgotten. It stays true because `Holds` makes the lock
  exclusive and only the holder writes such a row; the undo handler's second row and
  `modify`, which take no lock, write none.
* `Spent(i)`: a proposal that was committed is forgotten, or is based on a revision
  before the one it became. This is what closes the gap after a crash or before
  `CommitFinish`: the row is stored and the proposal still in memory, but `Applies`
  refuses it (`NotYetCommitted`). An undo cannot be repeated under a second key for
  the same reason.
* `Inverts(plan)`: a proposal that undoes is based on a row of kind `modification`;
  with `FreeNumber` (nothing was added since) that row is the one before the undo.
* `Answers(r)`: who was answered with a revision, or is about to be, has its row in
  the log (`Stands`), and rows of the log stay.

`Effects(r)` says what any step but `CommitSave` may do to log, revisions, proposals
and lock, and `EffectsStep` that this keeps `OpInv`; each action has a lemma that
shows its `Effects`. `CommitSaveStep` is the one step that writes a revision and its
row together, and `CrashKeeps` the restart, after which all that `OpInv` says of
memory is void and what it says of the database is unchanged.

*Representations.* `RepresentationsOfTheirRevision` speaks of the table that is
stored, but a handler writes back a table it read or made earlier. `RepsInv`
therefore says the same of the tables that requests hold, and that a request which
generates for an existing revision is no change (`Generates`). Revisions stay as they
are and a request that was sent keeps its kind (`Lasting`, `Follows`), so a table that
belonged to the history goes on belonging to it (`HeldBelongs`); what a step makes of
one is covered by `DerivedBelongs`. A change that fails or loses its race drops the
table it made with the transaction.

*Event delivery.* `OwesTheRest` says that wire, replay, queue and the batch being
published together are exactly the ids after the last one brought, with `ClosedIsEmpty`
(a connection that ended holds nothing) and `LastIsHandled` (`last` was handled, and is not
after `brought`). The lemmas on `Ids` let an interval be cut at its head and at its end;
each action moves one id from one place to the next. `IsAccountedFor` says that what was
brought was handled or dropped; a reconnection asks again from `last`, so what is dropped
after it is owed once more (`AccountStays`). That the filter drops nothing and that the
abstract stream is implemented both follow from these.

*Work items.* `Exclusive` (a thread inside the critical section holds the lock
and what it read is still stored) makes `HistoryOnlyGrows` inductive; `Legal`
and `Timely` are the path and the order of the times. *Artifacts.* `Staged(a)`
ties row and object to how far the write is.

*The React page.* None of the four properties is inductive. `IInv` adds `Token`:
the load of the token is of the session's project (not of the open one, which an applied
scenario may have left), the session's identity has revision 0 as long as it reads and is
what it shows afterwards, and it began when the server had all that was shown of its
project; `SeenIsStored`: what was shown of a project is stored; and `NoEarlyProposal`.
`NeverGoesBack` then follows because a load begins after everything that was shown was
stored, and only the last load to begin may show. There is one lemma per action; what
all loads that begin, end or lose their session have in common is proved once
(`BeginKeeps`, `EndsKeeps`, `ClearKeeps`), and so is what a step of the server or of a
request leaves alone (`PageAlone`).

*The static client.* `NeverCutOff` needs no strengthening but types: `onclose`
either sets a timer or offers the button (`OnCloseOK`), every other step that
takes a timer, a closing socket or the button away connects (`ConnectOK`).
`TimelineIsOrdered` needs `UpToLast`: the timeline goes no further than
`lastEventId`. `HighFirst` is inductive with types alone, although `enqueue` leaves the callback of
the utterance it silences behind: a late callback frees whatever is active, and
`next` then takes the first that waits, which is urgent if any is (`ResumeOK`).

*Graph edits.* The invariant is that *every* revision is sound, not the last alone,
because an undo goes back to the one before it. That an undo does go back there is the
other half: the change of a revision is the difference to the revision before it,
up to unreported values. One lemma shows what each kind of change does
(`EditIsGood`, `MoveIsGood`, `AddIsGood`, `RemovedIsSound`, `ExchangedIsSound`). The
interesting one is `EveryPartIsPlaced`: a component that is moved has no other
structural relationship, so a set of parts that is closed under the new mates becomes
closed under the old ones when the component is added to it, and is then everything; the reference
is in the set and the new mate leads from it to the component. Stating "no cycle" by
closed sets keeps induction over paths out of the proof. An interface of the
target cannot be in use for the same reason, which is why the code's one-sided check suffices.

*The schematic.* The recursive function `find` is handled without induction
theorems: `LeastNatural` gives a least counterexample, and a parent is never later in
the order of names than its child (`Forest`), so the step before a least
counterexample is one that holds. In this way `EndsExist` and `EndsUnique` show that
there is exactly one function that takes every terminal to the end of its path, and
`FindEnds` that `find` is it. What compression and `union` do to the roots then needs no
recursion: one gives the function that the new parents ought to have and checks that
it is one (`CompressedKeepsRoots`, `JoinsMergesClasses`). `ClassesAreConnected` is the
invariant of the loop: the relationships joined so far connect each class and cross
none; joining two classes along a relationship connects their union
(`ConnectsUnion`). At the grouping, `NetIsClass` shows that a net has its whole class,
although it is collected from its relationships alone: otherwise one that crosses from
the net to the rest of its class would be missing from it.
For the drawing, `Star` and `TraceOfStar` say what the traces are. `ReferencesDiffer`
(counting the same prefix up to a component is injective) and `SourceOfReference`
are why a pin named by reference and label across the two languages is the one meant,
and `OneAlias` why the pin that is looked up is the pin that was checked. Two theorems
have a hypothesis: `OnePortPerPin`, because a controller with both `signal` and `signal-1`
would have two nets on one pin, and `FewComponents`, because the validator refuses more.
The instance satisfies both (`MCAssumption`).

*Model-checked only:* liveness (`EveryRequestCloses`, `CatchesUp` of both
modules, `EveryRequestIsAnswered`, `ReconnectionsEnd`, `AlwaysDrains`), which needs
ENABLED and fairness and is out of reach of the prover's backends here. Every other
property of a passing run is a theorem, with the hypotheses the table names.

## 7. What is not modelled, and why

`PROJECT.json` lists every component with its status. In short: of the JavaScript and TypeScript files, about three quarters of the
lines are the built bundle (`web/representation/assets`, React, three.js and
tscircuit with the frontend compiled into it), which is not source; `WorkView.tsx` is
imported by nothing; `presentation.ts` words and colours states; the scene, the
markup and the render functions of `WorkspaceApp.tsx` and `app.js` turn state into
pixels. What decides something in these files, the session, loads, events,
changes, connections, speech queue and trace generator, is modelled. `selection.ts`
is a store whose calls run to their end without an await. Rules over a
graph and text analysis (planner, verification, catalogue,
view models) are functions without state whose outcome is a choice in
`Workspace`; audio, subprocesses, desktop control are I/O; the legacy assistant
and the Unreal domain are not used by the workspace. Of the modelled parts the
following is left out: the contents of an event; of a graph, the electrical and other
entities and relationships (`Schematic` has the electrical ones, `Modifications` the
mechanical ones), hierarchy and geometry; which edit the language model chooses, and
its parameters that a scenario brings; the verdict of a verification; the direct
modification's content (`server.py:444`: it rewrites the metadata of a driver, and its
revision has no kind, so that it cannot be undone);
several projects on the server (they share only the creation lock and the
thread pool); what a load of the static client shows; the planning configuration;
authentication and health endpoints; PostgreSQL's row locks, whose transactions are
taken to be as atomic as SQLite's; a browser with several tabs (each is a
connection of its own); the acknowledged limit that proposals and scenarios do
not survive a restart, which is modelled (`Crash` empties them) and has no
property.

## 8. The plan

Done: `Representations`, `Workspace` with `RevisionLog`, `EventDelivery` with
`EventStream`, `WorkItems`, `Artifacts`, `ThreadPool`; `WorkspaceApp` with
`WorkspacePanels`, `StaticClient` with `SpeechQueue`, `Schematic`, `Modifications`; the proofs above.

Next modules, in this order:

1. `LivePlanner`: one repair, then the fallback, with timeouts and the kinds of
   failures that must not be hidden.
2. `CircuitBreaker` (`ollama.py`) with concurrent callers and a clock.
3. The voice of the desktop assistant (`xtts_backend.py`, `tts.py`): jobs,
   interruption and shutdown.
4. `StorageMigration`: copying, interrupted and run again.
5. A composition of `Workspace` and `WorkspaceApp`, whose server is a counter of
   revisions.

Next proofs: that no creation blocks the others for good when
`Cardinality(Creations) <= Threads`, and the steps of the liveness arguments that are
safety: what each handler's remaining steps decrease.
