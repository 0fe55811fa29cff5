---------------------------- MODULE WorkspaceApp ----------------------------
(***************************************************************************)
(* The React workspace: WorkspaceApp.tsx over the session of               *)
(* workspaceSession.ts.  The page shows one project.  Every way to it      *)
(* (opening it, an event, an applied change or scenario) starts a load,    *)
(* which empties the page, reads the project and its graph, and goes on to *)
(* the schematic and the CAD geometry; several loads are in flight at      *)
(* once, and only the one that holds the current token may put an answer   *)
(* on the page.  A click runs to its end, effects included, before         *)
(* anything else happens; an await lets everything happen.                 *)
(*                                                                         *)
(* The load of an applied scenario does not look at the session: it may    *)
(* take the page to a project that is not the open one, or begin a session *)
(* behind the welcome screen.                                              *)
(***************************************************************************)
EXTENDS Naturals, FiniteSets

CONSTANTS
    Projects,
    Changed,         \* bound: the projects that are changed
    None,            \* undefined
    MaxRevision,     \* bound: revisions of a project
    MaxLoads,        \* bound: loads in flight
    MaxScenarios     \* bound: scenarios being applied

ASSUME AppAssumption ==
    /\ Changed \subseteq Projects
    /\ MaxRevision \in Nat \ {0}
    /\ MaxLoads \in Nat \ {0}
    /\ MaxScenarios \in Nat

Identity == [projectId : Projects, revision : 0..MaxRevision]
Revision == [projectId : Projects, revision : 1..MaxRevision]
Load == [projectId : Projects,
         by        : {"effect", "event", "change", "scenario"},     \* who awaits it
         stage     : {"reading", "circuit", "geometry"},
         revision  : 0..MaxRevision]        \* the server's when it began; then the one shown
Change == [kind   : {"propose", "apply", "cancel", "undo"},
           target : Revision,
           stage  : {"asked", "done", "loading"}]
Scenario == [projectId : Projects,                                 \* of the click
             base      : 0..MaxRevision,                           \* the server's revision then
             done      : BOOLEAN]                                  \* the server has committed it

\* Undefined is none of the values it stands beside.
ASSUME NoneAssumption == None \notin Projects \cup Identity \cup Load \cup Change

VARIABLES
    stored,          \* the server: the last revision of each project, 0 before it exists
    silent,          \* the server: the revisions of each project that a scenario made
    projectId,       \* React state; None is the welcome screen
    identity,        \* session.identity
    load,            \* the load in flight whose token has session.generation
    overtaken,       \* the other loads in flight; two that are alike count as one
    cursor,          \* the last event the open connection has brought
    last,            \* the last event the page has handled; event n tells of revision n
    change,          \* the request that holds mutationLock
    scenarios,       \* scenarios being applied, from the click to the load
    page,            \* what is displayed, each part with the revision it was read from
    seen             \* history: the highest revision displayed of each project

server == <<stored, silent>>
opened == <<projectId, cursor, last>>
session == <<identity, load, overtaken>>
requests == <<change, scenarios>>
vars == <<server, opened, session, requests, page, seen>>

Blank == [project |-> None, graph |-> None, circuit |-> None, cad |-> None,
          proposal |-> None]

-----------------------------------------------------------------------------
(* The session.                                                            *)

OfSession(id) == identity # None /\ identity.projectId = id

AcceptsProject(l) == OfSession(l.projectId)                                 \* mutant
Accepts(l) == l = load

InFlight == ({load} \cup overtaken) \ {None}

\* session.begin, and everything the page held emptied.
Begin(id, by) ==
    /\ Cardinality(InFlight) < MaxLoads
    /\ overtaken' = InFlight
    /\ load' = [projectId |-> id, by |-> by, stage |-> "reading", revision |-> stored[id]]
    /\ identity' = [projectId |-> id, revision |-> 0]
    /\ page' = Blank

\* session.clear
ClearSession == identity' = None /\ load' = None /\ overtaken' = InFlight

-----------------------------------------------------------------------------
(* A load.                                                                 *)

ShownBy(l) == [projectId |-> l.projectId, revision |-> l.revision]

GoesOn(l, stage) ==
    /\ load' = [l EXCEPT !.stage = stage]
    /\ UNCHANGED <<overtaken, change>>

\* load returns or raises: whoever awaits it goes on, a change to release the
\* lock in its finally.
KeepsLock(l) == change                                                      \* mutant
ReleasesLock(l) == IF l.by = "change" THEN None ELSE change
Ends(l) ==
    /\ change' = ReleasesLock(l)
    /\ \/ l = load /\ load' = None /\ UNCHANGED overtaken
       \/ l # load /\ overtaken' = overtaken \ {l} /\ UNCHANGED load

LeavesProject(l) == l.by = "effect" /\ OfSession(l.projectId)

\* The project and its graph are read by one Promise.all, each at a moment of
\* its own since the load began.  The load may end here: the build is
\* incomplete, the geometry is invalid, there is neither schematic nor CAD, or
\* behind the welcome screen there is no scene.
Show(l) ==
    /\ l.stage = "reading"
    /\ Accepts(l)
    /\ \E project, graph \in {n \in 1..stored[l.projectId] : n >= l.revision} :
          LET answered == [l EXCEPT !.revision = project] IN
          /\ identity' = ShownBy(answered)
          /\ page' = [page EXCEPT !.project = ShownBy(answered),
                                  !.graph = [ShownBy(answered) EXCEPT !.revision = graph]]
          /\ seen' = [seen EXCEPT ![l.projectId] = IF project > @ THEN project ELSE @]
          /\ \/ projectId # None /\ \E stage \in {"circuit", "geometry"} : GoesOn(answered, stage)
             \/ Ends(l)
    /\ UNCHANGED <<server, opened, scenarios>>

ShowCircuit(l) ==
    /\ l.stage = "circuit"
    /\ Accepts(l)
    /\ page' = [page EXCEPT !.circuit = ShownBy(l)]
    /\ GoesOn(l, "geometry") \/ Ends(l)
    /\ UNCHANGED <<server, opened, identity, scenarios, seen>>

\* The engine has started: a geometry is reported, read, evaluated and put in
\* the scene, one after the other.
AddCad(l) ==
    /\ l.stage = "geometry"
    /\ Accepts(l)
    /\ page' = [page EXCEPT !.cad = ShownBy(l)]
    /\ GoesOn(l, "geometry") \/ Ends(l)
    /\ UNCHANGED <<server, opened, identity, scenarios, seen>>

\* if(!active())return
Abandon(l) ==
    /\ ~Accepts(l)
    /\ Ends(l)
    /\ UNCHANGED <<server, opened, identity, scenarios, page, seen>>

\* The engine does not start within 10 s, a request of it or an evaluation
\* fails, or the geometry is a proxy: the proxies are kept.
GiveUpGeometry(l) ==
    /\ l.stage = "geometry"
    /\ Ends(l)
    /\ UNCHANGED <<server, opened, identity, scenarios, page, seen>>

\* A read fails.
Fail(l) ==
    /\ l.stage # "geometry"
    /\ ~LeavesProject(l)
    /\ Ends(l)
    /\ UNCHANGED <<server, opened, identity, scenarios, page, seen>>

\* The effect that opened the project catches the error and returns to the
\* welcome screen; nobody else leaves the project for it.
FailToOpen(l) ==
    /\ l.stage # "geometry"
    /\ LeavesProject(l)
    /\ identity' = None /\ load' = None /\ overtaken' = InFlight \ {l}
    /\ projectId' = None /\ cursor' = 0 /\ last' = 0
    /\ UNCHANGED <<server, requests, page, seen>>

-----------------------------------------------------------------------------
(* Events.  EventDelivery has the connection itself.                       *)

\* An event that finds another session is dropped, and last left alone.
HearsIfIdle == OfSession(projectId) /\ load = None                          \* mutant
Hears == OfSession(projectId)

\* revision.committed and project.ready make the page load; an applied scenario
\* is told of by scenario.applied, which does not.
Announced(id) == 1..stored[id] \ silent[id]

LoadAnnounced ==
    /\ projectId # None /\ cursor < stored[projectId]
    /\ Hears /\ cursor + 1 \in Announced(projectId)
    /\ cursor' = cursor + 1 /\ last' = cursor'
    /\ Begin(projectId, "event")
    /\ UNCHANGED <<server, projectId, requests, seen>>

\* Any other event leaves the page as it is.
PassEvent ==
    /\ projectId # None /\ cursor < stored[projectId]
    /\ cursor' = cursor + 1
    /\ \/ Hears /\ cursor' \notin Announced(projectId) /\ last' = cursor'
       \/ ~Hears /\ UNCHANGED last
    /\ UNCHANGED <<server, projectId, session, requests, page, seen>>

HearEvent == LoadAnnounced \/ PassEvent

\* The connection breaks and comes back with afterEventId=last.
Reconnect ==
    /\ cursor # last
    /\ cursor' = last
    /\ UNCHANGED <<server, projectId, last, session, requests, page, seen>>

\* A revision is stored: by a modification, an undo or a direct modification,
\* which is announced, or by a scenario.
NewRevision(id) ==
    /\ id \in Changed /\ stored[id] < MaxRevision
    /\ stored' = [stored EXCEPT ![id] = @ + 1]
Announces(id) == NewRevision(id) /\ UNCHANGED silent
AppliesScenario(id) ==
    /\ NewRevision(id)
    /\ silent' = [silent EXCEPT ![id] = @ \cup {stored[id] + 1}]

\* Somebody else changes a project.
CommitElsewhere(id) ==
    /\ stored[id] # 0
    /\ Announces(id) \/ AppliesScenario(id)
    /\ UNCHANGED <<opened, session, requests, page, seen>>

-----------------------------------------------------------------------------
(* Navigation.  setProjectId runs the effects that load and connect, if it *)
(* changes the state.                                                      *)

Enter(id) ==
    /\ projectId' = id /\ cursor' = 0 /\ last' = 0
    /\ Begin(id, "effect")

Create(id) ==
    /\ projectId = None
    /\ stored[id] = 0
    /\ stored' = [stored EXCEPT ![id] = 1]
    /\ Enter(id)
    /\ UNCHANGED <<silent, requests, seen>>

SwitchProject(id) ==
    /\ projectId \notin {None, id}
    /\ stored[id] # 0
    /\ Enter(id)
    /\ UNCHANGED <<server, requests, seen>>

\* The project that is open already is chosen in the list: the page is
\* emptied, and no effect runs.
SwitchToSame ==
    /\ projectId # None
    /\ ClearSession
    /\ page' = [page EXCEPT !.project = None, !.graph = None, !.circuit = None, !.cad = None]
    /\ UNCHANGED <<server, opened, requests, seen>>

ResetWorkspace ==
    /\ projectId # None
    /\ ClearSession
    /\ projectId' = None /\ cursor' = 0 /\ last' = 0
    /\ page' = Blank
    /\ UNCHANGED <<server, requests, seen>>

-----------------------------------------------------------------------------
(* Changes.  The lock is a ref: it is taken before the request is sent and *)
(* released in a finally.                                                  *)

TargetOfProposal == page.proposal                                           \* mutant
Target == page.project

Asks(kind) ==
    /\ projectId # None /\ page.project # None
    /\ kind \in {"apply", "cancel"} => page.proposal # None
    /\ kind = "undo" => page.project.revision > 1
    /\ change = None
    /\ change' = [kind |-> kind, target |-> Target, stage |-> "asked"]
    /\ UNCHANGED <<server, opened, session, scenarios, page, seen>>

\* The server commits a proposal of the last revision, or undoes the last one.
Commit ==
    /\ change # None /\ change.stage = "asked" /\ change.kind \in {"apply", "undo"}
    /\ LET id == change.target.projectId IN
       /\ change.kind = "apply" => change.target.revision = stored[id]
       /\ Announces(id)
    /\ change' = [change EXCEPT !.stage = "done"]
    /\ UNCHANGED <<opened, session, scenarios, page, seen>>

\* submitCommand and cancel, after their await.
FitsAnyRevision(target) == OfSession(target.projectId)                      \* mutant
Fits(target) == identity = target

TakeAnswer ==
    /\ change # None /\ change.stage = "asked"
    /\ \/ /\ change.kind = "propose" /\ Fits(change.target)
          /\ page' = [page EXCEPT !.proposal = change.target]
       \/ /\ change.kind = "cancel" /\ OfSession(change.target.projectId)
          /\ page' = [page EXCEPT !.proposal = None]
    /\ change' = None
    /\ UNCHANGED <<server, opened, session, scenarios, seen>>

\* apply and undo, after their await: the project is loaded again, and the
\* lock kept until it is.
Reload ==
    /\ change # None /\ change.stage = "done" /\ OfSession(change.target.projectId)
    /\ Begin(change.target.projectId, "change")
    /\ change' = [change EXCEPT !.stage = "loading"]
    /\ UNCHANGED <<server, opened, scenarios, seen>>

\* The request is refused or fails, its answer is lost or finds another session.
Dismiss ==
    /\ change # None
    /\ change.stage # "loading"
    /\ change' = None
    /\ UNCHANGED <<server, opened, session, scenarios, page, seen>>

-----------------------------------------------------------------------------
(* Scenarios.  Applying one takes no lock.                                 *)

\* A scenario was analyzed at the revision the server has at the click, or the
\* server refuses it.
ApplyScenario ==
    /\ projectId # None /\ page.project # None
    /\ Cardinality(scenarios) < MaxScenarios
    /\ LET id == page.project.projectId IN
       /\ id \in Changed /\ stored[id] < MaxRevision
       /\ scenarios' = scenarios \cup {[projectId |-> id, base |-> stored[id], done |-> FALSE]}
    /\ UNCHANGED <<server, opened, session, change, page, seen>>

CommitScenario(a) ==
    /\ ~a.done /\ a.base = stored[a.projectId]
    /\ AppliesScenario(a.projectId)
    /\ scenarios' = (scenarios \ {a}) \cup {[a EXCEPT !.done = TRUE]}
    /\ UNCHANGED <<opened, session, change, page, seen>>

\* The answer makes the page load the project of the click, whichever project
\* is open and whichever the session is of.
LoadApplied(a) ==
    /\ a.done
    /\ scenarios' = scenarios \ {a}
    /\ Begin(a.projectId, "scenario")
    /\ UNCHANGED <<server, opened, change, seen>>

\* The request is refused or fails, or its answer is lost.
DismissScenario(a) ==
    /\ scenarios' = scenarios \ {a}
    /\ UNCHANGED <<server, opened, session, change, page, seen>>

-----------------------------------------------------------------------------
\* The page is opened at the welcome screen or, with ?projectId=, at a project.
Init ==
    /\ stored \in [Projects -> {0, 1}]
    /\ silent = [id \in Projects |-> {}]
    /\ projectId \in {None} \cup {id \in Projects : stored[id] # 0}
    /\ cursor = 0 /\ last = 0
    /\ overtaken = {}
    /\ change = None /\ scenarios = {}
    /\ page = Blank
    /\ seen = [id \in Projects |-> 0]
    /\ \/ /\ projectId = None
          /\ identity = None /\ load = None
       \/ /\ projectId # None
          /\ identity = [projectId |-> projectId, revision |-> 0]
          /\ load = [projectId |-> projectId, by |-> "effect", stage |-> "reading", revision |-> 1]

LoadStep(l) ==
    Show(l) \/ ShowCircuit(l) \/ AddCad(l) \/ Abandon(l) \/ GiveUpGeometry(l)
ChangeStep == Commit \/ TakeAnswer \/ Reload \/ Dismiss

Next ==
    \/ \E l \in InFlight : LoadStep(l) \/ Fail(l) \/ FailToOpen(l)
    \/ HearEvent \/ Reconnect \/ ChangeStep \/ SwitchToSame \/ ResetWorkspace
    \/ \E id \in Projects : CommitElsewhere(id) \/ Create(id) \/ SwitchProject(id)
    \/ \E kind \in {"propose", "apply", "cancel", "undo"} : Asks(kind)
    \/ ApplyScenario
    \/ \E a \in scenarios : CommitScenario(a) \/ LoadApplied(a) \/ DismissScenario(a)

\* Every answer comes or fails in the end, and an open connection brings the
\* events that are stored.
Fairness == WF_vars(\E l \in InFlight : LoadStep(l)) /\ WF_vars(HearEvent)

Spec == Init /\ [][Next]_vars /\ Fairness

-----------------------------------------------------------------------------
(* Properties.                                                             *)

\* Every variable holds a value of its kind.
TypeOK ==
    /\ stored \in [Projects -> 0..MaxRevision]
    /\ silent \in [Projects -> SUBSET (1..MaxRevision)]
    /\ projectId \in Projects \cup {None}
    /\ identity \in Identity \cup {None}
    /\ load \in Load \cup {None}
    /\ overtaken \subseteq Load
    /\ cursor \in 0..MaxRevision /\ last \in 0..MaxRevision
    /\ change \in Change \cup {None}
    /\ scenarios \subseteq Scenario
    /\ page \in [project : Revision \cup {None}, graph : Revision \cup {None},
                 circuit : Revision \cup {None}, cad : Revision \cup {None},
                 proposal : Revision \cup {None}]
    /\ seen \in [Projects -> 0..MaxRevision]

\* What is on the page belongs to the session: the project at its revision,
\* the graph of the same project, the schematic and the geometry of the same
\* revision; and while a project is open that has no session, nothing is.
\* audit.spec.ts:22, "late old-project artifact cannot overwrite the active
\* scene or schematic".
ShownIsOfTheSession ==
    /\ identity # None =>
          /\ page.project = IF identity.revision = 0 THEN None ELSE identity
          /\ page.graph # None => page.graph.projectId = identity.projectId
          /\ {page.circuit, page.cad} \subseteq {None, page.project}
    /\ projectId # None /\ identity = None =>
          {page.project, page.graph, page.circuit, page.cad} = {None}

\* Loads overtake each other, and projects are left and opened again, but the
\* page never shows a revision of a project before one it has shown of it.
NeverGoesBack ==
    page.project # None => page.project.revision = seen[page.project.projectId]

\* A proposal is offered for applying only on the revision it was made for.
ProposalFitsThePage ==
    page.project # None /\ page.proposal # None => page.proposal = page.project

\* The current load has ended without showing anything: nobody caught its
\* error, and the curtain stays.
Stuck == identity # None /\ identity.revision = 0 /\ load = None

\* A page that stays with a project, and whose load does not fail, comes to
\* show the last revision that was announced or a later one, whatever was
\* committed while it was reading, whichever loads overtook each other and
\* whichever events found the session away.
ShowsFrom(part, id, n) == part # None /\ part.projectId = id /\ part.revision >= n
CatchesUp ==
    \A id \in Projects :
        <>[](projectId = id /\ OfSession(id) /\ ~Stuck)
            => <>[](\A n \in Announced(id) :
                        ShowsFrom(page.project, id, n) /\ ShowsFrom(page.graph, id, n))

\* The lock of a change is held by a request, or by the load that follows it
\* and is still under way: nothing that overtakes them keeps it for ever.
LockHasHolder ==
    change # None /\ change.stage = "loading" =>
        \E l \in InFlight : l.by = "change"
=============================================================================
