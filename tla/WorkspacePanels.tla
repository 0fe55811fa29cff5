--------------------------- MODULE WorkspacePanels ---------------------------
(***************************************************************************)
(* The inspector of the React workspace beside its loads: evidence,        *)
(* engineering work and What-If scenarios, each asked of the server for    *)
(* the project that is displayed at the click.  The answer comes after an  *)
(* await, when the page may show another project or another revision.      *)
(***************************************************************************)
EXTENDS WorkspaceApp

CONSTANT MaxAsks     \* bound: requests of the inspector in flight

VARIABLES
    evidence,        \* the project whose evidence is shown
    scenario,        \* what the scenario on display was analyzed for
    work,            \* the projects whose work items are in the list
    listing,         \* the list of the load on the page is on its way
    asks             \* requests of the inspector in flight

panelVars == <<vars, evidence, scenario, work, listing, asks>>

Kinds == {"evidence", "createWork", "scenario", "scenarioWork"}
Ask == [kind : Kinds, target : Revision]       \* what is displayed at the click

-----------------------------------------------------------------------------
(* What the steps of the page do to the inspector.                         *)

Begins ==
    \/ LoadAnnounced \/ Reload
    \/ \E id \in Projects : Create(id) \/ SwitchProject(id)
    \/ \E a \in scenarios : LoadApplied(a)
Shows == page.project = None /\ page'.project # None

\* Only the scenario on display is applied; the server refuses one of another
\* project.
AppliesShown ==
    /\ scenario # None /\ page.project # None /\ scenario.projectId = page.project.projectId
    /\ ApplyScenario

Emptied == evidence' = None /\ scenario' = None /\ work' = {} /\ listing' = FALSE

\* load and resetWorkspace empty the inspector, switchProject only the list.
PageStep ==
    /\ \/ Begins /\ Emptied
       \/ ResetWorkspace /\ Emptied
       \/ SwitchToSame /\ work' = {} /\ listing' = FALSE /\ UNCHANGED <<evidence, scenario>>
       \/ /\ \/ \E l \in InFlight : LoadStep(l) \/ Fail(l) \/ FailToOpen(l)
             \/ PassEvent \/ Reconnect \/ Commit \/ TakeAnswer \/ Dismiss \/ AppliesShown
             \/ \E id \in Projects : CommitElsewhere(id)
             \/ \E kind \in {"propose", "apply", "cancel", "undo"} : Asks(kind)
             \/ \E a \in scenarios : CommitScenario(a) \/ DismissScenario(a)
          /\ listing' = (listing \/ Shows)
          /\ UNCHANGED <<evidence, scenario, work>>
    /\ UNCHANGED asks

-----------------------------------------------------------------------------
(* Clicks and answers.                                                     *)

\* The list that a load asked for, or none; an answer to an earlier token is
\* dropped.
ListWork ==
    /\ listing /\ identity # None
    /\ listing' = FALSE
    /\ work' \in {work, {identity.projectId}}
    /\ UNCHANGED <<vars, evidence, scenario, asks>>

Click(kind) ==
    /\ projectId # None /\ page.project # None
    /\ kind = "scenarioWork" => scenario # None
    /\ Cardinality(asks) < MaxAsks
    /\ asks' = asks \cup {[kind |-> kind, target |-> page.project]}
    /\ UNCHANGED <<vars, evidence, scenario, work, listing>>

\* choose: another component is selected, which closes what was open.
ClearContext ==
    /\ projectId # None
    /\ evidence' = None /\ scenario' = None
    /\ UNCHANGED <<vars, work, listing, asks>>

\* Only openEvidence looks at the session.
Answer(a) ==
    /\ asks' = asks \ {a}
    /\ LET id == a.target.projectId IN
       \/ /\ a.kind = "evidence" /\ OfSession(id)
          /\ evidence' = id
          /\ UNCHANGED <<scenario, work>>
       \/ /\ a.kind \in {"createWork", "scenarioWork"}
          /\ work' = work \cup {id}
          /\ UNCHANGED <<evidence, scenario>>
       \/ /\ a.kind = "scenario"
          /\ scenario' = a.target
          /\ UNCHANGED <<evidence, work>>
    /\ UNCHANGED <<vars, listing>>

\* Refused, unavailable or, for evidence, of another session.
Dismissed(a) ==
    /\ asks' = asks \ {a}
    /\ UNCHANGED <<vars, evidence, scenario, work, listing>>

PanelInit ==
    /\ Init
    /\ evidence = None /\ scenario = None /\ work = {} /\ listing = FALSE
    /\ asks = {}

PanelNext ==
    \/ PageStep \/ ListWork \/ ClearContext
    \/ \E kind \in Kinds : Click(kind)
    \/ \E a \in asks : Answer(a) \/ Dismissed(a)

PanelSpec == PanelInit /\ [][PanelNext]_panelVars

-----------------------------------------------------------------------------
\* workspaceSession.ts:3, "Owns the single visible workspace session and
\* rejects late async results": the work items in the list are of the project
\* of the session.
LateAnswersAreRejected == identity # None => work \subseteq {identity.projectId}
=============================================================================
