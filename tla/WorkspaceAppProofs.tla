-------------------------- MODULE WorkspaceAppProofs --------------------------
(***************************************************************************)
(* The safety of the React workspace for any projects, revisions, loads    *)
(* and scenarios in flight: TypeOK, ShownIsOfTheSession, NeverGoesBack,    *)
(* ProposalFitsThePage and LockHasHolder.  None is inductive alone; what   *)
(* carries them is that the load of the token is of the session's project, *)
(* began when the server had all that was shown of it, and shows what the  *)
(* session names.                                                          *)
(***************************************************************************)
EXTENDS WorkspaceApp, TLAPS

\* The load of the token.
Token ==
    load # None =>
        /\ identity # None
        /\ load.projectId = identity.projectId
        /\ load.stage = "reading" =>
              identity.revision = 0 /\ seen[load.projectId] <= load.revision
        /\ load.stage # "reading" => load.revision # 0 /\ identity = ShownBy(load)

\* Before the project is shown there is no proposal.
NoEarlyProposal == identity # None /\ identity.revision = 0 => page.proposal = None

SeenIsStored == \A id \in Projects : seen[id] <= stored[id]

IInv ==
    /\ TypeOK /\ Token /\ NoEarlyProposal /\ SeenIsStored
    /\ ShownIsOfTheSession /\ NeverGoesBack /\ ProposalFitsThePage /\ LockHasHolder

USE DEF server, opened, session, requests

-----------------------------------------------------------------------------
(* What the parts of the actions do.                                       *)

LEMMA InFlightAreLoads ==
    ASSUME TypeOK
    PROVE  InFlight \subseteq Load /\ None \notin InFlight
BY DEF TypeOK, InFlight

\* A load that begins has the token of a blank page.
LEMMA BeginKeeps ==
    ASSUME IInv, NEW id \in Projects, NEW by \in {"effect", "event", "change", "scenario"},
           Begin(id, by), seen' = seen, stored' \in [Projects -> 0..MaxRevision],
           \A i \in Projects : stored[i] <= stored'[i]
    PROVE  /\ load' \in Load /\ load'.by = by
           /\ overtaken' \subseteq Load /\ identity' \in Identity /\ page' = Blank
           /\ InFlight \subseteq InFlight' /\ load' \in InFlight'
           /\ Token' /\ NoEarlyProposal' /\ SeenIsStored'
           /\ ShownIsOfTheSession' /\ NeverGoesBack' /\ ProposalFitsThePage'
<1>1. /\ load' = [projectId |-> id, by |-> by, stage |-> "reading", revision |-> stored[id]]
      /\ overtaken' = InFlight /\ identity' = [projectId |-> id, revision |-> 0]
      /\ page' = Blank
  BY DEF Begin
<1>2. stored[id] \in 0..MaxRevision /\ seen[id] <= stored[id]
  BY DEF IInv, TypeOK, SeenIsStored
<1>3. load' \in Load /\ identity' \in Identity /\ load' # None /\ identity' # None
  BY <1>1, <1>2, AppAssumption, NoneAssumption DEF Load, Identity
<1>4. overtaken' \subseteq Load /\ InFlight \subseteq InFlight' /\ load' \in InFlight'
  BY <1>1, <1>3, InFlightAreLoads DEF IInv, InFlight
<1>5. Token'
  BY <1>1, <1>2, <1>3 DEF Token
<1>6. SeenIsStored'
  <2>1. \A i \in Projects : seen[i] \in Nat /\ stored[i] \in Nat /\ stored'[i] \in Nat
    BY AppAssumption DEF IInv, TypeOK
  <2> QED
    BY <2>1 DEF IInv, SeenIsStored
<1>7. NoEarlyProposal' /\ ShownIsOfTheSession' /\ NeverGoesBack' /\ ProposalFitsThePage'
  BY <1>1, <1>3 DEF Blank, NoEarlyProposal, ShownIsOfTheSession, NeverGoesBack,
     ProposalFitsThePage
<1> QED
  BY <1>1, <1>3, <1>4, <1>5, <1>6, <1>7

\* A load that ends takes no other with it, and leaves no lock without one.
LEMMA EndsKeeps ==
    ASSUME IInv, NEW l \in InFlight, Ends(l)
    PROVE  /\ load' \in {load, None} /\ overtaken' \subseteq Load
           /\ change' \in Change \cup {None} /\ LockHasHolder'
<1>1. l \in Load /\ l # None
  BY InFlightAreLoads DEF IInv
<1>2. load' \in {load, None} /\ overtaken' \subseteq Load /\ change' \in Change \cup {None}
  BY DEF Ends, ReleasesLock, IInv, TypeOK
<1>3. InFlight \ {l} \subseteq InFlight'
  BY DEF Ends, InFlight
<1>4. LockHasHolder'
  BY <1>3 DEF IInv, LockHasHolder, Ends, ReleasesLock
<1> QED
  BY <1>2, <1>4

\* A session that is cleared leaves its load among the others.
LEMMA ClearKeeps ==
    ASSUME IInv, ClearSession, change' = change
    PROVE  /\ identity' = None /\ load' = None /\ overtaken' \subseteq Load
           /\ Token' /\ NoEarlyProposal' /\ LockHasHolder'
<1>1. overtaken' \subseteq Load /\ InFlight' = InFlight
  BY InFlightAreLoads DEF IInv, ClearSession, InFlight
<1> QED
  BY <1>1 DEF IInv, ClearSession, Token, NoEarlyProposal, LockHasHolder

-----------------------------------------------------------------------------
(* Loads.                                                                  *)

LEMMA ShowStep ==
    ASSUME IInv, NEW l \in InFlight, Show(l)
    PROVE  IInv'
<1>1. l \in Load /\ l = load /\ load # None /\ l.projectId \in Projects
  BY InFlightAreLoads DEF IInv, Show, Accepts, Load
<1>2. /\ identity # None /\ l.projectId = identity.projectId /\ identity.revision = 0
      /\ seen[l.projectId] <= l.revision /\ page.proposal = None
  BY <1>1 DEF IInv, Token, NoEarlyProposal, Show
<1>3. PICK project, graph \in {n \in 1..stored[l.projectId] : n >= l.revision} :
         /\ identity' = ShownBy([l EXCEPT !.revision = project])
         /\ page' = [page EXCEPT !.project = ShownBy([l EXCEPT !.revision = project]),
                                 !.graph = [ShownBy([l EXCEPT !.revision = project])
                                               EXCEPT !.revision = graph]]
         /\ seen' = [seen EXCEPT ![l.projectId] = IF project > @ THEN project ELSE @]
         /\ \/ projectId # None /\ \E stage \in {"circuit", "geometry"} :
                  GoesOn([l EXCEPT !.revision = project], stage)
            \/ Ends(l)
  BY DEF Show
<1> DEFINE shown == [projectId |-> l.projectId, revision |-> project]
<1>4. /\ stored[l.projectId] \in 0..MaxRevision /\ project \in 1..MaxRevision
      /\ graph \in 1..MaxRevision /\ l.revision \in 0..MaxRevision
      /\ seen[l.projectId] \in 0..MaxRevision
  BY <1>1, AppAssumption DEF IInv, TypeOK, Load
<1>5. ShownBy([l EXCEPT !.revision = project]) = shown /\ shown \in Revision /\ shown # None
  <2>1. shown \in Identity /\ shown \in Revision
    BY <1>1, <1>4 DEF Identity, Revision
  <2> QED
    BY <1>1, <2>1, NoneAssumption DEF ShownBy, Load
<1>6. identity' = shown /\ page'.project = shown /\ page'.proposal = None
  BY <1>2, <1>3, <1>5 DEF IInv, TypeOK
<1>7. seen' = [seen EXCEPT ![l.projectId] = project] /\ project <= stored[l.projectId]
  <2>1. seen[l.projectId] <= project /\ project <= stored[l.projectId]
    BY <1>2, <1>4
  <2>2. (IF project > seen[l.projectId] THEN project ELSE seen[l.projectId]) = project
    BY <1>4, <2>1
  <2> QED
    BY <1>3, <2>1, <2>2
<1>8. /\ load' \in Load \cup {None} /\ overtaken' \subseteq Load
      /\ change' \in Change \cup {None}
      /\ Token' /\ LockHasHolder'
  <2>1. CASE Ends(l)
    <3>1. load' = None
      BY <1>1, <2>1 DEF Ends
    <3> QED
      BY <2>1, <3>1, EndsKeeps DEF Token
  <2>2. ASSUME NEW stage \in {"circuit", "geometry"},
               GoesOn([l EXCEPT !.revision = project], stage)
        PROVE  /\ load' \in Load \cup {None} /\ overtaken' \subseteq Load
               /\ change' \in Change \cup {None}
               /\ Token' /\ LockHasHolder'
    <3>1. /\ load' \in Load /\ load'.projectId = l.projectId /\ load'.by = l.by
          /\ load'.stage = stage /\ load'.revision = project
          /\ overtaken' = overtaken /\ change' = change
      <4>1. [l EXCEPT !.revision = project] \in Load
        BY <1>1, <1>4 DEF Load
      <4> QED
        BY <1>1, <2>2, <4>1 DEF GoesOn, Load
    <3>2. Token'
      BY <3>1, <1>4, <1>5, <1>6 DEF Token, ShownBy
    <3>3. load' \in InFlight' /\ \A m \in InFlight : m = l \/ m \in InFlight'
      BY <1>1, <3>1, NoneAssumption DEF InFlight
    <3>4. LockHasHolder'
      BY <3>1, <3>3 DEF IInv, LockHasHolder
    <3> QED
      BY <3>1, <3>2, <3>4 DEF IInv, TypeOK
  <2> QED
    BY <1>3, <2>1, <2>2
<1>9. TypeOK'
  <2>1. [ShownBy([l EXCEPT !.revision = project]) EXCEPT !.revision = graph] \in Revision
    BY <1>1, <1>4, <1>5 DEF Revision
  <2>2. page' \in [project : Revision \cup {None}, graph : Revision \cup {None},
                   circuit : Revision \cup {None}, cad : Revision \cup {None},
                   proposal : Revision \cup {None}]
    BY <1>3, <1>5, <2>1 DEF IInv, TypeOK
  <2>3. seen' \in [Projects -> 0..MaxRevision] /\ identity' \in Identity
    BY <1>1, <1>4, <1>5, <1>6, <1>7 DEF IInv, TypeOK, Identity, Revision
  <2> QED
    BY <1>8, <2>2, <2>3 DEF Show, IInv, TypeOK
<1>10. NoEarlyProposal' /\ ProposalFitsThePage'
  BY <1>6 DEF NoEarlyProposal, ProposalFitsThePage
<1>11. SeenIsStored' /\ NeverGoesBack'
  BY <1>1, <1>6, <1>7 DEF Show, IInv, TypeOK, SeenIsStored, NeverGoesBack
<1>12. ShownIsOfTheSession'
  <2>1. page.project = None /\ {page.circuit, page.cad} \subseteq {None}
    BY <1>2 DEF IInv, ShownIsOfTheSession
  <2>2. page'.graph.projectId = l.projectId /\ page'.circuit = None /\ page'.cad = None
    BY <1>3, <1>5, <2>1 DEF IInv, TypeOK
  <2> QED
    BY <1>4, <1>5, <1>6, <2>2 DEF ShownIsOfTheSession
<1> QED
  BY <1>8, <1>9, <1>10, <1>11, <1>12 DEF IInv

\* A load that is accepted past its reading shows what the session names.
LEMMA ShownByTheToken ==
    ASSUME IInv, NEW l \in InFlight, l.stage # "reading", Accepts(l)
    PROVE  /\ l = load /\ load # None /\ l \in Load /\ identity # None
           /\ ShownBy(l) = identity /\ identity.revision # 0
           /\ page.project = identity /\ identity \in Revision
<1>1. l = load /\ load # None /\ l \in Load
  BY InFlightAreLoads DEF IInv, Accepts
<1>2. identity # None /\ ShownBy(l) = identity /\ l.revision # 0
  BY <1>1 DEF IInv, Token
<1>3. identity.revision = l.revision /\ identity \in Revision
  BY <1>1, <1>2, AppAssumption DEF ShownBy, Load, Revision
<1> QED
  BY <1>1, <1>2, <1>3 DEF IInv, ShownIsOfTheSession

\* It goes on, or ends.
LEMMA TokenGoesOn ==
    ASSUME IInv, NEW l \in InFlight, l.stage # "reading", Accepts(l), identity' = identity,
           seen' = seen, GoesOn(l, "geometry") \/ Ends(l)
    PROVE  /\ load' \in Load \cup {None} /\ overtaken' \subseteq Load
           /\ change' \in Change \cup {None}
           /\ Token' /\ LockHasHolder'
<1>1. l = load /\ l \in Load /\ load # None /\ ShownBy(l) = identity /\ identity # None
  BY ShownByTheToken
<1>2. CASE Ends(l)
  <2>1. load' = None
    BY <1>1, <1>2 DEF Ends
  <2> QED
    BY <1>2, <2>1, EndsKeeps DEF Token
<1>3. CASE GoesOn(l, "geometry")
  <2>1. /\ load' \in Load /\ load'.projectId = l.projectId /\ load'.by = l.by
        /\ load'.stage = "geometry" /\ load'.revision = l.revision
        /\ overtaken' = overtaken /\ change' = change
    BY <1>1, <1>3 DEF GoesOn, Load
  <2>2. Token'
    BY <1>1, <2>1 DEF IInv, Token, ShownBy
  <2>3. load' \in InFlight' /\ \A m \in InFlight : m = l \/ m \in InFlight'
    BY <1>1, <2>1, NoneAssumption DEF InFlight
  <2>4. LockHasHolder'
    BY <2>1, <2>3 DEF IInv, LockHasHolder
  <2> QED
    BY <2>1, <2>2, <2>4 DEF IInv, TypeOK
<1> QED
  BY <1>2, <1>3

LEMMA ShowCircuitStep ==
    ASSUME IInv, NEW l \in InFlight, ShowCircuit(l)
    PROVE  IInv'
<1>1. /\ ShownBy(l) = identity /\ page.project = identity
      /\ identity # None /\ identity \in Revision
  BY ShownByTheToken DEF ShowCircuit
<1>2. /\ load' \in Load \cup {None} /\ overtaken' \subseteq Load
      /\ change' \in Change \cup {None} /\ Token' /\ LockHasHolder'
  BY TokenGoesOn DEF ShowCircuit
<1>3. page' = [page EXCEPT !.circuit = identity] /\ UNCHANGED <<server, opened, identity, scenarios, seen>>
  BY <1>1 DEF ShowCircuit
<1>4. TypeOK'
  BY <1>1, <1>2, <1>3 DEF IInv, TypeOK
<1>5. ShownIsOfTheSession'
  BY <1>1, <1>3 DEF IInv, TypeOK, ShownIsOfTheSession
<1>6. NoEarlyProposal' /\ SeenIsStored' /\ NeverGoesBack' /\ ProposalFitsThePage'
  BY <1>3 DEF IInv, TypeOK, NoEarlyProposal, SeenIsStored, NeverGoesBack, ProposalFitsThePage
<1> QED
  BY <1>2, <1>4, <1>5, <1>6 DEF IInv

LEMMA AddCadStep ==
    ASSUME IInv, NEW l \in InFlight, AddCad(l)
    PROVE  IInv'
<1>1. /\ ShownBy(l) = identity /\ page.project = identity
      /\ identity # None /\ identity \in Revision
  BY ShownByTheToken DEF AddCad
<1>2. /\ load' \in Load \cup {None} /\ overtaken' \subseteq Load
      /\ change' \in Change \cup {None} /\ Token' /\ LockHasHolder'
  BY TokenGoesOn DEF AddCad
<1>3. page' = [page EXCEPT !.cad = identity] /\ UNCHANGED <<server, opened, identity, scenarios, seen>>
  BY <1>1 DEF AddCad
<1>4. TypeOK'
  BY <1>1, <1>2, <1>3 DEF IInv, TypeOK
<1>5. ShownIsOfTheSession'
  BY <1>1, <1>3 DEF IInv, TypeOK, ShownIsOfTheSession
<1>6. NoEarlyProposal' /\ SeenIsStored' /\ NeverGoesBack' /\ ProposalFitsThePage'
  BY <1>3 DEF IInv, TypeOK, NoEarlyProposal, SeenIsStored, NeverGoesBack, ProposalFitsThePage
<1> QED
  BY <1>2, <1>4, <1>5, <1>6 DEF IInv

\* A load that ends where it stands leaves the page alone.
LEMMA EndedStep ==
    ASSUME IInv, NEW l \in InFlight, Ends(l),
           UNCHANGED <<server, opened, identity, scenarios, page, seen>>
    PROVE  IInv'
<1>1. /\ load' \in {load, None} /\ overtaken' \subseteq Load
      /\ change' \in Change \cup {None} /\ LockHasHolder'
  BY EndsKeeps
<1>2. TypeOK'
  BY <1>1 DEF IInv, TypeOK
<1>3. Token'
  BY <1>1 DEF IInv, Token, ShownBy
<1>4. NoEarlyProposal' /\ SeenIsStored' /\ ShownIsOfTheSession' /\ NeverGoesBack' /\
      ProposalFitsThePage'
  BY DEF IInv, NoEarlyProposal, SeenIsStored, ShownIsOfTheSession, NeverGoesBack,
     ProposalFitsThePage
<1> QED
  BY <1>1, <1>2, <1>3, <1>4 DEF IInv

LEMMA AbandonStep == ASSUME IInv, NEW l \in InFlight, Abandon(l) PROVE IInv'
BY EndedStep DEF Abandon

LEMMA GiveUpGeometryStep == ASSUME IInv, NEW l \in InFlight, GiveUpGeometry(l) PROVE IInv'
BY EndedStep DEF GiveUpGeometry

LEMMA FailStep == ASSUME IInv, NEW l \in InFlight, Fail(l) PROVE IInv'
BY EndedStep DEF Fail

LEMMA FailToOpenStep ==
    ASSUME IInv, NEW l \in InFlight, FailToOpen(l)
    PROVE  IInv'
<1>1. /\ identity' = None /\ load' = None /\ overtaken' = InFlight \ {l}
      /\ projectId' = None /\ cursor' = 0 /\ last' = 0
      /\ UNCHANGED <<server, requests, page, seen>>
  BY DEF FailToOpen
<1>2. TypeOK'
  BY <1>1, InFlightAreLoads, AppAssumption DEF IInv, TypeOK
<1>3. Token' /\ NoEarlyProposal' /\ SeenIsStored' /\ ShownIsOfTheSession' /\
      NeverGoesBack' /\ ProposalFitsThePage'
  BY <1>1 DEF IInv, Token, NoEarlyProposal, SeenIsStored, ShownIsOfTheSession,
     NeverGoesBack, ProposalFitsThePage
<1>4. LockHasHolder'
  <2>1. l.by # "change" /\ InFlight' = InFlight \ {l}
    BY <1>1, InFlightAreLoads DEF IInv, InFlight, FailToOpen, LeavesProject
  <2> QED
    BY <1>1, <2>1 DEF IInv, LockHasHolder
<1> QED
  BY <1>2, <1>3, <1>4 DEF IInv

-----------------------------------------------------------------------------
(* Events and commits.                                                     *)

LEMMA LoadAnnouncedStep == ASSUME IInv, LoadAnnounced PROVE IInv'
<1>1. projectId \in Projects /\ cursor' \in 0..MaxRevision /\ last' \in 0..MaxRevision
  BY AppAssumption DEF LoadAnnounced, IInv, TypeOK
<1>2. /\ load' \in Load /\ overtaken' \subseteq Load /\ identity' \in Identity
      /\ page' = Blank /\ InFlight \subseteq InFlight'
      /\ Token' /\ NoEarlyProposal' /\ SeenIsStored'
      /\ ShownIsOfTheSession' /\ NeverGoesBack' /\ ProposalFitsThePage'
  BY <1>1, BeginKeeps, AppAssumption DEF LoadAnnounced, IInv, TypeOK
<1>3. TypeOK'
  BY <1>1, <1>2 DEF LoadAnnounced, Blank, IInv, TypeOK
<1>4. LockHasHolder'
  BY <1>2 DEF LoadAnnounced, IInv, LockHasHolder
<1> QED
  BY <1>2, <1>3, <1>4 DEF IInv

LEMMA PassEventStep == ASSUME IInv, PassEvent PROVE IInv'
<1>1. cursor' \in 0..MaxRevision /\ last' \in 0..MaxRevision
  BY AppAssumption DEF PassEvent, IInv, TypeOK
<1>2. TypeOK'
  BY <1>1 DEF PassEvent, IInv, TypeOK
<1>3. Token' /\ NoEarlyProposal' /\ SeenIsStored' /\ ShownIsOfTheSession' /\
      NeverGoesBack' /\ ProposalFitsThePage' /\ LockHasHolder'
  BY DEF PassEvent, IInv, Token, ShownBy, NoEarlyProposal, SeenIsStored,
     ShownIsOfTheSession, NeverGoesBack, ProposalFitsThePage, LockHasHolder, InFlight
<1> QED
  BY <1>2, <1>3 DEF IInv

LEMMA ReconnectStep == ASSUME IInv, Reconnect PROVE IInv'
<1>1. TypeOK'
  BY DEF Reconnect, IInv, TypeOK
<1>2. Token' /\ NoEarlyProposal' /\ SeenIsStored' /\ ShownIsOfTheSession' /\
      NeverGoesBack' /\ ProposalFitsThePage' /\ LockHasHolder'
  BY DEF Reconnect, IInv, Token, ShownBy, NoEarlyProposal, SeenIsStored,
     ShownIsOfTheSession, NeverGoesBack, ProposalFitsThePage, LockHasHolder, InFlight
<1> QED
  BY <1>1, <1>2 DEF IInv

\* A new revision, announced or not.
LEMMA NewRevisionType ==
    ASSUME IInv, NEW id \in Projects, Announces(id) \/ AppliesScenario(id)
    PROVE  /\ stored' \in [Projects -> 0..MaxRevision]
           /\ silent' \in [Projects -> SUBSET (1..MaxRevision)]
           /\ \A i \in Projects : stored[i] <= stored'[i]
<1>1. /\ stored \in [Projects -> 0..MaxRevision]
      /\ silent \in [Projects -> SUBSET (1..MaxRevision)]
  BY DEF IInv, TypeOK
<1>2. stored[id] + 1 \in 1..MaxRevision /\ stored' = [stored EXCEPT ![id] = @ + 1]
  BY <1>1, AppAssumption DEF Announces, AppliesScenario, NewRevision
<1>3. silent' \in [Projects -> SUBSET (1..MaxRevision)]
  BY <1>1, <1>2 DEF Announces, AppliesScenario
<1>4. stored' \in [Projects -> 0..MaxRevision]
  BY <1>1, <1>2
<1>5. \A i \in Projects : stored[i] <= stored'[i]
  BY <1>1, <1>2, AppAssumption
<1> QED
  BY <1>3, <1>4, <1>5

\* A step of the server or of a request that leaves the page and its loads
\* alone, and gives the lock to no load.
LEMMA PageAlone ==
    ASSUME IInv, UNCHANGED <<opened, session, page, seen>>,
           stored' \in [Projects -> 0..MaxRevision],
           silent' \in [Projects -> SUBSET (1..MaxRevision)],
           \A i \in Projects : stored[i] <= stored'[i],
           change' \in Change \cup {None}, scenarios' \subseteq Scenario,
           change' # change /\ change' # None => change'.stage # "loading"
    PROVE  IInv'
<1>1. TypeOK'
  BY DEF IInv, TypeOK
<1>2. SeenIsStored'
  <2>1. \A i \in Projects : seen[i] \in Nat /\ stored[i] \in Nat /\ stored'[i] \in Nat
    BY AppAssumption DEF IInv, TypeOK
  <2> QED
    BY <2>1 DEF IInv, SeenIsStored
<1>3. Token' /\ NoEarlyProposal' /\ ShownIsOfTheSession' /\ NeverGoesBack' /\
      ProposalFitsThePage'
  BY DEF IInv, Token, ShownBy, NoEarlyProposal, ShownIsOfTheSession, NeverGoesBack,
     ProposalFitsThePage
<1>4. LockHasHolder'
  BY DEF IInv, LockHasHolder, InFlight
<1> QED
  BY <1>1, <1>2, <1>3, <1>4 DEF IInv

\* The server stays as it is.
LEMMA StoredStays ==
    ASSUME IInv, UNCHANGED server
    PROVE  /\ stored' \in [Projects -> 0..MaxRevision]
           /\ silent' \in [Projects -> SUBSET (1..MaxRevision)]
           /\ \A i \in Projects : stored[i] <= stored'[i]
BY AppAssumption DEF IInv, TypeOK

LEMMA CommitElsewhereStep == ASSUME IInv, NEW id \in Projects, CommitElsewhere(id) PROVE IInv'
BY NewRevisionType, PageAlone DEF CommitElsewhere, IInv, TypeOK

-----------------------------------------------------------------------------
(* Navigation.                                                             *)

\* A project is entered with nothing on the page.
LEMMA EnterKeeps ==
    ASSUME IInv, NEW id \in Projects, Enter(id), UNCHANGED <<silent, requests, seen>>,
           stored' \in [Projects -> 0..MaxRevision],
           \A i \in Projects : stored[i] <= stored'[i]
    PROVE  IInv'
<1>1. projectId' = id /\ cursor' = 0 /\ last' = 0 /\ Begin(id, "effect")
  BY DEF Enter
<1>2. /\ load' \in Load /\ overtaken' \subseteq Load /\ identity' \in Identity
      /\ page' = Blank /\ InFlight \subseteq InFlight'
      /\ Token' /\ NoEarlyProposal' /\ SeenIsStored'
      /\ ShownIsOfTheSession' /\ NeverGoesBack' /\ ProposalFitsThePage'
  BY <1>1, BeginKeeps
<1>3. TypeOK'
  BY <1>1, <1>2, AppAssumption DEF Blank, IInv, TypeOK
<1>4. LockHasHolder'
  BY <1>2 DEF IInv, LockHasHolder
<1> QED
  BY <1>2, <1>3, <1>4 DEF IInv

LEMMA CreateStep == ASSUME IInv, NEW id \in Projects, Create(id) PROVE IInv'
<1>1. /\ stored \in [Projects -> 0..MaxRevision] /\ stored[id] = 0
      /\ stored' = [stored EXCEPT ![id] = 1]
  BY DEF Create, IInv, TypeOK
<1>2. stored' \in [Projects -> 0..MaxRevision] /\ \A i \in Projects : stored[i] <= stored'[i]
  BY <1>1, AppAssumption
<1> QED
  BY <1>2, EnterKeeps DEF Create

LEMMA SwitchProjectStep == ASSUME IInv, NEW id \in Projects, SwitchProject(id) PROVE IInv'
BY StoredStays, EnterKeeps DEF SwitchProject

LEMMA SwitchToSameStep == ASSUME IInv, SwitchToSame PROVE IInv'
<1>1. /\ identity' = None /\ load' = None /\ overtaken' \subseteq Load
      /\ Token' /\ NoEarlyProposal' /\ LockHasHolder'
  BY ClearKeeps DEF SwitchToSame
<1>2. /\ page' = [page EXCEPT !.project = None, !.graph = None, !.circuit = None, !.cad = None]
      /\ UNCHANGED <<server, opened, requests, seen>>
  BY DEF SwitchToSame
<1>3. TypeOK'
  BY <1>1, <1>2 DEF IInv, TypeOK
<1>4. SeenIsStored' /\ ShownIsOfTheSession' /\ NeverGoesBack' /\ ProposalFitsThePage'
  BY <1>1, <1>2 DEF IInv, TypeOK, SeenIsStored, ShownIsOfTheSession, NeverGoesBack,
     ProposalFitsThePage
<1> QED
  BY <1>1, <1>3, <1>4 DEF IInv

LEMMA ResetWorkspaceStep == ASSUME IInv, ResetWorkspace PROVE IInv'
<1>1. /\ identity' = None /\ load' = None /\ overtaken' \subseteq Load
      /\ Token' /\ NoEarlyProposal' /\ LockHasHolder'
  BY ClearKeeps DEF ResetWorkspace
<1>2. /\ page' = Blank /\ projectId' = None /\ cursor' = 0 /\ last' = 0
      /\ UNCHANGED <<server, requests, seen>>
  BY DEF ResetWorkspace
<1>3. TypeOK'
  BY <1>1, <1>2, AppAssumption DEF IInv, TypeOK, Blank
<1>4. SeenIsStored' /\ ShownIsOfTheSession' /\ NeverGoesBack' /\ ProposalFitsThePage'
  BY <1>1, <1>2 DEF IInv, Blank, SeenIsStored, ShownIsOfTheSession, NeverGoesBack,
     ProposalFitsThePage
<1> QED
  BY <1>1, <1>3, <1>4 DEF IInv

-----------------------------------------------------------------------------
(* Changes and scenarios.                                                  *)

LEMMA AsksStep ==
    ASSUME IInv, NEW kind \in {"propose", "apply", "cancel", "undo"}, Asks(kind)
    PROVE  IInv'
<1>1. page.project \in Revision
  BY DEF Asks, IInv, TypeOK
<1>2. change' \in Change /\ change'.stage = "asked"
  BY <1>1 DEF Asks, Target, Change
<1> QED
  BY <1>2, StoredStays, PageAlone DEF Asks, IInv, TypeOK

LEMMA CommitStep == ASSUME IInv, Commit PROVE IInv'
<1>1. change \in Change /\ change.target.projectId \in Projects
  BY DEF Commit, Change, Revision, IInv, TypeOK
<1>2. change' \in Change /\ change'.stage = "done"
  BY <1>1 DEF Commit, Change
<1>3. Announces(change.target.projectId)
  BY DEF Commit
<1> QED
  BY <1>1, <1>2, <1>3, NewRevisionType, PageAlone DEF Commit, IInv, TypeOK

LEMMA TakeAnswerStep == ASSUME IInv, TakeAnswer PROVE IInv'
<1>1. change \in Change /\ change.target \in Revision /\ change' = None
  BY DEF TakeAnswer, Change, IInv, TypeOK
<1>2. \/ identity = change.target /\ page' = [page EXCEPT !.proposal = change.target]
      \/ page' = [page EXCEPT !.proposal = None]
  BY DEF TakeAnswer, Fits
<1>3. UNCHANGED <<server, opened, session, scenarios, seen>>
  BY DEF TakeAnswer
<1>4. TypeOK'
  BY <1>1, <1>2, <1>3 DEF IInv, TypeOK
<1>5. ProposalFitsThePage' /\ NoEarlyProposal'
  <2>1. CASE identity = change.target /\ page' = [page EXCEPT !.proposal = change.target]
    <3>1. identity # None /\ identity.revision # 0
      BY <1>1, <2>1, AppAssumption, NoneAssumption DEF Revision, Identity
    <3>2. page.project = identity
      BY <3>1 DEF IInv, ShownIsOfTheSession
    <3> QED
      BY <1>3, <2>1, <3>1, <3>2 DEF IInv, TypeOK, ProposalFitsThePage, NoEarlyProposal
  <2>2. CASE page' = [page EXCEPT !.proposal = None]
    BY <1>3, <2>2 DEF IInv, TypeOK, ProposalFitsThePage, NoEarlyProposal
  <2> QED
    BY <1>2, <2>1, <2>2
<1>6. Token' /\ SeenIsStored' /\ ShownIsOfTheSession' /\ NeverGoesBack' /\ LockHasHolder'
  BY <1>1, <1>2, <1>3 DEF IInv, TypeOK, Token, ShownBy, SeenIsStored, ShownIsOfTheSession,
     NeverGoesBack, LockHasHolder
<1> QED
  BY <1>4, <1>5, <1>6 DEF IInv

LEMMA ReloadStep == ASSUME IInv, Reload PROVE IInv'
<1>1. change \in Change /\ change.target.projectId \in Projects
  BY DEF Reload, Change, Revision, IInv, TypeOK
<1>2. change' \in Change
  BY <1>1 DEF Reload, Change
<1>3. /\ load' \in Load /\ load'.by = "change"
      /\ overtaken' \subseteq Load /\ identity' \in Identity
      /\ page' = Blank /\ load' \in InFlight'
      /\ Token' /\ NoEarlyProposal' /\ SeenIsStored'
      /\ ShownIsOfTheSession' /\ NeverGoesBack' /\ ProposalFitsThePage'
  BY <1>1, BeginKeeps, StoredStays DEF Reload
<1>4. TypeOK'
  BY <1>2, <1>3 DEF Reload, Blank, IInv, TypeOK
<1>5. LockHasHolder'
  BY <1>3 DEF LockHasHolder
<1> QED
  BY <1>3, <1>4, <1>5 DEF IInv

LEMMA DismissStep == ASSUME IInv, Dismiss PROVE IInv'
BY StoredStays, PageAlone DEF Dismiss, IInv, TypeOK

LEMMA ApplyScenarioStep == ASSUME IInv, ApplyScenario PROVE IInv'
<1>1. page.project \in Revision
  BY DEF ApplyScenario, IInv, TypeOK
<1>2. page.project.projectId \in Projects
  BY <1>1 DEF Revision
<1>3. stored[page.project.projectId] \in 0..MaxRevision
  BY <1>2 DEF IInv, TypeOK
<1>4. [projectId |-> page.project.projectId, base |-> stored[page.project.projectId],
       done |-> FALSE] \in Scenario
  BY <1>2, <1>3 DEF Scenario
<1>5. scenarios' \subseteq Scenario
  BY <1>4 DEF ApplyScenario, IInv, TypeOK
<1> QED
  BY <1>5, StoredStays, PageAlone DEF ApplyScenario, IInv, TypeOK

LEMMA CommitScenarioStep == ASSUME IInv, NEW a \in scenarios, CommitScenario(a) PROVE IInv'
<1>1. a \in Scenario /\ a.projectId \in Projects
  BY DEF IInv, TypeOK, Scenario
<1>2. scenarios' \subseteq Scenario
  BY <1>1 DEF CommitScenario, Scenario, IInv, TypeOK
<1>3. AppliesScenario(a.projectId)
  BY DEF CommitScenario
<1> QED
  BY <1>1, <1>2, <1>3, NewRevisionType, PageAlone DEF CommitScenario, IInv, TypeOK

LEMMA LoadAppliedStep == ASSUME IInv, NEW a \in scenarios, LoadApplied(a) PROVE IInv'
<1>1. a.projectId \in Projects
  BY DEF IInv, TypeOK, Scenario
<1>2. /\ load' \in Load /\ overtaken' \subseteq Load /\ identity' \in Identity
      /\ page' = Blank /\ InFlight \subseteq InFlight'
      /\ Token' /\ NoEarlyProposal' /\ SeenIsStored'
      /\ ShownIsOfTheSession' /\ NeverGoesBack' /\ ProposalFitsThePage'
  BY <1>1, BeginKeeps, StoredStays DEF LoadApplied
<1>3. TypeOK'
  BY <1>2 DEF LoadApplied, Blank, IInv, TypeOK
<1>4. LockHasHolder'
  BY <1>2 DEF LoadApplied, IInv, LockHasHolder
<1> QED
  BY <1>2, <1>3, <1>4 DEF IInv

LEMMA DismissScenarioStep == ASSUME IInv, NEW a \in scenarios, DismissScenario(a) PROVE IInv'
BY StoredStays, PageAlone DEF DismissScenario, IInv, TypeOK

-----------------------------------------------------------------------------
LEMMA InitEstablishes == Init => IInv
<1> SUFFICES ASSUME Init PROVE IInv
  OBVIOUS
<1>1. /\ stored \in [Projects -> 0..MaxRevision] /\ projectId \in Projects \cup {None}
      /\ load \in Load \cup {None} /\ identity \in Identity \cup {None}
  BY AppAssumption DEF Init, Load, Identity
<1>2. TypeOK
  BY <1>1, AppAssumption DEF Init, TypeOK, Blank
<1>3. SeenIsStored
  BY <1>1, AppAssumption DEF Init, SeenIsStored
<1>4. Token
  BY <1>1, AppAssumption, NoneAssumption DEF Init, Token, Identity
<1>5. NoEarlyProposal /\ ShownIsOfTheSession /\ NeverGoesBack /\ ProposalFitsThePage
  BY DEF Init, NoEarlyProposal, ShownIsOfTheSession, NeverGoesBack, ProposalFitsThePage, Blank
<1>6. LockHasHolder
  BY DEF Init, LockHasHolder
<1> QED
  BY <1>2, <1>3, <1>4, <1>5, <1>6 DEF IInv

LEMMA StutterKeeps == ASSUME IInv, UNCHANGED vars PROVE IInv'
BY DEF IInv, vars, TypeOK, Token, NoEarlyProposal, SeenIsStored, ShownIsOfTheSession,
       NeverGoesBack, ProposalFitsThePage, LockHasHolder, ShownBy, InFlight

LEMMA NextKeeps == IInv /\ [Next]_vars => IInv'
<1> SUFFICES ASSUME IInv, [Next]_vars PROVE IInv'
  OBVIOUS
<1>1. CASE \E l \in InFlight : LoadStep(l) \/ Fail(l) \/ FailToOpen(l)
  BY <1>1, ShowStep, ShowCircuitStep, AddCadStep, AbandonStep, GiveUpGeometryStep,
     FailStep, FailToOpenStep DEF LoadStep
<1>2. CASE HearEvent \/ Reconnect
  BY <1>2, LoadAnnouncedStep, PassEventStep, ReconnectStep DEF HearEvent
<1>3. CASE SwitchToSame \/ ResetWorkspace
  BY <1>3, SwitchToSameStep, ResetWorkspaceStep
<1>4. CASE ChangeStep
  BY <1>4, CommitStep, TakeAnswerStep, ReloadStep, DismissStep DEF ChangeStep
<1>5. CASE \E id \in Projects : CommitElsewhere(id) \/ Create(id) \/ SwitchProject(id)
  BY <1>5, CommitElsewhereStep, CreateStep, SwitchProjectStep
<1>6. CASE \E kind \in {"propose", "apply", "cancel", "undo"} : Asks(kind)
  BY <1>6, AsksStep
<1>7. CASE ApplyScenario
  BY <1>7, ApplyScenarioStep
<1>8. CASE \E a \in scenarios : CommitScenario(a) \/ LoadApplied(a) \/ DismissScenario(a)
  BY <1>8, CommitScenarioStep, LoadAppliedStep, DismissScenarioStep
<1>9. CASE UNCHANGED vars
  BY <1>9, StutterKeeps
<1> QED
  BY <1>1, <1>2, <1>3, <1>4, <1>5, <1>6, <1>7, <1>8, <1>9 DEF Next

LEMMA Invariance == Spec => []IInv
BY InitEstablishes, NextKeeps, PTL DEF Spec

\* Every variable of the page holds a value of its kind, however many loads
\* overtake each other.
THEOREM PageTypes == Spec => []TypeOK
BY Invariance, PTL DEF IInv

\* A late answer never puts on the page what is not of its session: the project
\* and graph of another project, or the schematic and geometry of another
\* revision.
THEOREM LateArtifactsAreKeptOut == Spec => []ShownIsOfTheSession
BY Invariance, PTL DEF IInv

\* Loads overtake each other, an applied scenario is loaded over another open
\* project, and projects are left and opened again, but the page never shows a
\* revision of a project before one it has shown of it.
THEOREM PageNeverGoesBack == Spec => []NeverGoesBack
BY Invariance, PTL DEF IInv

\* A proposal is offered only on the revision it was made for.
THEOREM ProposalsFit == Spec => []ProposalFitsThePage
BY Invariance, PTL DEF IInv

\* The lock of a change whose request is answered is held by a load.
THEOREM LockIsHeld == Spec => []LockHasHolder
BY Invariance, PTL DEF IInv
=============================================================================
