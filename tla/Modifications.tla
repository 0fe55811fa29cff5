--------------------------- MODULE Modifications ---------------------------
(***************************************************************************)
(* What the changes of a project do to its engineering graph: the edits of *)
(* workspace/modifications.py, their inverses, and the What-If scenarios   *)
(* that are applied.  Module Workspace shows that a change is written on   *)
(* the revision it was computed from, so that computing, verifying and     *)
(* storing it are one step here.                                           *)
(*                                                                         *)
(* Of the graph remain the components, the mechanical relationships and    *)
(* the connection entities that record their interfaces.  A relationship   *)
(* and its connection share an identity, as the planner and _attach pair   *)
(* them (<connection>-edge).  The metadata of a component is a function    *)
(* from paths to values.                                                   *)
(***************************************************************************)
EXTENDS Naturals, Sequences

CONSTANTS
    Components, Families,
    Offers,        \* Offers[f]: the interfaces of family f
    Connections,   \* identities of connections; a new one is drawn by uuid4
    Dimensions, Sizes,
    Settings,      \* values of a parameter that can be set (driver_type)
    Mosfet,        \* the one a repair sets
    Drivers,       \* the families a verification finding can repair
    Definitions, Catalogue,   \* curated definitions: their family and sizes
    Plan,          \* the graph of the first revision
    MaxRevisions,  \* bound on the revisions of a run
    None           \* null

ASSUME NoneAssumption ==
    None \notin UNION {Components, Connections, Sizes, Settings, Definitions}

\* A curated definition has all dimensions or none
ConstantsAssumption ==
    /\ MaxRevisions \in Nat
    /\ Mosfet \in Settings
    /\ Dimensions \cap {"definition", "pinned", "setting", "protection"} = {}
    /\ Catalogue \in [Definitions -> [family : Families,
                                     sizes : [Dimensions -> Sizes] \cup [{} -> Sizes]]]
ASSUME ConstantsAssumption

Path == Dimensions \cup {"definition", "pinned", "setting", "protection"}
Value == UNION {Sizes, Settings, Definitions, {None, "flyback"}}

Part == [family : Families, meta : [Path -> Value]]
Mate == [source : Components, target : Components]
InterfaceName == {i.name : i \in UNION {Offers[f] : f \in Families}}
Connection == [source : Components, target : Components,
               sourceInterface : InterfaceName, targetInterface : InterfaceName]

\* f is a function from some of S to T
Maps(f, S, T) == DOMAIN f \subseteq S /\ f \in [DOMAIN f -> T]

IsGraph(g) ==
    /\ g = [parts |-> g.parts, mates |-> g.mates, connections |-> g.connections]
    /\ Maps(g.parts, Components, Part)
    /\ Maps(g.mates, Connections, Mate)
    /\ Maps(g.connections, Connections, Connection)

(***************************************************************************)
(* Reading a graph.                                                        *)
(***************************************************************************)
Parts(g) == DOMAIN g.parts
Ends(m) == {m.source, m.target}
\* The structural relationships of c
Existing(g, c) == {m \in DOMAIN g.mates : c \in Ends(g.mates[m])}
\* The interfaces taken by the relationships in ms
Occupied(g, ms) ==
    UNION {{<<g.mates[m].source, g.connections[m].sourceInterface>>,
            <<g.mates[m].target, g.connections[m].targetInterface>>} : m \in ms}
\* Interface j of a component of family h fits interface i of one of family f
FitInterfaces(f, i, h, j) ==
    \E x \in Offers[f], y \in Offers[h] :
        x.name = i /\ y.name = j /\ y.kind \in x.compatible

(***************************************************************************)
(* What a sound graph is.  The planner connects each component to those    *)
(* before it, and takes for each connection interfaces that fit and that   *)
(* no other connection uses (planner/service.py, connect).                 *)
(***************************************************************************)
\* The parts that engineering_assembly does not mate to another: its roots,
\* when it found interfaces for the relationships ms
Roots(g, ms) == {c \in Parts(g) : \A m \in ms : g.mates[m].target # c}
\* ps holds the target of a mate as soon as it holds the source
ClosedUnder(g, ms, ps) ==
    \A m \in ms : g.mates[m].source \in ps => g.mates[m].target \in ps

IsPlaced(g) ==
    \A ms \in SUBSET DOMAIN g.mates, ps \in SUBSET Parts(g) :
        Roots(g, ms) \subseteq ps /\ ClosedUnder(g, ms, ps) => ps = Parts(g)

SharesNothing(g) ==
    \A m, n \in DOMAIN g.mates :
        m # n => Occupied(g, {m}) \cap Occupied(g, {n}) = {}

Agrees(g) ==
    \A m \in DOMAIN g.mates :
        /\ m \in DOMAIN g.connections
        /\ g.mates[m].source = g.connections[m].source
        /\ g.mates[m].target = g.connections[m].target
        /\ g.mates[m].source # g.mates[m].target
        /\ Ends(g.mates[m]) \subseteq Parts(g)

\* The relationships between components that are not in cs fit
FitsBut(g, cs) ==
    \A m \in DOMAIN g.mates :
        Ends(g.mates[m]) \cap cs = {} =>
            LET c == g.connections[m]
            IN  FitInterfaces(g.parts[c.source].family, c.sourceInterface,
                              g.parts[c.target].family, c.targetInterface)

PlanAssumption ==
    IsGraph(Plan) /\ IsPlaced(Plan) /\ SharesNothing(Plan) /\ Agrees(Plan)
    /\ FitsBut(Plan, {})
ASSUME PlanAssumption

VARIABLE
    revisions  \* the revisions table: graph, kind and diff of each revision

(***************************************************************************)
(* Changing a graph: the operations of a patch.                            *)
(***************************************************************************)
\* dict.update
OverlayReplaces(old, new) == new  \* mutant: the new values alone
Overlay(old, new) ==
    [p \in DOMAIN old |-> IF p \in DOMAIN new THEN new[p] ELSE old[p]]
Without(f, x) == [y \in DOMAIN f \ {x} |-> f[y]]
With(f, x, v) == [y \in DOMAIN f \cup {x} |-> IF y = x THEN v ELSE f[y]]

Edited(g, c, new) ==
    [g EXCEPT !.parts = With(g.parts, c, [g.parts[c] EXCEPT !.meta = Overlay(@, new)])]
\* mutant: the entity of the connection keeps its interfaces
MatedOnly(g, m, connection) ==
    [g EXCEPT !.mates = With(@, m, [source |-> connection.source,
                                    target |-> connection.target])]
Mated(g, m, connection) ==
    [parts |-> g.parts,
     mates |-> With(g.mates, m, [source |-> connection.source,
                                 target |-> connection.target]),
     connections |-> With(g.connections, m, connection)]
Unmated(g, m) ==
    [parts |-> g.parts, mates |-> Without(g.mates, m),
     connections |-> Without(g.connections, m)]

(***************************************************************************)
(* The last revision, and writing the next.                                *)
(***************************************************************************)
Last == revisions[Len(revisions)]
Current == Last.graph

\* A change as the diff of a revision records it: which operation, on what,
\* and the values it replaced
Change(operation, id, old) == [operation |-> operation, id |-> id, old |-> old]

\* A revision is written if verification accepts it, which is not modelled:
\* a rejected change leaves everything as it is
Commit(kind, graph, change) ==
    revisions' = Append(revisions,
                        [graph |-> graph, kind |-> kind, change |-> change])

Init == revisions = <<[graph |-> Plan, kind |-> "creation",
                       change |-> Change("none", None, None)]>>

(***************************************************************************)
(* _attach: mount the target on a free interface of the reference.  A      *)
(* component with one structural relationship is moved, with none it is    *)
(* added; with more the request is refused.                                *)
(***************************************************************************)
\* What the request would store
Attachment(reference, i, target, j) ==
    [source |-> reference, target |-> target,
     sourceInterface |-> i, targetInterface |-> j]

\* mutant: a component with several relationships can be moved
MovesAny(g, reference, i, target, j) ==
    /\ reference # target
    /\ FitInterfaces(g.parts[reference].family, i, g.parts[target].family, j)
    /\ <<reference, i>> \notin
           Occupied(g, DOMAIN g.mates \ Existing(g, target))
\* mutant: an interface in use can be taken
TakesUsed(g, reference, i, target, j) ==
    /\ reference # target
    /\ FitInterfaces(g.parts[reference].family, i, g.parts[target].family, j)
    /\ \A a, b \in Existing(g, target) : a = b
MayAttach(g, reference, i, target, j) ==
    /\ reference # target
    /\ FitInterfaces(g.parts[reference].family, i, g.parts[target].family, j)
    /\ \A a, b \in Existing(g, target) : a = b
    /\ <<reference, i>> \notin
           Occupied(g, DOMAIN g.mates \ Existing(g, target))

\* The connection's entity must be there: mechanical_connection_incomplete
Move(reference, i, target, j, m) ==
    /\ m \in Existing(Current, target) \cap DOMAIN Current.connections
    /\ Commit("modification",
              Mated(Current, m, Attachment(reference, i, target, j)),
              Change("update", m,
                     [Current.connections[m] EXCEPT
                          !.source = Current.mates[m].source,
                          !.target = Current.mates[m].target]))

Add(reference, i, target, j, m) ==
    /\ Existing(Current, target) = {}
    /\ \A k \in 1..Len(revisions) : m \notin DOMAIN revisions[k].graph.connections
    /\ Commit("modification",
              Mated(Current, m, Attachment(reference, i, target, j)),
              Change("add", m, None))

Attach ==
    \E reference, target \in Parts(Current), i, j \in InterfaceName :
        /\ MayAttach(Current, reference, i, target, j)
        /\ \E m \in Connections :
              \/ Move(reference, i, target, j, m)
              \/ Add(reference, i, target, j, m)

(***************************************************************************)
(* The edits of a component's metadata.  Each writes new values and        *)
(* records the old ones of the paths it reports.                           *)
(***************************************************************************)
Edit(c, new, reported) ==
    Commit("modification", Edited(Current, c, new),
           Change("replace", c,
                  [p \in reported |-> Current.parts[c].meta[p]]))

\* _scale: some dimensions, others preserved
Scale(c) ==
    \E scaled \in SUBSET {p \in Dimensions : Current.parts[c].meta[p] # None} :
        /\ scaled # {}
        /\ \E new \in [scaled -> Sizes] : Edit(c, new, scaled)

\* _set_parameter: an existing parameter to another value
SetParameter(c) ==
    \E v \in Settings \ {Current.parts[c].meta["setting"]} :
        /\ Current.parts[c].meta["setting"] # None
        /\ Edit(c, [p \in {"setting"} |-> v], {"setting"})

\* _replace: a curated definition of the family, with its sizes if it has any
Replacement(d) ==
    [p \in {"definition", "pinned"} \cup DOMAIN Catalogue[d].sizes |->
        IF p \in Dimensions THEN Catalogue[d].sizes[p] ELSE d]
Replace(c) ==
    \E d \in Definitions :
        /\ Catalogue[d].family = Current.parts[c].family
        /\ Edit(c, Replacement(d), {"definition"})

\* propose, for the repair of a finding: a protected MOSFET driver
Repair(c) ==
    /\ Current.parts[c].family \in Drivers
    /\ Edit(c, [p \in {"setting", "protection"} |->
                   IF p = "setting" THEN Mosfet ELSE "flyback"], {"setting"})

(***************************************************************************)
(* inverse_proposal, committed: only of the last revision, and only if it  *)
(* is a modification.                                                      *)
(***************************************************************************)
\* mutant: a moved component goes back, but not to its interface
InverseKeepsInterface(g, change) ==
    CASE change.operation = "add" -> Unmated(g, change.id)
      [] change.operation = "update" ->
             Mated(g, change.id,
                   [change.old EXCEPT !.targetInterface =
                        g.connections[change.id].targetInterface])
      [] change.operation = "replace" -> Edited(g, change.id, change.old)
Inverse(g, change) ==
    CASE change.operation = "add" -> Unmated(g, change.id)
      [] change.operation = "update" -> Mated(g, change.id, change.old)
      [] change.operation = "replace" -> Edited(g, change.id, change.old)

\* What the change names is still there: otherwise nothing_to_undo
Undoable(g, change) ==
    IF change.operation = "replace"
    THEN change.id \in Parts(g)
    ELSE change.id \in DOMAIN g.mates \cap DOMAIN g.connections

Undo ==
    /\ Last.kind = "modification"
    /\ Undoable(Current, Last.change)
    /\ Commit("undo", Inverse(Current, Last.change), Change("none", None, None))

(***************************************************************************)
(* Applying a scenario.  Removing a component removes its relationships    *)
(* and leaves their connection entities.                                   *)
(***************************************************************************)
Removed(g, c) ==
    [parts |-> Without(g.parts, c),
     mates |-> [m \in DOMAIN g.mates \ Existing(g, c) |-> g.mates[m]],
     connections |-> g.connections]
RemoveComponent(c) == Commit("scenario", Removed(Current, c), Change("none", c, None))

\* The language model judges the candidate; what the graph keeps of it is the family
\* and the definition it names (and parameters, which are left out)
Exchanged(g, c, family, d) ==
    [g EXCEPT !.parts = With(g.parts, c,
        [family |-> family,
         meta |-> Overlay(g.parts[c].meta, [p \in {"definition", "pinned"} |-> d])])]
ReplaceComponent(c) ==
    \E f \in Families, d \in Definitions \cup {None} :
        Commit("scenario", Exchanged(Current, c, f, d), Change("none", c, None))

\* Of the properties a scenario may set the dimensions are kept
ModifyProperty(c) ==
    \E p \in Dimensions, v \in Sizes :
        Commit("scenario", Edited(Current, c, [q \in {p} |-> v]),
               Change("none", c, None))

ApplyScenario ==
    \E c \in Parts(Current) :
        RemoveComponent(c) \/ ReplaceComponent(c) \/ ModifyProperty(c)

Modify ==
    \E c \in Parts(Current) :
        Scale(c) \/ SetParameter(c) \/ Replace(c) \/ Repair(c)

Next ==
    /\ Len(revisions) < MaxRevisions
    /\ Attach \/ Modify \/ Undo \/ ApplyScenario

Spec == Init /\ [][Next]_revisions

(***************************************************************************)
(* Properties.                                                             *)
(***************************************************************************)
\* What a diff holds: the connection as it was, or the values that were replaced
IsChange(change) ==
    /\ change.operation \in {"none", "add", "update", "replace"}
    /\ change.operation \in {"add", "update"} => change.id \in Connections
    /\ change.operation = "update" => change.old \in Connection
    /\ change.operation = "replace" =>
           change.id \in Components /\ Maps(change.old, Path, Value)

\* Every revision is a graph, made in a known way
TypeOK ==
    \A k \in DOMAIN revisions :
        /\ IsGraph(revisions[k].graph)
        /\ IsChange(revisions[k].change)
        /\ revisions[k].kind \in {"creation", "modification", "undo", "scenario"}

\* No sequence of edits, undos and scenarios makes a mechanism that the assembly
\* cannot be solved for ("directed mechanical mate cycle", "mate topology is not
\* reachable from a root"): from the parts that hang on nothing the mates lead
\* to every part, whichever of the relationships find interfaces to mate.
EveryPartIsPlaced == IsPlaced(Current)

\* No interface of a component is used by two mechanical relationships, although
\* only the reference's side is compared with those in use: what the assembly
\* mates does not depend on the order in which it meets the relationships.
InterfacesAreNotShared == SharesNothing(Current)

\* A relationship and the connection entity that records its interfaces are
\* changed in two operations of a patch, and stay of the same two components,
\* which are there.
ConnectionsAgree == Agrees(Current)

\* Components that a scenario has replaced by one of another family, perhaps
Replaced ==
    {revisions[k].change.id : k \in {k \in DOMAIN revisions :
                                        revisions[k].kind = "scenario"}}

\* The interfaces a relationship joins exist in the families of its components
\* and fit, unless one of them was exchanged for another component by a scenario,
\* which judges the roles and not the interfaces in use. It would take an undo
\* that restores one end only, or an edit that swaps the ends, to break it.
MatesFit == FitsBut(Current, Replaced)

\* What a modification writes and does not report as changed
Unreported(change) ==
    CASE change.operation # "replace" -> {}
      [] change.operation = "replace" /\ "definition" \in DOMAIN change.old ->
             Dimensions \cup {"pinned"}
      [] change.operation = "replace" /\ "setting" \in DOMAIN change.old ->
             {"protection"}
      [] OTHER -> {}

\* The relationships, the interfaces, the components and their values are those of
\* before, but for the values the change wrote without reporting them
Restores(before, change, after) ==
    /\ after.mates = before.mates
    /\ after.connections = before.connections
    /\ Parts(after) = Parts(before)
    /\ \A c \in Parts(after) :
          /\ after.parts[c].family = before.parts[c].family
          /\ \A p \in Path :
                \/ after.parts[c].meta[p] = before.parts[c].meta[p]
                \/ c = change.id /\ p \in Unreported(change)

\* Undoing a modification restores the graph before it: the same relationships
\* on the same interfaces, the same components, and the same values but for
\* those the modification wrote without reporting them.
UndoRestores ==
    \A k \in DOMAIN revisions :
        revisions[k].kind = "undo" =>
            Restores(revisions[k - 2].graph, revisions[k - 1].change,
                     revisions[k].graph)
=============================================================================
