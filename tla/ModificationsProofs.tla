------------------------ MODULE ModificationsProofs ------------------------
(***************************************************************************)
(* Proofs about the changes of an engineering graph, for any components,   *)
(* families, curated definitions and plan: whatever is edited, undone and  *)
(* applied, every part can be placed, no interface is shared, and an undo  *)
(* restores what it undoes.                                                *)
(*                                                                         *)
(* None of this is inductive over the last revision alone, because an undo *)
(* goes back to what the revision before had: the invariant is about all   *)
(* revisions, and keeps that the inverse of each modification restores the *)
(* revision before it.                                                     *)
(***************************************************************************)
EXTENDS Modifications, TLAPS

\* The graph is sound but for the fit of its interfaces
Sound(g) == IsPlaced(g) /\ SharesNothing(g) /\ Agrees(g)

\* The table has a first revision
IsTable == revisions \in Seq({revisions[k] : k \in DOMAIN revisions}) /\ revisions # <<>>

\* Undoing the revision, if that is possible, restores the graph before
CanBeUndone(before, revision) ==
    /\ revision.change.operation # "none"
    /\ Undoable(revision.graph, revision.change) =>
           Restores(before, revision.change, Inverse(revision.graph, revision.change))

IInv ==
    /\ IsTable
    /\ TypeOK
    /\ \A k \in DOMAIN revisions :
          /\ Sound(revisions[k].graph)
          /\ FitsBut(revisions[k].graph, Replaced)
          /\ revisions[k].kind = "modification" =>
                k > 1 /\ CanBeUndone(revisions[k - 1].graph, revisions[k])
          /\ revisions[k].kind = "undo" =>
                /\ k > 2
                /\ Restores(revisions[k - 2].graph, revisions[k - 1].change,
                            revisions[k].graph)

-----------------------------------------------------------------------------
(***************************************************************************)
(* Functions.                                                              *)
(***************************************************************************)
\* Adding or replacing an entry keeps the types.
LEMMA WithMaps ==
    ASSUME NEW f, NEW S, NEW T, Maps(f, S, T), NEW x \in S, NEW v \in T
    PROVE  /\ Maps(With(f, x, v), S, T)
           /\ DOMAIN With(f, x, v) = DOMAIN f \cup {x}
           /\ With(f, x, v)[x] = v
           /\ \A y \in DOMAIN f \ {x} : With(f, x, v)[y] = f[y]
BY DEF Maps, With

\* So does removing one.
LEMMA WithoutMaps ==
    ASSUME NEW f, NEW S, NEW T, Maps(f, S, T), NEW x
    PROVE  /\ Maps(Without(f, x), S, T)
           /\ DOMAIN Without(f, x) = DOMAIN f \ {x}
           /\ \A y \in DOMAIN f \ {x} : Without(f, x)[y] = f[y]
BY DEF Maps, Without

\* An entry that was added can be removed again.
LEMMA AddedAndRemoved ==
    ASSUME NEW f, NEW S, NEW T, Maps(f, S, T), NEW x, x \notin DOMAIN f, NEW v
    PROVE  Without(With(f, x, v), x) = f
BY DEF Maps, With, Without

\* An entry that was replaced can be put back.
LEMMA ReplacedAndPutBack ==
    ASSUME NEW f, NEW S, NEW T, Maps(f, S, T), NEW x \in DOMAIN f, NEW v
    PROVE  With(With(f, x, v), x, f[x]) = f
BY DEF Maps, With

-----------------------------------------------------------------------------
(***************************************************************************)
(* Graphs.                                                                 *)
(***************************************************************************)
\* An edit changes values of one component and nothing else.
LEMMA EditedFacts ==
    ASSUME NEW g, IsGraph(g), NEW c \in Parts(g), NEW new,
           \A p \in DOMAIN new \cap Path : new[p] \in Value
    PROVE  /\ IsGraph(Edited(g, c, new))
           /\ Edited(g, c, new).mates = g.mates
           /\ Edited(g, c, new).connections = g.connections
           /\ Parts(Edited(g, c, new)) = Parts(g)
           /\ \A d \in Parts(g) : Edited(g, c, new).parts[d].family = g.parts[d].family
           /\ \A d \in Parts(g) \ {c} : Edited(g, c, new).parts[d] = g.parts[d]
           /\ \A p \in Path : Edited(g, c, new).parts[c].meta[p] =
                 IF p \in DOMAIN new THEN new[p] ELSE g.parts[c].meta[p]
<1> DEFINE part == [g.parts[c] EXCEPT !.meta = Overlay(@, new)]
<1>1. /\ Maps(g.parts, Components, Part) /\ c \in DOMAIN g.parts /\ c \in Components
      /\ g.parts[c] \in Part
  BY DEF IsGraph, Maps, Parts
<1>2. g.parts[c].meta \in [Path -> Value] /\ g.parts[c].family \in Families
  BY <1>1 DEF Part
<1>3. /\ Overlay(g.parts[c].meta, new) \in [Path -> Value]
      /\ \A p \in Path : Overlay(g.parts[c].meta, new)[p] =
            IF p \in DOMAIN new THEN new[p] ELSE g.parts[c].meta[p]
  BY <1>2 DEF Overlay
<1>4. /\ part \in Part /\ part.family = g.parts[c].family
      /\ part.meta = Overlay(g.parts[c].meta, new)
  BY <1>1, <1>2, <1>3 DEF Part
<1>5. /\ Edited(g, c, new) = [parts |-> With(g.parts, c, part), mates |-> g.mates,
                              connections |-> g.connections]
  BY DEF Edited, IsGraph
<1> HIDE DEF part
<1>6. /\ Maps(With(g.parts, c, part), Components, Part)
      /\ DOMAIN With(g.parts, c, part) = DOMAIN g.parts
      /\ With(g.parts, c, part)[c] = part
      /\ \A d \in DOMAIN g.parts \ {c} : With(g.parts, c, part)[d] = g.parts[d]
  <2>1. part \in Part /\ c \in Components /\ Maps(g.parts, Components, Part)
    BY <1>1, <1>4
  <2>2. Maps(With(g.parts, c, part), Components, Part)
    BY <2>1, WithMaps
  <2>3. DOMAIN With(g.parts, c, part) = DOMAIN g.parts
    BY <1>1 DEF With
  <2>4. /\ With(g.parts, c, part)[c] = part
        /\ \A d \in DOMAIN g.parts \ {c} : With(g.parts, c, part)[d] = g.parts[d]
    BY <1>1 DEF With
  <2> QED
    BY <2>2, <2>3, <2>4
<1>7. IsGraph(Edited(g, c, new))
  BY <1>5, <1>6 DEF IsGraph
<1> QED
  BY <1>1, <1>3, <1>4, <1>5, <1>6, <1>7 DEF Parts

\* Mating changes one relationship and its connection.
LEMMA MatedFacts ==
    ASSUME NEW g, IsGraph(g), NEW m \in Connections, NEW connection \in Connection
    PROVE  /\ IsGraph(Mated(g, m, connection))
           /\ Mated(g, m, connection).parts = g.parts
           /\ Mated(g, m, connection).mates =
                 With(g.mates, m, [source |-> connection.source, target |-> connection.target])
           /\ Mated(g, m, connection).connections = With(g.connections, m, connection)
<1> DEFINE mate == [source |-> connection.source, target |-> connection.target]
<1>1. mate \in Mate
  BY DEF Mate, Connection
<1>2. Mated(g, m, connection) = [parts |-> g.parts, mates |-> With(g.mates, m, mate),
                                 connections |-> With(g.connections, m, connection)]
  BY DEF Mated
<1> HIDE DEF mate
<1>3. /\ Maps(With(g.mates, m, mate), Connections, Mate)
      /\ Maps(With(g.connections, m, connection), Connections, Connection)
  BY <1>1, WithMaps DEF IsGraph
<1> QED
  BY <1>2, <1>3 DEF IsGraph, mate

\* Unmating removes one relationship and its connection.
LEMMA UnmatedFacts ==
    ASSUME NEW g, IsGraph(g), NEW m
    PROVE  /\ IsGraph(Unmated(g, m))
           /\ Unmated(g, m).parts = g.parts
           /\ Unmated(g, m).mates = Without(g.mates, m)
           /\ Unmated(g, m).connections = Without(g.connections, m)
<1>1. Unmated(g, m) = [parts |-> g.parts, mates |-> Without(g.mates, m),
                       connections |-> Without(g.connections, m)]
  BY DEF Unmated
<1>2. /\ Maps(Without(g.mates, m), Connections, Mate)
      /\ Maps(Without(g.connections, m), Connections, Connection)
  BY WithoutMaps DEF IsGraph
<1> QED
  BY <1>1, <1>2 DEF IsGraph

\* Soundness is about relationships, interfaces and families: a graph with the
\* same ones is as sound.
LEMMA SameStructure ==
    ASSUME NEW g, NEW h, h.mates = g.mates, h.connections = g.connections,
           Parts(h) = Parts(g), Sound(g)
    PROVE  Sound(h)
<1>1. IsPlaced(h)
  BY DEF Sound, IsPlaced, Roots, ClosedUnder
<1>2. SharesNothing(h)
  BY DEF Sound, SharesNothing, Occupied
<1>3. Agrees(h)
  BY DEF Sound, Agrees
<1> QED
  BY <1>1, <1>2, <1>3 DEF Sound

\* If the families are the same too, what fits goes on to fit, also when more is
\* excepted.
LEMMA SameFit ==
    ASSUME NEW g, NEW h, h.mates = g.mates, h.connections = g.connections,
           NEW cs, NEW ds, cs \subseteq ds, Sound(g), FitsBut(g, cs),
           \A c \in Parts(g) \ ds : h.parts[c].family = g.parts[c].family
    PROVE  FitsBut(h, ds)
<1> SUFFICES ASSUME NEW m \in DOMAIN g.mates, Ends(g.mates[m]) \cap ds = {}
             PROVE  FitInterfaces(h.parts[g.connections[m].source].family,
                                  g.connections[m].sourceInterface,
                                  h.parts[g.connections[m].target].family,
                                  g.connections[m].targetInterface)
  BY DEF FitsBut
<1>1. /\ g.connections[m].source \in Parts(g) \ ds
      /\ g.connections[m].target \in Parts(g) \ ds
  BY DEF Sound, Agrees, Ends
<1>2. FitInterfaces(g.parts[g.connections[m].source].family,
                    g.connections[m].sourceInterface,
                    g.parts[g.connections[m].target].family,
                    g.connections[m].targetInterface)
  BY DEF FitsBut
<1> QED
  BY <1>1, <1>2

-----------------------------------------------------------------------------
(***************************************************************************)
(* Attaching: the target has no other relationship, so that a set of parts *)
(* closed under the new mates is, with the target, closed under the old.   *)
(***************************************************************************)
LEMMA AttachedIsPlaced ==
    ASSUME NEW g, NEW h, IsPlaced(g), Parts(h) = Parts(g), NEW m,
           NEW r \in Parts(g), NEW t \in Parts(g), r # t,
           DOMAIN h.mates = DOMAIN g.mates \cup {m},
           h.mates[m].source = r, h.mates[m].target = t,
           \A n \in DOMAIN g.mates \ {m} : h.mates[n] = g.mates[n],
           Existing(g, t) \subseteq {m}
    PROVE  IsPlaced(h)
<1> SUFFICES ASSUME NEW ms \in SUBSET DOMAIN h.mates, NEW ps \in SUBSET Parts(h),
                    Roots(h, ms) \subseteq ps, ClosedUnder(h, ms, ps)
             PROVE  ps = Parts(h)
  BY DEF IsPlaced
<1> DEFINE ns == ms \ {m}
<1>1. ns \in SUBSET DOMAIN g.mates /\ \A n \in ns : h.mates[n] = g.mates[n]
  OBVIOUS
<1>2. \A n \in ns : g.mates[n].source # t /\ g.mates[n].target # t
  BY <1>1 DEF Existing, Ends
<1>3. CASE m \notin ms
  <2>1. ns = ms
    BY <1>3
  <2>2. Roots(g, ns) \subseteq ps /\ ClosedUnder(g, ns, ps)
    BY <1>1, <2>1 DEF Roots, ClosedUnder
  <2> QED
    BY <1>1, <2>2 DEF IsPlaced
<1>4. CASE m \in ms
  <2>1. Roots(g, ns) \subseteq ps \cup {t}
    BY <1>1, <1>4 DEF Roots
  <2>2. ClosedUnder(g, ns, ps \cup {t})
    BY <1>1, <1>2 DEF ClosedUnder
  <2>3. ps \cup {t} = Parts(g)
    BY <1>1, <2>1, <2>2 DEF IsPlaced
  <2>4. t \in ps
    BY <1>4, <2>3 DEF ClosedUnder
  <2> QED
    BY <2>3, <2>4
<1> QED
  BY <1>3, <1>4

\* A component is attached by its only relationship or by a new one: the graph stays
\* sound.
LEMMA AttachedIsSound ==
    ASSUME NEW g, IsGraph(g), Sound(g), NEW r \in Parts(g), NEW t \in Parts(g),
           NEW i \in InterfaceName, NEW j \in InterfaceName, MayAttach(g, r, i, t, j),
           NEW m \in Connections, Existing(g, t) \subseteq {m},
           m \in DOMAIN g.mates => m \in Existing(g, t)
    PROVE  LET h == Mated(g, m, Attachment(r, i, t, j))
           IN  /\ Sound(h)
               /\ \A cs : FitsBut(g, cs) => FitsBut(h, cs)
<1> DEFINE a == Attachment(r, i, t, j)
           h == Mated(g, m, a)
<1>1. /\ a \in Connection /\ a.source = r /\ a.target = t
      /\ a.sourceInterface = i /\ a.targetInterface = j
  BY DEF Attachment, Connection, Parts, IsGraph, Maps
<1> HIDE DEF a
<1>2. /\ h.parts = g.parts
      /\ h.mates = With(g.mates, m, [source |-> r, target |-> t])
      /\ h.connections = With(g.connections, m, a)
  BY <1>1, MatedFacts
<1> HIDE DEF h
<1>3. /\ Parts(h) = Parts(g)
      /\ DOMAIN h.mates = DOMAIN g.mates \cup {m}
      /\ h.mates[m].source = r /\ h.mates[m].target = t
      /\ \A n \in DOMAIN g.mates \ {m} : h.mates[n] = g.mates[n]
      /\ DOMAIN h.connections = DOMAIN g.connections \cup {m}
      /\ h.connections[m] = a
      /\ \A n \in DOMAIN g.connections \ {m} : h.connections[n] = g.connections[n]
  BY <1>2 DEF With, Parts
<1>4. \A n \in DOMAIN g.mates \ {m} :
         /\ n \in DOMAIN g.connections
         /\ h.connections[n] = g.connections[n]
         /\ t \notin Ends(g.mates[n])
  BY <1>3 DEF Sound, Agrees, Existing
<1>5. r # t
  BY DEF MayAttach
<1>6. IsPlaced(h)
  BY <1>3, <1>5, AttachedIsPlaced DEF Sound
<1>7. Agrees(h)
  <2>1. \A n \in DOMAIN g.mates \ {m} :
           /\ n \in DOMAIN h.connections
           /\ h.mates[n].source = h.connections[n].source
           /\ h.mates[n].target = h.connections[n].target
           /\ h.mates[n].source # h.mates[n].target
           /\ Ends(h.mates[n]) \subseteq Parts(h)
    BY <1>3, <1>4 DEF Sound, Agrees
  <2>2. /\ m \in DOMAIN h.connections
        /\ h.mates[m].source = h.connections[m].source
        /\ h.mates[m].target = h.connections[m].target
        /\ h.mates[m].source # h.mates[m].target
        /\ Ends(h.mates[m]) \subseteq Parts(h)
    BY <1>1, <1>3, <1>5 DEF Ends
  <2> QED
    BY <1>3, <2>1, <2>2 DEF Agrees
<1>8. SharesNothing(h)
  <2>1. \A n \in DOMAIN g.mates \ {m} : Occupied(h, {n}) = Occupied(g, {n})
    BY <1>3, <1>4 DEF Occupied
  <2>2. Occupied(h, {m}) = {<<r, i>>, <<t, j>>}
    BY <1>1, <1>3 DEF Occupied
  <2>3. \A n \in DOMAIN g.mates \ {m} : Occupied(g, {n}) \cap Occupied(h, {m}) = {}
    <3> SUFFICES ASSUME NEW n \in DOMAIN g.mates \ {m}
                 PROVE  <<r, i>> \notin Occupied(g, {n}) /\ <<t, j>> \notin Occupied(g, {n})
      BY <2>2
    <3>1. n \in DOMAIN g.mates \ Existing(g, t)
      BY <1>4 DEF Existing
    <3>2. <<r, i>> \notin Occupied(g, {n})
      BY <3>1 DEF MayAttach, Occupied
    <3>3. <<t, j>> \notin Occupied(g, {n})
      BY <1>4 DEF Occupied, Ends
    <3> QED
      BY <3>2, <3>3
  <2>4. \A n, o \in DOMAIN g.mates : n # o => Occupied(g, {n}) \cap Occupied(g, {o}) = {}
    BY DEF Sound, SharesNothing
  <2> QED
    BY <1>3, <2>1, <2>3, <2>4 DEF SharesNothing
<1>9. ASSUME NEW cs, FitsBut(g, cs)
      PROVE  FitsBut(h, cs)
  <2> DEFINE Fit(n) == FitInterfaces(g.parts[h.connections[n].source].family,
                                     h.connections[n].sourceInterface,
                                     g.parts[h.connections[n].target].family,
                                     h.connections[n].targetInterface)
  <2>1. \A n \in DOMAIN g.mates \ {m} : Ends(h.mates[n]) \cap cs = {} => Fit(n)
    BY <1>3, <1>4, <1>9 DEF FitsBut
  <2>2. Fit(m)
    BY <1>1, <1>3 DEF MayAttach
  <2> QED
    BY <1>2, <1>3, <2>1, <2>2 DEF FitsBut
<1> QED
  BY <1>6, <1>7, <1>8, <1>9 DEF Sound, h, a

-----------------------------------------------------------------------------
\* Removing a component takes its relationships with it: the graph stays sound.
LEMMA RemovedIsSound ==
    ASSUME NEW g, IsGraph(g), Sound(g), NEW c \in Parts(g), NEW cs, FitsBut(g, cs)
    PROVE  IsGraph(Removed(g, c)) /\ Sound(Removed(g, c)) /\ FitsBut(Removed(g, c), cs)
<1> DEFINE h == Removed(g, c)
<1>1. /\ h = [parts |-> h.parts, mates |-> h.mates, connections |-> h.connections]
      /\ h.parts = Without(g.parts, c)
      /\ h.mates = [m \in DOMAIN g.mates \ Existing(g, c) |-> g.mates[m]]
      /\ h.connections = g.connections
  BY DEF Removed
<1> HIDE DEF h
<1>2. /\ Maps(h.parts, Components, Part)
      /\ Parts(h) = Parts(g) \ {c}
      /\ \A d \in Parts(g) \ {c} : h.parts[d] = g.parts[d]
  <2>1. Maps(g.parts, Components, Part)
    BY DEF IsGraph
  <2>2. Maps(Without(g.parts, c), Components, Part)
    BY <2>1, WithoutMaps
  <2> QED
    BY <1>1, <2>2 DEF Without, Parts
<1>3. /\ DOMAIN h.mates \subseteq DOMAIN g.mates
      /\ \A m \in DOMAIN h.mates : h.mates[m] = g.mates[m] /\ c \notin Ends(g.mates[m])
  BY <1>1 DEF Existing
<1>4. Maps(h.mates, Connections, Mate)
  BY <1>1 DEF IsGraph, Maps
<1>5. IsGraph(h)
  BY <1>1, <1>2, <1>4 DEF IsGraph
<1>6. IsPlaced(h)
  <2> SUFFICES ASSUME NEW ms \in SUBSET DOMAIN h.mates, NEW ps \in SUBSET Parts(h),
                      Roots(h, ms) \subseteq ps, ClosedUnder(h, ms, ps)
               PROVE  ps = Parts(h)
    BY DEF IsPlaced
  <2>1. \A m \in ms : h.mates[m] = g.mates[m] /\ g.mates[m].source # c
    BY <1>3 DEF Ends
  <2>2. Roots(g, ms) \subseteq ps \cup {c}
    BY <1>2, <2>1 DEF Roots
  <2>3. ClosedUnder(g, ms, ps \cup {c})
    BY <2>1 DEF ClosedUnder
  <2>4. ms \in SUBSET DOMAIN g.mates /\ ps \cup {c} \in SUBSET Parts(g)
    BY <1>2, <1>3
  <2>5. ps \cup {c} = Parts(g)
    BY <2>2, <2>3, <2>4 DEF Sound, IsPlaced
  <2> QED
    BY <1>2, <2>5
<1>7. SharesNothing(h)
  <2>1. \A m \in DOMAIN h.mates : Occupied(h, {m}) = Occupied(g, {m})
    BY <1>1, <1>3 DEF Occupied
  <2> QED
    BY <1>3, <2>1 DEF Sound, SharesNothing
<1>8. Agrees(h)
  BY <1>1, <1>2, <1>3 DEF Sound, Agrees
<1>9. FitsBut(h, cs)
  <2> SUFFICES ASSUME NEW m \in DOMAIN h.mates, Ends(h.mates[m]) \cap cs = {}
               PROVE  FitInterfaces(h.parts[h.connections[m].source].family,
                                    h.connections[m].sourceInterface,
                                    h.parts[h.connections[m].target].family,
                                    h.connections[m].targetInterface)
    BY DEF FitsBut
  <2>1. m \in DOMAIN g.mates /\ h.mates[m] = g.mates[m] /\ c \notin Ends(g.mates[m])
    BY <1>3
  <2>2. /\ g.connections[m].source \in Parts(g) \ {c}
        /\ g.connections[m].target \in Parts(g) \ {c}
    BY <2>1 DEF Sound, Agrees, Ends
  <2>3. FitInterfaces(g.parts[g.connections[m].source].family,
                      g.connections[m].sourceInterface,
                      g.parts[g.connections[m].target].family,
                      g.connections[m].targetInterface)
    BY <2>1 DEF FitsBut
  <2> QED
    BY <1>1, <1>2, <2>2, <2>3
<1> QED
  BY <1>5, <1>6, <1>7, <1>8, <1>9 DEF Sound, h

\* Exchanging a component for another keeps the relationships; what they join there
\* is excepted from then on.
LEMMA ExchangedIsSound ==
    ASSUME NEW g, IsGraph(g), Sound(g), NEW c \in Parts(g), NEW cs, FitsBut(g, cs),
           NEW family \in Families, NEW d \in Definitions \cup {None}
    PROVE  LET h == Exchanged(g, c, family, d)
           IN  IsGraph(h) /\ Sound(h) /\ FitsBut(h, cs \cup {c})
<1> DEFINE meta == Overlay(g.parts[c].meta, [p \in {"definition", "pinned"} |-> d])
           part == [family |-> family, meta |-> meta]
           h == Exchanged(g, c, family, d)
<1>1. /\ Maps(g.parts, Components, Part) /\ c \in DOMAIN g.parts /\ c \in Components
      /\ g.parts[c].meta \in [Path -> Value]
  BY DEF IsGraph, Maps, Parts, Part
<1>2. d \in Value
  BY DEF Value
<1>3. meta \in [Path -> Value]
  BY <1>1, <1>2 DEF Overlay
<1> HIDE DEF meta
<1>4. part \in Part
  BY <1>3 DEF Part
<1>5. h = [parts |-> With(g.parts, c, part), mates |-> g.mates,
           connections |-> g.connections]
  BY DEF Exchanged, IsGraph, meta
<1> HIDE DEF part, h
<1>6. Maps(h.parts, Components, Part) /\ IsGraph(h)
  <2>1. Maps(With(g.parts, c, part), Components, Part)
    BY <1>1, <1>4, WithMaps
  <2> QED
    BY <1>5, <2>1 DEF IsGraph
<1>7. /\ h.mates = g.mates /\ h.connections = g.connections /\ Parts(h) = Parts(g)
      /\ \A e \in Parts(g) \ {c} : h.parts[e] = g.parts[e]
  BY <1>1, <1>5 DEF With, Parts
<1>8. Sound(h)
  BY <1>7, SameStructure
<1>9. FitsBut(h, cs \cup {c})
  BY <1>7, SameFit
<1> QED
  BY <1>6, <1>8, <1>9 DEF h

-----------------------------------------------------------------------------
(***************************************************************************)
(* Modifications and their inverses.                                       *)
(***************************************************************************)
\* What the change from g to h has to show: h is as sound as g, and the inverse of the
\* change restores g.
Good(g, change, h) ==
    /\ IsGraph(h)
    /\ Sound(h)
    /\ \A cs : FitsBut(g, cs) => FitsBut(h, cs)
    /\ IsChange(change)
    /\ change.operation # "none"
    /\ Undoable(h, change) => Restores(g, change, Inverse(h, change))

\* An edit is good if each value it writes is reported, or known not to be.
LEMMA EditIsGood ==
    ASSUME NEW g, IsGraph(g), Sound(g), NEW c \in Parts(g), NEW new,
           \A p \in DOMAIN new \cap Path : new[p] \in Value,
           NEW reported \in SUBSET Path,
           NEW change,
           change = Change("replace", c, [p \in reported |-> g.parts[c].meta[p]]),
           \A p \in DOMAIN new \cap Path : p \in reported \/ p \in Unreported(change)
    PROVE  Good(g, change, Edited(g, c, new))
<1> DEFINE h == Edited(g, c, new)
           old == [p \in reported |-> g.parts[c].meta[p]]
           u == Edited(h, c, old)
<1>1. /\ change.operation = "replace" /\ change.id = c /\ change.old = old
      /\ DOMAIN old = reported
  BY DEF Change
<1>2. c \in Components /\ g.parts[c].meta \in [Path -> Value]
  BY DEF IsGraph, Maps, Parts, Part
<1>3. /\ IsGraph(h) /\ h.mates = g.mates /\ h.connections = g.connections
      /\ Parts(h) = Parts(g)
      /\ \A d \in Parts(g) : h.parts[d].family = g.parts[d].family
      /\ \A d \in Parts(g) \ {c} : h.parts[d] = g.parts[d]
      /\ \A p \in Path : h.parts[c].meta[p] =
            IF p \in DOMAIN new THEN new[p] ELSE g.parts[c].meta[p]
  BY EditedFacts
<1>4. \A p \in DOMAIN old \cap Path : old[p] \in Value /\ old[p] = g.parts[c].meta[p]
  BY <1>2
<1>5. Maps(old, Path, Value)
  BY <1>2 DEF Maps
<1> HIDE DEF h, old
<1>6. /\ u.mates = h.mates /\ u.connections = h.connections
      /\ Parts(u) = Parts(h)
      /\ \A d \in Parts(h) : u.parts[d].family = h.parts[d].family
      /\ \A d \in Parts(h) \ {c} : u.parts[d] = h.parts[d]
      /\ \A p \in Path : u.parts[c].meta[p] =
            IF p \in DOMAIN old THEN old[p] ELSE h.parts[c].meta[p]
  <2>1. c \in Parts(h) /\ \A p \in DOMAIN old \cap Path : old[p] \in Value
    BY <1>3, <1>4
  <2> QED
    BY <1>3, <2>1, EditedFacts
<1> HIDE DEF u
<1>7. Restores(g, change, u)
  <2>1. ASSUME NEW p \in Path
        PROVE  u.parts[c].meta[p] = g.parts[c].meta[p] \/ p \in Unreported(change)
    <3>1. CASE p \in reported
      BY <1>1, <1>4, <1>6, <3>1
    <3>2. CASE p \notin reported /\ p \in DOMAIN new
      BY <3>2
    <3>3. CASE p \notin reported /\ p \notin DOMAIN new
      BY <1>1, <1>3, <1>6, <3>3
    <3> QED
      BY <3>1, <3>2, <3>3
  <2>2. \A d \in Parts(g) : u.parts[d].family = g.parts[d].family
    BY <1>3, <1>6
  <2>3. \A d \in Parts(g) \ {c} : u.parts[d] = g.parts[d]
    BY <1>3, <1>6
  <2> QED
    BY <1>1, <1>3, <1>6, <2>1, <2>2, <2>3 DEF Restores
<1>8. Inverse(h, change) = u
  BY <1>1 DEF Inverse, u
<1>9. Sound(h)
  BY <1>3, SameStructure
<1>10. ASSUME NEW cs, FitsBut(g, cs)
       PROVE  FitsBut(h, cs)
  BY <1>3, <1>10, SameFit
<1>11. IsChange(change) /\ change.operation # "none"
  BY <1>1, <1>2, <1>5 DEF IsChange
<1> QED
  BY <1>3, <1>7, <1>8, <1>9, <1>10, <1>11 DEF Good, h

\* Graphs with the same relationships, connections and components restore each other.
LEMMA SameRestores ==
    ASSUME NEW g, NEW u, NEW change, u.parts = g.parts, u.mates = g.mates,
           u.connections = g.connections
    PROVE  Restores(g, change, u)
BY DEF Restores, Parts

\* Moving a component is good: its relationship and its connection go back to what
\* they were.
LEMMA MoveIsGood ==
    ASSUME NEW g, IsGraph(g), Sound(g), NEW r \in Parts(g), NEW t \in Parts(g),
           NEW i \in InterfaceName, NEW j \in InterfaceName, MayAttach(g, r, i, t, j),
           NEW m \in Existing(g, t) \cap DOMAIN g.connections, NEW change,
           change = Change("update", m, [g.connections[m] EXCEPT
                                            !.source = g.mates[m].source,
                                            !.target = g.mates[m].target])
    PROVE  Good(g, change, Mated(g, m, Attachment(r, i, t, j)))
<1> DEFINE a == Attachment(r, i, t, j)
           h == Mated(g, m, a)
           old == g.connections[m]
           mate == [source |-> old.source, target |-> old.target]
           u == Mated(h, m, old)
<1>1. /\ m \in DOMAIN g.mates /\ m \in Connections /\ old \in Connection
      /\ g.mates[m] \in Mate
  BY DEF Existing, IsGraph, Maps
<1>2. g.mates[m].source = old.source /\ g.mates[m].target = old.target
  BY <1>1 DEF Sound, Agrees
<1>3. [old EXCEPT !.source = g.mates[m].source, !.target = g.mates[m].target] = old
  BY <1>1, <1>2 DEF Connection
<1>4. change.operation = "update" /\ change.id = m /\ change.old = old
  BY <1>3 DEF Change
<1>5. a \in Connection
  BY DEF Attachment, Connection, Parts, IsGraph, Maps
<1>6. Existing(g, t) \subseteq {m}
  BY DEF MayAttach
<1>7. Sound(h) /\ \A cs : FitsBut(g, cs) => FitsBut(h, cs)
  BY <1>1, <1>6, AttachedIsSound
<1> HIDE DEF a, old
<1>8. /\ IsGraph(h) /\ h.parts = g.parts
      /\ h.mates = With(g.mates, m, [source |-> a.source, target |-> a.target])
      /\ h.connections = With(g.connections, m, a)
  BY <1>1, <1>5, MatedFacts
<1> HIDE DEF h
<1>9. /\ u.parts = h.parts /\ u.mates = With(h.mates, m, mate)
      /\ u.connections = With(h.connections, m, old)
  BY <1>1, <1>8, MatedFacts
<1>10. mate = g.mates[m]
  BY <1>1, <1>2 DEF Mate
<1>11. u.mates = g.mates
  BY <1>1, <1>8, <1>9, <1>10, ReplacedAndPutBack DEF IsGraph
<1>12. u.connections = g.connections
  BY <1>8, <1>9, ReplacedAndPutBack DEF IsGraph, old
<1> HIDE DEF u
<1>13. Restores(g, change, u)
  BY <1>8, <1>9, <1>11, <1>12, SameRestores
<1>14. Inverse(h, change) = u
  BY <1>4 DEF Inverse, u
<1>15. IsChange(change)
  BY <1>1, <1>4 DEF IsChange
<1> QED
  BY <1>4, <1>7, <1>8, <1>13, <1>14, <1>15 DEF Good, h, a

\* Adding a relationship is good: both it and its connection are removed again.
LEMMA AddIsGood ==
    ASSUME NEW g, IsGraph(g), Sound(g), NEW r \in Parts(g), NEW t \in Parts(g),
           NEW i \in InterfaceName, NEW j \in InterfaceName, MayAttach(g, r, i, t, j),
           Existing(g, t) = {}, NEW m \in Connections, m \notin DOMAIN g.connections,
           NEW change, change = Change("add", m, None)
    PROVE  Good(g, change, Mated(g, m, Attachment(r, i, t, j)))
<1> DEFINE a == Attachment(r, i, t, j)
           h == Mated(g, m, a)
           u == Unmated(h, m)
<1>1. m \notin DOMAIN g.mates
  BY DEF Sound, Agrees
<1>2. change.operation = "add" /\ change.id = m
  BY DEF Change
<1>3. a \in Connection
  BY DEF Attachment, Connection, Parts, IsGraph, Maps
<1>4. Sound(h) /\ \A cs : FitsBut(g, cs) => FitsBut(h, cs)
  BY <1>1, AttachedIsSound
<1> HIDE DEF a
<1>5. /\ IsGraph(h) /\ h.parts = g.parts
      /\ h.mates = With(g.mates, m, [source |-> a.source, target |-> a.target])
      /\ h.connections = With(g.connections, m, a)
  BY <1>3, MatedFacts
<1> HIDE DEF h
<1>6. /\ u.parts = h.parts /\ u.mates = Without(h.mates, m)
      /\ u.connections = Without(h.connections, m)
  BY <1>5, UnmatedFacts
<1>7. u.mates = g.mates /\ u.connections = g.connections
  BY <1>1, <1>5, <1>6, AddedAndRemoved DEF IsGraph
<1> HIDE DEF u
<1>8. Restores(g, change, u)
  BY <1>5, <1>6, <1>7, SameRestores
<1>9. Inverse(h, change) = u
  BY <1>2 DEF Inverse, u
<1>10. IsChange(change)
  BY <1>2 DEF IsChange
<1> QED
  BY <1>2, <1>4, <1>5, <1>8, <1>9, <1>10 DEF Good, h, a

-----------------------------------------------------------------------------
(***************************************************************************)
(* The next revision.                                                      *)
(***************************************************************************)
\* A sequence is a function, and a sequence of its own elements.
LEMMA SequenceOfItsOwn ==
    ASSUME NEW S, NEW s \in Seq(S)
    PROVE  s \in Seq({s[k] : k \in DOMAIN s})
<1> DEFINE n == Len(s)
           T == {s[k] : k \in 1..n}
<1>1. n \in Nat /\ DOMAIN s = 1..n
  OBVIOUS
<1>2. s \in [1..n -> S]
  OBVIOUS
<1>3. s \in [1..n -> T]
  BY <1>2
<1> HIDE DEF n, T
<1>4. s \in Seq(T)
  BY <1>1, <1>3
<1> QED
  BY <1>1, <1>4 DEF T

\* The table keeps its revisions and gets one more.
LEMMA TableGrows ==
    ASSUME IsTable, NEW e, revisions' = Append(revisions, e)
    PROVE  /\ IsTable'
           /\ Len(revisions) \in Nat \ {0}
           /\ DOMAIN revisions = 1..Len(revisions)
           /\ DOMAIN revisions' = 1..(Len(revisions) + 1)
           /\ Len(revisions') = Len(revisions) + 1
           /\ revisions'[Len(revisions) + 1] = e
           /\ \A k \in DOMAIN revisions : revisions'[k] = revisions[k]
<1> DEFINE S == {revisions[k] : k \in DOMAIN revisions}
           n == Len(revisions)
<1>1. /\ revisions \in Seq(S) /\ n \in Nat \ {0} /\ DOMAIN revisions = 1..n
  BY DEF IsTable
<1>2. revisions \in Seq(S \cup {e})
  <2>1. revisions \in [1..n -> S \cup {e}]
    BY <1>1
  <2> QED
    BY <1>1, <2>1
<1> HIDE DEF S
<1>3. /\ DOMAIN revisions' = 1..(n + 1)
      /\ Len(revisions') = n + 1
      /\ revisions'[n + 1] = e
      /\ \A k \in DOMAIN revisions : revisions'[k] = revisions[k]
  BY <1>1, <1>2
<1>4. revisions' \in Seq(S \cup {e}) /\ revisions' # <<>>
  BY <1>1, <1>2
<1>5. IsTable'
  BY <1>4, SequenceOfItsOwn DEF IsTable
<1> QED
  BY <1>1, <1>3, <1>5

\* Who was replaced stays replaced, and so is the component of a scenario.
LEMMA ReplacedGrows ==
    ASSUME IsTable, NEW graph, NEW kind, NEW change, Commit(kind, graph, change)
    PROVE  /\ Replaced \subseteq Replaced'
           /\ kind = "scenario" => change.id \in Replaced'
<1> DEFINE e == [graph |-> graph, kind |-> kind, change |-> change]
<1>1. revisions' = Append(revisions, e)
  BY DEF Commit
<1>2. e.kind = kind /\ e.change = change
  OBVIOUS
<1> HIDE DEF e
<1> QED
  BY <1>1, <1>2, TableGrows DEF Replaced

\* A revision that is sound, and can be undone or is an undo, keeps the invariant.
LEMMA NextRevision ==
    ASSUME IInv, NEW graph, NEW change, NEW kind \in {"modification", "undo", "scenario"},
           Commit(kind, graph, change),
           IsGraph(graph), Sound(graph), IsChange(change), FitsBut(graph, Replaced'),
           kind = "modification" =>
               /\ change.operation # "none"
               /\ Undoable(graph, change) =>
                      Restores(Current, change, Inverse(graph, change)),
           kind = "undo" =>
               /\ Len(revisions) > 1
               /\ Restores(revisions[Len(revisions) - 1].graph, Last.change, graph)
    PROVE  IInv'
<1> DEFINE e == [graph |-> graph, kind |-> kind, change |-> change]
           n == Len(revisions)
<1>1. revisions' = Append(revisions, e) /\ IsTable
  BY DEF Commit, IInv
<1>2. e.kind = kind /\ e.change = change /\ e.graph = graph
  OBVIOUS
<1> HIDE DEF e
<1>3. /\ IsTable'
      /\ n \in Nat \ {0}
      /\ DOMAIN revisions = 1..n
      /\ DOMAIN revisions' = 1..(n + 1)
      /\ revisions'[n + 1] = e
      /\ \A k \in 1..n : revisions'[k] = revisions[k]
  BY <1>1, TableGrows
<1> HIDE DEF n
<1>4. TypeOK'
  <2>1. TypeOK
    BY DEF IInv
  <2> QED
    BY <1>2, <1>3, <2>1 DEF TypeOK
<1>5. Replaced \subseteq Replaced'
  BY <1>1, ReplacedGrows
<1>6. ASSUME NEW k \in 1..n
      PROVE  /\ Sound(revisions'[k].graph)
             /\ FitsBut(revisions'[k].graph, Replaced')
             /\ revisions'[k].kind = "modification" =>
                   k > 1 /\ CanBeUndone(revisions'[k - 1].graph, revisions'[k])
             /\ revisions'[k].kind = "undo" =>
                   /\ k > 2
                   /\ Restores(revisions'[k - 2].graph, revisions'[k - 1].change,
                               revisions'[k].graph)
  <2>1. /\ Sound(revisions[k].graph)
        /\ FitsBut(revisions[k].graph, Replaced)
        /\ revisions[k].kind = "modification" =>
              k > 1 /\ CanBeUndone(revisions[k - 1].graph, revisions[k])
        /\ revisions[k].kind = "undo" =>
              /\ k > 2
              /\ Restores(revisions[k - 2].graph, revisions[k - 1].change,
                          revisions[k].graph)
    BY <1>3 DEF IInv
  <2>2. revisions'[k] = revisions[k]
    BY <1>3
  <2>3. FitsBut(revisions[k].graph, Replaced')
    BY <1>5, <2>1, SameFit
  <2>4. k > 1 => revisions'[k - 1] = revisions[k - 1]
    BY <1>3
  <2>5. k > 2 => revisions'[k - 2] = revisions[k - 2]
    BY <1>3
  <2> QED
    BY <2>1, <2>2, <2>3, <2>4, <2>5
<1>7. /\ Sound(revisions'[n + 1].graph)
      /\ FitsBut(revisions'[n + 1].graph, Replaced')
      /\ revisions'[n + 1].kind = "modification" =>
            n + 1 > 1 /\ CanBeUndone(revisions'[n + 1 - 1].graph, revisions'[n + 1])
      /\ revisions'[n + 1].kind = "undo" =>
            /\ n + 1 > 2
            /\ Restores(revisions'[n + 1 - 2].graph, revisions'[n + 1 - 1].change,
                        revisions'[n + 1].graph)
  <2>1. Current = revisions'[n].graph /\ Last = revisions'[n] /\ n + 1 - 1 = n
    BY <1>3 DEF Current, Last, n
  <2>2. kind = "modification" =>
           n + 1 > 1 /\ CanBeUndone(revisions'[n].graph, e)
    BY <1>2, <1>3, <2>1 DEF CanBeUndone
  <2>3. kind = "undo" =>
            /\ n + 1 > 2
            /\ Restores(revisions'[n - 1].graph, revisions'[n].change, graph)
    BY <1>3, <2>1 DEF n
  <2>4. n + 1 - 2 = n - 1
    BY <1>3
  <2> QED
    BY <1>2, <1>3, <2>1, <2>2, <2>3, <2>4
<1>8. \A k \in DOMAIN revisions' : k \in 1..n \/ k = n + 1
  BY <1>3
<1> QED
  BY <1>3, <1>4, <1>6, <1>7, <1>8 DEF IInv

\* What the invariant says of the last revision.
LEMMA CurrentIsSound ==
    ASSUME IInv
    PROVE  /\ Len(revisions) \in DOMAIN revisions
           /\ IsGraph(Current) /\ Sound(Current) /\ FitsBut(Current, Replaced)
<1>1. Len(revisions) \in DOMAIN revisions
  BY DEF IInv, IsTable
<1> QED
  BY <1>1 DEF IInv, TypeOK, Current, Last

\* A good modification keeps the invariant.
LEMMA ModificationOK ==
    ASSUME IInv, NEW graph, NEW change, Good(Current, change, graph),
           Commit("modification", graph, change)
    PROVE  IInv'
<1>1. FitsBut(graph, Replaced)
  BY CurrentIsSound DEF Good
<1>2. Replaced \subseteq Replaced'
  BY ReplacedGrows DEF IInv
<1>3. FitsBut(graph, Replaced')
  BY <1>1, <1>2, SameFit DEF Good
<1> QED
  BY <1>3, NextRevision DEF Good

\* A sound graph with one component excepted keeps it as a scenario.
LEMMA ScenarioOK ==
    ASSUME IInv, NEW graph, NEW c \in Components,
           IsGraph(graph), Sound(graph), FitsBut(graph, Replaced \cup {c}),
           Commit("scenario", graph, Change("none", c, None))
    PROVE  IInv'
<1>1. Change("none", c, None).operation = "none" /\ Change("none", c, None).id = c
  BY DEF Change
<1>2. Replaced \cup {c} \subseteq Replaced'
  BY <1>1, ReplacedGrows DEF IInv
<1>3. FitsBut(graph, Replaced')
  BY <1>2, SameFit
<1>4. IsChange(Change("none", c, None))
  BY <1>1 DEF IsChange
<1> QED
  BY <1>3, <1>4, NextRevision

-----------------------------------------------------------------------------
(***************************************************************************)
(* The actions.                                                            *)
(***************************************************************************)
LEMMA InitOK == Init => IInv
<1> SUFFICES ASSUME Init PROVE IInv
  OBVIOUS
<1> DEFINE change == Change("none", None, None)
           e == [graph |-> Plan, kind |-> "creation", change |-> change]
<1>1. revisions = <<e>> /\ e.graph = Plan /\ e.kind = "creation" /\ e.change = change
  BY DEF Init
<1>2. IsChange(change)
  BY DEF Change, IsChange
<1>3. /\ IsGraph(Plan) /\ IsPlaced(Plan) /\ SharesNothing(Plan) /\ Agrees(Plan)
      /\ FitsBut(Plan, {})
  BY PlanAssumption DEF PlanAssumption
<1> HIDE DEF e, change
<1>4. /\ DOMAIN revisions = {1} /\ revisions[1] = e /\ revisions \in Seq({e})
      /\ revisions # <<>>
  BY <1>1
<1>5. IsTable
  BY <1>4, SequenceOfItsOwn DEF IsTable
<1>6. TypeOK
  BY <1>1, <1>2, <1>3, <1>4 DEF TypeOK
<1>7. Sound(Plan) /\ FitsBut(Plan, Replaced)
  <2>1. Sound(Plan) /\ {} \subseteq Replaced
    BY <1>3 DEF Sound
  <2> QED
    BY <1>3, <2>1, SameFit
<1> QED
  BY <1>1, <1>4, <1>5, <1>6, <1>7 DEF IInv

\* An edit keeps the invariant, under the conditions of EditIsGood.
LEMMA EditOK ==
    ASSUME IInv, NEW c \in Parts(Current), NEW new,
           \A p \in DOMAIN new \cap Path : new[p] \in Value,
           NEW reported \in SUBSET Path,
           \A p \in DOMAIN new \cap Path :
               p \in reported \/
               p \in Unreported(Change("replace", c,
                                      [q \in reported |-> Current.parts[c].meta[q]])),
           Edit(c, new, reported)
    PROVE  IInv'
<1> DEFINE change == Change("replace", c, [q \in reported |-> Current.parts[c].meta[q]])
<1>1. IsGraph(Current) /\ Sound(Current)
  BY CurrentIsSound
<1>2. Good(Current, change, Edited(Current, c, new))
  BY <1>1, EditIsGood
<1>3. Commit("modification", Edited(Current, c, new), change)
  BY DEF Edit
<1> QED
  BY <1>2, <1>3, ModificationOK

LEMMA ScaleOK ==
    ASSUME IInv, NEW c \in Parts(Current), Scale(c)
    PROVE  IInv'
<1>1. PICK scaled \in SUBSET Dimensions : \E new \in [scaled -> Sizes] : Edit(c, new, scaled)
  BY DEF Scale
<1>2. PICK new \in [scaled -> Sizes] : Edit(c, new, scaled)
  BY <1>1
<1>3. DOMAIN new = scaled /\ scaled \in SUBSET Path
  BY DEF Path
<1>4. \A p \in DOMAIN new \cap Path : new[p] \in Value
  BY DEF Value
<1> QED
  BY <1>2, <1>3, <1>4, EditOK

LEMMA SetParameterOK ==
    ASSUME IInv, NEW c \in Parts(Current), SetParameter(c)
    PROVE  IInv'
<1>1. PICK v \in Settings : Edit(c, [p \in {"setting"} |-> v], {"setting"})
  BY DEF SetParameter
<1> DEFINE new == [p \in {"setting"} |-> v]
<1>2. /\ DOMAIN new = {"setting"} /\ {"setting"} \in SUBSET Path
      /\ \A p \in DOMAIN new \cap Path : new[p] \in Value
  BY DEF Path, Value
<1>3. Edit(c, new, {"setting"})
  BY <1>1
<1> HIDE DEF new
<1> QED
  BY <1>2, <1>3, EditOK

LEMMA ReplaceOK ==
    ASSUME IInv, NEW c \in Parts(Current), Replace(c)
    PROVE  IInv'
<1>1. PICK d \in Definitions : Edit(c, Replacement(d), {"definition"})
  BY DEF Replace
<1> DEFINE new == Replacement(d)
           reported == {"definition"}
           change == Change("replace", c, [q \in reported |-> Current.parts[c].meta[q]])
<1>2. /\ DOMAIN Catalogue[d].sizes \subseteq Dimensions
      /\ \A p \in DOMAIN Catalogue[d].sizes : Catalogue[d].sizes[p] \in Sizes
      /\ Dimensions \cap {"definition", "pinned"} = {}
  <2>1. Catalogue[d].sizes \in [Dimensions -> Sizes] \cup [{} -> Sizes]
    BY ConstantsAssumption DEF ConstantsAssumption
  <2> QED
    BY <2>1, ConstantsAssumption DEF ConstantsAssumption
<1>3. /\ DOMAIN new = {"definition", "pinned"} \cup DOMAIN Catalogue[d].sizes
      /\ \A p \in DOMAIN new : new[p] \in Value
  BY <1>2 DEF Replacement, Value
<1>4. change.operation = "replace" /\ DOMAIN change.old = {"definition"}
  BY DEF Change
<1>5. Unreported(change) = Dimensions \cup {"pinned"}
  BY <1>4 DEF Unreported
<1>6. \A p \in DOMAIN new \cap Path : p \in reported \/ p \in Unreported(change)
  BY <1>2, <1>3, <1>5
<1>7. reported \in SUBSET Path
  BY DEF Path
<1>8. Edit(c, new, reported)
  BY <1>1
<1> HIDE DEF new, reported
<1> QED
  BY <1>3, <1>6, <1>7, <1>8, EditOK

LEMMA RepairOK ==
    ASSUME IInv, NEW c \in Parts(Current), Repair(c)
    PROVE  IInv'
<1> DEFINE new == [p \in {"setting", "protection"} |->
                      IF p = "setting" THEN Mosfet ELSE "flyback"]
           reported == {"setting"}
           change == Change("replace", c, [q \in reported |-> Current.parts[c].meta[q]])
<1>1. /\ DOMAIN new = {"setting", "protection"}
      /\ \A p \in DOMAIN new : new[p] \in Value
  BY ConstantsAssumption DEF ConstantsAssumption, Value
<1>2. change.operation = "replace" /\ DOMAIN change.old = {"setting"}
  BY DEF Change
<1>3. Unreported(change) = {"protection"}
  BY <1>2 DEF Unreported
<1>4. \A p \in DOMAIN new \cap Path : p \in reported \/ p \in Unreported(change)
  BY <1>1, <1>3
<1>5. reported \in SUBSET Path
  BY DEF Path
<1>6. Edit(c, new, reported)
  BY DEF Repair
<1> HIDE DEF new, reported
<1> QED
  BY <1>1, <1>4, <1>5, <1>6, EditOK

LEMMA AttachOK ==
    ASSUME IInv, Attach
    PROVE  IInv'
<1>1. PICK r \in Parts(Current), t \in Parts(Current), i \in InterfaceName,
           j \in InterfaceName, m \in Connections :
         /\ MayAttach(Current, r, i, t, j)
         /\ Move(r, i, t, j, m) \/ Add(r, i, t, j, m)
  BY DEF Attach
<1> DEFINE h == Mated(Current, m, Attachment(r, i, t, j))
<1>2. IsGraph(Current) /\ Sound(Current) /\ Len(revisions) \in DOMAIN revisions
  BY CurrentIsSound
<1>3. CASE Move(r, i, t, j, m)
  <2> DEFINE change == Change("update", m, [Current.connections[m] EXCEPT
                                               !.source = Current.mates[m].source,
                                               !.target = Current.mates[m].target])
  <2>1. /\ m \in Existing(Current, t) \cap DOMAIN Current.connections
        /\ Commit("modification", h, change)
    BY <1>3 DEF Move
  <2>2. Good(Current, change, h)
    BY <1>1, <1>2, <2>1, MoveIsGood
  <2> QED
    BY <2>1, <2>2, ModificationOK
<1>4. CASE Add(r, i, t, j, m)
  <2> DEFINE change == Change("add", m, None)
  <2>1. /\ Existing(Current, t) = {}
        /\ Commit("modification", h, change)
    BY <1>4 DEF Add
  <2>2. m \notin DOMAIN Current.connections
    BY <1>2, <1>4 DEF Add, Current, Last, IInv, IsTable
  <2>3. Good(Current, change, h)
    BY <1>1, <1>2, <2>1, <2>2, AddIsGood
  <2> QED
    BY <2>1, <2>3, ModificationOK
<1> QED
  BY <1>1, <1>3, <1>4

\* The inverse of a recorded change is a graph.
LEMMA InverseIsGraph ==
    ASSUME NEW g, IsGraph(g), NEW change, IsChange(change), change.operation # "none",
           Undoable(g, change)
    PROVE  IsGraph(Inverse(g, change))
<1>1. CASE change.operation = "add"
  <2>1. Inverse(g, change) = Unmated(g, change.id)
    BY <1>1 DEF Inverse
  <2> QED
    BY <2>1, UnmatedFacts
<1>2. CASE change.operation = "update"
  <2>1. Inverse(g, change) = Mated(g, change.id, change.old)
    BY <1>2 DEF Inverse
  <2>2. change.id \in Connections /\ change.old \in Connection
    BY <1>2 DEF IsChange
  <2> QED
    BY <2>1, <2>2, MatedFacts
<1>3. CASE change.operation = "replace"
  <2>1. Inverse(g, change) = Edited(g, change.id, change.old)
    BY <1>3 DEF Inverse
  <2>2. change.id \in Parts(g)
    BY <1>3 DEF Undoable
  <2>3. \A p \in DOMAIN change.old \cap Path : change.old[p] \in Value
    BY <1>3 DEF IsChange, Maps
  <2> QED
    BY <2>1, <2>2, <2>3, EditedFacts
<1> QED
  BY <1>1, <1>2, <1>3 DEF IsChange

LEMMA UndoOK ==
    ASSUME IInv, Undo
    PROVE  IInv'
<1> DEFINE n == Len(revisions)
           before == revisions[n - 1].graph
           change == Last.change
           h == Inverse(Current, change)
<1>1. n \in DOMAIN revisions /\ IsGraph(Current)
  BY CurrentIsSound
<1>2. /\ n > 1 /\ change.operation # "none" /\ Restores(before, change, h)
      /\ IsChange(change)
  <2>1. /\ revisions[n].kind = "modification" /\ revisions[n].change = change
        /\ revisions[n].graph = Current
        /\ Undoable(Current, change)
    BY DEF Undo, Last, Current
  <2>2. n > 1 /\ CanBeUndone(before, revisions[n])
    BY <1>1, <2>1 DEF IInv
  <2>3. IsChange(change)
    BY <1>1, <2>1 DEF IInv, TypeOK
  <2> QED
    BY <2>1, <2>2, <2>3 DEF CanBeUndone
<1>3. n - 1 \in DOMAIN revisions
  BY <1>1, <1>2 DEF IInv, IsTable
<1>4. Sound(before) /\ FitsBut(before, Replaced)
  BY <1>3 DEF IInv
<1>5. Commit("undo", h, Change("none", None, None)) /\ Undoable(Current, change)
  BY DEF Undo
<1> HIDE DEF n, change
<1>6. IsGraph(h)
  BY <1>1, <1>2, <1>5, InverseIsGraph
<1> HIDE DEF h, before
<1>7. /\ h.mates = before.mates /\ h.connections = before.connections
      /\ Parts(h) = Parts(before)
      /\ \A c \in Parts(before) : h.parts[c].family = before.parts[c].family
  BY <1>2 DEF Restores
<1>8. Sound(h)
  BY <1>4, <1>7, SameStructure
<1>9. Replaced \subseteq Replaced'
  BY <1>5, ReplacedGrows DEF IInv
<1>10. FitsBut(h, Replaced')
  BY <1>4, <1>7, <1>9, SameFit
<1>11. IsChange(Change("none", None, None))
  BY DEF IsChange, Change
<1> QED
  BY <1>2, <1>5, <1>6, <1>8, <1>10, <1>11, NextRevision DEF n, change, before

LEMMA ApplyScenarioOK ==
    ASSUME IInv, ApplyScenario
    PROVE  IInv'
<1>1. PICK c \in Parts(Current) : RemoveComponent(c) \/ ReplaceComponent(c) \/ ModifyProperty(c)
  BY DEF ApplyScenario
<1>2. IsGraph(Current) /\ Sound(Current) /\ FitsBut(Current, Replaced)
  BY CurrentIsSound
<1>3. c \in Components
  BY <1>2 DEF IsGraph, Maps, Parts
<1>4. CASE RemoveComponent(c)
  <2> DEFINE h == Removed(Current, c)
  <2>1. IsGraph(h) /\ Sound(h) /\ FitsBut(h, Replaced)
    BY <1>2, RemovedIsSound
  <2>2. FitsBut(h, Replaced \cup {c})
    BY <2>1, SameFit
  <2>3. Commit("scenario", h, Change("none", c, None))
    BY <1>4 DEF RemoveComponent
  <2> QED
    BY <1>3, <2>1, <2>2, <2>3, ScenarioOK
<1>5. CASE ReplaceComponent(c)
  <2>1. PICK f \in Families, d \in Definitions \cup {None} :
           Commit("scenario", Exchanged(Current, c, f, d), Change("none", c, None))
    BY <1>5 DEF ReplaceComponent
  <2> DEFINE h == Exchanged(Current, c, f, d)
  <2>2. IsGraph(h) /\ Sound(h) /\ FitsBut(h, Replaced \cup {c})
    BY <1>2, ExchangedIsSound
  <2> QED
    BY <1>3, <2>1, <2>2, ScenarioOK
<1>6. CASE ModifyProperty(c)
  <2>1. PICK p \in Path, v \in Value :
           Commit("scenario", Edited(Current, c, [q \in {p} |-> v]), Change("none", c, None))
    BY <1>6 DEF ModifyProperty, Path, Value
  <2> DEFINE new == [q \in {p} |-> v]
             h == Edited(Current, c, new)
  <2>2. \A q \in DOMAIN new \cap Path : new[q] \in Value
    OBVIOUS
  <2> HIDE DEF new
  <2>3. /\ IsGraph(h) /\ h.mates = Current.mates /\ h.connections = Current.connections
        /\ Parts(h) = Parts(Current)
        /\ \A d \in Parts(Current) : h.parts[d].family = Current.parts[d].family
    BY <1>2, <2>2, EditedFacts
  <2>4. Sound(h)
    BY <1>2, <2>3, SameStructure
  <2>5. FitsBut(h, Replaced \cup {c})
    BY <1>2, <2>3, SameFit
  <2>6. Commit("scenario", h, Change("none", c, None))
    BY <2>1 DEF new
  <2> QED
    BY <1>3, <2>3, <2>4, <2>5, <2>6, ScenarioOK
<1> QED
  BY <1>1, <1>4, <1>5, <1>6

LEMMA StepOK == IInv /\ [Next]_revisions => IInv'
<1> SUFFICES ASSUME IInv, [Next]_revisions PROVE IInv'
  OBVIOUS
<1>1. CASE Attach
  BY <1>1, AttachOK
<1>2. CASE Modify
  BY <1>2, ScaleOK, SetParameterOK, ReplaceOK, RepairOK DEF Modify
<1>3. CASE Undo
  BY <1>3, UndoOK
<1>4. CASE ApplyScenario
  BY <1>4, ApplyScenarioOK
<1>5. CASE UNCHANGED revisions
  BY <1>5 DEF IInv, IsTable, TypeOK, Replaced
<1> QED
  BY <1>1, <1>2, <1>3, <1>4, <1>5 DEF Next

LEMMA InvariantHolds == Spec => []IInv
BY InitOK, StepOK, PTL DEF Spec

-----------------------------------------------------------------------------
(***************************************************************************)
(* The theorems.                                                           *)
(***************************************************************************)
\* Every revision is a graph with a well-formed diff (apply_patch, validate).
THEOREM RevisionsAreGraphs == Spec => []TypeOK
<1>1. IInv => TypeOK
  BY DEF IInv
<1> QED
  BY <1>1, InvariantHolds, PTL

\* Whatever is edited, undone and applied, the assembly can place every part
\* (workspace/assembly.py): _attach need not look for cycles.
THEOREM PartsStayPlaced == Spec => []EveryPartIsPlaced
<1>1. IInv => EveryPartIsPlaced
  BY CurrentIsSound DEF Sound, EveryPartIsPlaced
<1> QED
  BY <1>1, InvariantHolds, PTL

\* No interface is used twice, although _attach compares one side only.
THEOREM InterfacesStayApart == Spec => []InterfacesAreNotShared
<1>1. IInv => InterfacesAreNotShared
  BY CurrentIsSound DEF Sound, InterfacesAreNotShared
<1> QED
  BY <1>1, InvariantHolds, PTL

\* A relationship and its connection stay of the same two components.
THEOREM ConnectionsStayPaired == Spec => []ConnectionsAgree
<1>1. IInv => ConnectionsAgree
  BY CurrentIsSound DEF Sound, ConnectionsAgree
<1> QED
  BY <1>1, InvariantHolds, PTL

\* What is mated fits, but for components a scenario has exchanged.
THEOREM MatesStayFit == Spec => []MatesFit
<1>1. IInv => MatesFit
  BY CurrentIsSound DEF MatesFit
<1> QED
  BY <1>1, InvariantHolds, PTL

\* An undo restores the graph before the modification, but for the values that the
\* modification did not report (inverse_proposal).
THEOREM UndoIsFaithful == Spec => []UndoRestores
<1>1. IInv => UndoRestores
  BY DEF IInv, UndoRestores
<1> QED
  BY <1>1, InvariantHolds, PTL
=============================================================================
