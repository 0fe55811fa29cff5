------------------------------- MODULE Schematic -------------------------------
(***************************************************************************)
(* From electrical relationships to a drawn circuit, across two languages: *)
(* materialize_electrical_nets joins terminals to nets by union-find,      *)
(* representation_specs gives the nets' terminals pins and connections and *)
(* judges itself complete or not, the validator checks the result, and     *)
(* generate-circuit.mjs draws a trace for each connection.                 *)
(***************************************************************************)
EXTENDS Naturals, Sequences, FiniteSets, FiniteSetsExt

CONSTANTS
    Components,      \* those with a category: sequence of [kind, prefix, pins]
    Terminals,       \* sequence of [of, port] in the order of their names
    Relationships,   \* the electrical ones there may be: [left, right, role]
    MaxRelationships, \* bound: relationships of a graph
    MaxComponents    \* 100

Nodes == DOMAIN Terminals

ASSUME SchematicAssumption ==
    /\ MaxRelationships \in Nat /\ MaxComponents \in Nat
    /\ Components \in Seq([kind : STRING, prefix : STRING, pins : Seq(STRING)])
    /\ \A c \in DOMAIN Components : Components[c].pins # << >>
    /\ Terminals \in Seq([of : DOMAIN Components, port : STRING])
    /\ \A r \in Relationships : r.left \in Nodes /\ r.right \in Nodes

VARIABLES
    pairs,           \* the relationships of the graph, in order
    stage,
    next,            \* the pair to be joined
    parent,
    nets,            \* of the graph, by their roots
    connections,     \* of the specification
    complete,        \* fidelity: portsComplete and netsComplete
    traces           \* drawn

vars == <<pairs, stage, next, parent, nets, connections, complete, traces>>

-----------------------------------------------------------------------------
(* materialize_electrical_nets                                             *)

\* find, and the parents it leaves behind.
Find(p) ==
    LET root[t \in Nodes] == IF p[t] = t THEN t ELSE root[p[t]] IN root

Above(p, t) ==
    LET path[u \in Nodes] == IF p[u] = u THEN {u} ELSE {u} \cup path[p[u]] IN path[t]

Compressed(p, t) == [u \in Nodes |-> IF u \in Above(p, t) THEN Find(p)[t] ELSE p[u]]

\* union
JoinsTerminals(p, l, r) == [p EXCEPT ![Max({l, r})] = Min({l, r})]          \* mutant
Joins(p, l, r) ==
    LET q == Compressed(Compressed(p, l), r)
        a == Find(q)[l]
        b == Find(q)[r]
    IN [q EXCEPT ![Max({a, b})] = Min({a, b})]

Union ==
    /\ stage = "union" /\ next <= Len(pairs)
    /\ parent' = Joins(parent, pairs[next].left, pairs[next].right)
    /\ next' = next + 1
    /\ UNCHANGED <<pairs, stage, nets, connections, complete, traces>>

\* Of the relationships with the indices members.
RoleOf(members) ==
    LET roles == {pairs[i].role : i \in members} IN
    IF "ground" \in roles THEN "ground"
    ELSE IF roles \cap {"power", "regulated-power", "switched-power"} # {} THEN "power"
    ELSE pairs[Min(members)].role

NetOf(root) ==
    LET members == {i \in DOMAIN pairs : Find(parent)[pairs[i].left] = root} IN
    [terminals |-> UNION {{pairs[i].left, pairs[i].right} : i \in members},
     role      |-> RoleOf(members)]

Group ==
    /\ stage = "union" /\ next > Len(pairs)
    /\ nets' = [root \in {Find(parent)[pairs[i].left] : i \in DOMAIN pairs} |-> NetOf(root)]
    /\ stage' = "compile"
    /\ UNCHANGED <<pairs, next, parent, connections, complete, traces>>

-----------------------------------------------------------------------------
(* representation_specs                                                    *)

Component(t) == Components[Terminals[t].of]

\* counts: prefix and number.
NotCounted(c) == <<Components[c].prefix, 1>>                                \* mutant
ReferenceOf(c) ==
    <<Components[c].prefix,
      Quantify(1..c, LAMBDA d : Components[d].prefix = Components[c].prefix)>>

\* The pin for each port of a kind; two of the eight outputs of a controller.
\* A terminal is on one net only, so signal_counts never exceeds one and the
\* port named signal takes the first output.
Alias ==
    {<<"controller", "power", "VCC">>, <<"controller", "ground", "GND">>,
     <<"controller", "signal", "IO1">>,
     <<"controller", "signal-1", "IO1">>, <<"controller", "signal-2", "IO2">>,
     <<"generic_sensor", "power", "VCC">>, <<"generic_sensor", "ground", "GND">>,
     <<"generic_sensor", "signal", "SIGNAL">>,
     <<"generic_module", "power", "VCC">>, <<"generic_module", "ground", "GND">>,
     <<"generic_module", "signal", "SIGNAL">>, <<"generic_module", "load-output", "OUT">>,
     <<"motor", "power", "V+">>, <<"motor", "ground", "GND">>, <<"motor", "signal", "CONTROL">>,
     <<"motor", "load-output", "V+">>,
     <<"power_source", "power", "V+">>, <<"power_source", "ground", "GND">>}

AliasesOf(t) ==
    {a[3] : a \in {a \in Alias : a[1] = Component(t).kind /\ a[2] = Terminals[t].port}}

AliasIsPin(t) == AliasesOf(t) # {}                                          \* mutant
HasPin(t) == AliasesOf(t) \cap Range(Component(t).pins) # {}
PinOf(t) == [reference |-> ReferenceOf(Terminals[t].of),
             pin       |-> CHOOSE pin \in AliasesOf(t) : TRUE]

Resolved(net) == {t \in net.terminals : HasPin(t)}

\* A net is drawn as a star around its first terminal.
ToNearest(net) ==                                                           \* mutant
    {[from |-> PinOf(Min(Resolved(net))), to |-> PinOf(t)] :
        t \in {t \in Resolved(net) : Cardinality({u \in Resolved(net) : u < t}) = 1}}
ConnectionsOf(net) ==
    {[from |-> PinOf(Min(Resolved(net))), to |-> PinOf(t)] :
        t \in {t \in Resolved(net) : \E u \in Resolved(net) : u < t}}

\* What the theorems about the drawing assume of a graph: no two terminals of
\* a component take the same pin (interfaces.py gives the parts of each kind
\* one port for a pin), and the components are no more than are admitted.
OnePortPerPin ==
    \A t, u \in Nodes :
        /\ Terminals[t].of = Terminals[u].of
        /\ HasPin(t) /\ HasPin(u) /\ AliasesOf(t) = AliasesOf(u)
        => t = u
FewComponents == Len(Components) <= MaxComponents

\* topology: a terminal is represented if it has its pin; the shared signal of
\* a controller, if a connection of the net touches the controller.
IsSharedSignal(t) == Component(t).kind = "controller" /\ Terminals[t].port = "signal"
IsRepresented(net, t) ==
    IF IsSharedSignal(t)
    THEN \E c \in ConnectionsOf(net) :
             ReferenceOf(Terminals[t].of) \in {c.from.reference, c.to.reference}
    ELSE HasPin(t)

\* RepresentationSpecValidator, as far as the connections go.
HasPinNamed(end) ==
    \E c \in DOMAIN Components :
        ReferenceOf(c) = end.reference /\ end.pin \in Range(Components[c].pins)

Compile ==
    /\ stage = "compile"
    /\ LET all == UNION {ConnectionsOf(nets[i]) : i \in DOMAIN nets} IN
       /\ connections' = all
       /\ complete' = \A i \in DOMAIN nets : \A t \in nets[i].terminals :
                          HasPin(t) /\ IsRepresented(nets[i], t)
       /\ stage' = IF /\ Len(Components) \in 1..MaxComponents
                      /\ \A c \in all : HasPinNamed(c.from) /\ HasPinNamed(c.to)
                   THEN "generate" ELSE "refused"
    /\ UNCHANGED <<pairs, next, parent, nets, traces>>

-----------------------------------------------------------------------------
(* generate-circuit.mjs                                                    *)

\* sourceByReference: the last component of a reference.
SourceByReference(reference) ==
    Max({c \in DOMAIN Components : ReferenceOf(c) = reference})

\* pins.indexOf(pin) + 1, which is 0 for a pin that is not there.
NumberOf(end) ==
    LET pins == Components[SourceByReference(end.reference)].pins IN
    IF end.pin \in Range(pins) THEN CHOOSE i \in DOMAIN pins : pins[i] = end.pin ELSE 0

Drawn(end) == <<SourceByReference(end.reference), NumberOf(end)>>

Generate ==
    /\ stage = "generate"
    /\ traces' = {<<Drawn(c.from), Drawn(c.to)>> : c \in connections}
    /\ stage' = "drawn"
    /\ UNCHANGED <<pairs, next, parent, nets, connections, complete>>

-----------------------------------------------------------------------------
Init ==
    /\ pairs \in UNION {[1..n -> Relationships] : n \in 1..MaxRelationships}
    /\ stage = "union" /\ next = 1
    /\ parent = [t \in Nodes |-> t]
    /\ nets = << >> /\ connections = {} /\ complete = FALSE /\ traces = {}

Next == Union \/ Group \/ Compile \/ Generate

Spec == Init /\ [][Next]_vars

-----------------------------------------------------------------------------
(* Properties.                                                             *)

\* The edges of E connect the set N: no part of it is cut off.
Connects(E, N) ==
    \A A \in SUBSET N : A \notin {{}, N} =>
        \E e \in E : (e[1] \in A /\ e[2] \in N \ A) \/ (e[2] \in A /\ e[1] \in N \ A)

TerminalsOf(i) == nets[i].terminals

\* The nets are the connected components of the relationships, whatever the
\* order in which those are joined: no terminal is on two nets, a relationship
\* joins terminals of one, and the relationships connect each net.
NetsAreComponents ==
    stage # "union" =>
        /\ \A i, j \in DOMAIN nets : i # j => TerminalsOf(i) \cap TerminalsOf(j) = {}
        /\ \A p \in Range(pairs) :
              \E i \in DOMAIN nets : {p.left, p.right} \subseteq TerminalsOf(i)
        /\ \A i \in DOMAIN nets :
              Connects({<<p.left, p.right>> : p \in Range(pairs)}, TerminalsOf(i))

PinsOf(i) == {Drawn(PinOf(t)) : t \in {t \in TerminalsOf(i) : HasPin(t)}}

\* A circuit that calls itself complete is: every terminal has its pin, and the
\* traces connect the pins of each net.
CompleteIsWired ==
    stage = "drawn" /\ complete =>
        \A i \in DOMAIN nets :
            /\ \A t \in TerminalsOf(i) : HasPin(t)
            /\ Connects(traces, PinsOf(i))

\* No pin is drawn for two nets and no trace leads from one to another: the
\* rails and signals of a graph stay apart.
NetsStayApart ==
    stage = "drawn" =>
        \A c \in traces : \E i \in DOMAIN nets :
            /\ {c[1], c[2]} \subseteq PinsOf(i)
            /\ \A j \in DOMAIN nets \ {i} : {c[1], c[2]} \cap PinsOf(j) = {}

\* What is compiled from a graph the validator and the generator accept: each
\* trace runs between pins that exist.
CompiledIsAccepted ==
    /\ stage # "refused"
    /\ \A c \in traces : c[1][2] # 0 /\ c[2][2] # 0
=============================================================================
