---------------------------- MODULE SchematicProofs ----------------------------
(***************************************************************************)
(* Proofs about the circuit schematic, for any components, terminals and   *)
(* relationships: union-find with path compression computes the connected  *)
(* components of the relationships, the drawing of a net connects its pins *)
(* and no pins of another one, and what is compiled is accepted.           *)
(***************************************************************************)
EXTENDS Schematic, FiniteSetTheorems, WellFoundedInduction, TLAPS

-----------------------------------------------------------------------------
(* Induction over the nodes, by a least counterexample.                    *)

\* A set of naturals with an element has a least one.
LEMMA LeastNatural ==
  ASSUME NEW T \in SUBSET Nat, T # {}
  PROVE  \E n \in T : \A m \in T : n <= m
<1>1. PICK n \in T : \A m \in T : ~ (<<m, n>> \in OpToRel(<, Nat))
  BY WFMin, NatLessThanWellFounded
<1>2. \A m \in T : ~ (m < n)
  BY <1>1, Zenon DEF OpToRel
<1> QED
  BY <1>2

\* Min of a set of naturals is its least element.
LEMMA MinOfNaturals ==
  ASSUME NEW T \in SUBSET Nat, T # {}
  PROVE  Min(T) \in T /\ \A m \in T : Min(T) <= m
BY LeastNatural DEF Min

\* The larger and the smaller one of two numbers.
LEMMA MaxMinOfTwo ==
  ASSUME NEW a \in Nat, NEW b \in Nat
  PROVE  /\ Max({a, b}) = IF a >= b THEN a ELSE b
         /\ Min({a, b}) = IF a <= b THEN a ELSE b
<1>1. (IF a >= b THEN a ELSE b) \in {a, b}
      /\ \A y \in {a, b} : (IF a >= b THEN a ELSE b) >= y
  OBVIOUS
<1>2. (IF a <= b THEN a ELSE b) \in {a, b}
      /\ \A y \in {a, b} : (IF a <= b THEN a ELSE b) <= y
  OBVIOUS
<1>3. \A x \in {a, b} : (\A y \in {a, b} : x >= y) => x = IF a >= b THEN a ELSE b
  OBVIOUS
<1>4. \A x \in {a, b} : (\A y \in {a, b} : x =< y) => x = IF a <= b THEN a ELSE b
  OBVIOUS
<1>5. Max({a, b}) \in {a, b} /\ \A y \in {a, b} : Max({a, b}) >= y
  BY <1>1 DEF Max
<1>6. Min({a, b}) \in {a, b} /\ \A y \in {a, b} : Min({a, b}) =< y
  BY <1>2 DEF Min
<1> QED
  BY <1>3, <1>4, <1>5, <1>6

\* Terminals are numbered from one.
LEMMA NodesAreNaturals == Nodes \in SUBSET Nat /\ Nodes = 1..Len(Terminals) /\ Len(Terminals) \in Nat
BY SchematicAssumption DEF Nodes

-----------------------------------------------------------------------------
(* find                                                                    *)

\* Parents point to themselves or to a terminal of an earlier name.
Forest(p) == p \in [Nodes -> Nodes] /\ \A t \in Nodes : p[t] <= t

\* f takes each terminal to the end of its path.
Ends(p, f) ==
    /\ f \in [Nodes -> Nodes]
    /\ \A t \in Nodes : f[t] = IF p[t] = t THEN t ELSE f[p[t]]

\* There is such a function on the first n terminals, for each n.
LEMMA EndsExist ==
  ASSUME NEW p, Forest(p)
  PROVE  \E f : Ends(p, f)
<1> DEFINE EndsTo(n, f) ==
             /\ f \in [1..n -> Nodes]
             /\ \A t \in 1..n : f[t] = IF p[t] = t THEN t ELSE f[p[t]]
           None == {n \in 0..Len(Terminals) : \A f : ~EndsTo(n, f)}
<1>0. None \in SUBSET Nat /\ \A n \in None : n \in 0..Len(Terminals)
  BY NodesAreNaturals
<1>1. SUFFICES ASSUME None # {} PROVE FALSE
  <2>1. \E f : EndsTo(Len(Terminals), f)
    <3>1. None = {} /\ Len(Terminals) \in 0..Len(Terminals)
      BY <1>1, NodesAreNaturals
    <3> QED
      BY <3>1
  <2> QED
    BY <2>1, NodesAreNaturals DEF Ends
<1>2. PICK n \in None : \A m \in None : n <= m
  BY <1>0, <1>1, LeastNatural
<1>3. EndsTo(0, << >>)
  BY NodesAreNaturals
<1>4. n \in 1..Len(Terminals) /\ n - 1 \in 0..Len(Terminals) /\ n - 1 \notin None
  <2>1. n # 0
    BY <1>2, <1>3
  <2>2. n \in 0..Len(Terminals)
    BY <1>0, <1>2
  <2>3. n - 1 \notin None
    <3> HIDE DEF None
    <3> QED
      BY <1>0, <1>2
  <2> QED
    BY <2>1, <2>2, <2>3, NodesAreNaturals
<1>5. PICK f : EndsTo(n - 1, f)
  BY <1>4
<1> DEFINE g == [t \in 1..n |-> IF t < n THEN f[t] ELSE IF p[n] = n THEN n ELSE f[p[n]]]
<1>a. \A t \in 1..n : t \in Nodes
  BY <1>4, NodesAreNaturals
<1>6. \A t \in 1..n : p[t] \in Nodes /\ p[t] \in 1..t
  BY <1>a, NodesAreNaturals DEF Forest
<1>7. \A t \in 1..(n - 1) : t \in 1..n /\ g[t] = f[t]
  BY <1>4, NodesAreNaturals
<1>b. n \in 1..n
  BY <1>4
<1>8. g[n] = IF p[n] = n THEN n ELSE g[p[n]]
  <2>1. g[n] = IF p[n] = n THEN n ELSE f[p[n]]
    BY <1>b
  <2>2. p[n] # n => p[n] \in 1..(n - 1)
    BY <1>b, <1>4, <1>6
  <2> QED
    BY <1>7, <2>1, <2>2
<1> HIDE DEF g
<1>9. \A t \in 1..n : g[t] = IF p[t] = t THEN t ELSE g[p[t]]
  <2>0. \A t \in 1..n : t = n \/ t \in 1..(n - 1)
    BY <1>4
  <2> SUFFICES ASSUME NEW t \in 1..(n - 1)
               PROVE  g[t] = IF p[t] = t THEN t ELSE g[p[t]]
    BY <1>8, <2>0
  <2>1. p[t] \in 1..(n - 1)
    BY <1>4, <1>6, <1>7
  <2> QED
    BY <1>5, <1>7, <2>1
<1>10. g \in [1..n -> Nodes]
  <2>1. \A t \in 1..(n - 1) : g[t] \in Nodes
    BY <1>5, <1>7
  <2>2. g[n] \in Nodes
    <3>1. p[n] # n => p[n] \in 1..(n - 1)
      BY <1>b, <1>4, <1>6
    <3> QED
      BY <1>a, <1>b, <1>8, <2>1, <3>1
  <2>3. \A t \in 1..n : t = n \/ t \in 1..(n - 1)
    BY <1>4
  <2>4. \A t \in 1..n : g[t] \in Nodes
    BY <2>1, <2>2, <2>3
  <2> QED
    BY <2>4 DEF g
<1>11. EndsTo(n, g)
  BY <1>9, <1>10
<1> QED
  BY <1>2, <1>11

\* It is unique.
LEMMA EndsUnique ==
  ASSUME NEW p, Forest(p), NEW f, Ends(p, f), NEW g, Ends(p, g)
  PROVE  f = g
<1> DEFINE Differ == {t \in Nodes : f[t] # g[t]}
<1>1. SUFFICES ASSUME Differ # {} PROVE FALSE
  BY <1>1 DEF Ends
<1>2. PICK t \in Differ : \A u \in Differ : t <= u
  BY <1>1, LeastNatural, NodesAreNaturals
<1>3. CASE p[t] = t
  BY <1>2, <1>3 DEF Ends
<1>4. CASE p[t] # t
  <2>1. p[t] \in Nodes /\ p[t] < t
    BY <1>2, <1>4, NodesAreNaturals DEF Forest
  <2>2. f[p[t]] = g[p[t]]
    BY <1>2, <2>1, NodesAreNaturals
  <2> QED
    BY <1>2, <1>4, <2>2 DEF Ends
<1> QED
  BY <1>3, <1>4

\* What the recursive function of the module computes.
LEMMA FindEnds ==
  ASSUME NEW p, Forest(p)
  PROVE  Ends(p, Find(p))
<1>1. PICK f : Ends(p, f)
  BY EndsExist
<1>2. f = [t \in Nodes |-> IF p[t] = t THEN t ELSE f[p[t]]]
  BY <1>1 DEF Ends
<1>3. Find(p) = [t \in Nodes |-> IF p[t] = t THEN t ELSE Find(p)[p[t]]]
  BY <1>2 DEF Find
<1> DEFINE F == Find(p)
           Outside == {t \in Nodes : F[t] \notin Nodes}
<1> HIDE DEF F
<1>4. \A t \in Nodes : F[t] = IF p[t] = t THEN t ELSE F[p[t]]
  BY <1>3 DEF F
<1>5. Outside = {}
  <2>1. SUFFICES ASSUME Outside # {} PROVE FALSE
    BY <2>1
  <2>2. PICK t \in Outside : \A u \in Outside : t <= u
    BY <2>1, LeastNatural, NodesAreNaturals
  <2>3. p[t] \in Nodes /\ p[t] <= t
    BY <2>2 DEF Forest
  <2>4. p[t] # t /\ F[p[t]] \notin Nodes
    BY <1>4, <2>2
  <2> QED
    BY <2>2, <2>3, <2>4, NodesAreNaturals
<1>6. F \in [Nodes -> Nodes]
  BY <1>3, <1>5 DEF F
<1> QED
  BY <1>4, <1>6 DEF Ends, F

\* A root is its own parent, and the earliest of its class.
LEMMA RootIsLeast ==
  ASSUME NEW p, Forest(p), NEW f, Ends(p, f), NEW t \in Nodes
  PROVE  f[t] \in Nodes /\ f[t] <= t /\ p[f[t]] = f[t] /\ f[f[t]] = f[t]
<1> DEFINE Bad == {u \in Nodes : ~(f[u] <= u /\ p[f[u]] = f[u])}
<1>1. Bad = {}
  <2>1. SUFFICES ASSUME Bad # {} PROVE FALSE
    BY <2>1
  <2>2. PICK u \in Bad : \A v \in Bad : u <= v
    BY <2>1, LeastNatural, NodesAreNaturals
  <2>3. p[u] # u /\ p[u] \in Nodes /\ p[u] < u
    BY <2>2, NodesAreNaturals DEF Ends, Forest
  <2>4. f[p[u]] <= p[u] /\ p[f[p[u]]] = f[p[u]]
    BY <2>2, <2>3, NodesAreNaturals
  <2>5. f[u] = f[p[u]] /\ f[u] \in Nodes
    BY <2>2, <2>3 DEF Ends
  <2> QED
    BY <2>2, <2>3, <2>4, <2>5, NodesAreNaturals
<1> QED
  BY <1>1 DEF Ends

\* The path that find walks is there: what every set holds that is closed under
\* parents and has the terminal.
LEMMA PathsExist ==
  ASSUME NEW p, Forest(p)
  PROVE  \E path : path = [u \in Nodes |-> IF p[u] = u THEN {u} ELSE {u} \cup path[p[u]]]
<1> DEFINE Closed == {S \in SUBSET Nodes : \A w \in S : p[w] \in S}
           Reached(u) == {v \in Nodes : \A S \in Closed : u \in S => v \in S}
           path == [u \in Nodes |-> Reached(u)]
<1>0. \A u \in Nodes : p[u] \in Nodes
  BY DEF Forest
<1>1. ASSUME NEW u \in Nodes, p[u] = u
      PROVE  Reached(u) = {u}
  <2>1. {u} \in Closed
    BY <1>1
  <2> QED
    BY <2>1
<1>2. ASSUME NEW u \in Nodes, p[u] # u
      PROVE  Reached(u) = {u} \cup Reached(p[u])
  <2>1. p[u] \in Nodes
    BY <1>0
  <2>2. Reached(p[u]) \subseteq Reached(u)
    OBVIOUS
  <2>3. u \in Reached(u)
    OBVIOUS
  <2>4. p[u] \in Reached(p[u])
    BY <2>1
  <2>5. {u} \cup Reached(p[u]) \in Closed
    <3>1. {u} \cup Reached(p[u]) \in SUBSET Nodes
      OBVIOUS
    <3>2. ASSUME NEW w \in Reached(p[u]) PROVE p[w] \in Reached(p[u])
      <4>1. p[w] \in Nodes
        BY <1>0
      <4> QED
        BY <4>1
    <3> QED
      BY <2>4, <3>1, <3>2
  <2>6. Reached(u) \subseteq {u} \cup Reached(p[u])
    BY <2>5
  <2> QED
    BY <2>2, <2>3, <2>6
<1>3. path = [u \in Nodes |-> IF p[u] = u THEN {u} ELSE {u} \cup path[p[u]]]
  <2>1. \A u \in Nodes : path[u] = Reached(u) /\ path[p[u]] = Reached(p[u])
    BY <1>0
  <2> HIDE DEF Reached
  <2>2. \A u \in Nodes : path[u] = IF p[u] = u THEN {u} ELSE {u} \cup path[p[u]]
    BY <1>1, <1>2, <2>1
  <2> QED
    BY <2>2
<1> QED
  BY <1>3

\* The terminals above one have the same root.
LEMMA AboveShareTheRoot ==
  ASSUME NEW p, Forest(p), NEW f, Ends(p, f), NEW t \in Nodes, NEW u \in Above(p, t)
  PROVE  u \in Nodes /\ f[u] = f[t]
<1> DEFINE P == CHOOSE path :
                  path = [v \in Nodes |-> IF p[v] = v THEN {v} ELSE {v} \cup path[p[v]]]
           Bad == {v \in Nodes : \E w \in P[v] : ~(w \in Nodes /\ f[w] = f[v])}
<1>1. P = [v \in Nodes |-> IF p[v] = v THEN {v} ELSE {v} \cup P[p[v]]]
  BY PathsExist
<1>2. Above(p, t) = P[t]
  BY DEF Above
<1> HIDE DEF P
<1>3. \A v \in Nodes : P[v] = IF p[v] = v THEN {v} ELSE {v} \cup P[p[v]]
  BY <1>1
<1>4. Bad = {}
  <2>1. SUFFICES ASSUME Bad # {} PROVE FALSE
    BY <2>1
  <2>2. PICK v \in Bad : \A w \in Bad : v <= w
    BY <2>1, LeastNatural, NodesAreNaturals
  <2>3. PICK w \in P[v] : ~(w \in Nodes /\ f[w] = f[v])
    BY <2>2
  <2>4. p[v] # v /\ w \in P[p[v]]
    <3>1. v \in Nodes /\ w # v
      BY <2>2, <2>3
    <3>2. P[v] = IF p[v] = v THEN {v} ELSE {v} \cup P[p[v]]
      BY <1>3, <3>1
    <3> QED
      BY <2>3, <3>1, <3>2
  <2>5. p[v] \in Nodes /\ p[v] < v
    BY <2>2, <2>4, NodesAreNaturals DEF Forest
  <2>6. w \in Nodes /\ f[w] = f[p[v]]
    BY <2>2, <2>4, <2>5, NodesAreNaturals
  <2> QED
    BY <2>2, <2>3, <2>4, <2>6 DEF Ends
<1> QED
  BY <1>2, <1>4

\* find compresses the path and changes no root.
LEMMA CompressedKeepsRoots ==
  ASSUME NEW p, Forest(p), NEW f, Ends(p, f), NEW t \in Nodes
  PROVE  Forest(Compressed(p, t)) /\ Ends(Compressed(p, t), f)
<1> DEFINE q == Compressed(p, t)
<1>1. Find(p) = f
  BY EndsUnique, FindEnds
<1>2. f \in [Nodes -> Nodes] /\ p \in [Nodes -> Nodes]
  BY DEF Ends, Forest
<1>3. q = [u \in Nodes |-> IF u \in Above(p, t) THEN f[t] ELSE p[u]]
  BY <1>1 DEF Compressed
<1> HIDE DEF q
<1>4. \A u \in Above(p, t) : u \in Nodes /\ f[u] = f[t]
  BY AboveShareTheRoot
<1>5. \A u \in Nodes : q[u] = IF u \in Above(p, t) THEN f[u] ELSE p[u]
  BY <1>3, <1>4
<1>6. q \in [Nodes -> Nodes]
  BY <1>2, <1>3
<1>7. \A u \in Nodes : f[u] <= u /\ f[f[u]] = f[u]
  BY RootIsLeast
<1>8. Forest(q)
  BY <1>5, <1>6, <1>7 DEF Forest
<1>9. \A u \in Nodes : f[u] = IF q[u] = u THEN u ELSE f[q[u]]
  BY <1>5, <1>7 DEF Ends
<1> QED
  BY <1>2, <1>8, <1>9 DEF Ends, q

\* union joins two classes, under the earlier of their roots.
LEMMA JoinsMergesClasses ==
  ASSUME NEW p, Forest(p), NEW l \in Nodes, NEW r \in Nodes
  PROVE  LET f == Find(p)
             q == Joins(p, l, r)
             least == IF f[l] <= f[r] THEN f[l] ELSE f[r]
         IN  /\ Forest(q)
             /\ \A t \in Nodes : Find(q)[t] = IF f[t] \in {f[l], f[r]} THEN least ELSE f[t]
<1> DEFINE f == Find(p)
           c == Compressed(Compressed(p, l), r)
           a == f[l]
           b == f[r]
           lo == IF a <= b THEN a ELSE b
           hi == IF a >= b THEN a ELSE b
           q == [c EXCEPT ![hi] = lo]
           g == [t \in Nodes |-> IF f[t] \in {a, b} THEN lo ELSE f[t]]
<1>1. Ends(p, f)
  BY FindEnds
<1>2. Forest(Compressed(p, l)) /\ Ends(Compressed(p, l), f)
  BY <1>1, CompressedKeepsRoots
<1>3. Forest(c) /\ Ends(c, f)
  BY <1>2, CompressedKeepsRoots
<1>4. Find(c) = f
  BY <1>3, EndsUnique, FindEnds
<1> HIDE DEF f, c
<1>5. a \in Nodes /\ b \in Nodes /\ f \in [Nodes -> Nodes] /\ c \in [Nodes -> Nodes]
  BY <1>3 DEF Ends, Forest
<1>6. Max({a, b}) = hi /\ Min({a, b}) = lo
  <2>1. a \in Nat /\ b \in Nat
    BY <1>5, NodesAreNaturals
  <2> QED
    BY <2>1, MaxMinOfTwo
<1>7. Joins(p, l, r) = q
  BY <1>4, <1>6 DEF Joins, c
<1>8. lo \in Nodes /\ hi \in Nodes /\ lo <= hi /\ {lo, hi} = {a, b}
  BY <1>5, NodesAreNaturals
<1>9. c[lo] = lo /\ c[hi] = hi /\ f[lo] = lo /\ f[hi] = hi
  <2>1. \A t \in Nodes : c[f[t]] = f[t] /\ f[f[t]] = f[t]
    BY <1>3, RootIsLeast
  <2> QED
    BY <1>8, <2>1
<1> HIDE DEF lo, hi
<1>10. Forest(q)
  <2>1. q \in [Nodes -> Nodes]
    BY <1>5, <1>8
  <2>2. \A t \in Nodes : q[t] = IF t = hi THEN lo ELSE c[t]
    BY <1>5
  <2>3. \A t \in Nodes : c[t] <= t
    BY <1>3 DEF Forest
  <2> HIDE DEF q
  <2> QED
    BY <1>8, <2>1, <2>2, <2>3 DEF Forest
<1>11. Ends(q, g)
  <2>1. g \in [Nodes -> Nodes]
    BY <1>5, <1>8
  <2>2. \A t \in Nodes : q[t] = IF t = hi THEN lo ELSE c[t]
    BY <1>5
  <2>3. \A t \in Nodes : g[t] = IF f[t] \in {lo, hi} THEN lo ELSE f[t]
    BY <1>8
  <2>4. \A t \in Nodes : c[t] \in Nodes /\ f[t] = IF c[t] = t THEN t ELSE f[c[t]]
    BY <1>3, <1>5 DEF Ends
  <2> HIDE DEF q, g
  <2>5. ASSUME NEW t \in Nodes
        PROVE  g[t] = IF q[t] = t THEN t ELSE g[q[t]]
    <3>1. CASE t = hi
      BY <1>8, <1>9, <2>2, <2>3, <3>1
    <3>2. CASE t # hi /\ c[t] = t
      BY <1>9, <2>2, <2>3, <2>4, <3>2
    <3>3. CASE t # hi /\ c[t] # t
      BY <2>2, <2>3, <2>4, <3>3
    <3> QED
      BY <3>1, <3>2, <3>3
  <2> QED
    BY <2>1, <2>5 DEF Ends
<1>12. Find(q) = g
  BY <1>10, <1>11, EndsUnique, FindEnds
<1> QED
  BY <1>7, <1>10, <1>12 DEF f, lo

-----------------------------------------------------------------------------
(* The inductive invariant.                                                *)

Class(root) == {t \in Nodes : Find(parent)[t] = root}
Joined == {<<pairs[i].left, pairs[i].right>> : i \in 1..(next - 1)}

TypeInv ==
    /\ pairs \in Seq(Relationships) /\ pairs # << >>
    /\ stage \in {"union", "compile", "generate", "drawn", "refused"}
    /\ next \in 1..(Len(pairs) + 1)
    /\ stage # "union" => next = Len(pairs) + 1
    /\ Forest(parent)

\* The classes of the union-find are the components of what is joined so far.
ClassesAreConnected ==
    /\ \A e \in Joined : Find(parent)[e[1]] = Find(parent)[e[2]]
    /\ \A root \in Nodes : Connects(Joined, Class(root))

\* A net has all of its class.
NetsAreClasses ==
    stage # "union" =>
        /\ DOMAIN nets = {Find(parent)[pairs[i].left] : i \in DOMAIN pairs}
        /\ \A root \in DOMAIN nets : nets[root].terminals = Class(root)

UnionInv == TypeInv /\ ClassesAreConnected /\ NetsAreClasses

\* The ends of a relationship are terminals.
LEMMA PairsAreTerminals ==
  ASSUME TypeInv
  PROVE  /\ DOMAIN pairs = 1..Len(pairs) /\ Len(pairs) \in Nat \ {0}
         /\ \A i \in DOMAIN pairs : pairs[i].left \in Nodes /\ pairs[i].right \in Nodes
BY SchematicAssumption DEF TypeInv

LEMMA UnionInit == Init => UnionInv
<1> SUFFICES ASSUME Init PROVE UnionInv
  OBVIOUS
<1>1. PICK n \in 1..MaxRelationships : pairs \in [1..n -> Relationships]
  BY DEF Init
<1>2. n \in Nat \ {0}
  BY SchematicAssumption
<1>3. pairs \in Seq(Relationships) /\ Len(pairs) = n
  BY <1>1, <1>2
<1>4. Forest(parent)
  BY NodesAreNaturals DEF Init, Forest
<1>5. TypeInv
  BY <1>2, <1>3, <1>4 DEF Init, TypeInv
<1>6. Joined = {}
  BY DEF Init, Joined
<1>7. \A root \in Nodes : Class(root) = {root}
  <2>1. Ends(parent, Find(parent))
    BY <1>4, FindEnds
  <2> QED
    BY <2>1 DEF Ends, Class, Init
<1>8. ClassesAreConnected
  BY <1>6, <1>7 DEF ClassesAreConnected, Connects
<1> QED
  BY <1>5, <1>8 DEF UnionInv, NetsAreClasses, Init

\* Two connected sets with an edge from one to the other make a connected set.
LEMMA ConnectsUnion ==
  ASSUME NEW E, NEW F, NEW M, NEW N, NEW l \in M, NEW r \in N,
         Connects(E, M), Connects(E, N), E \cup {<<l, r>>} \subseteq F
  PROVE  Connects(F, M \cup N)
<1> SUFFICES ASSUME NEW A \in SUBSET (M \cup N), A \notin {{}, M \cup N}
             PROVE  \E e \in F : \/ e[1] \in A /\ e[2] \in (M \cup N) \ A
                                 \/ e[2] \in A /\ e[1] \in (M \cup N) \ A
  BY DEF Connects
<1>1. CASE A \cap M \notin {{}, M}
  <2>1. PICK e \in E : \/ e[1] \in A \cap M /\ e[2] \in M \ (A \cap M)
                       \/ e[2] \in A \cap M /\ e[1] \in M \ (A \cap M)
    BY <1>1 DEF Connects
  <2> QED
    BY <2>1
<1>2. CASE A \cap N \notin {{}, N}
  <2>1. PICK e \in E : \/ e[1] \in A \cap N /\ e[2] \in N \ (A \cap N)
                       \/ e[2] \in A \cap N /\ e[1] \in N \ (A \cap N)
    BY <1>2 DEF Connects
  <2> QED
    BY <2>1
<1>3. CASE A \cap M \in {{}, M} /\ A \cap N \in {{}, N}
  <2> DEFINE e == <<l, r>>
  <2>1. e \in F /\ e[1] = l /\ e[2] = r
    OBVIOUS
  <2>2. l \in A <=> r \notin A
    BY <1>3
  <2> QED
    BY <2>1, <2>2
<1> QED
  BY <1>1, <1>2, <1>3

\* More edges connect as well.
LEMMA ConnectsMore ==
  ASSUME NEW E, NEW F, NEW N, Connects(E, N), E \subseteq F
  PROVE  Connects(F, N)
BY DEF Connects

LEMMA UnionStep ==
  ASSUME UnionInv, Union
  PROVE  UnionInv'
<1> DEFINE l == pairs[next].left
           r == pairs[next].right
           f == Find(parent)
           least == IF f[l] <= f[r] THEN f[l] ELSE f[r]
<1>1. next \in DOMAIN pairs /\ l \in Nodes /\ r \in Nodes /\ Forest(parent)
  BY PairsAreTerminals DEF UnionInv, TypeInv, Union
<1>2. /\ Forest(parent')
      /\ \A t \in Nodes : Find(parent')[t] = IF f[t] \in {f[l], f[r]} THEN least ELSE f[t]
  <2>1. parent' = Joins(parent, l, r)
    BY DEF Union
  <2> HIDE DEF l, r
  <2>2. /\ Forest(Joins(parent, l, r))
        /\ \A t \in Nodes : Find(Joins(parent, l, r))[t] =
                               IF f[t] \in {f[l], f[r]} THEN least ELSE f[t]
    BY <1>1, JoinsMergesClasses
  <2> HIDE DEF f, least
  <2> QED
    BY <2>1, <2>2
<1>3. TypeInv'
  BY <1>1, <1>2, PairsAreTerminals DEF UnionInv, TypeInv, Union
<1>4. f \in [Nodes -> Nodes]
  BY <1>1, FindEnds DEF Ends
<1>5. Joined' = Joined \cup {<<l, r>>}
  <2>1. next \in Nat /\ next' = next + 1 /\ pairs' = pairs
    BY DEF UnionInv, TypeInv, Union
  <2>2. 1..(next' - 1) = 1..(next - 1) \cup {next}
    BY <1>1, <2>1, PairsAreTerminals DEF UnionInv
  <2> QED
    BY <2>1, <2>2 DEF Joined
<1>6. \A e \in Joined : e[1] \in Nodes /\ e[2] \in Nodes /\ f[e[1]] = f[e[2]]
  <2>1. \A i \in 1..(next - 1) : i \in DOMAIN pairs
    BY <1>1, PairsAreTerminals DEF UnionInv
  <2> QED
    BY <2>1, PairsAreTerminals DEF UnionInv, ClassesAreConnected, Joined
<1>7. \A root \in Nodes : Connects(Joined, Class(root))
  BY DEF UnionInv, ClassesAreConnected
<1> DEFINE g == Find(parent')
<1>8. \A e \in Joined' : g[e[1]] = g[e[2]]
  <2>1. \A e \in Joined : g[e[1]] = g[e[2]]
    BY <1>2, <1>6
  <2>2. g[l] = g[r]
    BY <1>1, <1>2
  <2> QED
    BY <1>5, <2>1, <2>2
<1>9. ASSUME NEW root \in Nodes
      PROVE  Connects(Joined', Class(root)')
  <2>0. Class(root)' = {t \in Nodes : g[t] = root}
    BY DEF Class, Nodes
  <2>1. CASE root = least
    <3>1. Class(root)' = Class(f[l]) \cup Class(f[r])
      BY <1>1, <1>2, <1>4, <2>0, <2>1 DEF Class
    <3>2. l \in Class(f[l]) /\ r \in Class(f[r])
      BY <1>1 DEF Class
    <3>3. Connects(Joined, Class(f[l])) /\ Connects(Joined, Class(f[r]))
      BY <1>1, <1>4, <1>7
    <3> HIDE DEF f, l, r
    <3>4. Connects(Joined', Class(f[l]) \cup Class(f[r]))
      BY <1>5, <3>2, <3>3, ConnectsUnion
    <3> QED
      BY <3>1, <3>4
  <2>2. CASE root # least /\ root \in {f[l], f[r]}
    <3>1. Class(root)' = {}
      BY <1>2, <2>0, <2>2
    <3> QED
      BY <3>1 DEF Connects
  <2>3. CASE root \notin {f[l], f[r]}
    <3>1. Class(root)' = Class(root)
      BY <1>2, <2>0, <2>3 DEF Class
    <3> QED
      BY <1>5, <1>7, <3>1, ConnectsMore
  <2> QED
    BY <2>1, <2>2, <2>3
<1>10. ClassesAreConnected'
  BY <1>8, <1>9 DEF ClassesAreConnected, Nodes
<1>11. NetsAreClasses'
  BY DEF NetsAreClasses, Union
<1> QED
  BY <1>3, <1>10, <1>11 DEF UnionInv

\* A relationship that is joined has its ends in one class.
LEMMA EndsInOneClass ==
  ASSUME UnionInv, NEW i \in 1..(next - 1)
  PROVE  Find(parent)[pairs[i].left] = Find(parent)[pairs[i].right]
<1> DEFINE e == <<pairs[i].left, pairs[i].right>>
<1>1. e \in Joined /\ e[1] = pairs[i].left /\ e[2] = pairs[i].right
  BY DEF Joined
<1> HIDE DEF e
<1>2. Find(parent)[e[1]] = Find(parent)[e[2]]
  BY <1>1 DEF UnionInv, ClassesAreConnected
<1> QED
  BY <1>1, <1>2

\* A net is given its whole class: what is connected to a terminal of it is
\* connected by a relationship of the net.
LEMMA NetIsClass ==
  ASSUME UnionInv, next > Len(pairs), NEW i \in DOMAIN pairs
  PROVE  LET root == Find(parent)[pairs[i].left]
         IN  root \in Nodes /\ NetOf(root).terminals = Class(root)
<1> DEFINE f == Find(parent)
           root == f[pairs[i].left]
           members == {k \in DOMAIN pairs : f[pairs[k].left] = root}
           N == UNION {{pairs[k].left, pairs[k].right} : k \in members}
<1>1. /\ DOMAIN pairs = 1..(next - 1)
      /\ \A k \in DOMAIN pairs : pairs[k].left \in Nodes /\ pairs[k].right \in Nodes
  BY PairsAreTerminals DEF UnionInv, TypeInv
<1>2. \A k \in DOMAIN pairs : f[pairs[k].left] = f[pairs[k].right]
  BY <1>1, EndsInOneClass
<1>3. f \in [Nodes -> Nodes]
  BY FindEnds DEF UnionInv, TypeInv, Ends
<1>4. root \in Nodes /\ Connects(Joined, Class(root))
  BY <1>1, <1>3 DEF UnionInv, ClassesAreConnected
<1>5. NetOf(root).terminals = N
  BY DEF NetOf
<1> HIDE DEF f
<1>6. N \subseteq Class(root)
  BY <1>1, <1>2 DEF Class, f
<1>7. pairs[i].left \in N
  OBVIOUS
<1>8. N = Class(root)
  <2>1. SUFFICES ASSUME N # Class(root) PROVE FALSE
    BY <2>1
  <2> HIDE DEF N
  <2>2. PICK e \in Joined : \/ e[1] \in N /\ e[2] \in Class(root) \ N
                            \/ e[2] \in N /\ e[1] \in Class(root) \ N
    BY <1>4, <1>6, <1>7, <2>1 DEF Connects
  <2>3. PICK k \in DOMAIN pairs : e = <<pairs[k].left, pairs[k].right>>
    BY <1>1 DEF Joined
  <2>4. f[pairs[k].left] = root
    BY <1>2, <1>6, <2>2, <2>3 DEF Class, f
  <2>5. pairs[k].left \in N /\ pairs[k].right \in N
    BY <2>4 DEF N
  <2> QED
    BY <2>2, <2>3, <2>5
<1> QED
  BY <1>4, <1>5, <1>8 DEF f

\* Nothing after the grouping disturbs the nets.
LEMMA UnionInvariance ==
  ASSUME UnionInv, [Next]_vars
  PROVE  UnionInv'
<1>1. CASE Union
  BY <1>1, UnionStep
<1>2. CASE Group
  <2>1. UNCHANGED <<pairs, next, parent>> /\ stage' = "compile" /\ next > Len(pairs)
    BY <1>2 DEF Group
  <2>2. nets' = [root \in {Find(parent)[pairs[i].left] : i \in DOMAIN pairs} |-> NetOf(root)]
    BY <1>2 DEF Group
  <2>3. TypeInv'
    BY <2>1, PairsAreTerminals DEF UnionInv, TypeInv
  <2>4. ClassesAreConnected'
    BY <2>1 DEF UnionInv, ClassesAreConnected, Joined, Class
  <2>5. \A root \in DOMAIN nets' : nets'[root].terminals = Class(root)
    BY <2>1, <2>2, NetIsClass
  <2>6. NetsAreClasses'
    BY <2>1, <2>2, <2>5 DEF NetsAreClasses, Class
  <2> QED
    BY <2>3, <2>4, <2>6 DEF UnionInv
<1>3. CASE Compile \/ Generate \/ UNCHANGED vars
  <2>1. /\ UNCHANGED <<pairs, next, parent, nets>>
        /\ \/ stage' = stage
           \/ stage # "union" /\ stage' \in {"generate", "refused", "drawn"}
    BY <1>3 DEF Compile, Generate, vars
  <2>2. TypeInv'
    BY <2>1 DEF UnionInv, TypeInv
  <2>3. ClassesAreConnected'
    BY <2>1 DEF UnionInv, ClassesAreConnected, Joined, Class
  <2>4. NetsAreClasses'
    BY <2>1 DEF UnionInv, NetsAreClasses, Class
  <2> QED
    BY <2>2, <2>3, <2>4 DEF UnionInv
<1> QED
  BY <1>1, <1>2, <1>3 DEF Next

\* The nets of the graph are the connected components of its electrical
\* relationships, in whatever order these are joined and whichever paths are
\* compressed on the way.
THEOREM NetsAreTheComponents == Spec => []NetsAreComponents
<1>1. UnionInv => NetsAreComponents
  <2> SUFFICES ASSUME UnionInv, stage # "union"
               PROVE  NetsAreComponents
    BY DEF NetsAreComponents
  <2>1. /\ DOMAIN nets = {Find(parent)[pairs[i].left] : i \in DOMAIN pairs}
        /\ \A root \in DOMAIN nets : TerminalsOf(root) = Class(root)
    BY DEF UnionInv, NetsAreClasses, TerminalsOf
  <2>2. DOMAIN pairs = 1..(next - 1)
    BY PairsAreTerminals DEF UnionInv, TypeInv
  <2>3. {<<p.left, p.right>> : p \in Range(pairs)} = Joined
    BY <2>2 DEF Range, Joined
  <2>4. \A i, j \in DOMAIN nets : i # j => TerminalsOf(i) \cap TerminalsOf(j) = {}
    BY <2>1 DEF Class
  <2>5. ASSUME NEW p \in Range(pairs)
        PROVE  \E i \in DOMAIN nets : {p.left, p.right} \subseteq TerminalsOf(i)
    <3>1. PICK k \in DOMAIN pairs : p = pairs[k]
      BY DEF Range
    <3>2. Find(parent)[p.left] \in DOMAIN nets
      BY <2>1, <3>1
    <3>3. Find(parent)[p.left] = Find(parent)[p.right]
      BY <2>2, <3>1, EndsInOneClass
    <3>4. {p.left, p.right} \subseteq Class(Find(parent)[p.left])
      BY <3>1, <3>3, PairsAreTerminals DEF UnionInv, Class
    <3> QED
      BY <2>1, <3>2, <3>4
  <2>6. \A i \in DOMAIN nets : i \in Nodes
    <3>1. Find(parent) \in [Nodes -> Nodes]
      BY FindEnds DEF UnionInv, TypeInv, Ends
    <3> QED
      BY <2>1, <3>1, PairsAreTerminals DEF UnionInv
  <2>7. \A i \in DOMAIN nets : Connects(Joined, TerminalsOf(i))
    BY <2>1, <2>6 DEF UnionInv, ClassesAreConnected
  <2> QED
    BY <2>3, <2>4, <2>5, <2>7 DEF NetsAreComponents
<1> QED
  BY <1>1, UnionInit, UnionInvariance, PTL DEF Spec

-----------------------------------------------------------------------------
(* Pins and references.                                                    *)

\* A port of a kind has one pin.
LEMMA OneAlias ==
  ASSUME NEW a \in Alias, NEW b \in Alias, a[1] = b[1], a[2] = b[2]
  PROVE  a[3] = b[3]
BY DEF Alias

\* A terminal is of a component.
LEMMA TerminalOfComponent ==
  ASSUME NEW t \in Nodes
  PROVE  Terminals[t].of \in DOMAIN Components
<1> DEFINE T == [of : DOMAIN Components, port : STRING]
<1>1. Terminals \in Seq(T)
  BY SchematicAssumption
<1> HIDE DEF T
<1>2. Terminals[t] \in T
  BY <1>1 DEF Nodes
<1> QED
  BY <1>2 DEF T

\* The pin of a terminal that has one is a pin of its component.
LEMMA PinIsOfComponent ==
  ASSUME NEW t \in Nodes, HasPin(t)
  PROVE  /\ Terminals[t].of \in DOMAIN Components
         /\ PinOf(t).reference = ReferenceOf(Terminals[t].of)
         /\ PinOf(t).pin \in Range(Components[Terminals[t].of].pins)
         /\ AliasesOf(t) = {PinOf(t).pin}
<1>1. PICK pin \in AliasesOf(t) : pin \in Range(Component(t).pins)
  BY DEF HasPin
<1>2. \A other \in AliasesOf(t) : other = pin
  BY <1>1, OneAlias DEF AliasesOf
<1>3. PinOf(t).pin \in AliasesOf(t)
  BY <1>1 DEF PinOf
<1>4. Terminals[t].of \in DOMAIN Components
  BY TerminalOfComponent
<1> QED
  BY <1>1, <1>2, <1>3, <1>4 DEF PinOf, Component

\* Two components have two references.
LEMMA ReferencesDiffer ==
  ASSUME NEW c \in DOMAIN Components, NEW d \in DOMAIN Components,
         ReferenceOf(c) = ReferenceOf(d)
  PROVE  c = d
<1> DEFINE Same(n) == {s \in 1..n : Components[s].prefix = Components[n].prefix}
<1>1. c \in Nat /\ d \in Nat /\ DOMAIN Components = 1..Len(Components)
  BY SchematicAssumption
<1>2. \A n \in DOMAIN Components :
         ReferenceOf(n) = <<Components[n].prefix, Cardinality(Same(n))>>
  BY DEF ReferenceOf, Quantify
<1>3. Components[c].prefix = Components[d].prefix /\ Cardinality(Same(c)) = Cardinality(Same(d))
  BY <1>2
<1>4. ASSUME NEW m \in DOMAIN Components, NEW n \in DOMAIN Components, m < n,
             Components[m].prefix = Components[n].prefix,
             Cardinality(Same(m)) = Cardinality(Same(n))
      PROVE  FALSE
  <2>1. m \in Nat /\ n \in Nat
    BY <1>1
  <2>2. Same(m) \subseteq Same(n) /\ n \in Same(n) /\ n \notin Same(m)
    BY <1>1, <1>4, <2>1
  <2>3. IsFiniteSet(Same(n))
    <3>1. IsFiniteSet(1..n)
      BY <2>1, FS_Interval
    <3> QED
      BY <3>1, FS_Subset
  <2> QED
    BY <1>4, <2>2, <2>3, FS_Subset
<1> QED
  BY <1>1, <1>3, <1>4

\* The generator finds the component a reference was made for.
LEMMA SourceOfReference ==
  ASSUME NEW c \in DOMAIN Components
  PROVE  SourceByReference(ReferenceOf(c)) = c
<1>1. {d \in DOMAIN Components : ReferenceOf(d) = ReferenceOf(c)} = {c}
  BY ReferencesDiffer
<1>2. c \in Nat
  BY SchematicAssumption
<1>3. Max({c}) = c
  BY <1>2 DEF Max
<1> QED
  BY <1>1, <1>3 DEF SourceByReference

\* A pin is drawn at its component, with its number there.
LEMMA DrawnAt ==
  ASSUME NEW t \in Nodes, HasPin(t)
  PROVE  LET pins == Components[Terminals[t].of].pins
             n == Drawn(PinOf(t))[2]
         IN  /\ Drawn(PinOf(t)) = <<Terminals[t].of, n>>
             /\ n \in DOMAIN pins /\ pins[n] = PinOf(t).pin /\ n # 0
<1> DEFINE pins == Components[Terminals[t].of].pins
           pin == PinOf(t).pin
           n == NumberOf(PinOf(t))
<1>1. /\ Terminals[t].of \in DOMAIN Components
      /\ PinOf(t).reference = ReferenceOf(Terminals[t].of)
      /\ pin \in Range(pins)
  BY PinIsOfComponent
<1>2. SourceByReference(PinOf(t).reference) = Terminals[t].of
  BY <1>1, SourceOfReference
<1>3. n = CHOOSE i \in DOMAIN pins : pins[i] = pin
  BY <1>1, <1>2 DEF NumberOf
<1>4. \E i \in DOMAIN pins : pins[i] = pin
  BY <1>1 DEF Range
<1>5. n \in DOMAIN pins /\ pins[n] = pin
  BY <1>3, <1>4
<1>6. DOMAIN pins = 1..Len(pins) /\ Len(pins) \in Nat
  BY <1>1, SchematicAssumption
<1> QED
  BY <1>2, <1>5, <1>6 DEF Drawn

-----------------------------------------------------------------------------
(* The drawing.                                                            *)

DrawingInv ==
    /\ stage \in {"generate", "drawn"} =>
          /\ connections = UNION {ConnectionsOf(nets[i]) : i \in DOMAIN nets}
          /\ complete => \A i \in DOMAIN nets : \A t \in TerminalsOf(i) : HasPin(t)
    /\ stage = "drawn" => traces = {<<Drawn(c.from), Drawn(c.to)>> : c \in connections}
    /\ stage # "drawn" => traces = {}

LEMMA DrawingInit == Init => DrawingInv
BY DEF Init, DrawingInv

LEMMA DrawingInvariance ==
  ASSUME DrawingInv, [Next]_vars
  PROVE  DrawingInv'
<1>1. CASE Union
  BY <1>1 DEF Union, DrawingInv
<1>2. CASE Group
  BY <1>2 DEF Group, DrawingInv
<1>3. CASE Compile
  <2>1. nets' = nets /\ traces' = traces /\ stage = "compile" /\ stage' \in {"generate", "refused"}
    BY <1>3 DEF Compile
  <2>2. connections' = UNION {ConnectionsOf(nets[i]) : i \in DOMAIN nets}
    BY <1>3 DEF Compile
  <2>3. complete' => \A i \in DOMAIN nets : \A t \in nets[i].terminals : HasPin(t)
    BY <1>3 DEF Compile
  <2> QED
    BY <2>1, <2>2, <2>3 DEF DrawingInv, TerminalsOf
<1>4. CASE Generate
  BY <1>4 DEF Generate, DrawingInv, TerminalsOf
<1>5. CASE UNCHANGED vars
  BY <1>5 DEF vars, DrawingInv, TerminalsOf
<1> QED
  BY <1>1, <1>2, <1>3, <1>4, <1>5 DEF Next

\* Terminals of a net are nodes.
LEMMA NetTerminals ==
  ASSUME UnionInv, stage # "union", NEW i \in DOMAIN nets
  PROVE  TerminalsOf(i) = Class(i) /\ TerminalsOf(i) \in SUBSET Nodes
BY DEF UnionInv, NetsAreClasses, TerminalsOf, Class

\* A connection of a net runs from its first terminal that has a pin to
\* another one.
LEMMA Star ==
  ASSUME UnionInv, stage # "union", NEW i \in DOMAIN nets
  PROVE  LET first == Min(Resolved(nets[i])) IN
         /\ Resolved(nets[i]) = {t \in TerminalsOf(i) : HasPin(t)}
         /\ Resolved(nets[i]) # {} => first \in Resolved(nets[i])
         /\ ConnectionsOf(nets[i]) =
               {[from |-> PinOf(first), to |-> PinOf(t)] : t \in Resolved(nets[i]) \ {first}}
<1> DEFINE R == Resolved(nets[i])
           first == Min(R)
<1>1. R = {t \in TerminalsOf(i) : HasPin(t)}
  BY DEF Resolved, TerminalsOf
<1>2. R \in SUBSET Nat
  BY <1>1, NetTerminals, NodesAreNaturals
<1> HIDE DEF R
<1>3. R # {} => first \in R /\ \A m \in R : first <= m
  BY <1>2, MinOfNaturals
<1>4. {t \in R : \E u \in R : u < t} = R \ {first}
  <2> HIDE DEF first
  <2>1. ASSUME NEW t \in R
        PROVE  (\E u \in R : u < t) <=> t # first
    <3>1. first \in R /\ \A u \in R : first <= u
      BY <1>3
    <3>2. \A u \in R : u \in Nat
      BY <1>2
    <3>3. t # first => first < t
      BY <3>1, <3>2
    <3>4. \A u \in R : ~(u < first)
      BY <3>1, <3>2
    <3> QED
      BY <3>1, <3>3, <3>4
  <2> QED
    BY <2>1
<1> QED
  BY <1>1, <1>3, <1>4 DEF ConnectionsOf, R

\* So does a trace of the drawing, and each of them is there.
LEMMA TraceOfStar ==
  ASSUME UnionInv, DrawingInv, stage = "drawn"
  PROVE  /\ \A i \in DOMAIN nets : \A t \in Resolved(nets[i]) \ {Min(Resolved(nets[i]))} :
               <<Drawn(PinOf(Min(Resolved(nets[i])))), Drawn(PinOf(t))>> \in traces
         /\ \A e \in traces : \E i \in DOMAIN nets :
               \E t \in Resolved(nets[i]) \ {Min(Resolved(nets[i]))} :
                  e = <<Drawn(PinOf(Min(Resolved(nets[i])))), Drawn(PinOf(t))>>
<1>1. traces = {<<Drawn(c.from), Drawn(c.to)>> : c \in UNION {ConnectionsOf(nets[i]) : i \in DOMAIN nets}}
  BY DEF DrawingInv
<1>2. ASSUME NEW i \in DOMAIN nets, NEW t \in Resolved(nets[i]) \ {Min(Resolved(nets[i]))}
      PROVE  <<Drawn(PinOf(Min(Resolved(nets[i])))), Drawn(PinOf(t))>> \in traces
  <2> DEFINE c == [from |-> PinOf(Min(Resolved(nets[i]))), to |-> PinOf(t)]
  <2>1. c \in ConnectionsOf(nets[i])
    BY Star
  <2> QED
    BY <1>1, <2>1
<1>3. ASSUME NEW e \in traces
      PROVE  \E i \in DOMAIN nets : \E t \in Resolved(nets[i]) \ {Min(Resolved(nets[i]))} :
                  e = <<Drawn(PinOf(Min(Resolved(nets[i])))), Drawn(PinOf(t))>>
  <2>1. PICK i \in DOMAIN nets : \E c \in ConnectionsOf(nets[i]) : e = <<Drawn(c.from), Drawn(c.to)>>
    BY <1>1
  <2>2. PICK c \in ConnectionsOf(nets[i]) : e = <<Drawn(c.from), Drawn(c.to)>>
    BY <2>1
  <2>3. PICK t \in Resolved(nets[i]) \ {Min(Resolved(nets[i]))} :
           c = [from |-> PinOf(Min(Resolved(nets[i]))), to |-> PinOf(t)]
    BY Star
  <2> QED
    BY <2>2, <2>3
<1> QED
  BY <1>2, <1>3

\* Both invariants.
LEMMA SchematicInvariance == Spec => [](UnionInv /\ DrawingInv)
<1>1. UnionInv /\ DrawingInv /\ [Next]_vars => (UnionInv /\ DrawingInv)'
  BY UnionInvariance, DrawingInvariance
<1> QED
  BY <1>1, UnionInit, DrawingInit, PTL DEF Spec

\* A circuit that reports its ports and nets as complete has a pin for every
\* terminal, and its traces connect the pins of each net.
THEOREM CompleteMeansWired == Spec => []CompleteIsWired
<1>1. UnionInv /\ DrawingInv => CompleteIsWired
  <2> SUFFICES ASSUME UnionInv, DrawingInv, stage = "drawn", complete, NEW i \in DOMAIN nets
               PROVE  Connects(traces, PinsOf(i))
    BY DEF CompleteIsWired, DrawingInv
  <2> DEFINE R == Resolved(nets[i])
             D(t) == Drawn(PinOf(t))
  <2>1. PinsOf(i) = {D(t) : t \in R}
    BY DEF PinsOf, Resolved, TerminalsOf
  <2>2. \A t \in R \ {Min(R)} : <<D(Min(R)), D(t)>> \in traces
    BY TraceOfStar
  <2>3. R # {} => Min(R) \in R
    BY Star
  <2> SUFFICES ASSUME NEW A \in SUBSET PinsOf(i), A \notin {{}, PinsOf(i)}
               PROVE  \E e \in traces : \/ e[1] \in A /\ e[2] \in PinsOf(i) \ A
                                        \/ e[2] \in A /\ e[1] \in PinsOf(i) \ A
    BY DEF Connects
  <2> HIDE DEF R, D
  <2>4. PICK t \in R, u \in R : D(t) \in A /\ D(u) \in PinsOf(i) \ A
    BY <2>1
  <2>5. D(Min(R)) \in PinsOf(i)
    BY <2>1, <2>3, <2>4
  <2>6. CASE D(Min(R)) \in A
    <3>1. <<D(Min(R)), D(u)>> \in traces
      BY <2>2, <2>4, <2>6
    <3> DEFINE e == <<D(Min(R)), D(u)>>
    <3>2. e[1] \in A /\ e[2] \in PinsOf(i) \ A
      BY <2>4, <2>6
    <3> QED
      BY <3>1, <3>2
  <2>7. CASE D(Min(R)) \notin A
    <3>1. <<D(Min(R)), D(t)>> \in traces
      BY <2>2, <2>4, <2>7
    <3> DEFINE e == <<D(Min(R)), D(t)>>
    <3>2. e[2] \in A /\ e[1] \in PinsOf(i) \ A
      BY <2>4, <2>5, <2>7
    <3> QED
      BY <3>1, <3>2
  <2> QED
    BY <2>6, <2>7
<1> QED
  BY <1>1, SchematicInvariance, PTL

\* Power, ground and signals stay apart: no pin is drawn for two nets and no
\* trace leads from one net to another.
THEOREM NetsAreDrawnApart ==
  ASSUME OnePortPerPin
  PROVE  Spec => []NetsStayApart
<1>1. ASSUME NEW t \in Nodes, NEW u \in Nodes, HasPin(t), HasPin(u),
             Drawn(PinOf(t)) = Drawn(PinOf(u))
      PROVE  t = u
  <2>1. Terminals[t].of = Terminals[u].of
    BY <1>1, DrawnAt
  <2>2. PinOf(t).pin = PinOf(u).pin
    BY <1>1, <2>1, DrawnAt
  <2>3. AliasesOf(t) = AliasesOf(u)
    BY <1>1, <2>2, PinIsOfComponent
  <2> QED
    BY <1>1, <2>1, <2>3 DEF OnePortPerPin
<1>2. UnionInv /\ DrawingInv => NetsStayApart
  <2> SUFFICES ASSUME UnionInv, DrawingInv, stage = "drawn", NEW c \in traces
               PROVE  \E i \in DOMAIN nets :
                          /\ {c[1], c[2]} \subseteq PinsOf(i)
                          /\ \A j \in DOMAIN nets \ {i} : {c[1], c[2]} \cap PinsOf(j) = {}
    BY DEF NetsStayApart
  <2>1. PICK i \in DOMAIN nets : \E t \in Resolved(nets[i]) \ {Min(Resolved(nets[i]))} :
                  c = <<Drawn(PinOf(Min(Resolved(nets[i])))), Drawn(PinOf(t))>>
    BY TraceOfStar
  <2>2. /\ \A j \in DOMAIN nets : PinsOf(j) = {Drawn(PinOf(t)) : t \in Resolved(nets[j])}
        /\ Resolved(nets[i]) # {} => Min(Resolved(nets[i])) \in Resolved(nets[i])
    BY Star DEF PinsOf
  <2>3. {c[1], c[2]} \subseteq PinsOf(i)
    BY <2>1, <2>2
  <2>4. ASSUME NEW j \in DOMAIN nets \ {i}
        PROVE  PinsOf(i) \cap PinsOf(j) = {}
    <3>1. SUFFICES ASSUME NEW t \in Resolved(nets[i]), NEW u \in Resolved(nets[j]),
                          Drawn(PinOf(t)) = Drawn(PinOf(u))
                   PROVE  FALSE
      BY <2>2
    <3>2. /\ t \in Class(i) /\ t \in Nodes /\ HasPin(t)
          /\ u \in Class(j) /\ u \in Nodes /\ HasPin(u)
      BY NetTerminals, Star
    <3>3. t = u
      BY <1>1, <3>1, <3>2
    <3> QED
      BY <3>2, <3>3 DEF Class
  <2> QED
    BY <2>3, <2>4
<1> QED
  BY <1>2, SchematicInvariance, PTL

Admitted == stage # "refused"

\* The validator refuses no circuit of at most as many components as it admits
\* that is compiled from a graph, and the generator numbers each pin it draws.
THEOREM CompiledAreAccepted ==
  ASSUME FewComponents
  PROVE  Spec => []CompiledIsAccepted
<1>1. ASSUME NEW t \in Nodes, HasPin(t)
      PROVE  HasPinNamed(PinOf(t)) /\ Drawn(PinOf(t))[2] # 0
  BY <1>1, PinIsOfComponent, DrawnAt DEF HasPinNamed
<1>2. ASSUME UnionInv, Compile
      PROVE  stage' # "refused"
  <2>1. stage = "compile"
    BY <1>2 DEF Compile
  <2>2. Len(Components) \in 1..MaxComponents
    <3>1. pairs[1].left \in Nodes
      BY <1>2, PairsAreTerminals DEF UnionInv
    <3>2. Terminals[pairs[1].left].of \in DOMAIN Components
      BY <3>1, TerminalOfComponent
    <3>3. DOMAIN Components = 1..Len(Components) /\ Len(Components) \in Nat
      BY SchematicAssumption
    <3> QED
      BY <3>2, <3>3, SchematicAssumption DEF FewComponents
  <2>3. ASSUME NEW i \in DOMAIN nets, NEW c \in ConnectionsOf(nets[i])
        PROVE  HasPinNamed(c.from) /\ HasPinNamed(c.to)
    <3> DEFINE first == Min(Resolved(nets[i]))
    <3>1. PICK t \in Resolved(nets[i]) \ {first} : c = [from |-> PinOf(first), to |-> PinOf(t)]
      BY <1>2, <2>1, Star
    <3>2. \A u \in Resolved(nets[i]) : u \in Nodes /\ HasPin(u)
      BY <1>2, <2>1, Star, NetTerminals
    <3>3. first \in Resolved(nets[i])
      BY <1>2, <2>1, <3>1, Star
    <3> QED
      BY <1>1, <3>1, <3>2, <3>3
  <2> QED
    BY <1>2, <2>2, <2>3 DEF Compile
<1>3. UnionInv /\ Admitted /\ [Next]_vars => Admitted'
  BY <1>2 DEF Next, Union, Group, Generate, vars, Admitted
<1>4. Init => Admitted
  BY DEF Init, Admitted
<1>5. UnionInv /\ DrawingInv /\ Admitted => CompiledIsAccepted
  <2> SUFFICES ASSUME UnionInv, DrawingInv, NEW c \in traces
               PROVE  c[1][2] # 0 /\ c[2][2] # 0
    BY DEF CompiledIsAccepted, Admitted
  <2>1. stage = "drawn"
    BY DEF DrawingInv
  <2>2. PICK i \in DOMAIN nets : \E t \in Resolved(nets[i]) \ {Min(Resolved(nets[i]))} :
                  c = <<Drawn(PinOf(Min(Resolved(nets[i])))), Drawn(PinOf(t))>>
    BY <2>1, TraceOfStar
  <2>3. \A u \in Resolved(nets[i]) : u \in Nodes /\ HasPin(u)
    BY <2>1, Star, NetTerminals
  <2>4. Min(Resolved(nets[i])) \in Resolved(nets[i])
    BY <2>1, <2>2, Star
  <2> QED
    BY <1>1, <2>2, <2>3, <2>4
<1> QED
  BY <1>3, <1>4, <1>5, SchematicInvariance, PTL DEF Spec

=============================================================================
