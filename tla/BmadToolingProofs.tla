-------------------------- MODULE BmadToolingProofs --------------------------
(***************************************************************************)
(* What the builders' scripts promise, for every input: the levels of      *)
(* find_parallel_groups respect the dependencies; what a scaffold writes   *)
(* last vouches for what it wrote before, however often it was             *)
(* interrupted; the list of customizable skills is exactly that of the     *)
(* first readable skill of each name; a skill that passes a scan is what   *)
(* the scan vouches for; every file to distil is in one group of the plan; *)
(* the cycles and the redundant dependencies of a graph are those that     *)
(* detect_cycles and find_transitive_redundancy name; and a balanced       *)
(* template comes out as what it means.  And of layered settings the       *)
(* highest layer that speaks of a path settles it.                         *)
(***************************************************************************)
EXTENDS LayeredConfig, StageGraph, SkillTemplate, ModuleScaffold, SkillCatalog, SkillScans,
        SourceGroups, CollectionTheorems

-----------------------------------------------------------------------------
(* StageGraph: the levels. *)

\* The levels found so far hold exactly the stages that do not remain, and
\* each keeps the order.
LevelsInv ==
    /\ levels \in Seq(SUBSET stages)
    /\ remaining \subseteq stages
    /\ DependenciesFirst

\* The search for levels starts with the invariant.
LEMMA InitLevels ==
    ASSUME NEW graphs, NEW stageSets, GraphInit(graphs, stageSets)
    PROVE  LevelsInv
BY DEF GraphInit, LevelsInv, DependenciesFirst, Arranged, ToSet

\* A level is made of stages whose dependencies are all in levels before it.
LEMMA ReadyLevel ==
    ASSUME LevelsInv
    PROVE  /\ Ready \subseteq remaining
           /\ \A n \in Ready : \A d \in DependsOn(n) \cap stages :
                 \E j \in DOMAIN levels : d \in levels[j]
BY DEF LevelsInv, DependenciesFirst, Arranged, Ready, ToSet

\* One level more keeps the order.
LEMMA ArrangeLevelKeeps ==
    ASSUME LevelsInv, ArrangeLevel
    PROVE  LevelsInv'
<1> DEFINE N == Len(levels)
<1>1. /\ levels \in Seq(SUBSET stages) /\ remaining \subseteq stages
      /\ Ready \subseteq remaining /\ Ready \in SUBSET stages
      /\ N \in Nat /\ DOMAIN levels = 1..N
    BY ReadyLevel DEF LevelsInv
<1>2. /\ levels' = Append(levels, Ready) /\ remaining' = remaining \ Ready
      /\ graph' = graph /\ stages' = stages
    BY DEF ArrangeLevel
<1>3. /\ levels' \in Seq(SUBSET stages') /\ Len(levels') = N + 1 /\ DOMAIN levels' = 1..(N + 1)
      /\ \A i \in 1..N : levels'[i] = levels[i]
      /\ levels'[N + 1] = Ready
    <2> HIDE DEF Ready
    <2> QED
        BY <1>1, <1>2
<1>4. \A n : DependsOn(n)' = DependsOn(n)
    BY <1>2 DEF DependsOn, Depends
<1>5. \A i \in DOMAIN levels' : \A n \in levels'[i] :
         \A d \in DependsOn(n)' \cap stages' : \E j \in 1..(i - 1) : d \in levels'[j]
    <2> SUFFICES ASSUME NEW i \in 1..(N + 1), NEW n \in levels'[i], NEW d \in DependsOn(n) \cap stages
                 PROVE  \E j \in 1..(i - 1) : d \in levels'[j]
        BY <1>2, <1>3, <1>4
    <2>1. CASE i \in 1..N
        <3>1. PICK j \in 1..(i - 1) : d \in levels[j]
            BY <1>1, <1>3, <2>1 DEF LevelsInv, DependenciesFirst
        <3> QED
            BY <1>1, <1>3, <2>1, <3>1
    <2>2. CASE i = N + 1
        <3>1. PICK j \in 1..N : d \in levels[j]
            BY <1>1, <1>3, <2>2, ReadyLevel
        <3> QED
            BY <1>1, <1>3, <2>2, <3>1
    <2> QED
        BY <1>1, <2>1, <2>2
<1>6. \A i \in 1..N : levels[i] \subseteq stages \ remaining
    BY <1>1 DEF LevelsInv, DependenciesFirst, Arranged, ToSet
<1>7. \A i, j \in DOMAIN levels' : i # j => levels'[i] \cap levels'[j] = {}
    <2> SUFFICES ASSUME NEW i \in 1..(N + 1), NEW j \in 1..(N + 1), i # j
                 PROVE  levels'[i] \cap levels'[j] = {}
        BY <1>3
    <2>1. CASE i \in 1..N /\ j \in 1..N
        BY <1>1, <1>3, <2>1 DEF LevelsInv, DependenciesFirst
    <2>2. CASE i = N + 1
        BY <1>1, <1>3, <1>6, <2>2
    <2>3. CASE j = N + 1
        BY <1>1, <1>3, <1>6, <2>3
    <2> QED
        BY <1>1, <2>1, <2>2, <2>3
<1>8. Arranged' = stages' \ remaining'
    <2>1. Arranged' = Arranged \cup Ready
        BY <1>1, <1>3 DEF Arranged, ToSet
    <2> QED
        BY <1>1, <1>2, <2>1 DEF LevelsInv, DependenciesFirst
<1> QED
    BY <1>1, <1>2, <1>3, <1>5, <1>7, <1>8 DEF LevelsInv, DependenciesFirst

\* Every step keeps the invariant.
LEMMA NextLevels ==
    ASSUME LevelsInv, [GraphNext]_graphVars
    PROVE  LevelsInv'
<1>1. CASE ArrangeLevel
    BY <1>1, ArrangeLevelKeeps
<1>2. CASE UNCHANGED <<graph, stages, remaining, levels>>
    BY <1>2 DEF LevelsInv, DependenciesFirst, Arranged, DependsOn, Depends
<1>3. ArrangeEnd \/ SearchRoot \/ SearchNext \/ SearchReturn \/ UNCHANGED graphVars
         => UNCHANGED <<graph, stages, remaining, levels>>
    BY DEF ArrangeEnd, SearchRoot, SearchNext, SearchReturn, graphVars, levelVars
<1> QED
    BY <1>1, <1>2, <1>3 DEF GraphNext

\* find_parallel_groups never runs a stage before one it depends on, puts no
\* stage in two levels and loses none, whatever the graph says.
THEOREM LevelsRespectDependencies ==
    ASSUME NEW graphs, NEW stageSets
    PROVE  GraphSpec(graphs, stageSets) => []DependenciesFirst
<1>1. GraphInit(graphs, stageSets) => LevelsInv
    BY InitLevels
<1>2. LevelsInv /\ [GraphNext]_graphVars => LevelsInv'
    BY NextLevels
<1>3. LevelsInv => DependenciesFirst
    BY DEF LevelsInv
<1> QED
    BY <1>1, <1>2, <1>3, PTL DEF GraphSpec

-----------------------------------------------------------------------------
(* StageGraph: what edges lead to, and what the pre-pass reaches. *)

\* One edge leads to its end...
LEMMA LeadsEdge ==
    ASSUME NEW E, NEW m, NEW n, <<m, n>> \in E
    PROVE  Leads(E, m, n)
BY DEF Leads

\* ...and one edge more leads further.
LEMMA LeadsStep ==
    ASSUME NEW E, NEW m, NEW x, NEW y, Leads(E, m, x), <<x, y>> \in E
    PROVE  Leads(E, m, y)
<1>1. SUFFICES ASSUME NEW S \in SUBSET Nodes, \A e \in E : e[1] \in S \cup {m} => e[2] \in S
               PROVE  y \in S
    BY DEF Leads
<1>2. x \in S
    BY <1>1 DEF Leads
<1> QED
    BY <1>1, <1>2

\* More edges lead no less far.
LEMMA LeadsMore ==
    ASSUME NEW E, NEW F, E \subseteq F, NEW m, NEW n, Leads(E, m, n)
    PROVE  Leads(F, m, n)
BY DEF Leads

\* A way begins with an edge.
LEMMA LeadsFirst ==
    ASSUME NEW E \in SUBSET (Nodes \X Nodes), NEW m, NEW n, Leads(E, m, n)
    PROVE  \E x \in Nodes : <<m, x>> \in E /\ (x = n \/ Leads(E, x, n))
<1> DEFINE S == {z \in Nodes : \E x \in Nodes : <<m, x>> \in E /\ (x = z \/ Leads(E, x, z))}
<1>1. ASSUME NEW e \in E, e[1] \in S \cup {m}
      PROVE  e[2] \in S
    <2>1. PICK a \in Nodes, b \in Nodes : e = <<a, b>>
        OBVIOUS
    <2>2. CASE a = m
        BY <2>1, <2>2
    <2>3. CASE a \in S
        <3>1. PICK x \in Nodes : <<m, x>> \in E /\ (x = a \/ Leads(E, x, a))
            BY <2>3
        <3>2. Leads(E, x, b)
            BY <2>1, <3>1, LeadsEdge, LeadsStep
        <3> QED
            BY <2>1, <3>1, <3>2
    <2> QED
        BY <1>1, <2>1, <2>2, <2>3
<1>2. n \in S
    <2>1. S \in SUBSET Nodes
        OBVIOUS
    <2> HIDE DEF S
    <2> QED
        BY <1>1, <2>1 DEF Leads
<1> QED
    BY <1>2

-----------------------------------------------------------------------------
(* StageGraph: what get_transitive returns. *)

\* The nodes at the end of a walk of at most k steps that begins in Begin.
Walks(Begin, j) ==
    {w \in [0 .. j -> Nodes] : w[0] \in Begin /\ \A i \in 1 .. j : w[i] \in DependsOn(w[i - 1])}
Within(Begin, k) == {m \in Nodes : \E j \in 0 .. k : \E w \in Walks(Begin, j) : w[j] = m}

\* The function of Transitive: what n reaches in k + 1 dependencies or fewer.
IsReach(g, n) ==
    g = [k \in 0 .. Cardinality(Nodes) |->
            IF k = 0 THEN DependsOn(n)
            ELSE g[k - 1] \cup UNION {DependsOn(x) : x \in g[k - 1]}]

\* A graph of lists of nodes.
GraphTyped == DOMAIN graph \subseteq Nodes /\ \A n \in DOMAIN graph : graph[n] \in Seq(Nodes)

\* What nodes depend on are nodes.
LEMMA NodesDepend ==
    ASSUME GraphTyped, NEW n
    PROVE  /\ Depends(n) \in Seq(Nodes) /\ DependsOn(n) \in SUBSET Nodes
           /\ DependsOn(n) # {} => n \in DOMAIN graph
           /\ DependsOn(n) = {Depends(n)[i] : i \in 1 .. Len(Depends(n))}
<1>1. Depends(n) \in Seq(Nodes)
    BY DEF GraphTyped, Depends
<1>2. DependsOn(n) \in SUBSET Nodes
    BY <1>1 DEF DependsOn, ToSet
<1>3. DependsOn(n) = {Depends(n)[i] : i \in 1 .. Len(Depends(n))}
    BY <1>1 DEF DependsOn, ToSet
<1>4. n \notin DOMAIN graph => DependsOn(n) = {}
    <2>1. ToSet(<<>>) = {}
        BY DEF ToSet
    <2> QED
        BY <2>1 DEF DependsOn, Depends
<1> QED
    BY <1>1, <1>2, <1>3, <1>4

\* Edges are exactly the dependencies.
LEMMA EdgesAre ==
    ASSUME GraphTyped
    PROVE  /\ Edges \in SUBSET (Nodes \X Nodes)
           /\ \A m \in Nodes : \A n : <<m, n>> \in Edges <=> n \in DependsOn(m)
<1>1. ASSUME NEW m \in Nodes, NEW n
      PROVE  <<m, n>> \in Edges <=> n \in DependsOn(m)
    <2>1. n \in DependsOn(m) => n \in Nodes
        BY NodesDepend
    <2> QED
        BY <2>1 DEF Edges
<1> QED
    BY <1>1 DEF Edges

\* A walk of one step more.
LEMMA WithinMore ==
    ASSUME GraphTyped, NEW Begin, NEW k \in Nat, k > 0
    PROVE  Within(Begin, k) = Within(Begin, k - 1) \cup UNION {DependsOn(x) : x \in Within(Begin, k - 1)}
<1>1. ASSUME NEW m \in Within(Begin, k)
      PROVE  m \in Within(Begin, k - 1) \cup UNION {DependsOn(x) : x \in Within(Begin, k - 1)}
    <2>0. PICK j \in 0 .. k : \E w \in Walks(Begin, j) : w[j] = m
        BY DEF Within
    <2>1. PICK w \in Walks(Begin, j) : w[j] = m
        BY <2>0
    <2>2. CASE j # k
        <3>1. j \in 0 .. (k - 1)
            BY <2>2
        <3> QED
            BY <1>1, <2>1, <3>1 DEF Within
    <2>3. CASE j = k
        <3> DEFINE v == [i \in 0 .. (k - 1) |-> w[i]]
        <3>1. /\ w \in [0 .. k -> Nodes] /\ w[0] \in Begin
              /\ \A i \in 1 .. k : w[i] \in DependsOn(w[i - 1])
            BY <2>3 DEF Walks
        <3>2. v \in [0 .. (k - 1) -> Nodes] /\ v[0] = w[0] /\ v[k - 1] = w[k - 1] /\ w[k - 1] \in Nodes
            BY <3>1
        <3>3. \A i \in 1 .. (k - 1) : v[i] = w[i] /\ v[i - 1] = w[i - 1] /\ i \in 1 .. k
            OBVIOUS
        <3> HIDE DEF v
        <3>4. v \in Walks(Begin, k - 1)
            BY <3>1, <3>2, <3>3 DEF Walks
        <3>5. w[k - 1] \in Within(Begin, k - 1)
            <4>1. k - 1 \in 0 .. (k - 1)
                OBVIOUS
            <4> QED
                BY <3>2, <3>4, <4>1 DEF Within
        <3>6. w[k] \in DependsOn(w[k - 1])
            <4>1. k \in 1 .. k
                OBVIOUS
            <4> QED
                BY <3>1, <4>1
        <3> QED
            BY <2>1, <2>3, <3>5, <3>6
    <2> QED
        BY <2>2, <2>3
<1>2. Within(Begin, k - 1) \subseteq Within(Begin, k)
    <2>1. \A j \in 0 .. (k - 1) : j \in 0 .. k
        OBVIOUS
    <2> QED
        BY <2>1 DEF Within
<1>3. ASSUME NEW x \in Within(Begin, k - 1), NEW m \in DependsOn(x)
      PROVE  m \in Within(Begin, k)
    <2>0. PICK j \in 0 .. (k - 1) : \E w \in Walks(Begin, j) : w[j] = x
        BY DEF Within
    <2>1. PICK w \in Walks(Begin, j) : w[j] = x
        BY <2>0
    <2> DEFINE v == [i \in 0 .. (j + 1) |-> IF i = j + 1 THEN m ELSE w[i]]
    <2>2. m \in Nodes
        BY NodesDepend
    <2>3. /\ w \in [0 .. j -> Nodes] /\ w[0] \in Begin
          /\ \A i \in 1 .. j : w[i] \in DependsOn(w[i - 1])
        BY DEF Walks
    <2>4. v \in [0 .. (j + 1) -> Nodes] /\ v[0] = w[0] /\ v[j + 1] = m
        BY <2>2, <2>3
    <2>5. \A i \in 1 .. j : v[i] = w[i] /\ v[i - 1] = w[i - 1]
        OBVIOUS
    <2>6. v[j] = x
        BY <2>1
    <2> HIDE DEF v
    <2>7. ASSUME NEW i \in 1 .. (j + 1)
          PROVE  v[i] \in DependsOn(v[i - 1])
        <3>1. CASE i = j + 1
            <4>1. i - 1 = j
                BY <3>1
            <4> QED
                BY <2>4, <2>6, <3>1, <4>1
        <3>2. CASE i # j + 1
            <4>1. i \in 1 .. j
                BY <3>2
            <4> QED
                BY <2>3, <2>5, <4>1
        <3> QED
            BY <3>1, <3>2
    <2>8. v \in Walks(Begin, j + 1)
        BY <2>3, <2>4, <2>7 DEF Walks
    <2>9. j + 1 \in 0 .. k
        OBVIOUS
    <2> QED
        BY <2>2, <2>4, <2>8, <2>9 DEF Within
<1> QED
    BY <1>1, <1>2, <1>3

\* No step at all: where the walk begins.
LEMMA WithinNone ==
    ASSUME NEW Begin \in SUBSET Nodes
    PROVE  Within(Begin, 0) = Begin
<1>1. ASSUME NEW m \in Begin
      PROVE  m \in Within(Begin, 0)
    <2> DEFINE v == [i \in 0 .. 0 |-> m]
    <2>1. v \in [0 .. 0 -> Nodes] /\ v[0] = m
        OBVIOUS
    <2>2. v \in Walks(Begin, 0)
        BY <2>1 DEF Walks
    <2>3. 0 \in 0 .. 0
        OBVIOUS
    <2> HIDE DEF v
    <2> QED
        BY <2>1, <2>2, <2>3 DEF Within
<1>2. ASSUME NEW m \in Within(Begin, 0)
      PROVE  m \in Begin
    <2>0. PICK j \in 0 .. 0 : \E w \in Walks(Begin, j) : w[j] = m
        BY DEF Within
    <2>1. PICK w \in Walks(Begin, j) : w[j] = m
        BY <2>0
    <2>2. j = 0
        OBVIOUS
    <2> QED
        BY <2>1, <2>2 DEF Walks
<1> QED
    BY <1>1, <1>2

\* So there is such a function, and it is the one Transitive takes.
LEMMA TransitiveIs ==
    ASSUME GraphTyped, NEW n
    PROVE  \E g : IsReach(g, n) /\ Transitive(n) = g[Cardinality(Nodes)]
<1>1. Cardinality(Nodes) \in Nat
    BY NodesAssumption, FS_CardinalityType
<1>2. PICK N \in Nat : N = Cardinality(Nodes)
    BY <1>1
<1> DEFINE h == [k \in 0 .. N |-> Within(DependsOn(n), k)]
<1>3. ASSUME NEW k \in 0 .. N
      PROVE  h[k] = IF k = 0 THEN DependsOn(n)
                    ELSE h[k - 1] \cup UNION {DependsOn(x) : x \in h[k - 1]}
    <2>1. CASE k = 0
        BY <2>1, WithinNone, NodesDepend
    <2>2. CASE k # 0
        <3>1. k - 1 \in 0 .. N /\ k > 0 /\ k \in Nat
            BY <2>2
        <3>2. h[k - 1] = Within(DependsOn(n), k - 1) /\ h[k] = Within(DependsOn(n), k)
            BY <3>1
        <3> HIDE DEF h
        <3> QED
            BY <2>2, <3>1, <3>2, WithinMore
    <2> QED
        BY <2>1, <2>2
<1>4. DOMAIN h = 0 .. N /\ h = [k \in DOMAIN h |-> h[k]]
    OBVIOUS
<1> HIDE DEF h
<1>5. IsReach(h, n)
    BY <1>2, <1>3, <1>4 DEF IsReach
<1>6. PICK g : g = CHOOSE f : IsReach(f, n)
    OBVIOUS
<1>7. IsReach(g, n)
    BY <1>5, <1>6
<1>8. Transitive(n) = g[Cardinality(Nodes)]
    BY <1>6 DEF Transitive, IsReach
<1> QED
    BY <1>7, <1>8

\* Each round keeps what the one before reached and takes one more dependency.
LEMMA ReachGrows ==
    ASSUME NEW g, NEW n, IsReach(g, n)
    PROVE  /\ g[0] = DependsOn(n)
           /\ \A k \in 1 .. Cardinality(Nodes) :
                 g[k] = g[k - 1] \cup UNION {DependsOn(x) : x \in g[k - 1]}
<1>1. Cardinality(Nodes) \in Nat
    BY NodesAssumption, FS_CardinalityType
<1>2. PICK N \in Nat : N = Cardinality(Nodes)
    BY <1>1
<1>3. PICK f : f = [k \in 0 .. N |-> IF k = 0 THEN DependsOn(n)
                                     ELSE g[k - 1] \cup UNION {DependsOn(x) : x \in g[k - 1]}]
    OBVIOUS
<1>4. g = f
    BY <1>2, <1>3 DEF IsReach
<1>5. 0 \in 0 .. N /\ \A k \in 1 .. N : k \in 0 .. N /\ k # 0
    OBVIOUS
<1>6. f[0] = DependsOn(n)
    BY <1>3, <1>5
<1>7. \A k \in 1 .. N : f[k] = g[k - 1] \cup UNION {DependsOn(x) : x \in g[k - 1]}
    BY <1>3, <1>5
<1> QED
    BY <1>2, <1>4, <1>6, <1>7

\* Once a round takes nothing new, what was reached depends on nothing else, and
\* that has happened after as many rounds as there are nodes.
LEMMA ReachCloses ==
    ASSUME GraphTyped, NEW g, NEW n, IsReach(g, n)
    PROVE  /\ DependsOn(n) \subseteq g[Cardinality(Nodes)]
           /\ \A x \in g[Cardinality(Nodes)] :
                 x \in Nodes /\ DependsOn(x) \subseteq g[Cardinality(Nodes)]
<1>1. PICK N \in Nat : N = Cardinality(Nodes)
    BY NodesAssumption, FS_CardinalityType
<1> DEFINE More(k) == UNION {DependsOn(x) : x \in g[k - 1]}
<1>2. g[0] = DependsOn(n) /\ \A k \in 1 .. N : g[k] = g[k - 1] \cup More(k)
    BY <1>1, ReachGrows
<1>3. \A k \in 0 .. N : g[k] \in SUBSET Nodes /\ DependsOn(n) \subseteq g[k]
    <2> DEFINE P == {k \in 0 .. N : g[k] \in SUBSET Nodes /\ DependsOn(n) \subseteq g[k]}
    <2>1. 0 \in P
        BY <1>2, NodesDepend
    <2>2. ASSUME NEW k \in 1 .. N, k - 1 \in P
          PROVE  k \in P
        <3>1. More(k) \in SUBSET Nodes
            BY NodesDepend
        <3> HIDE DEF More
        <3> QED
            BY <1>2, <2>2, <3>1
    <2> HIDE DEF P
    <2>3. \A k \in 0 .. N : k \in P
        BY <2>1, <2>2, Upwards
    <2> QED
        BY <2>3 DEF P
<1>4. CASE \E j \in 1 .. N : g[j] = g[j - 1]
    <2>1. PICK j \in 1 .. N : g[j] = g[j - 1]
        BY <1>4
    <2>2. More(j) \subseteq g[j - 1]
        <3> HIDE DEF More
        <3> QED
            BY <1>2, <2>1
    <2> DEFINE P == {k \in 0 .. N : k < j - 1 \/ g[k] = g[j - 1]}
    <2>3. 0 \in P
        <3>1. 0 < j - 1 \/ 0 = j - 1
            OBVIOUS
        <3> QED
            BY <3>1
    <2>4. ASSUME NEW k \in 1 .. N, k - 1 \in P
          PROVE  k \in P
        <3>1. CASE k <= j - 1
            BY <3>1
        <3>2. CASE k > j - 1
            <4>1. CASE k = j
                BY <2>1, <4>1
            <4>2. CASE k # j
                <5>1. ~(k - 1 < j - 1)
                    BY <3>2, <4>2
                <5>2. g[k - 1] = g[j - 1]
                    BY <2>4, <5>1
                <5>3. More(k) = More(j)
                    BY <5>2
                <5>4. g[k] = g[j - 1]
                    <6> HIDE DEF More, P
                    <6> QED
                        BY <1>2, <2>2, <5>2, <5>3
                <5> QED
                    BY <5>4
            <4> QED
                BY <4>1, <4>2
        <3> QED
            BY <3>1, <3>2
    <2> HIDE DEF P
    <2>5. \A k \in 0 .. N : k \in P
        BY <2>3, <2>4, Upwards
    <2>6. g[N] = g[j - 1]
        <3>1. N \in 0 .. N /\ ~(N < j - 1)
            OBVIOUS
        <3> QED
            BY <2>5, <3>1 DEF P
    <2>7. \A x \in g[j - 1] : DependsOn(x) \subseteq g[j - 1]
        BY <2>2
    <2> QED
        BY <1>1, <1>3, <2>6, <2>7
<1>5. CASE \A j \in 1 .. N : g[j] # g[j - 1]
    <2>1. \A k \in 0 .. N : IsFiniteSet(g[k]) /\ Cardinality(g[k]) \in Nat
        BY <1>3, NodesAssumption, FS_Subset, FS_CardinalityType
    <2>2. CASE DependsOn(n) = {}
        <3>1. CASE N = 0
            BY <1>1, <1>2, <2>2, <3>1
        <3>2. CASE N # 0
            <4>1. 1 \in 1 .. N /\ 1 - 1 = 0
                BY <3>2
            <4>2. g[1] = g[0] \cup More(1) /\ g[1] # g[0]
                BY <1>2, <1>5, <4>1
            <4>3. More(1) = {}
                BY <1>2, <2>2
            <4> HIDE DEF More
            <4> QED
                BY <4>2, <4>3
        <3> QED
            BY <3>1, <3>2
    <2>3. CASE DependsOn(n) # {}
        <3> DEFINE P == {k \in 0 .. N : Cardinality(g[k]) >= k + 1}
        <3>1. 0 \in P
            <4>1. Cardinality(g[0]) # 0 /\ Cardinality(g[0]) \in Nat
                BY <1>2, <2>1, <2>3, FS_EmptySet
            <4> QED
                BY <4>1
        <3>2. ASSUME NEW k \in 1 .. N, k - 1 \in P
              PROVE  k \in P
            <4>1. g[k - 1] \subseteq g[k] /\ g[k] # g[k - 1] /\ k - 1 \in 0 .. N /\ k \in 0 .. N
                BY <1>2, <1>5
            <4>2. Cardinality(g[k - 1]) < Cardinality(g[k])
                BY <2>1, <4>1, FS_Subset
            <4>3. Cardinality(g[k - 1]) >= k /\ Cardinality(g[k - 1]) \in Nat /\ Cardinality(g[k]) \in Nat
                BY <2>1, <3>2, <4>1
            <4> QED
                BY <4>1, <4>2, <4>3
        <3> HIDE DEF P
        <3>3. \A k \in 0 .. N : k \in P
            BY <3>1, <3>2, Upwards
        <3>4. N \in 0 .. N
            OBVIOUS
        <3>5. Cardinality(g[N]) >= N + 1
            BY <3>3, <3>4 DEF P
        <3>6. Cardinality(g[N]) <= N
            BY <1>1, <1>3, <3>4, NodesAssumption, FS_Subset
        <3> QED
            BY <2>1, <3>4, <3>5, <3>6
    <2> QED
        BY <2>2, <2>3
<1> QED
    BY <1>4, <1>5

\* get_transitive returns what the dependencies lead to.
LEMMA TransitiveLeads ==
    ASSUME GraphTyped, NEW n \in Nodes, NEW m
    PROVE  m \in Transitive(n) <=> m \in Nodes /\ Leads(Edges, n, m)
<1>1. PICK g : IsReach(g, n) /\ Transitive(n) = g[Cardinality(Nodes)]
    BY TransitiveIs
<1>2. PICK N \in Nat : N = Cardinality(Nodes)
    BY NodesAssumption, FS_CardinalityType
<1>3. PICK R : R = g[N]
    OBVIOUS
<1>4. DependsOn(n) \subseteq R /\ R \in SUBSET Nodes /\ \A x \in R : DependsOn(x) \subseteq R
    BY <1>1, <1>2, <1>3, ReachCloses
<1>5. ASSUME Leads(Edges, n, m)
      PROVE  m \in R
    <2>1. \A e \in Edges : e[1] \in R \cup {n} => e[2] \in R
        BY <1>4 DEF Edges
    <2> QED
        BY <1>4, <1>5, <2>1 DEF Leads
<1>6. ASSUME m \in R
      PROVE  Leads(Edges, n, m)
    <2> DEFINE P == {k \in 0 .. N : g[k] \in SUBSET Nodes /\ \A x \in g[k] : Leads(Edges, n, x)}
    <2>1. 0 \in P
        <3>1. g[0] = DependsOn(n)
            BY <1>1, ReachGrows
        <3>2. DependsOn(n) \in SUBSET Nodes /\ \A x \in DependsOn(n) : <<n, x>> \in Edges
            BY NodesDepend, EdgesAre
        <3>3. \A x \in DependsOn(n) : Leads(Edges, n, x)
            BY <3>2, LeadsEdge
        <3>4. 0 \in 0 .. N
            OBVIOUS
        <3> QED
            BY <3>1, <3>2, <3>3, <3>4
    <2>2. ASSUME NEW k \in 1 .. N, k - 1 \in P
          PROVE  k \in P
        <3>1. g[k] = g[k - 1] \cup UNION {DependsOn(x) : x \in g[k - 1]}
            BY <1>1, <1>2, ReachGrows
        <3>2. ASSUME NEW x \in g[k - 1], NEW y \in DependsOn(x)
              PROVE  y \in Nodes /\ Leads(Edges, n, y)
            <4>1. x \in Nodes /\ Leads(Edges, n, x)
                BY <2>2
            <4>2. y \in Nodes /\ <<x, y>> \in Edges
                BY <4>1, NodesDepend, EdgesAre
            <4> QED
                BY <4>1, <4>2, LeadsStep
        <3> QED
            BY <2>2, <3>1, <3>2
    <2> HIDE DEF P
    <2>3. \A k \in 0 .. N : k \in P
        BY <2>1, <2>2, Upwards
    <2>4. N \in P
        BY <2>3
    <2> QED
        BY <1>3, <1>6, <2>4 DEF P
<1> QED
    BY <1>1, <1>2, <1>3, <1>4, <1>5, <1>6

\* Without cycles, a dependency is called redundant exactly when the others imply it.
LEMMA RedundantRightly ==
    ASSUME GraphTyped, \A n \in Nodes : ~OnCycle(n), NEW e \in Edges
    PROVE  Leads(Edges \ {e}, e[1], e[2]) <=> \E r \in Redundancies : r.node = e[1] /\ r.dep = e[2]
<1>1. PICK a \in Nodes, b \in Nodes : e = <<a, b>> /\ b \in DependsOn(a)
    BY DEF Edges
<1>2. PICK F : F = Edges \ {e}
    OBVIOUS
<1>3. a \in DOMAIN graph /\ F \in SUBSET (Nodes \X Nodes)
    BY <1>1, <1>2, NodesDepend, EdgesAre
<1>4. ASSUME Leads(F, a, b)
      PROVE  \E r \in Redundancies : r.node = a /\ r.dep = b
    <2>1. PICK via \in Nodes : <<a, via>> \in F /\ (via = b \/ Leads(F, via, b))
        BY <1>3, <1>4, LeadsFirst
    <2>2. via # b /\ via \in DependsOn(a)
        BY <1>1, <1>2, <2>1, EdgesAre
    <2>3. Leads(Edges, via, b)
        BY <1>2, <2>1, <2>2, LeadsMore
    <2>4. b \in Transitive(via)
        BY <2>3, TransitiveLeads
    <2>5. PICK r : r = [node |-> a, dep |-> b, via |-> via]
        OBVIOUS
    <2>6. r \in [node : DOMAIN graph, dep : Nodes, via : Nodes]
        BY <1>3, <2>5
    <2>7. r.node = a /\ r.dep = b /\ r.via = via
        BY <2>5
    <2>8. r \in Redundancies
        BY <1>1, <2>2, <2>4, <2>6, <2>7 DEF Redundancies
    <2> QED
        BY <2>7, <2>8
<1>5. ASSUME NEW r \in Redundancies, r.node = a, r.dep = b
      PROVE  Leads(F, a, b)
    <2>1. PICK via \in Nodes : via \in DependsOn(a) /\ via # b /\ b \in Transitive(via)
        BY <1>5 DEF Redundancies
    <2>2. Leads(Edges, via, b)
        BY <2>1, TransitiveLeads
    <2>3. <<a, via>> \in Edges /\ <<a, via>> \in F
        BY <1>1, <1>2, <2>1, EdgesAre
    <2>4. SUFFICES ASSUME NEW S \in SUBSET Nodes, \A f \in F : f[1] \in S \cup {a} => f[2] \in S
                   PROVE  b \in S
        BY DEF Leads
    <2>5. via \in S
        BY <2>3, <2>4
    <2> DEFINE U == {x \in S : Leads(Edges, via, x)}
    <2>6. ASSUME NEW f \in Edges, f[1] \in U \cup {via}
          PROVE  f[2] \in U
        <3>1. PICK x \in Nodes, y \in Nodes : f = <<x, y>>
            BY DEF Edges
        <3>2. x \in S /\ (x = via \/ Leads(Edges, via, x))
            BY <2>5, <2>6, <3>1
        <3>3. Leads(Edges, via, y)
            BY <3>1, <3>2, LeadsEdge, LeadsStep
        <3>4. f # e
            <4>1. SUFFICES ASSUME x = a
                  PROVE FALSE
                BY <1>1, <3>1
            <4>2. Leads(Edges, via, via)
                BY <2>3, <3>2, <4>1, LeadsEdge, LeadsStep
            <4> QED
                BY <4>2 DEF OnCycle
        <3> QED
            BY <1>2, <2>4, <3>1, <3>2, <3>3, <3>4
    <2>7. b \in U
        <3>1. U \in SUBSET Nodes
            OBVIOUS
        <3> HIDE DEF U
        <3> QED
            BY <2>2, <2>6, <3>1 DEF Leads
    <2> QED
        BY <2>7
<1> QED
    BY <1>1, <1>2, <1>4, <1>5

-----------------------------------------------------------------------------
(* StageGraph: the search for cycles. *)

\* A closed walk along the edges, with its first node again at the end.
IsCycle(c) ==
    /\ c \in Seq(Nodes) /\ Len(c) > 1 /\ c[1] = c[Len(c)]
    /\ \A i \in 1 .. (Len(c) - 1) : <<c[i], c[i + 1]>> \in Edges

\* The nodes the search has left again, and the first nodes of the cycles found.
Finished == visited \ ToSet(path)
Heads == {c[1] : c \in ToSet(cycles)}

\* What the search has met for good: it was left, or a cycle was closed at it.
Met(n) == n \in Finished \/ (n \in ToSet(path) /\ n \in Heads)

\* The lists of the search hold nodes, and every key of the graph was visited or is a root.
SearchTyped ==
    /\ roots \in Seq(Nodes) /\ path \in Seq(Nodes) /\ visited \in SUBSET Nodes
    /\ position \in Seq(Nat) /\ Len(position) = Len(path)
    /\ DOMAIN graph \subseteq visited \cup ToSet(roots)

\* The path is a walk along the edges that meets no node twice.
PathInv ==
    /\ ToSet(path) \subseteq visited
    /\ \A i, j \in DOMAIN path : path[i] = path[j] => i = j
    /\ \A i \in DOMAIN path : position[i] <= Len(Depends(path[i]))
    /\ \A i \in DOMAIN path : i + 1 \in DOMAIN path =>
          position[i] > 0 /\ path[i + 1] = Depends(path[i])[position[i]]

CyclesInv == cycles \in Seq(Seq(Nodes)) /\ \A c \in ToSet(cycles) : IsCycle(c)

\* Every dependency explored was met, but for the one that is under way.
ExploredInv ==
    \A i \in DOMAIN path : \A k \in 1 .. position[i] :
        Met(Depends(path[i])[k]) \/ (i + 1 \in DOMAIN path /\ k = position[i])

\* Every dependency of a node that was left was met; and of nodes that were left
\* and close no cycle, one depends on none of the others.
FinishedInv ==
    /\ \A n \in Finished : \A d \in DependsOn(n) : Met(d)
    /\ \A T \in SUBSET Finished : T # {} /\ T \cap Heads = {} => \E n \in T : DependsOn(n) \cap T = {}

SearchInv == GraphTyped /\ SearchTyped /\ PathInv /\ CyclesInv /\ ExploredInv /\ FinishedInv

\* The graphs a behaviour may start from.
OverNodes(graphs) == \A g \in graphs : DOMAIN g \subseteq Nodes /\ \A n \in DOMAIN g : g[n] \in Seq(Nodes)

\* The search starts with nothing visited and a root for every node with dependencies.
LEMMA InitSearch ==
    ASSUME NEW graphs, NEW stageSets, OverNodes(graphs), GraphInit(graphs, stageSets)
    PROVE  SearchInv
<1>1. /\ graph \in graphs /\ roots = SetToSeq(DOMAIN graph) /\ path = <<>> /\ position = <<>>
      /\ visited = {} /\ cycles = <<>>
    BY DEF GraphInit
<1>2. GraphTyped
    BY <1>1 DEF OverNodes, GraphTyped
<1>3. ToSet(<<>>) = {}
    BY DEF ToSet
<1>4. Finished = {}
    BY <1>1, <1>3 DEF Finished
<1>5. roots \in Seq(Nodes) /\ ToSet(roots) = DOMAIN graph
    <2>1. IsFiniteSet(DOMAIN graph) /\ DOMAIN graph \subseteq Nodes
        BY <1>2, NodesAssumption, FS_Subset DEF GraphTyped
    <2>2. roots \in Seq(DOMAIN graph) /\ ToSet(roots) = DOMAIN graph
        BY <1>1, <2>1, SetToSeqGives
    <2> QED
        BY <2>1, <2>2, OfItsElements
<1>6. SearchTyped
    BY <1>1, <1>5 DEF SearchTyped
<1>7. PathInv
    BY <1>1, <1>3 DEF PathInv
<1>8. CyclesInv
    BY <1>1, <1>3 DEF CyclesInv
<1>9. ExploredInv
    BY <1>1 DEF ExploredInv
<1>10. FinishedInv
    BY <1>4 DEF FinishedInv
<1> QED
    BY <1>2, <1>6, <1>7, <1>8, <1>9, <1>10 DEF SearchInv

\* What a step leaves of the graph and the path keeps, as long as nothing is left.
LEMMA MetKept ==
    ASSUME FinishedInv, graph' = graph, Finished' = Finished, Heads \subseteq Heads',
           ToSet(path) \subseteq ToSet(path)'
    PROVE  /\ FinishedInv'
           /\ \A n : Met(n) => Met(n)'
           /\ \A n : Depends(n)' = Depends(n) /\ DependsOn(n)' = DependsOn(n)
<1>1. \A n : Depends(n)' = Depends(n) /\ DependsOn(n)' = DependsOn(n)
    BY DEF DependsOn, Depends
<1>2. \A n : Met(n) => Met(n)'
    BY DEF Met
<1>3. \A n \in Finished' : \A d \in DependsOn(n)' : Met(d)'
    BY <1>1, <1>2 DEF FinishedInv
<1>4. ASSUME NEW T \in SUBSET Finished', T # {}, T \cap Heads' = {}
      PROVE  \E n \in T : DependsOn(n)' \cap T = {}
    BY <1>1, <1>4 DEF FinishedInv
<1> QED
    BY <1>1, <1>2, <1>3, <1>4 DEF FinishedInv

\* What holds of the graph holds as long as it stays.
LEMMA GraphKept ==
    ASSUME GraphTyped, graph' = graph
    PROVE  GraphTyped' /\ Edges' = Edges
BY DEF GraphTyped, Edges, DependsOn, Depends

\* The same of the cycles.
LEMMA CyclesKept ==
    ASSUME CyclesInv, graph' = graph, cycles' = cycles
    PROVE  CyclesInv' /\ Heads' = Heads
<1>1. Edges' = Edges
    BY DEF Edges, DependsOn, Depends
<1> QED
    BY <1>1 DEF CyclesInv, IsCycle, Heads

\* The edges along the path.
LEMMA PathEdge ==
    ASSUME SearchInv, NEW i \in DOMAIN path
    PROVE  /\ path[i] \in Nodes /\ position[i] \in Nat
           /\ \A k \in 1 .. Len(Depends(path[i])) : <<path[i], Depends(path[i])[k]>> \in Edges
           /\ i + 1 \in DOMAIN path => <<path[i], path[i + 1]>> \in Edges
<1>1. /\ path \in Seq(Nodes) /\ position \in Seq(Nat) /\ Len(position) = Len(path)
      /\ GraphTyped /\ position[i] <= Len(Depends(path[i]))
      /\ i + 1 \in DOMAIN path => position[i] > 0 /\ path[i + 1] = Depends(path[i])[position[i]]
    BY DEF SearchInv, SearchTyped, PathInv
<1>2. path[i] \in Nodes /\ position[i] \in Nat
    BY <1>1
<1>3. \A k \in 1 .. Len(Depends(path[i])) : <<path[i], Depends(path[i])[k]>> \in Edges
    <2>1. DependsOn(path[i]) = {Depends(path[i])[k] : k \in 1 .. Len(Depends(path[i]))}
        BY <1>1, NodesDepend
    <2>2. \A n : <<path[i], n>> \in Edges <=> n \in DependsOn(path[i])
        BY <1>1, <1>2, EdgesAre
    <2> QED
        BY <2>1, <2>2
<1>4. Len(Depends(path[i])) \in Nat
    BY <1>1, NodesDepend
<1>5. ASSUME i + 1 \in DOMAIN path
      PROVE  <<path[i], path[i + 1]>> \in Edges
    <2>1. position[i] \in 1 .. Len(Depends(path[i]))
        BY <1>1, <1>2, <1>4, <1>5
    <2> QED
        BY <1>1, <1>3, <1>5, <2>1
<1> QED
    BY <1>2, <1>3, <1>5

\* The way back along the path to a node that its last node depends on is a cycle.
LEMMA ClosesCycle ==
    ASSUME SearchInv, NEW L \in Nat, L = Len(path), NEW start \in 1 .. L,
           <<path[L], path[start]>> \in Edges,
           NEW c, c = Append(SubSeq(path, start, L), path[start])
    PROVE  IsCycle(c) /\ c[1] = path[start]
<1>1. path \in Seq(Nodes) /\ DOMAIN path = 1 .. L
    BY DEF SearchInv, SearchTyped
<1>2. PICK w : w = SubSeq(path, start, L)
    OBVIOUS
<1>3. PICK m \in Nat : m = L - start + 1
    <2>1. L - start + 1 \in Nat
        OBVIOUS
    <2> QED
        BY <2>1
<1>4. w \in Seq(Nodes) /\ Len(w) = m /\ \A i \in 1 .. m : w[i] = path[start + i - 1]
    <2>1. \A i \in start .. L : path[i] \in Nodes
        BY <1>1
    <2>2. start \in Int /\ L \in Int /\ start <= L
        OBVIOUS
    <2>3. /\ w \in Seq(Nodes)
          /\ Len(w) = (IF start <= L THEN L - start + 1 ELSE 0)
          /\ \A i \in 1 .. (L - start + 1) : w[i] = path[start + i - 1]
        BY <1>2, <2>1, <2>2, SubSeqProperties
    <2> QED
        BY <1>3, <2>2, <2>3
<1>5. c \in Seq(Nodes) /\ Len(c) = m + 1 /\ (\A i \in 1 .. m : c[i] = w[i]) /\ c[m + 1] = path[start]
    <2>1. path[start] \in Nodes /\ c = Append(w, path[start])
        BY <1>1, <1>2
    <2> QED
        BY <1>4, <2>1
<1>6. m >= 1 /\ c[1] = path[start]
    <2>1. 1 \in 1 .. m /\ start + 1 - 1 = start
        BY <1>3
    <2> QED
        BY <1>4, <1>5, <2>1
<1>7. ASSUME NEW i \in 1 .. m
      PROVE  <<c[i], c[i + 1]>> \in Edges
    <2>1. c[i] = path[start + i - 1] /\ start + i - 1 \in 1 .. L
        BY <1>3, <1>4, <1>5
    <2>2. CASE i = m
        BY <1>3, <1>5, <2>1, <2>2
    <2>3. CASE i # m
        <3>1. i + 1 \in 1 .. m
            BY <2>3
        <3>2. c[i + 1] = path[start + (i + 1) - 1]
            BY <1>4, <1>5, <3>1
        <3>3. start + (i + 1) - 1 = (start + i - 1) + 1 /\ (start + i - 1) + 1 \in 1 .. L
            BY <1>3, <3>1
        <3> QED
            BY <1>1, <2>1, <3>2, <3>3, PathEdge
    <2> QED
        BY <2>2, <2>3
<1>8. Len(c) - 1 = m /\ Len(c) > 1 /\ c[Len(c)] = c[1]
    BY <1>5, <1>6
<1>9. \A i \in 1 .. (Len(c) - 1) : <<c[i], c[i + 1]>> \in Edges
    BY <1>7, <1>8
<1> QED
    BY <1>5, <1>6, <1>8, <1>9 DEF IsCycle

\* A step that explores dependency d, the (at + 1)-th of the last of L nodes on the path.
Explores(L, at, d) ==
    /\ L \in Nat /\ L > 0 /\ L = Len(path)
    /\ at \in Nat /\ at = position[L] /\ at + 1 \in 1 .. Len(Depends(path[L]))
    /\ d \in Nodes /\ d = Depends(path[L])[at + 1] /\ <<path[L], d>> \in Edges
    /\ graph' = graph /\ roots' = roots

\* What SearchNext does.
LEMMA NextExplores ==
    ASSUME SearchInv, SearchNext
    PROVE  \E L, at, d : Explores(L, at, d) /\ Visit(d, [position EXCEPT ![L] = at + 1])
<1>1. PICK L \in Nat : L = Len(path)
    <2>1. path \in Seq(Nodes)
        BY DEF SearchInv, SearchTyped
    <2> QED
        BY <2>1
<1>2. PICK at : at = position[L]
    OBVIOUS
<1>3. PICK d : d = Depends(path[L])[at + 1]
    OBVIOUS
<1>4. /\ path # <<>> /\ at < Len(Depends(path[L]))
      /\ Visit(d, [position EXCEPT ![L] = at + 1])
      /\ graph' = graph /\ roots' = roots
    BY <1>1, <1>2, <1>3 DEF SearchNext
<1>5. path \in Seq(Nodes) /\ position \in Seq(Nat) /\ Len(position) = L /\ GraphTyped
    BY <1>1 DEF SearchInv, SearchTyped
<1>6. L > 0 /\ L \in DOMAIN path
    <2>1. L # 0
        BY <1>1, <1>4, <1>5, EmptySeq
    <2> QED
        BY <1>1, <1>5, <2>1
<1>7. at \in Nat /\ Depends(path[L]) \in Seq(Nodes)
    BY <1>2, <1>6, PathEdge, <1>5, NodesDepend
<1>8. at + 1 \in 1 .. Len(Depends(path[L]))
    BY <1>4, <1>7
<1>9. d \in Nodes
    BY <1>3, <1>7, <1>8
<1>10. <<path[L], d>> \in Edges
    BY <1>3, <1>6, <1>8, PathEdge
<1>11. Explores(L, at, d)
    BY <1>1, <1>2, <1>3, <1>4, <1>6, <1>7, <1>8, <1>9, <1>10 DEF Explores
<1> QED
    BY <1>4, <1>11

\* The positions after it.
PositionsAre(p, L, at) ==
    /\ p \in Seq(Nat) /\ Len(p) = L /\ p[L] = at + 1
    /\ \A i \in 1 .. L : i # L => p[i] = position[i]

\* Only the last one has changed.
LEMMA Positioned ==
    ASSUME SearchInv, NEW L, NEW at, NEW d, Explores(L, at, d),
           NEW p, p = [position EXCEPT ![L] = at + 1]
    PROVE  PositionsAre(p, L, at)
<1>1. position \in Seq(Nat) /\ Len(position) = L /\ at + 1 \in Nat /\ L \in Nat /\ L \in 1 .. L
    BY DEF SearchInv, SearchTyped, Explores
<1> QED
    BY <1>1 DEF PositionsAre

\* A dependency that was met before, or is met now on the path, leaves the path as it is.
LEMMA StayingKeeps ==
    ASSUME SearchInv, NEW L, NEW at, NEW d, Explores(L, at, d),
           position' = [position EXCEPT ![L] = at + 1], path' = path, visited' = visited,
           CyclesInv', Heads \subseteq Heads', Met(d)'
    PROVE  SearchInv'
<1>1. /\ L \in Nat /\ L = Len(path) /\ at \in Nat /\ at = position[L] /\ d = Depends(path[L])[at + 1]
      /\ graph' = graph /\ roots' = roots /\ at + 1 \in 1 .. Len(Depends(path[L])) /\ L \in 1 .. L
    BY DEF Explores
<1>2. /\ position' \in Seq(Nat) /\ Len(position') = L /\ position'[L] = at + 1
      /\ \A i \in 1 .. L : i # L => position'[i] = position[i]
    <2>1. PICK p : p = position'
        OBVIOUS
    <2>2. PositionsAre(p, L, at)
        BY <2>1, Positioned
    <2> QED
        BY <2>1, <2>2 DEF PositionsAre
<1>3. /\ GraphTyped /\ SearchTyped /\ PathInv /\ ExploredInv /\ FinishedInv
      /\ path \in Seq(Nodes) /\ DOMAIN path = 1 .. L
    BY <1>1 DEF SearchInv, SearchTyped
<1>4. GraphTyped'
    BY <1>1, <1>3, GraphKept
<1>5. SearchTyped'
    BY <1>1, <1>2, <1>3 DEF SearchTyped
<1>6. /\ FinishedInv'
      /\ \A n : Met(n) => Met(n)'
      /\ \A n : Depends(n)' = Depends(n)
    <2>1. Finished' = Finished
        BY DEF Finished
    <2> QED
        BY <1>1, <1>3, <2>1, MetKept
<1>7. PathInv'
    <2>1. ASSUME NEW i \in 1 .. L
          PROVE  position'[i] <= Len(Depends(path[i]))
        <3>1. CASE i = L
            <4>1. Depends(path[L]) \in Seq(Nodes)
                BY <1>3, NodesDepend
            <4> QED
                BY <1>1, <1>2, <3>1, <4>1
        <3>2. CASE i # L
            BY <1>2, <1>3, <3>2 DEF PathInv
        <3> QED
            BY <3>1, <3>2
    <2>2. \A i \in 1 .. L : i + 1 \in 1 .. L =>
             position'[i] > 0 /\ path[i + 1] = Depends(path[i])[position'[i]]
        <3>1. \A i \in 1 .. L : i + 1 \in 1 .. L => i # L
            BY <1>1
        <3> QED
            BY <1>1, <1>2, <1>3, <3>1 DEF PathInv
    <2> QED
        BY <1>3, <1>6, <2>1, <2>2 DEF PathInv
<1>8. ExploredInv'
    <2>1. SUFFICES ASSUME NEW i \in 1 .. L, NEW k \in 1 .. position'[i]
                   PROVE  Met(Depends(path[i])[k])' \/ (i + 1 \in 1 .. L /\ k = position'[i])
        BY <1>3, <1>6 DEF ExploredInv
    <2>2. CASE i # L
        <3>1. position'[i] = position[i]
            BY <1>2, <2>2
        <3>2. Met(Depends(path[i])[k]) \/ (i + 1 \in 1 .. L /\ k = position[i])
            BY <1>3, <3>1 DEF ExploredInv
        <3> QED
            BY <1>1, <1>6, <3>1, <3>2
    <2>3. CASE i = L /\ k # at + 1
        <3>1. k \in 1 .. position[L] /\ ~(L + 1 \in 1 .. L)
            BY <1>1, <1>2, <2>3
        <3>2. Met(Depends(path[L])[k])
            BY <1>3, <2>3, <3>1 DEF ExploredInv
        <3> QED
            BY <1>1, <1>6, <2>3, <3>2
    <2>4. CASE i = L /\ k = at + 1
        BY <1>1, <1>6, <2>4
    <2> QED
        BY <2>2, <2>3, <2>4
<1> QED
    BY <1>4, <1>5, <1>6, <1>7, <1>8 DEF SearchInv

\* A dependency that was not visited goes on the path.
LEMMA EnteringKeeps ==
    ASSUME SearchInv, NEW L, NEW at, NEW d, Explores(L, at, d), d \notin visited,
           position' = Append([position EXCEPT ![L] = at + 1], 0), path' = Append(path, d),
           visited' = visited \cup {d}, cycles' = cycles
    PROVE  SearchInv'
<1>1. /\ L \in Nat /\ L = Len(path) /\ at \in Nat /\ at = position[L] /\ d = Depends(path[L])[at + 1]
      /\ d \in Nodes
      /\ graph' = graph /\ roots' = roots /\ at + 1 \in 1 .. Len(Depends(path[L])) /\ L \in 1 .. L
    BY DEF Explores
<1>2. PICK p : p = [position EXCEPT ![L] = at + 1]
    OBVIOUS
<1>3. /\ p \in Seq(Nat) /\ Len(p) = L /\ p[L] = at + 1
      /\ \A i \in 1 .. L : i # L => p[i] = position[i]
    <2>1. PositionsAre(p, L, at)
        BY <1>2, Positioned
    <2> QED
        BY <2>1 DEF PositionsAre
<1>4. /\ position' \in Seq(Nat) /\ Len(position') = L + 1 /\ position'[L + 1] = 0
      /\ \A i \in 1 .. L : position'[i] = p[i]
    BY <1>1, <1>2, <1>3
<1>5. /\ GraphTyped /\ SearchTyped /\ PathInv /\ CyclesInv /\ ExploredInv /\ FinishedInv
      /\ path \in Seq(Nodes) /\ DOMAIN path = 1 .. L
    <2>1. GraphTyped /\ SearchTyped /\ PathInv /\ CyclesInv /\ ExploredInv /\ FinishedInv
        BY DEF SearchInv
    <2>2. path \in Seq(Nodes)
        BY <2>1 DEF SearchTyped
    <2> QED
        BY <1>1, <2>1, <2>2
<1>6. /\ path' \in Seq(Nodes) /\ Len(path') = L + 1 /\ DOMAIN path' = 1 .. (L + 1)
      /\ \A i \in 1 .. L : path'[i] = path[i]
      /\ path'[L + 1] = d
    BY <1>1, <1>5
<1>7. ToSet(path)' = ToSet(path) \cup {d}
    BY <1>1, <1>5, ToSetAppend
<1>8. GraphTyped' /\ CyclesInv' /\ Heads' = Heads
    BY <1>1, <1>5, GraphKept, CyclesKept
<1>9. SearchTyped'
    BY <1>1, <1>4, <1>5, <1>6 DEF SearchTyped
<1>10. /\ FinishedInv'
       /\ \A n : Met(n) => Met(n)'
       /\ \A n : Depends(n)' = Depends(n)
    <2>1. Finished' = Finished
        BY <1>7 DEF Finished
    <2> QED
        BY <1>1, <1>5, <1>7, <1>8, <2>1, MetKept
<1>11. \A i \in 1 .. (L + 1) : i \in 1 .. L \/ i = L + 1
    BY <1>1
<1>12. PathInv'
    <2>1. ToSet(path)' \subseteq visited'
        BY <1>5, <1>7 DEF PathInv
    <2>2. ASSUME NEW i \in 1 .. (L + 1), NEW j \in 1 .. (L + 1), path'[i] = path'[j]
          PROVE  i = j
        <3>1. \A h \in 1 .. L : path[h] \in visited
            BY <1>5 DEF PathInv, ToSet
        <3> QED
            BY <1>5, <1>6, <1>11, <2>2, <3>1 DEF PathInv
    <2>3. ASSUME NEW i \in 1 .. (L + 1)
          PROVE  position'[i] <= Len(Depends(path'[i]))
        <3>1. CASE i = L + 1
            <4>1. Depends(path'[i]) \in Seq(Nodes)
                BY <1>5, NodesDepend
            <4> QED
                BY <1>4, <3>1, <4>1
        <3>2. CASE i \in 1 .. L /\ i # L
            BY <1>3, <1>4, <1>5, <1>6, <3>2 DEF PathInv
        <3>3. CASE i = L
            <4>1. Depends(path[L]) \in Seq(Nodes)
                BY <1>5, NodesDepend
            <4> QED
                BY <1>1, <1>3, <1>4, <1>6, <3>3, <4>1
        <3> QED
            BY <1>11, <3>1, <3>2, <3>3
    <2>4. ASSUME NEW i \in 1 .. (L + 1), i + 1 \in 1 .. (L + 1)
          PROVE  position'[i] > 0 /\ path'[i + 1] = Depends(path'[i])[position'[i]]
        <3>1. i \in 1 .. L
            BY <1>1, <2>4
        <3>2. CASE i = L
            BY <1>1, <1>3, <1>4, <1>6, <3>2
        <3>3. CASE i # L
            <4>1. i + 1 \in 1 .. L
                BY <1>1, <3>1, <3>3
            <4>2. position[i] > 0 /\ path[i + 1] = Depends(path[i])[position[i]]
                BY <1>5, <3>1, <4>1 DEF PathInv
            <4>3. position'[i] = position[i] /\ path'[i] = path[i] /\ path'[i + 1] = path[i + 1]
                BY <1>3, <1>4, <1>6, <3>1, <3>3, <4>1
            <4> QED
                BY <4>2, <4>3
        <3> QED
            BY <3>2, <3>3
    <2> QED
        BY <1>6, <1>10, <2>1, <2>2, <2>3, <2>4 DEF PathInv
<1>13. ExploredInv'
    <2>1. SUFFICES ASSUME NEW i \in 1 .. (L + 1), NEW k \in 1 .. position'[i],
                          NEW n, n = Depends(path'[i])[k]
                   PROVE  Met(n)' \/ (i + 1 \in 1 .. (L + 1) /\ k = position'[i])
        BY <1>6, <1>10 DEF ExploredInv
    <2>2. CASE i = L + 1
        BY <1>4, <2>2
    <2>3. CASE i \in 1 .. L /\ i # L
        <3>1. position'[i] = position[i] /\ path'[i] = path[i]
            BY <1>3, <1>4, <1>6, <2>3
        <3>2. Met(n) \/ (i + 1 \in 1 .. L /\ k = position[i])
            BY <1>5, <2>1, <2>3, <3>1 DEF ExploredInv
        <3>3. i + 1 \in 1 .. L => i + 1 \in 1 .. (L + 1)
            BY <1>1
        <3> QED
            BY <1>10, <3>1, <3>2, <3>3
    <2>4. CASE i = L /\ k # at + 1
        <3>1. k \in 1 .. position[L] /\ ~(L + 1 \in 1 .. L)
            BY <1>1, <1>3, <1>4, <2>4
        <3>2. n = Depends(path[L])[k]
            BY <1>1, <1>6, <2>1, <2>4
        <3>3. Met(n)
            BY <1>1, <1>5, <2>4, <3>1, <3>2 DEF ExploredInv
        <3> QED
            BY <1>10, <3>3
    <2>5. CASE i = L /\ k = at + 1
        BY <1>1, <1>3, <1>4, <2>5
    <2> QED
        BY <1>11, <2>2, <2>3, <2>4, <2>5
<1> QED
    BY <1>8, <1>9, <1>10, <1>12, <1>13 DEF SearchInv

\* A cycle that is found joins the others.
LEMMA CycleFound ==
    ASSUME CyclesInv, graph' = graph, NEW c, IsCycle(c), cycles' = Append(cycles, c)
    PROVE  CyclesInv' /\ Heads' = Heads \cup {c[1]}
<1>1. c \in Seq(Nodes) /\ cycles \in Seq(Seq(Nodes))
    BY DEF CyclesInv, IsCycle
<1>2. ToSet(cycles)' = ToSet(cycles) \cup {c}
    BY <1>1, ToSetAppend
<1>3. cycles' \in Seq(Seq(Nodes))
    <2>1. PICK E : E = Seq(Nodes)
        OBVIOUS
    <2> QED
        BY <1>1, <2>1
<1>4. Edges' = Edges
    BY DEF Edges, DependsOn, Depends
<1>5. \A x \in ToSet(cycles)' : IsCycle(x)'
    BY <1>2, <1>4 DEF CyclesInv, IsCycle
<1> QED
    BY <1>2, <1>3, <1>5 DEF CyclesInv, Heads

\* Exploring one dependency more keeps the invariant.
LEMMA SearchNextKeeps ==
    ASSUME SearchInv, SearchNext
    PROVE  SearchInv'
<1>1. PICK L, at, d : Explores(L, at, d) /\ Visit(d, [position EXCEPT ![L] = at + 1])
    BY NextExplores
<1>2. /\ L \in Nat /\ L = Len(path) /\ <<path[L], d>> \in Edges /\ graph' = graph
    BY <1>1 DEF Explores
<1>3. PathInv /\ CyclesInv /\ path \in Seq(Nodes) /\ DOMAIN path = 1 .. L
    <2>1. PathInv /\ CyclesInv /\ path \in Seq(Nodes)
        BY DEF SearchInv, SearchTyped
    <2> QED
        BY <1>2, <2>1
<1>4. CASE d \in ToSet(path)
    <2>1. PICK start : start = CHOOSE i \in DOMAIN path : path[i] = d
        OBVIOUS
    <2>2. start \in 1 .. L /\ path[start] = d
        BY <1>3, <1>4, <2>1 DEF ToSet
    <2>3. PICK c : c = Append(SubSeq(path, start, L), d)
        OBVIOUS
    <2>4. /\ cycles' = Append(cycles, c) /\ path' = path /\ visited' = visited
          /\ position' = [position EXCEPT ![L] = at + 1]
        BY <1>1, <1>2, <1>4, <2>1, <2>3 DEF Visit
    <2>5. IsCycle(c) /\ c[1] = d
        BY <1>2, <2>2, <2>3, ClosesCycle
    <2>6. CyclesInv' /\ Heads' = Heads \cup {d}
        BY <1>2, <1>3, <2>4, <2>5, CycleFound
    <2>7. Met(d)'
        BY <1>4, <2>4, <2>6 DEF Met
    <2> QED
        BY <1>1, <2>4, <2>6, <2>7, StayingKeeps
<1>5. CASE d \notin ToSet(path) /\ d \in visited
    <2>1. /\ cycles' = cycles /\ path' = path /\ visited' = visited
          /\ position' = [position EXCEPT ![L] = at + 1]
        BY <1>1, <1>5 DEF Visit
    <2>2. CyclesInv' /\ Heads' = Heads
        BY <1>2, <1>3, <2>1, CyclesKept
    <2>3. Met(d)'
        BY <1>5, <2>1 DEF Met, Finished
    <2> QED
        BY <1>1, <2>1, <2>2, <2>3, StayingKeeps
<1>6. CASE d \notin visited
    <2>1. d \notin ToSet(path)
        BY <1>3, <1>6 DEF PathInv
    <2>2. /\ cycles' = cycles /\ path' = Append(path, d) /\ visited' = visited \cup {d}
          /\ position' = Append([position EXCEPT ![L] = at + 1], 0)
        BY <1>1, <1>6, <2>1 DEF Visit
    <2> QED
        BY <1>1, <1>6, <2>2, EnteringKeeps
<1> QED
    BY <1>4, <1>5, <1>6

\* So does taking the next root: with no path yet, it is a node met before or the first of one.
LEMMA SearchRootKeeps ==
    ASSUME SearchInv, SearchRoot
    PROVE  SearchInv'
<1>1. PICK r : r = Head(roots)
    OBVIOUS
<1>2. /\ path = <<>> /\ roots # <<>> /\ Visit(r, <<>>)
      /\ roots' = Tail(roots) /\ graph' = graph
    BY <1>1 DEF SearchRoot
<1>3. GraphTyped /\ SearchTyped /\ PathInv /\ CyclesInv /\ ExploredInv /\ FinishedInv
    BY DEF SearchInv
<1>4. /\ roots' \in Seq(Nodes) /\ r \in Nodes
      /\ ToSet(roots) = ToSet(roots)' \cup {r}
    <2>1. roots \in Seq(Nodes)
        BY <1>3 DEF SearchTyped
    <2> QED
        BY <1>1, <1>2, <2>1, ToSetTail
<1>5. ToSet(<<>>) = {}
    BY DEF ToSet
<1>6. position = <<>>
    <2>1. position \in Seq(Nat) /\ Len(position) = 0
        BY <1>2, <1>3 DEF SearchTyped
    <2> QED
        BY <2>1, EmptySeq
<1>7. GraphTyped'
    BY <1>2, <1>3, GraphKept
<1>8. CASE r \in visited
    <2>1. path' = path /\ visited' = visited /\ cycles' = cycles /\ position' = position
        BY <1>2, <1>5, <1>6, <1>8 DEF Visit
    <2>2. CyclesInv' /\ Heads' = Heads
        BY <1>2, <1>3, <2>1, CyclesKept
    <2>3. SearchTyped'
        BY <1>2, <1>3, <1>4, <1>8, <2>1 DEF SearchTyped
    <2>4. FinishedInv'
        <3>1. Finished' = Finished
            BY <2>1 DEF Finished
        <3> QED
            BY <1>2, <1>3, <2>1, <2>2, <3>1, MetKept
    <2>5. PathInv' /\ ExploredInv'
        BY <1>2, <1>5, <2>1 DEF PathInv, ExploredInv
    <2> QED
        BY <1>7, <2>2, <2>3, <2>4, <2>5 DEF SearchInv
<1>9. CASE r \notin visited
    <2>1. /\ cycles' = cycles /\ path' = Append(<<>>, r) /\ visited' = visited \cup {r}
          /\ position' = Append(<<>>, 0)
        BY <1>2, <1>5, <1>9 DEF Visit
    <2>2. CyclesInv' /\ Heads' = Heads
        BY <1>2, <1>3, <2>1, CyclesKept
    <2>3. /\ path' \in Seq(Nodes) /\ DOMAIN path' = 1 .. 1 /\ Len(path') = 1 /\ path'[1] = r
          /\ position' \in Seq(Nat) /\ Len(position') = 1 /\ position'[1] = 0
        BY <1>4, <2>1
    <2>4. ToSet(path)' = {r}
        <3>1. path \in Seq(Nodes) /\ path' = Append(path, r) /\ ToSet(path) = {}
            BY <1>2, <1>3, <1>5, <2>1 DEF SearchTyped
        <3>2. ToSet(Append(path, r)) = ToSet(path) \cup {r}
            BY <1>4, <3>1, ToSetAppend
        <3> QED
            BY <3>1, <3>2
    <2>5. SearchTyped'
        BY <1>2, <1>3, <1>4, <2>1, <2>3 DEF SearchTyped
    <2>6. FinishedInv'
        <3>1. Finished' = Finished /\ ToSet(path) \subseteq ToSet(path)'
            BY <1>2, <1>5, <1>9, <2>1, <2>4 DEF Finished
        <3> QED
            BY <1>2, <1>3, <2>2, <3>1, MetKept
    <2>7. PathInv'
        <3>1. \A n : Depends(n)' \in Seq(Nodes)
            BY <1>7, NodesDepend, <1>2, <1>3 DEF Depends
        <3>2. \A i \in 1 .. 1 : i = 1 /\ i + 1 \notin 1 .. 1
            OBVIOUS
        <3> QED
            BY <2>1, <2>3, <2>4, <3>1, <3>2 DEF PathInv
    <2>8. ExploredInv'
        <3>1. \A i \in 1 .. 1 : 1 .. position'[i] = {}
            BY <2>3
        <3> QED
            BY <2>3, <3>1 DEF ExploredInv
    <2> QED
        BY <1>7, <2>2, <2>5, <2>6, <2>7, <2>8 DEF SearchInv
<1> QED
    BY <1>8, <1>9

\* A node whose dependencies are all explored is left.
LEMMA SearchReturnKeeps ==
    ASSUME SearchInv, SearchReturn
    PROVE  SearchInv'
<1>1. GraphTyped /\ SearchTyped /\ PathInv /\ CyclesInv /\ ExploredInv /\ FinishedInv
    BY DEF SearchInv
<1>2. path \in Seq(Nodes) /\ position \in Seq(Nat) /\ Len(position) = Len(path) /\ path # <<>>
    BY <1>1 DEF SearchTyped, SearchReturn
<1>3. PICK L \in Nat : Len(path) = L + 1
    <2>1. Len(path) \in Nat /\ Len(path) # 0
        BY <1>2, EmptySeq
    <2>2. Len(path) - 1 \in Nat /\ Len(path) = (Len(path) - 1) + 1
        BY <2>1
    <2> QED
        BY <2>2
<1>4. PICK t : t = path[L + 1]
    OBVIOUS
<1>5. /\ position[L + 1] = Len(Depends(t))
      /\ path' = SubSeq(path, 1, L) /\ position' = SubSeq(position, 1, L)
      /\ graph' = graph /\ roots' = roots /\ visited' = visited /\ cycles' = cycles
    <2>1. (L + 1) - 1 = L
        OBVIOUS
    <2> QED
        BY <1>3, <1>4, <2>1 DEF SearchReturn
<1>6. /\ path' \in Seq(Nodes) /\ Len(path') = L /\ DOMAIN path' = 1 .. L
      /\ \A i \in 1 .. L : path'[i] = path[i]
      /\ ToSet(path) = ToSet(path)' \cup {t}
    <2>1. PICK p : p = SubSeq(path, 1, L)
        OBVIOUS
    <2>2. /\ p \in Seq(Nodes) /\ Len(p) = L /\ DOMAIN p = 1 .. L
          /\ \A i \in 1 .. L : p[i] = path[i]
          /\ ToSet(path) = ToSet(p) \cup {t}
        BY <1>2, <1>3, <1>4, <2>1, FrontOf
    <2> QED
        BY <1>5, <2>1, <2>2
<1>7. /\ position' \in Seq(Nat) /\ Len(position') = L
      /\ \A i \in 1 .. L : position'[i] = position[i]
    BY <1>2, <1>3, <1>5, FrontOf
<1>8. DOMAIN path = 1 .. (L + 1) /\ L + 1 \in 1 .. (L + 1) /\ L + 2 \notin 1 .. (L + 1)
      /\ \A i \in 1 .. L : i \in 1 .. (L + 1) /\ i # L + 1
    BY <1>2, <1>3
<1>9. GraphTyped' /\ CyclesInv' /\ Heads' = Heads
    BY <1>1, <1>5, GraphKept, CyclesKept
<1>10. \A n : Depends(n)' = Depends(n) /\ DependsOn(n)' = DependsOn(n)
    BY <1>5 DEF Depends, DependsOn
<1>11. SearchTyped'
    BY <1>1, <1>5, <1>6, <1>7 DEF SearchTyped
<1>12. t \in ToSet(path) /\ t \notin ToSet(path)' /\ t \in visited
    <2>1. t \in ToSet(path) /\ t \in visited
        BY <1>1, <1>6 DEF PathInv
    <2>2. ASSUME t \in ToSet(path)'
          PROVE  FALSE
        <3>1. PICK i \in 1 .. L : path'[i] = t
            BY <1>6, <2>2 DEF ToSet
        <3> QED
            BY <1>1, <1>4, <1>6, <1>8, <3>1 DEF PathInv
    <2> QED
        BY <2>1, <2>2
<1>13. Finished' = Finished \cup {t}
    BY <1>5, <1>6, <1>12 DEF Finished
<1>14. \A n : Met(n) => Met(n)'
    BY <1>6, <1>9, <1>13 DEF Met
<1>15. \A d \in DependsOn(t) : Met(d)
    <2>1. \A k \in 1 .. Len(Depends(t)) : Met(Depends(t)[k])
        <3>1. (L + 1) + 1 = L + 2
            OBVIOUS
        <3> QED
            BY <1>1, <1>4, <1>5, <1>8, <3>1 DEF ExploredInv
    <2> QED
        BY <1>1, <2>1, NodesDepend
<1>16. PathInv'
    <2>1. ToSet(path)' \subseteq visited'
        BY <1>1, <1>5, <1>6 DEF PathInv
    <2>2. \A i, j \in 1 .. L : path'[i] = path'[j] => i = j
        BY <1>1, <1>6, <1>8 DEF PathInv
    <2>3. \A i \in 1 .. L : position'[i] <= Len(Depends(path'[i]))
        BY <1>1, <1>6, <1>7, <1>8 DEF PathInv
    <2>4. \A i \in 1 .. L : i + 1 \in 1 .. L =>
             position'[i] > 0 /\ path'[i + 1] = Depends(path'[i])[position'[i]]
        BY <1>1, <1>6, <1>7, <1>8 DEF PathInv
    <2> QED
        BY <1>6, <1>10, <2>1, <2>2, <2>3, <2>4 DEF PathInv
<1>17. ExploredInv'
    <2>1. SUFFICES ASSUME NEW i \in 1 .. L, NEW k \in 1 .. position'[i],
                          NEW n, n = Depends(path'[i])[k]
                   PROVE  Met(n)' \/ (i + 1 \in 1 .. L /\ k = position'[i])
        BY <1>6, <1>10 DEF ExploredInv
    <2>2. position'[i] = position[i] /\ n = Depends(path[i])[k]
        BY <1>6, <1>7, <2>1
    <2>3. Met(n) \/ (i + 1 \in 1 .. (L + 1) /\ k = position[i])
        BY <1>1, <1>8, <2>2 DEF ExploredInv
    <2>4. CASE i = L /\ k = position[i]
        <3>1. n = t
            BY <1>1, <1>4, <1>8, <2>2, <2>4 DEF PathInv
        <3> QED
            BY <1>13, <3>1 DEF Met
    <2>5. CASE i # L
        <3>1. i + 1 \in 1 .. L
            BY <2>5
        <3> QED
            BY <1>14, <2>2, <2>3, <3>1
    <2> QED
        BY <1>14, <2>2, <2>3, <2>4, <2>5
<1>18. FinishedInv'
    <2>1. \A n \in Finished' : \A d \in DependsOn(n)' : Met(d)'
        BY <1>1, <1>10, <1>13, <1>14, <1>15 DEF FinishedInv
    <2>2. ASSUME NEW T \in SUBSET Finished', T # {}, T \cap Heads = {}
          PROVE  \E n \in T : DependsOn(n) \cap T = {}
        <3>1. ASSUME NEW n \in T, t \in T
              PROVE  t \notin DependsOn(n)
            <4>1. t \notin Heads /\ t \notin Finished
                BY <1>12, <2>2, <3>1 DEF Finished
            <4>2. ~Met(t)
                BY <4>1 DEF Met
            <4> QED
                BY <1>1, <1>13, <1>15, <3>1, <4>2 DEF FinishedInv
        <3>2. CASE T \ {t} = {}
            BY <2>2, <3>1, <3>2
        <3>3. CASE T \ {t} # {}
            <4>1. PICK S \in SUBSET Finished : S = T \ {t}
                BY <1>13
            <4>2. PICK n \in S : DependsOn(n) \cap S = {}
                BY <1>1, <2>2, <3>3, <4>1 DEF FinishedInv
            <4> QED
                BY <3>1, <4>1, <4>2
        <3> QED
            BY <3>2, <3>3
    <2> QED
        BY <1>9, <1>10, <2>1, <2>2 DEF FinishedInv
<1> QED
    BY <1>9, <1>11, <1>16, <1>17, <1>18 DEF SearchInv

\* Every step keeps the invariant.
LEMMA NextSearch ==
    ASSUME SearchInv, [GraphNext]_graphVars
    PROVE  SearchInv'
<1>1. ArrangeLevel \/ ArrangeEnd \/ UNCHANGED graphVars => UNCHANGED <<graph, searchVars>>
    BY DEF ArrangeLevel, ArrangeEnd, graphVars, searchVars
<1>2. CASE UNCHANGED <<graph, searchVars>>
    <2>1. /\ graph' = graph /\ roots' = roots /\ path' = path /\ position' = position
          /\ visited' = visited /\ cycles' = cycles
        BY <1>2 DEF searchVars
    <2>2. GraphTyped /\ SearchTyped /\ PathInv /\ CyclesInv /\ ExploredInv /\ FinishedInv
        BY DEF SearchInv
    <2>3. CyclesInv' /\ Heads' = Heads /\ GraphTyped'
        BY <2>1, <2>2, CyclesKept, GraphKept
    <2>4. FinishedInv' /\ (\A n : Met(n) => Met(n)') /\ (\A n : Depends(n)' = Depends(n))
        <3>1. Finished' = Finished
            BY <2>1 DEF Finished
        <3> QED
            BY <2>1, <2>2, <2>3, <3>1, MetKept
    <2>5. SearchTyped'
        BY <2>1, <2>2 DEF SearchTyped
    <2>6. PathInv'
        BY <2>1, <2>2, <2>4 DEF PathInv
    <2>7. ExploredInv'
        BY <2>1, <2>2, <2>4 DEF ExploredInv
    <2> QED
        BY <2>3, <2>4, <2>5, <2>6, <2>7 DEF SearchInv
<1> QED
    BY <1>1, <1>2, SearchRootKeeps, SearchNextKeeps, SearchReturnKeeps DEF GraphNext

\* When the search is over, a cycle that was named passes by every node on a cycle:
\* otherwise n and the nodes connected with it both ways were all left without
\* closing a cycle, and one of them would depend on none of the others.
LEMMA CyclesNamed ==
    ASSUME SearchInv, SearchDone, NEW n \in Nodes, OnCycle(n)
    PROVE  \E c \in ToSet(cycles) : n = c[1] \/ (Leads(Edges, n, c[1]) /\ Leads(Edges, c[1], n))
<1>1. GraphTyped /\ SearchTyped /\ FinishedInv /\ path = <<>> /\ roots = <<>>
    BY DEF SearchInv, SearchDone
<1>2. ToSet(<<>>) = {}
    BY DEF ToSet
<1>3. DOMAIN graph \subseteq Finished
    BY <1>1, <1>2 DEF SearchTyped, Finished
<1> DEFINE Connected == {m \in Nodes : m = n \/ (Leads(Edges, n, m) /\ Leads(Edges, m, n))}
<1>4. ASSUME NEW m \in Connected
      PROVE  DependsOn(m) \cap Connected # {}
    <2>1. Leads(Edges, m, n) /\ m \in Nodes
        BY <1>4 DEF OnCycle
    <2>2. PICK x \in Nodes : <<m, x>> \in Edges /\ (x = n \/ Leads(Edges, x, n))
        BY <1>1, <2>1, EdgesAre, LeadsFirst
    <2>3. Leads(Edges, n, x)
        <3>1. CASE m = n
            BY <2>2, <3>1, LeadsEdge
        <3>2. CASE m # n
            <4>1. Leads(Edges, n, m)
                BY <1>4, <3>2
            <4> QED
                BY <2>2, <4>1, LeadsStep
        <3> QED
            BY <3>1, <3>2
    <2>4. x \in DependsOn(m)
        BY <1>1, <2>1, <2>2, EdgesAre
    <2>5. x \in Connected
        BY <2>2, <2>3
    <2> QED
        BY <2>4, <2>5
<1>5. Connected \in SUBSET Finished
    <2>1. ASSUME NEW m \in Connected
          PROVE  m \in Finished
        <3>1. DependsOn(m) # {}
            BY <1>4
        <3> QED
            BY <1>1, <1>3, <3>1, NodesDepend
    <2> QED
        BY <2>1
<1>6. n \in Connected
    OBVIOUS
<1>7. Connected \cap Heads # {}
    <2> HIDE DEF Connected
    <2> QED
        BY <1>1, <1>4, <1>5, <1>6 DEF FinishedInv
<1>8. PICK c \in ToSet(cycles) : c[1] \in Connected
    <2> HIDE DEF Connected
    <2> QED
        BY <1>7 DEF Heads
<1> QED
    BY <1>8

\* The search and the redundancies tell the truth about every graph: the cycles named are
\* cycles, no node is on a cycle of which nothing is named, and without cycles a
\* dependency is called redundant exactly when the others imply it.
THEOREM DependenciesReported ==
    ASSUME NEW graphs, NEW stageSets, OverNodes(graphs)
    PROVE  GraphSpec(graphs, stageSets) => []DependencyReport
<1>1. GraphInit(graphs, stageSets) => SearchInv
    BY InitSearch
<1>2. SearchInv /\ [GraphNext]_graphVars => SearchInv'
    BY NextSearch
<1>3. SearchInv => DependencyReport
    <2>1. SUFFICES ASSUME SearchInv, SearchDone
                   PROVE  DependencyReport
        BY DEF DependencyReport
    <2>2. GraphTyped
        BY <2>1 DEF SearchInv
    <2>3. ASSUME NEW c \in ToSet(cycles)
          PROVE  IsCycle(c)
        BY <2>1 DEF SearchInv, CyclesInv
    <2>4. \A n \in Nodes : OnCycle(n) =>
             \E c \in ToSet(cycles) : n = c[1] \/ (Leads(Edges, n, c[1]) /\ Leads(Edges, c[1], n))
        BY <2>1, CyclesNamed
    <2>5. (\A n \in Nodes : ~OnCycle(n)) =>
             \A e \in Edges : Leads(Edges \ {e}, e[1], e[2]) <=>
                 \E r \in Redundancies : r.node = e[1] /\ r.dep = e[2]
        BY <2>2, RedundantRightly
    <2>6. \A c \in ToSet(cycles) :
             /\ Len(c) > 1 /\ c[1] = c[Len(c)]
             /\ \A i \in 1 .. (Len(c) - 1) : <<c[i], c[i + 1]>> \in Edges
        BY <2>3 DEF IsCycle
    <2> QED
        BY <2>4, <2>5, <2>6 DEF DependencyReport
<1> QED
    BY <1>1, <1>2, <1>3, PTL DEF GraphSpec

-----------------------------------------------------------------------------
(* ModuleScaffold: what comes last vouches for what came before. *)

\* Every skill has a row, with a menu code no other row has.
Reachable(s) ==
    \E r \in generated.rows : r.skill = s /\ r.menu # "" /\ \A o \in generated.rows \ {r} : o.menu # r.menu

\* A module.yaml or a list of rows that says something.
HasText(d, f) == Has(d, f) /\ tree[d][f] \in {"given", "own"}

\* A setup skill that passes has the three files.
LEMMA PassingHasFiles ==
    ASSUME NEW d \in Setups, Passes(d)
    PROVE  Has(d, "SKILL.md") /\ Has(d, "module.yaml") /\ Has(d, "module-help.csv")
<1>1. Required(d) = {"SKILL.md", "module.yaml", "module-help.csv"}
    BY DEF Required
<1>2. ASSUME NEW f \in Required(d), ~Has(d, f)
      PROVE  FALSE
    <2>1. <<"critical", "structure", f>> \in Findings(d)
        BY <1>2 DEF Findings
    <2> QED
        BY <2>1 DEF Passes
<1> QED
    BY <1>1, <1>2

\* With the three files there, the findings are those on their contents.
LEMMA FilesThere ==
    ASSUME NEW d \in Setups,
           Has(d, "SKILL.md") /\ Has(d, "module.yaml") /\ Has(d, "module-help.csv")
    PROVE  Findings(d) = ContentFindings(d)
<1>1. Required(d) = {"SKILL.md", "module.yaml", "module-help.csv"}
    BY DEF Required
<1> QED
    BY <1>1 DEF Findings

\* What passes says something, and names each skill by a code of its own.
LEMMA PassingHasText ==
    ASSUME NEW d \in Setups, Passes(d)
    PROVE  /\ HasText(d, "module.yaml") /\ HasText(d, "module-help.csv")
           /\ \A s \in Folders \ {d} : Reachable(s)
<1>1. /\ Has(d, "SKILL.md") /\ Has(d, "module.yaml") /\ Has(d, "module-help.csv")
      /\ Findings(d) = ContentFindings(d)
    BY PassingHasFiles, FilesThere
<1>2. \A f \in ContentFindings(d) : f[1] # "high"
    BY <1>1 DEF Passes
<1>3. Fields(d) # {}
    <2>1. CASE Fields(d) = {}
        <3>1. <<"high", "yaml", "code">> \in ContentFindings(d)
            BY <2>1 DEF ContentFindings
        <3> QED
            BY <1>2, <3>1
    <2> QED
        BY <2>1
<1>4. Rows(d) # {}
    <2>1. CASE Rows(d) = {}
        <3>1. <<"high", "csv-empty", d>> \in ContentFindings(d)
            BY <2>1 DEF ContentFindings
        <3> QED
            BY <1>2, <3>1
    <2> QED
        BY <2>1
<1>5. Rows(d) = generated.rows
    BY <1>4 DEF Rows
<1>6. ASSUME NEW s \in Folders \ {d}
      PROVE  Reachable(s)
    <2>1. PICK r \in Rows(d) : r.skill = s
        <3>1. CASE s \notin {r.skill : r \in Rows(d)}
            <4>1. <<"high", "missing-entry", s>> \in ContentFindings(d)
                BY <1>4, <3>1 DEF ContentFindings
            <4> QED
                BY <1>2, <4>1
        <3> QED
            BY <3>1
    <2>2. r.menu # ""
        <3>1. CASE r.menu = ""
            <4>1. <<"high", "missing-field", r>> \in ContentFindings(d)
                BY <1>4, <3>1 DEF ContentFindings
            <4> QED
                BY <1>2, <4>1
        <3> QED
            BY <3>1
    <2>3. ASSUME NEW o \in Rows(d) \ {r}, o.menu = r.menu
          PROVE  FALSE
        <3>1. <<"high", "duplicate-menu-code", r>> \in ContentFindings(d)
            BY <1>4, <2>2, <2>3 DEF ContentFindings
        <3> QED
            BY <1>2, <3>1
    <2> QED
        BY <1>5, <2>1, <2>2, <2>3 DEF Reachable
<1> QED
    BY <1>1, <1>3, <1>4, <1>6 DEF HasText, Fields, Rows

\* With the generated files in place, and those sound, nothing is found.
LEMMA SoundPasses ==
    ASSUME Whole(SetupSkill), Sound, Setups = {SetupSkill}
    PROVE  Passes(SetupSkill)
<1> DEFINE d == SetupSkill
           rows == Rows(d)
<1>1. Findings(d) = ContentFindings(d)
    BY FilesThere DEF Whole
<1>2. /\ Fields(d) = {"code", "name", "description"} /\ rows = generated.rows /\ rows # {}
      /\ tree[d]["module-help.csv"] # "empty"
    BY DEF Whole, Sound, Fields, Rows
<1>3. {r.skill : r \in rows} \ {d} = Folders \ {d}
    BY <1>2 DEF Sound
<1>4. \A r, q \in rows : r.blank = {} /\ r.skill # "" /\ r.menu # "" /\ (r.menu = q.menu => r = q)
    <2>1. PICK R : R = rows
        OBVIOUS
    <2>2. \A r, q \in R : r.blank = {} /\ r.skill # "" /\ r.menu # "" /\ (r.menu = q.menu => r = q)
        <3> HIDE DEF rows
        <3> QED
            BY <1>2, <2>1 DEF Sound
    <2> QED
        BY <2>1, <2>2
<1> HIDE DEF d, rows
<1>5. ASSUME NEW f \in ContentFindings(d)
      PROVE  f[1] = "medium"
    <2>1. f \notin {<<"high", "yaml", g>> : g \in {"code", "name", "description"} \ Fields(d)}
        BY <1>2
    <2>2. f \notin {<<"high", "csv-header", g>> : g \in {h \in {"module-help.csv"} : tree[d][h] = "empty"}}
        BY <1>2
    <2>3. f \notin {<<"high", "missing-entry", s>> : s \in (Folders \ {d}) \ {r.skill : r \in rows}}
        BY <1>3
    <2>4. f \notin {<<"high", "orphan-entry", s>> : s \in {r.skill : r \in rows} \ (Folders \cup {d})}
        BY <1>3
    <2>5. f \notin {<<"high", "duplicate-menu-code", r>> :
                      r \in {q \in rows : q.menu # "" /\ \E o \in rows \ {q} : o.menu = q.menu}}
        BY <1>4
    <2>6. f \notin {<<"high", "missing-field", r>> :
                      r \in {q \in rows : q.skill = "" \/ q.menu = "" \/ q.blank # {}}}
        BY <1>4
    <2>7. \/ f \in {<<"medium", "csv-columns", r>> : r \in {q \in rows : ~q.columns}}
          \/ f \in {<<"medium", "invalid-ref", r>> :
                       r \in {q \in rows : \E ref \in q.refs : ref \notin {o.capability : o \in rows}}}
        <3>1. Setups # {}
            OBVIOUS
        <3> QED
            BY <1>2, <2>1, <2>2, <2>3, <2>4, <2>5, <2>6, <3>1 DEF ContentFindings, rows
    <2> QED
        BY <2>7
<1> QED
    BY <1>1, <1>5 DEF Passes, d

\* The names and the contents a scaffold writes.
FileNames ==
    ToSet(References) \cup ToSet(AgentScripts) \cup ToSet(SanctumFiles) \cup TemplateFiles
        \cup MergeScripts \cup {"CAPABILITIES.md", "module-setup.md", "marketplace.json"}

FileContents == {"empty", "template", "given", "copied", "filled", "generated"}
FileWrites == FileNames \X FileContents

\* The writes of one content to several files.
LEMMA EachGives ==
    ASSUME NEW s \in Seq(FileNames), NEW c \in FileContents
    PROVE  /\ Each(s, c) \in Seq(FileWrites) /\ Len(Each(s, c)) = Len(s)
           /\ \A i \in 1 .. Len(s) : Each(s, c)[i] = <<s[i], c>>
           /\ ToSet(Each(s, c)) = {<<f, c>> : f \in ToSet(s)}
<1>1. PICK n \in Nat : n = Len(s) /\ DOMAIN s = 1 .. n
    OBVIOUS
<1>2. Each(s, c) = [i \in 1 .. n |-> <<s[i], c>>]
    BY <1>1 DEF Each
<1>3. \A i \in 1 .. n : <<s[i], c>> \in FileWrites
    BY <1>1 DEF FileWrites
<1>4. Each(s, c) \in Seq(FileWrites) /\ Len(Each(s, c)) = n
    BY <1>2, <1>3
<1>5. PICK D : D = 1 .. n
    OBVIOUS
<1>6. /\ DOMAIN Each(s, c) = D /\ DOMAIN s = D
      /\ \A i \in D : Each(s, c)[i] = <<s[i], c>>
    BY <1>1, <1>2, <1>5
<1>7. ToSet(Each(s, c)) = {<<f, c>> : f \in ToSet(s)}
    BY <1>6 DEF ToSet
<1> QED
    BY <1>1, <1>4, <1>5, <1>6, <1>7

\* What comes before CAPABILITIES.md in the sanctum.
PlanBefore == Each(Kept, "copied") \o Each(AgentScripts, "copied") \o Each(SanctumFiles, "filled")

\* The sanctum's writes: CAPABILITIES.md last, and each file with one content.
LEMMA PlanIs ==
    /\ SanctumPlan \in Seq(FileWrites) /\ Len(SanctumPlan) \in Nat \ {0}
    /\ SanctumPlan[Len(SanctumPlan)] = <<"CAPABILITIES.md", "generated">>
    /\ \A i \in 1 .. (Len(SanctumPlan) - 1) : SanctumPlan[i][2] # "generated"
    /\ \A f \in (Capabilities \ SkillOnly) \cup ToSet(AgentScripts) : <<f, "copied">> \in ToSet(SanctumPlan)
    /\ \A f \in ToSet(SanctumFiles) : <<f, "filled">> \in ToSet(SanctumPlan)
    /\ \A p, q \in ToSet(SanctumPlan) : p[1] = q[1] /\ p[1] # "CAPABILITIES.md" => p[2] = q[2]
<1>1. References \in Seq(FileNames) /\ AgentScripts \in Seq(FileNames) /\ SanctumFiles \in Seq(FileNames)
    BY ScaffoldAssumption, OfItsElements DEF FileNames
<1>2. Kept \in Seq(FileNames) /\ ToSet(Kept) = ToSet(References) \cap (ToSet(References) \ SkillOnly)
    BY <1>1, FilterGives DEF Kept
<1>3. PICK a, b, c : a = Each(Kept, "copied") /\ b = Each(AgentScripts, "copied") /\ c = Each(SanctumFiles, "filled")
    OBVIOUS
<1>4. /\ a \in Seq(FileWrites) /\ ToSet(a) = {<<f, "copied">> : f \in ToSet(Kept)}
      /\ b \in Seq(FileWrites) /\ ToSet(b) = {<<f, "copied">> : f \in ToSet(AgentScripts)}
      /\ c \in Seq(FileWrites) /\ ToSet(c) = {<<f, "filled">> : f \in ToSet(SanctumFiles)}
    <2>1. "copied" \in FileContents /\ "filled" \in FileContents
        BY DEF FileContents
    <2> QED
        BY <1>1, <1>2, <1>3, <2>1, EachGives
<1>5. PICK front : front = PlanBefore
    OBVIOUS
<1>6. front \in Seq(FileWrites) /\ ToSet(front) = ToSet(a) \cup ToSet(b) \cup ToSet(c)
    <2>1. front = (a \o b) \o c
        BY <1>3, <1>5 DEF PlanBefore
    <2>2. a \o b \in Seq(FileWrites) /\ ToSet(a \o b) = ToSet(a) \cup ToSet(b)
        BY <1>4, ToSetConcat
    <2>3. PICK d : d = a \o b
        OBVIOUS
    <2>4. d \in Seq(FileWrites) /\ c \in Seq(FileWrites)
        BY <1>4, <2>2, <2>3
    <2>5. d \o c \in Seq(FileWrites)
        BY <2>4
    <2>6. ToSet(d \o c) = ToSet(d) \cup ToSet(c)
        BY <2>4, ToSetConcat
    <2> QED
        BY <2>1, <2>2, <2>3, <2>5, <2>6
<1>7. PICK last : last = <<"CAPABILITIES.md", "generated">>
    OBVIOUS
<1>8. last \in FileWrites
    BY <1>7 DEF FileWrites, FileNames, FileContents
<1>9. SanctumPlan = Append(front, last)
    <2>1. SanctumPlan = front \o <<last>>
        BY <1>5, <1>7 DEF SanctumPlan, PlanBefore
    <2> QED
        BY <1>6, <1>8, <2>1
<1>10. ToSet(SanctumPlan) = ToSet(front) \cup {last}
    BY <1>6, <1>8, <1>9, ToSetAppend
<1>11. \A p \in ToSet(front) : p[2] # "generated"
    BY <1>4, <1>6
<1>12. /\ SanctumPlan \in Seq(FileWrites) /\ Len(SanctumPlan) = Len(front) + 1
       /\ SanctumPlan[Len(SanctumPlan)] = last
       /\ \A i \in 1 .. Len(front) : SanctumPlan[i] = front[i]
       /\ Len(front) \in Nat
    BY <1>6, <1>8, <1>9
<1>13. \A i \in 1 .. Len(front) : front[i] \in ToSet(front)
    BY <1>6 DEF ToSet
<1>14. \A i \in 1 .. (Len(SanctumPlan) - 1) : SanctumPlan[i][2] # "generated"
    BY <1>11, <1>12, <1>13
<1>15. /\ \A f \in (Capabilities \ SkillOnly) \cup ToSet(AgentScripts) : <<f, "copied">> \in ToSet(front)
       /\ \A f \in ToSet(SanctumFiles) : <<f, "filled">> \in ToSet(front)
    <2>1. Capabilities \ SkillOnly \subseteq ToSet(Kept)
        BY <1>2, ScaffoldAssumption
    <2> QED
        BY <1>4, <1>6, <2>1
<1>16. ASSUME NEW p \in ToSet(SanctumPlan), NEW q \in ToSet(SanctumPlan), p[1] = q[1], p[1] # "CAPABILITIES.md"
       PROVE  p[2] = q[2]
    <2>1. p \in ToSet(front) /\ q \in ToSet(front)
        BY <1>7, <1>10, <1>16
    <2>2. ASSUME NEW r \in ToSet(front)
          PROVE  /\ r[1] \in ToSet(References) \cup ToSet(AgentScripts) => r[2] = "copied"
                 /\ r[1] \in ToSet(SanctumFiles) => r[2] = "filled"
                 /\ r[1] \in ToSet(References) \cup ToSet(AgentScripts) \cup ToSet(SanctumFiles)
        <3>1. (ToSet(References) \cup ToSet(AgentScripts)) \cap ToSet(SanctumFiles) = {}
            BY ScaffoldAssumption
        <3> QED
            BY <1>2, <1>4, <1>6, <3>1
    <2> QED
        BY <1>16, <2>1, <2>2
<1> QED
    BY <1>7, <1>10, <1>12, <1>14, <1>15, <1>16

\* What a setup skill has had from the generated files, by how many files
\* are still to be written.
SetupWriting ==
    stage = "write" /\ job.kind = "setup" =>
        /\ SetupSkill \in DOMAIN tree
        /\ Len(todo) >= 1 => /\ todo[Len(todo)] = <<"module-help.csv", "given">>
                             /\ ~HasText(SetupSkill, "module-help.csv")
        /\ Len(todo) >= 2 => todo[Len(todo) - 1][1] = "module.yaml"
                             /\ todo[Len(todo) - 1][2] \in {"template", "given"}
        /\ Len(todo) >= 3 => todo[Len(todo) - 2] = <<"SKILL.md", "given">>
        /\ \A i \in 1 .. Len(todo) : i <= Len(todo) - 3 => todo[i][2] = "template"
        /\ Len(todo) <= 2 => Has(SetupSkill, "SKILL.md") /\ tree[SetupSkill]["SKILL.md"] = "given"
        /\ Len(todo) <= 1 => /\ Has(SetupSkill, "module.yaml")
                             /\ tree[SetupSkill]["module.yaml"] \in {"template", "given"}

\* A setup skill whose files are there and say something is the generated one.
SetupWhole ==
    HasText(SetupSkill, "module.yaml") /\ HasText(SetupSkill, "module-help.csv") /\ Has(SetupSkill, "SKILL.md")
        => Whole(SetupSkill)

\* A write that is done.
Copied(p) == Has(Sanctum, p[1]) /\ tree[Sanctum][p[1]] = p[2]
CapabilitiesListed == Has(Sanctum, "CAPABILITIES.md") /\ tree[Sanctum]["CAPABILITIES.md"] = "generated"

\* What a sanctum has had, and what it has still to have.
SanctumWriting ==
    stage = "write" /\ job.kind = "sanctum" =>
        /\ Sanctum \in DOMAIN tree
        /\ ToSet(todo) \subseteq ToSet(SanctumPlan)
        /\ \A p \in ToSet(SanctumPlan) : p \in ToSet(todo) \/ p[1] = "CAPABILITIES.md" \/ Copied(p)
        /\ todo # <<>> => /\ ~CapabilitiesListed
                          /\ todo[Len(todo)] = <<"CAPABILITIES.md", "generated">>
                          /\ \A i \in 1 .. (Len(todo) - 1) : todo[i][2] # "generated"

\* A sanctum that lists the capabilities has had everything else.
SanctumWhole == CapabilitiesListed => \A p \in ToSet(SanctumPlan) : p[1] = "CAPABILITIES.md" \/ Copied(p)

\* Which folder each kind of scaffold writes to.
ScaffoldTyped ==
    /\ todo \in Seq(FileWrites)
    /\ stage = "remove" => job.kind = "setup" /\ job.folder = SetupSkill
    /\ stage = "write" => \/ job.kind = "setup" /\ job.folder = SetupSkill
                          \/ job.kind = "sanctum" /\ job.folder = Sanctum
                          \/ job.kind = "standalone" /\ job.folder \notin {SetupSkill, Sanctum}
    /\ stage = "write" /\ halfway => todo # <<>>

\* The invariant of the scaffolds.
ScaffoldInv == ScaffoldTyped /\ SetupWriting /\ SetupWhole /\ SanctumWriting /\ SanctumWhole

\* What writing one file changes.
LEMMA WriteTo ==
    ASSUME NEW d \in DOMAIN tree, NEW f, NEW c, tree' = Set(d, f, c)
    PROVE  /\ DOMAIN tree' = DOMAIN tree
           /\ \A e : e # d => \A g : Has(e, g)' = Has(e, g)
           /\ \A e \in DOMAIN tree : e # d => tree'[e] = tree[e]
           /\ Has(d, f)' /\ tree'[d][f] = c
           /\ \A g : g # f => Has(d, g)' = Has(d, g)
           /\ \A g \in DOMAIN tree[d] : g # f => tree'[d][g] = tree[d][g]
BY DEF Set, Put, Has

\* What making a folder changes.
LEMMA FolderNew ==
    ASSUME NEW d, NEW F, tree' = Put(d, F)
    PROVE  /\ d \in DOMAIN tree' /\ tree'[d] = F
           /\ \A e : e # d => \A g : Has(e, g)' = Has(e, g)
           /\ \A e \in DOMAIN tree : e # d => e \in DOMAIN tree' /\ tree'[e] = tree[e]
BY DEF Put, Has

\* What a change to other folders leaves of the two.
SameFolder(d) ==
    /\ \A g : Has(d, g)' = Has(d, g)
    /\ d \in DOMAIN tree => d \in DOMAIN tree' /\ tree'[d] = tree[d]

\* A change elsewhere leaves what holds of the setup skill and of the sanctum.
LEMMA SetupUntouched ==
    ASSUME SetupWhole, SameFolder(SetupSkill)
    PROVE  SetupWhole'
BY DEF SetupWhole, SameFolder, HasText, Whole, Has

\* The same for the sanctum.
LEMMA SanctumUntouched ==
    ASSUME SanctumWhole, SameFolder(Sanctum)
    PROVE  SanctumWhole'
<1>1. SanctumPlan' = SanctumPlan
    BY DEF SanctumPlan, Kept, Each
<1> QED
    BY <1>1 DEF SanctumWhole, SameFolder, CapabilitiesListed, Copied, Has

\* And for what is being written.
LEMMA SetupWritingSame ==
    ASSUME SetupWriting, SameFolder(SetupSkill), UNCHANGED <<stage, job, todo>>
    PROVE  SetupWriting'
BY DEF SetupWriting, SameFolder, HasText, Has

\* The same for the sanctum's.
LEMMA SanctumWritingSame ==
    ASSUME SanctumWriting, SameFolder(Sanctum), UNCHANGED <<stage, job, todo>>
    PROVE  SanctumWriting'
<1>1. SanctumPlan' = SanctumPlan
    BY DEF SanctumPlan, Kept, Each
<1> QED
    BY <1>1 DEF SanctumWriting, SameFolder, CapabilitiesListed, Copied, Has

\* One step of writing: the head of the list goes to the folder, empty or filled.
WriteStep(c, rest) ==
    /\ stage = "write" /\ todo # <<>>
    /\ tree' = Set(job.folder, Head(todo)[1], c)
    /\ todo' = rest
    /\ \/ c = "empty" /\ rest = todo
       \/ c = Head(todo)[2] /\ rest = Tail(todo)
    /\ UNCHANGED <<job, stage>>

\* What is left to write after such a step.
LEMMA WriteSteps ==
    ASSUME ScaffoldTyped, NEW c, NEW rest, WriteStep(c, rest)
    PROVE  /\ Len(todo) \in Nat \ {0} /\ Head(todo) = todo[1] /\ Head(todo) \in FileWrites
           /\ rest \in Seq(FileWrites)
           /\ \/ c = "empty" /\ Len(rest) = Len(todo) /\ rest = todo
              \/ /\ c = Head(todo)[2] /\ Len(rest) = Len(todo) - 1
                 /\ \A i \in 1 .. (Len(todo) - 1) : rest[i] = todo[i + 1]
                 /\ ToSet(todo) = ToSet(rest) \cup {Head(todo)}
<1>1. todo \in Seq(FileWrites) /\ todo # <<>>
    BY DEF ScaffoldTyped, WriteStep
<1>2. Len(todo) \in Nat \ {0}
    BY <1>1, EmptySeq
<1>3. /\ Tail(todo) \in Seq(FileWrites) /\ Len(Tail(todo)) = Len(todo) - 1
      /\ \A i \in 1 .. (Len(todo) - 1) : Tail(todo)[i] = todo[i + 1]
      /\ Head(todo) \in FileWrites /\ Head(todo) = todo[1]
      /\ ToSet(todo) = ToSet(Tail(todo)) \cup {Head(todo)}
    BY <1>1, ToSetTail
<1> QED
    BY <1>1, <1>2, <1>3 DEF WriteStep

\* Writing a file of the setup skill.
LEMMA SetupWriteStep ==
    ASSUME ScaffoldInv, NEW c, NEW rest, WriteStep(c, rest), job.kind = "setup"
    PROVE  SetupWriting' /\ SetupWhole'
<1>1. PICK h, L : h = Head(todo) /\ L = Len(todo)
    OBVIOUS
<1>2. /\ stage = "write" /\ job.folder = SetupSkill /\ SetupSkill \in DOMAIN tree
      /\ stage' = stage /\ job' = job /\ todo' = rest
    BY DEF ScaffoldInv, ScaffoldTyped, SetupWriting, WriteStep
<1>3. tree' = Set(SetupSkill, h[1], c)
    BY <1>1, <1>2 DEF WriteStep
<1>4. /\ SetupSkill \in DOMAIN tree'
      /\ Has(SetupSkill, h[1])' /\ tree'[SetupSkill][h[1]] = c
      /\ \A g : g # h[1] => Has(SetupSkill, g)' = Has(SetupSkill, g)
      /\ \A g \in DOMAIN tree[SetupSkill] : g # h[1] => tree'[SetupSkill][g] = tree[SetupSkill][g]
    BY <1>2, <1>3, WriteTo
<1>5. \A g : g # h[1] /\ ~HasText(SetupSkill, g) => ~HasText(SetupSkill, g)'
    BY <1>4 DEF HasText, Has
<1>6. /\ L \in Nat \ {0} /\ h = todo[1] /\ rest \in Seq(FileWrites)
      /\ \/ c = "empty" /\ Len(rest) = L /\ rest = todo
         \/ /\ c = h[2] /\ Len(rest) = L - 1
            /\ \A i \in 1 .. (L - 1) : rest[i] = todo[i + 1]
    BY <1>1, WriteSteps DEF ScaffoldInv
<1>7. /\ todo[L] = <<"module-help.csv", "given">> /\ ~HasText(SetupSkill, "module-help.csv")
      /\ L >= 2 => todo[L - 1][1] = "module.yaml" /\ todo[L - 1][2] \in {"template", "given"}
      /\ L >= 3 => todo[L - 2] = <<"SKILL.md", "given">>
      /\ \A i \in 1 .. L : i <= L - 3 => todo[i][2] = "template"
      /\ L <= 2 => Has(SetupSkill, "SKILL.md") /\ tree[SetupSkill]["SKILL.md"] = "given"
      /\ L <= 1 => /\ Has(SetupSkill, "module.yaml")
                   /\ tree[SetupSkill]["module.yaml"] \in {"template", "given"}
    BY <1>1, <1>2, <1>6 DEF ScaffoldInv, SetupWriting
<1>8. /\ L = 1 => h = <<"module-help.csv", "given">>
      /\ L = 2 => h[1] = "module.yaml" /\ h[2] \in {"template", "given"}
      /\ L = 3 => h = <<"SKILL.md", "given">>
      /\ L > 3 => h[2] = "template"
    <2>1. CASE L <= 3
        BY <1>6, <1>7, <2>1
    <2>2. CASE L > 3
        <3>1. 1 \in 1 .. L /\ 1 <= L - 3
            BY <1>6, <2>2
        <3> QED
            BY <1>6, <1>7, <2>2, <3>1
    <2> QED
        BY <1>6, <2>1, <2>2
<1>9. /\ L > 1 \/ c = "empty" => ~HasText(SetupSkill, "module-help.csv")'
    <2>1. CASE h[1] # "module-help.csv"
        BY <1>5, <1>7, <2>1
    <2>2. CASE h[1] = "module-help.csv" /\ (L > 1 \/ c = "empty")
        <3>1. c \notin {"given", "own"}
            BY <1>6, <1>8, <2>2
        <3> QED
            BY <1>4, <2>2, <3>1 DEF HasText
    <2> QED
        BY <2>1, <2>2
<1>10. L <= 2 \/ (L = 3 /\ c # "empty") =>
          Has(SetupSkill, "SKILL.md")' /\ tree'[SetupSkill]["SKILL.md"] = "given"
    <2>1. CASE L <= 2
        BY <1>4, <1>6, <1>7, <1>8, <2>1 DEF Has
    <2>2. CASE L = 3 /\ c # "empty"
        BY <1>4, <1>6, <1>8, <2>2
    <2> QED
        BY <2>1, <2>2
<1>11. L <= 1 \/ (L = 2 /\ c # "empty") =>
          Has(SetupSkill, "module.yaml")' /\ tree'[SetupSkill]["module.yaml"] \in {"template", "given"}
    <2>1. CASE L <= 1
        BY <1>4, <1>6, <1>7, <1>8, <2>1 DEF Has
    <2>2. CASE L = 2 /\ c # "empty"
        BY <1>4, <1>6, <1>8, <2>2
    <2> QED
        BY <2>1, <2>2
<1>12. CASE c = "empty" /\ Len(rest) = L /\ rest = todo
    <2>1. SetupWriting'
        BY <1>2, <1>4, <1>6, <1>7, <1>9, <1>10, <1>11, <1>12 DEF SetupWriting
    <2>2. SetupWhole'
        BY <1>9, <1>12 DEF SetupWhole
    <2> QED
        BY <2>1, <2>2
<1>13. CASE c # "empty" /\ c = h[2] /\ Len(rest) = L - 1 /\ \A i \in 1 .. (L - 1) : rest[i] = todo[i + 1]
    <2>1. PICK M : M = Len(rest)
        OBVIOUS
    <2>2. M \in Nat /\ L = M + 1 /\ \A i \in 1 .. M : rest[i] = todo[i + 1]
        BY <1>6, <1>13, <2>1
    <2>3. /\ M >= 1 => rest[M] = <<"module-help.csv", "given">>
          /\ M >= 2 => rest[M - 1][1] = "module.yaml" /\ rest[M - 1][2] \in {"template", "given"}
          /\ M >= 3 => rest[M - 2] = <<"SKILL.md", "given">>
        BY <1>7, <2>2
    <2>4. \A i \in 1 .. M : i <= M - 3 => rest[i][2] = "template"
        BY <1>7, <2>2
    <2>5. SetupWriting'
        BY <1>2, <1>4, <1>9, <1>10, <1>11, <1>13, <2>1, <2>2, <2>3, <2>4 DEF SetupWriting
    <2>6. ASSUME L > 1
          PROVE  SetupWhole'
        <3>1. ~HasText(SetupSkill, "module-help.csv")'
            BY <1>9, <2>6
        <3> QED
            BY <3>1 DEF SetupWhole
    <2>7. ASSUME L = 1
          PROVE  SetupWhole'
        <3>1. h[1] = "module-help.csv" /\ c = "given"
            BY <1>8, <1>13, <2>7
        <3>2. /\ Has(SetupSkill, "SKILL.md")' /\ tree'[SetupSkill]["SKILL.md"] = "given"
              /\ Has(SetupSkill, "module.yaml")' /\ tree'[SetupSkill]["module.yaml"] \in {"template", "given"}
              /\ Has(SetupSkill, "module-help.csv")' /\ tree'[SetupSkill]["module-help.csv"] = "given"
            BY <1>4, <1>10, <1>11, <2>7, <3>1
        <3>3. HasText(SetupSkill, "module.yaml")' => tree'[SetupSkill]["module.yaml"] = "given"
            BY <3>2 DEF HasText
        <3> QED
            BY <3>2, <3>3 DEF SetupWhole, Whole
    <2> QED
        BY <1>6, <2>5, <2>6, <2>7
<1>14. h[2] # "empty"
    <2>1. L = 1 \/ L = 2 \/ L = 3 \/ L > 3
        BY <1>6
    <2> QED
        BY <1>8, <2>1
<1> QED
    BY <1>6, <1>12, <1>13, <1>14

\* Writing a file of the sanctum.
LEMMA SanctumWriteStep ==
    ASSUME ScaffoldInv, NEW c, NEW rest, WriteStep(c, rest), job.kind = "sanctum"
    PROVE  SanctumWriting' /\ SanctumWhole'
<1>1. PICK h, L, P : h = Head(todo) /\ L = Len(todo) /\ P = ToSet(SanctumPlan)
    OBVIOUS
<1>2. /\ stage = "write" /\ job.folder = Sanctum /\ Sanctum \in DOMAIN tree
      /\ stage' = stage /\ job' = job /\ todo' = rest /\ todo # <<>>
    BY DEF ScaffoldInv, ScaffoldTyped, SanctumWriting, WriteStep
<1>3. tree' = Set(Sanctum, h[1], c)
    BY <1>1, <1>2 DEF WriteStep
<1>4. /\ Sanctum \in DOMAIN tree'
      /\ Has(Sanctum, h[1])' /\ tree'[Sanctum][h[1]] = c
      /\ \A g : g # h[1] => Has(Sanctum, g)' = Has(Sanctum, g)
      /\ \A g \in DOMAIN tree[Sanctum] : g # h[1] => tree'[Sanctum][g] = tree[Sanctum][g]
    BY <1>2, <1>3, WriteTo
<1>5. /\ L \in Nat \ {0} /\ h = todo[1] /\ rest \in Seq(FileWrites) /\ h \in FileWrites
      /\ \/ c = "empty" /\ Len(rest) = L /\ rest = todo
         \/ /\ c = h[2] /\ Len(rest) = L - 1
            /\ \A i \in 1 .. (L - 1) : rest[i] = todo[i + 1]
            /\ ToSet(todo) = ToSet(rest) \cup {h}
    BY <1>1, WriteSteps DEF ScaffoldInv
<1>6. /\ ToSet(todo) \subseteq P
      /\ \A p \in P : p \in ToSet(todo) \/ p[1] = "CAPABILITIES.md" \/ Copied(p)
      /\ ~CapabilitiesListed
      /\ todo[L] = <<"CAPABILITIES.md", "generated">>
      /\ \A i \in 1 .. (L - 1) : todo[i][2] # "generated"
    BY <1>1, <1>2 DEF ScaffoldInv, SanctumWriting
<1>7. SanctumPlan' = SanctumPlan
    BY DEF SanctumPlan, Kept, Each
<1>8. h \in ToSet(todo)
    <2>1. todo \in Seq(FileWrites) /\ 1 \in 1 .. Len(todo)
        BY <1>1, <1>5 DEF ScaffoldInv, ScaffoldTyped
    <2> QED
        BY <1>5, <2>1, ToSetIs
<1>9. \A p \in P : h[1] # p[1] \/ h[1] = "CAPABILITIES.md" \/ h[2] = p[2]
    BY <1>1, <1>6, <1>8, PlanIs
<1>10. ASSUME NEW p \in P, p[1] # "CAPABILITIES.md"
       PROVE  p \in ToSet(rest) \/ Copied(p)'
    <2>1. CASE p \in ToSet(todo)
        <3>1. CASE rest = todo
            BY <2>1, <3>1
        <3>2. CASE rest # todo
            <4>1. p \in ToSet(rest) \/ p = h
                BY <1>5, <2>1, <3>2
            <4> QED
                BY <1>4, <1>5, <3>2, <4>1 DEF Copied
        <3> QED
            BY <3>1, <3>2
    <2>2. CASE p \notin ToSet(todo)
        <3>1. Copied(p)
            BY <1>6, <1>10, <2>2
        <3>2. CASE p[1] # h[1]
            BY <1>4, <3>1, <3>2 DEF Copied, Has
        <3>3. CASE p[1] = h[1]
            <4>1. p[2] = h[2] /\ p \in FileWrites /\ h \in FileWrites
                <5>1. P \subseteq FileWrites
                    BY <1>1, PlanIs, ToSetIs
                <5> QED
                    BY <1>5, <1>9, <1>10, <3>3, <5>1
            <4>2. p = h
                BY <3>3, <4>1 DEF FileWrites
            <4> QED
                BY <1>8, <2>2, <4>2
        <3> QED
            BY <3>2, <3>3
    <2> QED
        BY <2>1, <2>2
<1>11. ASSUME rest # <<>>
       PROVE  ~CapabilitiesListed'
    <2>1. c # "generated"
        <3>1. CASE c = "empty"
            BY <3>1
        <3>2. CASE c = h[2] /\ Len(rest) = L - 1
            <4>1. L > 1
                BY <1>5, <1>11, <3>2, EmptySeq
            <4> QED
                BY <1>5, <1>6, <3>2, <4>1
        <3> QED
            BY <1>5, <3>1, <3>2
    <2> QED
        BY <1>4, <1>6, <2>1 DEF CapabilitiesListed, Has
<1>12. rest # <<>> => /\ rest[Len(rest)] = <<"CAPABILITIES.md", "generated">>
                      /\ \A i \in 1 .. (Len(rest) - 1) : rest[i][2] # "generated"
    <2>1. CASE rest = todo
        BY <1>1, <1>6, <2>1
    <2>2. CASE /\ Len(rest) = L - 1 /\ rest # <<>>
               /\ \A i \in 1 .. (L - 1) : rest[i] = todo[i + 1]
        <3>1. L > 1
            BY <1>5, <2>2, EmptySeq
        <3>2. PICK M : M = Len(rest)
            OBVIOUS
        <3>3. M \in Nat /\ M >= 1 /\ L = M + 1 /\ \A i \in 1 .. M : rest[i] = todo[i + 1]
            BY <1>5, <2>2, <3>1, <3>2
        <3>4. rest[M] = todo[L]
            BY <3>3
        <3>5. ASSUME NEW i \in 1 .. (M - 1)
              PROVE  rest[i][2] # "generated"
            <4>1. i \in 1 .. M /\ i + 1 \in 1 .. (L - 1)
                BY <3>3
            <4> QED
                BY <1>6, <3>3, <4>1
        <3> QED
            BY <1>6, <3>2, <3>4, <3>5
    <2> QED
        BY <1>5, <2>1, <2>2
<1>13. ToSet(rest) \subseteq P
    BY <1>5, <1>6
<1>14. SanctumWriting'
    BY <1>1, <1>2, <1>4, <1>7, <1>10, <1>11, <1>12, <1>13 DEF SanctumWriting
<1>15. SanctumWhole'
    <2>1. CASE rest # <<>>
        BY <1>11, <2>1 DEF SanctumWhole
    <2>2. CASE rest = <<>>
        <3>1. ToSet(rest) = {}
            BY <2>2 DEF ToSet
        <3> QED
            BY <1>1, <1>7, <1>10, <3>1 DEF SanctumWhole
    <2> QED
        BY <2>1, <2>2
<1> QED
    BY <1>14, <1>15

\* A change to neither folder keeps all that is said of them.
LEMMA Untouched ==
    ASSUME ScaffoldInv, SameFolder(SetupSkill), SameFolder(Sanctum)
    PROVE  /\ SetupWhole' /\ SanctumWhole'
           /\ UNCHANGED <<stage, job, todo>> => SetupWriting' /\ SanctumWriting'
BY SetupUntouched, SanctumUntouched, SetupWritingSame, SanctumWritingSame DEF ScaffoldInv

\* A tree that stays keeps every folder.
LEMMA TreeSame ==
    ASSUME UNCHANGED tree
    PROVE  \A d : SameFolder(d)
BY DEF SameFolder, Has

\* Steps that change nothing the invariant is about.
LEMMA ScaffoldSame ==
    ASSUME ScaffoldInv, UNCHANGED <<tree, job, stage, todo, halfway>>
    PROVE  ScaffoldInv'
<1>1. ScaffoldTyped'
    BY DEF ScaffoldInv, ScaffoldTyped, FileWrites, FileNames, FileContents
<1> QED
    BY <1>1, Untouched, TreeSame DEF ScaffoldInv

\* The actions, one by one.
LEMMA BeginSetupKeeps ==
    ASSUME ScaffoldInv, BeginSetup
    PROVE  ScaffoldInv'
<1>1. CASE UNCHANGED <<tree, job, stage, todo, halfway>>
    BY <1>1, ScaffoldSame
<1>2. CASE /\ UNCHANGED <<tree, todo>> /\ stage' = "remove"
           /\ job'.kind = "setup" /\ job'.folder = SetupSkill
    <2>1. ScaffoldTyped'
        BY <1>2 DEF ScaffoldInv, ScaffoldTyped, FileWrites, FileNames, FileContents
    <2>2. SetupWriting' /\ SanctumWriting'
        BY <1>2 DEF SetupWriting, SanctumWriting
    <2> QED
        BY <1>2, <2>1, <2>2, Untouched, TreeSame DEF ScaffoldInv
<1> QED
    BY <1>1, <1>2 DEF BeginSetup, Start, Refuse

LEMMA BeginStandaloneKeeps ==
    ASSUME ScaffoldInv, NEW d \in DOMAIN tree \ {SetupSkill, Sanctum}, BeginStandalone(d)
    PROVE  ScaffoldInv'
<1>1. CASE UNCHANGED <<tree, job, stage, todo, halfway>>
    BY <1>1, ScaffoldSame
<1>2. CASE /\ UNCHANGED tree /\ stage' = "write" /\ job'.kind = "standalone" /\ job'.folder = d
           /\ todo' = <<<<"module-setup.md", "template">>, <<"merge-config.py", "template">>,
                        <<"merge-help-csv.py", "template">>, <<"marketplace.json", "given">>>>
    <2>1. todo' \in Seq(FileWrites) /\ todo' # <<>>
        <3>1. /\ <<"module-setup.md", "template">> \in FileWrites /\ <<"merge-config.py", "template">> \in FileWrites
              /\ <<"merge-help-csv.py", "template">> \in FileWrites /\ <<"marketplace.json", "given">> \in FileWrites
            BY DEF FileWrites, FileNames, FileContents, MergeScripts
        <3> QED
            BY <1>2, <3>1
    <2>2. ScaffoldTyped'
        BY <1>2, <2>1 DEF ScaffoldTyped, FileWrites, FileNames, FileContents
    <2>3. SetupWriting' /\ SanctumWriting'
        BY <1>2 DEF SetupWriting, SanctumWriting
    <2> QED
        BY <1>2, <2>2, <2>3, Untouched, TreeSame DEF ScaffoldInv
<1> QED
    BY <1>1, <1>2 DEF BeginStandalone, Start, Refuse

\* A sanctum that is made is empty.
LEMMA SanctumMade ==
    ASSUME ScaffoldInv, tree' = Put(Sanctum, NoFiles), Sanctum \notin DOMAIN tree
    PROVE  /\ SetupWhole' /\ SanctumWhole' /\ ~CapabilitiesListed' /\ Sanctum \in DOMAIN tree'
           /\ UNCHANGED <<stage, job, todo>> => SetupWriting' /\ SanctumWriting'
<1>1. SameFolder(SetupSkill)
    BY FolderNew, ScaffoldAssumption DEF SameFolder
<1>2. tree'[Sanctum] = NoFiles /\ Sanctum \in DOMAIN tree'
    BY FolderNew
<1>3. ~CapabilitiesListed'
    BY <1>2 DEF CapabilitiesListed, Has, NoFiles
<1>4. UNCHANGED <<stage, job, todo>> => SanctumWriting'
    BY DEF ScaffoldInv, SanctumWriting
<1> QED
    BY <1>1, <1>2, <1>3, <1>4, SetupUntouched, SetupWritingSame DEF ScaffoldInv, SanctumWhole

LEMMA BeginSanctumKeeps ==
    ASSUME ScaffoldInv, BeginSanctum
    PROVE  ScaffoldInv'
<1>1. CASE UNCHANGED <<tree, job, stage, todo, halfway>>
    BY <1>1, ScaffoldSame
<1>2. CASE /\ Sanctum \notin DOMAIN tree /\ tree' = Put(Sanctum, NoFiles)
           /\ UNCHANGED <<job, stage, todo, halfway>>
    <2>1. ScaffoldTyped'
        BY <1>2 DEF ScaffoldInv, ScaffoldTyped, FileWrites, FileNames, FileContents
    <2> QED
        BY <1>2, <2>1, SanctumMade DEF ScaffoldInv
<1>3. CASE /\ Sanctum \notin DOMAIN tree /\ tree' = Put(Sanctum, NoFiles)
           /\ stage' = "write" /\ job'.kind = "sanctum" /\ job'.folder = Sanctum /\ todo' = SanctumPlan
    <2>1. todo' \in Seq(FileWrites) /\ todo' # <<>>
        BY <1>3, PlanIs, EmptySeq
    <2>2. ScaffoldTyped'
        BY <1>3, <2>1 DEF ScaffoldTyped, FileWrites, FileNames, FileContents
    <2>3. SetupWriting'
        BY <1>3 DEF SetupWriting
    <2>4. SanctumPlan' = SanctumPlan
        BY DEF SanctumPlan, Kept, Each
    <2>5. SanctumWriting'
        BY <1>3, <2>4, SanctumMade, PlanIs DEF SanctumWriting
    <2> QED
        BY <1>3, <2>2, <2>3, <2>5, SanctumMade DEF ScaffoldInv
<1> QED
    BY <1>1, <1>2, <1>3 DEF BeginSanctum, Start, Refuse

LEMMA RemoveFileKeeps ==
    ASSUME ScaffoldInv, RemoveFile
    PROVE  ScaffoldInv'
<1>1. PICK f \in DOMAIN tree[SetupSkill] :
          tree' = Put(SetupSkill, [g \in DOMAIN tree[SetupSkill] \ {f} |-> tree[SetupSkill][g]])
    BY DEF RemoveFile, ScaffoldInv, ScaffoldTyped
<1>2. /\ stage = "remove" /\ SetupSkill \in DOMAIN tree
      /\ UNCHANGED <<job, stage, todo, halfway>>
    BY DEF RemoveFile, ScaffoldInv, ScaffoldTyped
<1>3. ScaffoldTyped'
    BY <1>2 DEF ScaffoldInv, ScaffoldTyped, FileWrites, FileNames, FileContents
<1>4. SetupWriting' /\ SanctumWriting'
    BY <1>2 DEF SetupWriting, SanctumWriting
<1>5. SanctumWhole'
    <2>1. PICK F : tree' = Put(SetupSkill, F)
        BY <1>1
    <2>2. SameFolder(Sanctum)
        BY <2>1, FolderNew, ScaffoldAssumption DEF SameFolder
    <2> QED
        BY <2>2, SanctumUntouched DEF ScaffoldInv
<1>6. \A g : Has(SetupSkill, g)' => Has(SetupSkill, g) /\ tree'[SetupSkill][g] = tree[SetupSkill][g]
    <2>1. tree'[SetupSkill] = [g \in DOMAIN tree[SetupSkill] \ {f} |-> tree[SetupSkill][g]]
        BY <1>1, FolderNew
    <2> QED
        BY <1>2, <2>1 DEF Has
<1>7. SetupWhole'
    BY <1>6 DEF ScaffoldInv, SetupWhole, HasText, Whole
<1> QED
    BY <1>3, <1>4, <1>5, <1>7 DEF ScaffoldInv

LEMMA RemoveDoneKeeps ==
    ASSUME ScaffoldInv, RemoveDone
    PROVE  ScaffoldInv'
<1>1. /\ stage = "remove" /\ job.kind = "setup" /\ job.folder = SetupSkill /\ stage' = "write"
      /\ tree' = Put(SetupSkill, NoFiles) /\ UNCHANGED <<job, halfway>>
    BY DEF RemoveDone, ScaffoldInv, ScaffoldTyped
<1>2. PICK order, own :
          /\ order \in SetToSeqs(TemplateFiles) /\ own \in {"template", "given"}
          /\ todo' = Each(order, "template") \o <<<<"SKILL.md", "given">>, <<"module.yaml", own>>,
                                                  <<"module-help.csv", "given">>>>
    BY DEF RemoveDone
<1>3. PICK n \in Nat : n = Cardinality(TemplateFiles)
    <2>1. IsFiniteSet(TemplateFiles)
        <3>1. IsFiniteSet({"SKILL.md"})
            BY FS_Singleton
        <3>2. IsFiniteSet({"SKILL.md"} \cup {"module.yaml"})
            BY <3>1, FS_AddElement
        <3>3. IsFiniteSet(({"SKILL.md"} \cup {"module.yaml"}) \cup {"module-help.csv"})
            BY <3>2, FS_AddElement
        <3>4. IsFiniteSet((({"SKILL.md"} \cup {"module.yaml"}) \cup {"module-help.csv"}) \cup {"scripts"})
            BY <3>3, FS_AddElement
        <3>5. TemplateFiles = (({"SKILL.md"} \cup {"module.yaml"}) \cup {"module-help.csv"}) \cup {"scripts"}
            BY DEF TemplateFiles
        <3> QED
            BY <3>4, <3>5
    <2> QED
        BY <2>1, FS_CardinalityType
<1>4. order \in Seq(FileNames)
    <2>1. order \in [1 .. n -> TemplateFiles]
        BY <1>2, <1>3 DEF SetToSeqs
    <2>2. TemplateFiles \subseteq FileNames
        BY DEF FileNames
    <2> QED
        BY <2>1, <2>2
<1>5. PICK a, b : a = Each(order, "template")
                  /\ b = <<<<"SKILL.md", "given">>, <<"module.yaml", own>>, <<"module-help.csv", "given">>>>
    OBVIOUS
<1>6. PICK m \in Nat : m = Len(a)
    <2>1. "template" \in FileContents
        BY DEF FileContents
    <2> QED
        BY <1>4, <1>5, <2>1, EachGives
<1>7. a \in Seq(FileWrites) /\ Len(a) = m /\ \A i \in 1 .. m : a[i][2] = "template"
    <2>1. "template" \in FileContents
        BY DEF FileContents
    <2> QED
        BY <1>4, <1>5, <1>6, <2>1, EachGives
<1>8. b \in Seq(FileWrites) /\ Len(b) = 3 /\ b[1] = <<"SKILL.md", "given">>
      /\ b[2] = <<"module.yaml", own>> /\ b[3] = <<"module-help.csv", "given">>
    <2>1. <<"SKILL.md", "given">> \in FileWrites /\ <<"module.yaml", own>> \in FileWrites
          /\ <<"module-help.csv", "given">> \in FileWrites
        BY <1>2 DEF FileWrites, FileNames, FileContents, TemplateFiles
    <2> QED
        BY <1>5, <2>1
<1>9. /\ a \o b \in Seq(FileWrites) /\ Len(a \o b) = m + 3
      /\ (a \o b)[m + 3] = <<"module-help.csv", "given">> /\ (a \o b)[m + 2] = <<"module.yaml", own>>
      /\ (a \o b)[m + 1] = <<"SKILL.md", "given">>
      /\ \A i \in 1 .. m : (a \o b)[i][2] = "template"
    <2>1. PICK k \in Nat, A \in {a}, B \in {b} : A = a /\ B = b /\ k = 3
        OBVIOUS
    <2>2. A \in Seq(FileWrites) /\ B \in Seq(FileWrites) /\ Len(A) = m /\ Len(B) = k
        BY <1>7, <1>8, <2>1
    <2>3. /\ A \o B \in Seq(FileWrites) /\ Len(A \o B) = m + k
          /\ \A i \in 1 .. (m + k) : (A \o B)[i] = IF i <= m THEN A[i] ELSE B[i - m]
        BY <2>2
    <2>4. /\ \A i \in 1 .. m : (A \o B)[i] = A[i]
          /\ (A \o B)[m + 1] = B[1] /\ (A \o B)[m + 2] = B[2] /\ (A \o B)[m + 3] = B[3]
        <3>1. \A i \in 1 .. m : i \in 1 .. (m + k) /\ i <= m
            OBVIOUS
        <3>2. /\ m + 1 \in 1 .. (m + k) /\ ~(m + 1 <= m) /\ (m + 1) - m = 1
              /\ m + 2 \in 1 .. (m + k) /\ ~(m + 2 <= m) /\ (m + 2) - m = 2
              /\ m + 3 \in 1 .. (m + k) /\ ~(m + 3 <= m) /\ (m + 3) - m = 3
            BY <2>1
        <3> QED
            BY <2>3, <3>1, <3>2
    <2> QED
        BY <1>7, <1>8, <2>1, <2>3, <2>4
<1>10. PICK t, L : L = m + 3 /\ t = a \o b
    OBVIOUS
<1>11. /\ todo' = t /\ t \in Seq(FileWrites) /\ Len(t) = L /\ L \in Nat /\ L >= 3 /\ t # <<>>
       /\ t[L] = <<"module-help.csv", "given">> /\ t[L - 1][1] = "module.yaml"
       /\ t[L - 1][2] \in {"template", "given"} /\ t[L - 2] = <<"SKILL.md", "given">>
       /\ \A i \in 1 .. L : i <= L - 3 => t[i][2] = "template"
    <2>1. L - 1 = m + 2 /\ L - 2 = m + 1 /\ L \in Nat /\ L >= 3
        BY <1>10
    <2>2. \A i \in 1 .. L : i <= L - 3 => i \in 1 .. m
        BY <1>10
    <2>3. t # <<>>
        BY <1>9, <1>10, <2>1, EmptySeq
    <2>4. todo' = t /\ own \in {"template", "given"}
        BY <1>2, <1>5, <1>10
    <2>5. t[L] = (a \o b)[m + 3] /\ t[L - 1] = (a \o b)[m + 2] /\ t[L - 2] = (a \o b)[m + 1]
        BY <1>10, <2>1
    <2>6. \A i \in 1 .. m : t[i][2] = "template"
        BY <1>9, <1>10
    <2>7. t \in Seq(FileWrites) /\ Len(t) = L
        BY <1>9, <1>10
    <2> QED
        BY <1>9, <2>1, <2>2, <2>3, <2>4, <2>5, <2>6, <2>7
<1>12. tree'[SetupSkill] = NoFiles /\ SetupSkill \in DOMAIN tree' /\ SameFolder(Sanctum)
    <2>1. tree'[SetupSkill] = NoFiles /\ SetupSkill \in DOMAIN tree'
        BY <1>1, FolderNew
    <2>2. SameFolder(Sanctum)
        BY <1>1, FolderNew, ScaffoldAssumption DEF SameFolder
    <2> QED
        BY <2>1, <2>2
<1>13. \A g : ~Has(SetupSkill, g)'
    BY <1>12 DEF Has, NoFiles
<1>14. ScaffoldTyped'
    BY <1>1, <1>11 DEF ScaffoldTyped, FileWrites, FileNames, FileContents
<1>15. SetupWriting'
    <2>1. ~HasText(SetupSkill, "module-help.csv")'
        BY <1>13 DEF HasText
    <2> QED
        BY <1>1, <1>11, <1>12, <2>1 DEF SetupWriting
<1>16. SetupWhole'
    BY <1>13 DEF SetupWhole
<1>17. SanctumWriting'
    BY <1>1 DEF SanctumWriting
<1> QED
    BY <1>12, <1>14, <1>15, <1>16, <1>17, SanctumUntouched DEF ScaffoldInv

LEMMA WriteKeeps ==
    ASSUME ScaffoldInv, NEW c, NEW rest, WriteStep(c, rest), halfway' => rest # <<>>
    PROVE  ScaffoldInv'
<1>1. ScaffoldTyped'
    <2>1. rest \in Seq(FileWrites)
        BY WriteSteps DEF ScaffoldInv
    <2> QED
        BY <2>1 DEF ScaffoldInv, ScaffoldTyped, WriteStep, FileWrites, FileNames, FileContents
<1>2. stage = "write" /\ stage' = stage /\ job' = job /\ tree' = Set(job.folder, Head(todo)[1], c)
    BY DEF WriteStep
<1>3. \A e : e # job.folder => SameFolder(e)
    BY <1>2 DEF Set, Put, Has, SameFolder
<1>4. CASE job.kind = "setup" /\ job.folder = SetupSkill
    <2>1. SanctumWhole' /\ SanctumWriting'
        BY <1>2, <1>3, <1>4, SanctumUntouched, ScaffoldAssumption DEF ScaffoldInv, SanctumWriting
    <2> QED
        BY <1>1, <1>4, <2>1, SetupWriteStep DEF ScaffoldInv
<1>5. CASE job.kind = "sanctum" /\ job.folder = Sanctum
    <2>1. SetupWhole' /\ SetupWriting'
        BY <1>2, <1>3, <1>5, SetupUntouched, ScaffoldAssumption DEF ScaffoldInv, SetupWriting
    <2> QED
        BY <1>1, <1>5, <2>1, SanctumWriteStep DEF ScaffoldInv
<1>6. CASE job.kind = "standalone" /\ job.folder \notin {SetupSkill, Sanctum}
    <2>1. SetupWhole' /\ SanctumWhole'
        BY <1>3, <1>6, SetupUntouched, SanctumUntouched DEF ScaffoldInv
    <2>2. SetupWriting' /\ SanctumWriting'
        BY <1>2, <1>6 DEF SetupWriting, SanctumWriting
    <2> QED
        BY <1>1, <2>1, <2>2 DEF ScaffoldInv
<1> QED
    BY <1>2, <1>4, <1>5, <1>6 DEF ScaffoldInv, ScaffoldTyped

\* Every step keeps the invariant.
LEMMA ScaffoldKeeps ==
    ASSUME ScaffoldInv, [ScaffoldNext]_scaffoldVars
    PROVE  ScaffoldInv'
<1>1. ASSUME SkipFile PROVE ScaffoldInv'
    <2>1. /\ stage = "write" /\ job.kind = "standalone" /\ ~halfway
          /\ UNCHANGED <<tree, job, stage, halfway>> /\ todo' = Tail(todo) /\ todo # <<>>
        BY <1>1 DEF SkipFile
    <2>2. todo' \in Seq(FileWrites)
        BY <2>1, ToSetTail DEF ScaffoldInv, ScaffoldTyped
    <2>3. ScaffoldTyped'
        BY <2>1, <2>2 DEF ScaffoldInv, ScaffoldTyped, FileWrites, FileNames, FileContents
    <2>4. SetupWriting' /\ SanctumWriting'
        BY <2>1 DEF SetupWriting, SanctumWriting
    <2> QED
        BY <2>1, <2>3, <2>4, Untouched, TreeSame DEF ScaffoldInv
<1>2. ASSUME CreateFile PROVE ScaffoldInv'
    <2>1. WriteStep("empty", todo) /\ todo # <<>>
        BY <1>2 DEF CreateFile, WriteStep
    <2> QED
        BY <2>1, WriteKeeps
<1>3. ASSUME FillFile PROVE ScaffoldInv'
    <2>1. WriteStep(Head(todo)[2], Tail(todo)) /\ ~halfway'
        BY <1>3 DEF FillFile, WriteStep, ScaffoldInv, ScaffoldTyped
    <2> QED
        BY <2>1, WriteKeeps
<1>4. ASSUME NEW how, Stopped(how) PROVE ScaffoldInv'
    <2>1. todo' = <<>> /\ stage' = "idle" /\ UNCHANGED tree
        BY <1>4 DEF Stopped
    <2>2. ScaffoldTyped'
        BY <2>1 DEF ScaffoldTyped, FileWrites, FileNames, FileContents
    <2>3. SetupWriting' /\ SanctumWriting'
        BY <2>1 DEF SetupWriting, SanctumWriting
    <2> QED
        BY <2>1, <2>2, <2>3, Untouched, TreeSame DEF ScaffoldInv
<1>5. ASSUME UNCHANGED scaffoldVars PROVE ScaffoldInv'
    BY <1>5, ScaffoldSame DEF scaffoldVars
<1> QED
    BY <1>1, <1>2, <1>3, <1>4, <1>5, BeginSetupKeeps, BeginSanctumKeeps, BeginStandaloneKeeps,
       RemoveFileKeeps, RemoveDoneKeeps DEF ScaffoldNext, EndScaffold, CrashScaffold

\* A setup skill that is there from before was made by the script, and the
\* agent has no sanctum yet.
BornOfScripts(trees) ==
    \A t \in trees :
        /\ Sanctum \notin DOMAIN t
        /\ SetupSkill \in DOMAIN t =>
              \A f \in {"SKILL.md", "module.yaml", "module-help.csv"} :
                  f \in DOMAIN t[SetupSkill] => t[SetupSkill][f] = "given"

\* The scaffolds start with the invariant.
LEMMA ScaffoldStarts ==
    ASSUME NEW trees, NEW products, BornOfScripts(trees), ScaffoldInit(trees, products)
    PROVE  ScaffoldInv
<1>1. ScaffoldTyped
    BY DEF ScaffoldInit, ScaffoldTyped, FileWrites, FileNames, FileContents
<1>2. SetupWriting /\ SanctumWriting
    BY DEF ScaffoldInit, SetupWriting, SanctumWriting
<1>3. SetupWhole
    BY DEF ScaffoldInit, BornOfScripts, SetupWhole, HasText, Whole, Has
<1>4. SanctumWhole
    BY DEF ScaffoldInit, BornOfScripts, SanctumWhole, CapabilitiesListed, Has
<1> QED
    BY <1>1, <1>2, <1>3, <1>4 DEF ScaffoldInv

\* The invariant gives what the last files vouch for.
LEMMA VouchesWhole ==
    ASSUME ScaffoldInv
    PROVE  LastFileVouches
<1>1. ASSUME SetupSkill \in Candidates, Passes(SetupSkill)
      PROVE  /\ Whole(SetupSkill)
             /\ \A s \in Folders \ {SetupSkill} : Reachable(s)
    <2>1. SetupSkill \in Setups
        <3>1. SetupSkill \in DOMAIN tree
            BY <1>1 DEF Candidates, Setups, Folders
        <3> QED
            BY <3>1 DEF Setups
    <2> QED
        BY <1>1, <2>1, PassingHasText, PassingHasFiles DEF ScaffoldInv, SetupWhole
<1>2. Whole(SetupSkill) /\ Sound /\ Setups = {SetupSkill} => Passes(SetupSkill)
    BY SoundPasses
<1>3. ASSUME CapabilitiesListed
      PROVE  /\ \A f \in (Capabilities \ SkillOnly) \cup ToSet(AgentScripts) :
                    Has(Sanctum, f) /\ tree[Sanctum][f] = "copied"
             /\ \A f \in ToSet(SanctumFiles) \ {"CAPABILITIES.md"} :
                    Has(Sanctum, f) /\ tree[Sanctum][f] = "filled"
    <2>1. \A p \in ToSet(SanctumPlan) : p[1] = "CAPABILITIES.md" \/ Copied(p)
        BY <1>3 DEF ScaffoldInv, SanctumWhole
    <2>2. ASSUME NEW f \in (Capabilities \ SkillOnly) \cup ToSet(AgentScripts)
          PROVE  Has(Sanctum, f) /\ tree[Sanctum][f] = "copied"
        <3>1. <<f, "copied">> \in ToSet(SanctumPlan) /\ f # "CAPABILITIES.md"
            BY PlanIs, ScaffoldAssumption
        <3> QED
            BY <2>1, <3>1 DEF Copied
    <2>3. ASSUME NEW f \in ToSet(SanctumFiles) \ {"CAPABILITIES.md"}
          PROVE  Has(Sanctum, f) /\ tree[Sanctum][f] = "filled"
        <3>1. <<f, "filled">> \in ToSet(SanctumPlan)
            BY PlanIs
        <3> QED
            BY <2>1, <3>1 DEF Copied
    <2> QED
        BY <2>2, <2>3
<1> QED
    BY <1>1, <1>2, <1>3 DEF LastFileVouches, Reachable, CapabilitiesListed

\* The setup skill passes validate-module.py only whole, with every skill reached by a
\* code of its own, and does pass when the generated files are sound; the sanctum lists
\* the capabilities only with every file in place.  For any files, names and products, and
\* scaffolds that stop anywhere.
THEOREM ScaffoldsVouch ==
    ASSUME NEW trees, NEW products, BornOfScripts(trees)
    PROVE  ScaffoldSpec(trees, products) => []LastFileVouches
<1>1. ScaffoldInit(trees, products) => ScaffoldInv
    BY ScaffoldStarts
<1>2. ScaffoldInv /\ [ScaffoldNext]_scaffoldVars => ScaffoldInv'
    BY ScaffoldKeeps
<1>3. ScaffoldInv => LastFileVouches
    BY VouchesWhole
<1> QED
    BY <1>1, <1>2, <1>3, PTL DEF ScaffoldSpec

-----------------------------------------------------------------------------
(* SkillCatalog: exactly the first skill of each name. *)

\* The roots there may be: a folder has each name once.
SkillKind(N) == [name : N, file : {"none", "bad", "read"}, surfaces : SUBSET Surfaces]

RootKind(N) ==
    {r \in [exists : BOOLEAN, skills : Seq(SkillKind(N))] :
        \A i, j \in DOMAIN r.skills : r.skills[i].name = r.skills[j].name => i = j}

EntryKind(N) == [name : N, root : Nat, surface : Surfaces, team : BOOLEAN, user : BOOLEAN]

\* The skill at a place, and whether it is in a root that is there and can be read.
SkillOf(r, i) == skillsRoots[r].skills[i]
InOne(r, i) == r \in DOMAIN skillsRoots /\ skillsRoots[r].exists /\ i \in DOMAIN skillsRoots[r].skills
ReadAt(r, i) == InOne(r, i) /\ SkillOf(r, i).file = "read"

\* No earlier root has a readable skill of the name.
FirstAt(r, i) == \A q, j : ReadAt(q, j) /\ SkillOf(q, j).name = SkillOf(r, i).name => r <= q

\* The places the scan has been at.
Scanned(r, i) == r < atRoot \/ (r = atRoot /\ i <= atSkill)

\* The names taken are those of the readable skills scanned.
NamesInv == \A n : n \in seenNames <=> \E r, i : ReadAt(r, i) /\ Scanned(r, i) /\ SkillOf(r, i).name = n

\* Entry e lists the i-th skill of its root, the first of its name.
Backs(e, i) ==
    /\ ReadAt(e.root, i) /\ Scanned(e.root, i) /\ FirstAt(e.root, i)
    /\ SkillOf(e.root, i).name = e.name /\ e.surface \in SkillOf(e.root, i).surfaces

\* The entries are those of the first skills scanned, each surface once.
EntriesInv(N) ==
    /\ entries \in Seq(EntryKind(N))
    /\ \A e \in ToSet(entries) : \E i : Backs(e, i)
    /\ \A r, i : ReadAt(r, i) /\ Scanned(r, i) /\ FirstAt(r, i) =>
          \A s \in SkillOf(r, i).surfaces : \E e \in ToSet(entries) :
              e.name = SkillOf(r, i).name /\ e.root = r /\ e.surface = s
    /\ \A k, l \in 1 .. Len(entries) :
          entries[k].name = entries[l].name /\ entries[k].surface = entries[l].surface => k = l

\* The roots and files that are reported.
ErrorsInv ==
    /\ \A r : MissingRoot(r) \in scanErrors <=>
                  r \in DOMAIN skillsRoots /\ r < atRoot /\ ~skillsRoots[r].exists
    /\ \A r, i : InOne(r, i) /\ SkillOf(r, i).file = "bad" /\ Scanned(r, i) =>
                    BadSkill(r, SkillOf(r, i).name) \in scanErrors

\* The invariant of the scan.
CatalogTyped(N) == skillsRoots \in Seq(RootKind(N)) /\ atRoot \in Nat \ {0} /\ atSkill \in Nat
CatalogInv(N) == CatalogTyped(N) /\ NamesInv /\ EntriesInv(N) /\ ErrorsInv

\* A place in a root: its numbers, and no other place has its name.
LEMMA SkillTyped ==
    ASSUME NEW N, CatalogTyped(N), NEW r, NEW i, InOne(r, i)
    PROVE  /\ r \in Nat /\ i \in Nat /\ r >= 1 /\ r <= Len(skillsRoots)
           /\ i >= 1 /\ i <= Len(skillsRoots[r].skills) /\ Len(skillsRoots[r].skills) \in Nat
           /\ SkillOf(r, i) \in SkillKind(N)
           /\ \A j : InOne(r, j) /\ SkillOf(r, j).name = SkillOf(r, i).name => j = i
<1>1. skillsRoots \in Seq(RootKind(N))
    BY DEF CatalogTyped
<1>2. r \in 1 .. Len(skillsRoots) /\ skillsRoots[r] \in RootKind(N)
    BY <1>1 DEF InOne
<1>3. PICK list : list = skillsRoots[r].skills
    OBVIOUS
<1>4. list \in Seq(SkillKind(N)) /\ i \in DOMAIN list
      /\ \A k, j \in DOMAIN list : list[k].name = list[j].name => k = j
    BY <1>2, <1>3 DEF RootKind, InOne
<1>5. i \in 1 .. Len(list) /\ list[i] \in SkillKind(N)
    BY <1>4
<1> QED
    BY <1>2, <1>3, <1>4, <1>5 DEF InOne, SkillOf

\* The roots stay as they are.
LEMMA RootsSame ==
    ASSUME UNCHANGED skillsRoots
    PROVE  /\ \A r, i : SkillOf(r, i)' = SkillOf(r, i)
           /\ \A r, i : InOne(r, i)' = InOne(r, i)
           /\ \A r, i : ReadAt(r, i)' = ReadAt(r, i)
           /\ \A r, i : FirstAt(r, i)' = FirstAt(r, i)
<1>1. /\ \A r, i : SkillOf(r, i)' = SkillOf(r, i)
      /\ \A r, i : InOne(r, i)' = InOne(r, i)
    BY DEF SkillOf, InOne
<1>2. \A r, i : ReadAt(r, i)' = ReadAt(r, i)
    BY <1>1 DEF ReadAt
<1> QED
    BY <1>1, <1>2 DEF FirstAt

\* The entries stay right as long as what is scanned anew adds nothing.
LEMMA EntriesKept ==
    ASSUME NEW N, EntriesInv(N), UNCHANGED <<skillsRoots, entries>>,
           \A r, i : ReadAt(r, i) /\ Scanned(r, i) => Scanned(r, i)',
           \A r, i : ReadAt(r, i) /\ Scanned(r, i)' /\ ~Scanned(r, i) => ~FirstAt(r, i)
    PROVE  EntriesInv(N)'
<1>1. entries' = entries
    OBVIOUS
<1>2. \A e \in ToSet(entries) : \E i : Backs(e, i)'
    BY RootsSame DEF EntriesInv, Backs
<1>3. \A r, i : ReadAt(r, i)' /\ Scanned(r, i)' /\ FirstAt(r, i)' =>
          \A s \in SkillOf(r, i)'.surfaces : \E e \in ToSet(entries) :
              e.name = SkillOf(r, i)'.name /\ e.root = r /\ e.surface = s
    BY RootsSame DEF EntriesInv
<1>4. EntryKind(N)' = EntryKind(N)
    BY DEF EntryKind, Surfaces
<1> QED
    BY <1>1, <1>2, <1>3, <1>4 DEF EntriesInv

\* The names stay right as long as what is scanned anew adds none.
LEMMA NamesKept ==
    ASSUME NamesInv, UNCHANGED <<skillsRoots, seenNames>>,
           \A r, i : ReadAt(r, i) /\ Scanned(r, i) => Scanned(r, i)',
           \A r, i : ReadAt(r, i) /\ Scanned(r, i)' /\ ~Scanned(r, i) => SkillOf(r, i).name \in seenNames
    PROVE  NamesInv'
<1>1. seenNames' = seenNames
    OBVIOUS
<1>2. \A n : n \in seenNames => \E r, i : ReadAt(r, i)' /\ Scanned(r, i)' /\ SkillOf(r, i)'.name = n
    BY RootsSame DEF NamesInv
<1>3. \A r, i : ReadAt(r, i)' /\ Scanned(r, i)' => SkillOf(r, i)'.name \in seenNames
    BY RootsSame DEF NamesInv
<1> QED
    BY <1>1, <1>2, <1>3 DEF NamesInv

\* The actions, one by one.
LEMMA NextRootKeeps ==
    ASSUME NEW N, CatalogInv(N), NextRoot
    PROVE  CatalogInv(N)'
<1>1. /\ CatalogTyped(N) /\ UNCHANGED <<skillsRoots, overrides, seenNames, entries>>
      /\ atRoot' = atRoot + 1 /\ atSkill' = 0 /\ atRoot <= Len(skillsRoots)
      /\ atRoot \in Nat \ {0} /\ atSkill \in Nat /\ skillsRoots \in Seq(RootKind(N))
      /\ atRoot \in DOMAIN skillsRoots
    BY DEF CatalogInv, CatalogTyped, NextRoot, ScanDone
<1>2. CatalogTyped(N)'
    <2>1. RootKind(N)' = RootKind(N)
        BY DEF RootKind, SkillKind, Surfaces
    <2> QED
        BY <1>1, <2>1 DEF CatalogTyped
<1>3. \A r, i : InOne(r, i) => (Scanned(r, i)' <=> Scanned(r, i))
    <2>1. SUFFICES ASSUME NEW r, NEW i, InOne(r, i)
                   PROVE  Scanned(r, i)' <=> Scanned(r, i)
        OBVIOUS
    <2>2. r \in Nat /\ i \in Nat /\ i >= 1 /\ i <= Len(skillsRoots[r].skills) /\ Len(skillsRoots[r].skills) \in Nat
        BY <1>1, <2>1, SkillTyped
    <2>3. r = atRoot => i <= atSkill
        BY <1>1, <2>1, <2>2 DEF NextRoot, InRoot, ScanDone, InOne
    <2> QED
        BY <1>1, <2>2, <2>3 DEF Scanned
<1>4. \A r, i : ReadAt(r, i) => (Scanned(r, i)' <=> Scanned(r, i))
    BY <1>3 DEF ReadAt
<1>5. NamesInv'
    BY <1>1, <1>4, NamesKept DEF CatalogInv
<1>6. EntriesInv(N)'
    BY <1>1, <1>4, EntriesKept DEF CatalogInv
<1>7. ErrorsInv'
    <2>1. scanErrors' = IF skillsRoots[atRoot].exists THEN scanErrors
                        ELSE scanErrors \cup {MissingRoot(atRoot)}
        BY DEF NextRoot
    <2>2. \A r, n : BadSkill(r, n) \in scanErrors' <=> BadSkill(r, n) \in scanErrors
        BY <2>1 DEF BadSkill, MissingRoot
    <2>3. \A r : MissingRoot(r) \in scanErrors' <=>
                    MissingRoot(r) \in scanErrors \/ (r = atRoot /\ ~skillsRoots[atRoot].exists)
        BY <2>1 DEF MissingRoot
    <2>4. \A r : r \in DOMAIN skillsRoots => (r < atRoot + 1 <=> r < atRoot \/ r = atRoot)
        BY <1>1
    <2>5. \A r : MissingRoot(r) \in scanErrors' <=>
                    r \in DOMAIN skillsRoots /\ r < atRoot' /\ ~skillsRoots[r].exists
        BY <1>1, <2>3, <2>4 DEF CatalogInv, ErrorsInv
    <2>6. \A r, i : InOne(r, i)' /\ SkillOf(r, i)'.file = "bad" /\ Scanned(r, i)' =>
                        BadSkill(r, SkillOf(r, i)'.name) \in scanErrors'
        BY <1>1, <1>3, <2>2, RootsSame DEF CatalogInv, ErrorsInv
    <2> QED
        BY <1>1, <2>5, <2>6 DEF ErrorsInv, BadSkill, MissingRoot
<1> QED
    BY <1>2, <1>5, <1>6, <1>7 DEF CatalogInv

\* One skill more is scanned.
SkillStep ==
    /\ InRoot /\ atSkill' = atSkill + 1
    /\ UNCHANGED <<skillsRoots, overrides, atRoot>>

\* What such a step adds to what is scanned.
LEMMA SkillSteps ==
    ASSUME NEW N, CatalogInv(N), SkillStep
    PROVE  /\ CatalogTyped(N)' /\ InOne(atRoot, atSkill + 1)
           /\ Skill = SkillOf(atRoot, atSkill + 1) /\ ~Scanned(atRoot, atSkill + 1)
           /\ \A r, i : InOne(r, i) =>
                 (Scanned(r, i)' <=> Scanned(r, i) \/ (r = atRoot /\ i = atSkill + 1))
<1>1. /\ CatalogTyped(N) /\ skillsRoots \in Seq(RootKind(N)) /\ atRoot \in Nat \ {0} /\ atSkill \in Nat
      /\ atRoot' = atRoot /\ atSkill' = atSkill + 1 /\ skillsRoots' = skillsRoots
      /\ atRoot <= Len(skillsRoots) /\ skillsRoots[atRoot].exists
      /\ atSkill < Len(skillsRoots[atRoot].skills)
    BY DEF CatalogInv, CatalogTyped, SkillStep, InRoot, ScanDone
<1>2. CatalogTyped(N)'
    <2>1. RootKind(N)' = RootKind(N)
        BY DEF RootKind, SkillKind, Surfaces
    <2> QED
        BY <1>1, <2>1 DEF CatalogTyped
<1>3. InOne(atRoot, atSkill + 1)
    <2>1. atRoot \in DOMAIN skillsRoots /\ skillsRoots[atRoot] \in RootKind(N)
        BY <1>1
    <2>2. PICK list : list = skillsRoots[atRoot].skills
        OBVIOUS
    <2>3. list \in Seq(SkillKind(N)) /\ atSkill < Len(list)
        BY <1>1, <2>1, <2>2 DEF RootKind
    <2>4. atSkill + 1 \in DOMAIN list
        BY <1>1, <2>3
    <2> QED
        BY <1>1, <2>1, <2>2, <2>4 DEF InOne
<1>4. ASSUME NEW r, NEW i, InOne(r, i)
      PROVE  Scanned(r, i)' <=> Scanned(r, i) \/ (r = atRoot /\ i = atSkill + 1)
    <2>1. r \in Nat /\ i \in Nat
        BY <1>1, <1>4, SkillTyped
    <2> QED
        BY <1>1, <2>1 DEF Scanned
<1>5. ~Scanned(atRoot, atSkill + 1)
    BY <1>1 DEF Scanned
<1> QED
    BY <1>2, <1>3, <1>4, <1>5 DEF Skill, SkillOf

\* What is reported of roots does not change, of skills it does not shrink.
LEMMA ErrorsKept ==
    ASSUME NEW N, CatalogInv(N), SkillStep,
           \A r : MissingRoot(r) \in scanErrors' <=> MissingRoot(r) \in scanErrors,
           scanErrors \subseteq scanErrors',
           Skill.file = "bad" => BadSkill(atRoot, Skill.name) \in scanErrors'
    PROVE  ErrorsInv'
<1>1. skillsRoots' = skillsRoots /\ atRoot' = atRoot
    BY DEF SkillStep
<1>2. \A r : MissingRoot(r) \in scanErrors' <=>
                r \in DOMAIN skillsRoots /\ r < atRoot /\ ~skillsRoots[r].exists
    BY DEF CatalogInv, ErrorsInv
<1>3. \A r, i : InOne(r, i)' /\ SkillOf(r, i)'.file = "bad" /\ Scanned(r, i)' =>
                    BadSkill(r, SkillOf(r, i)'.name) \in scanErrors'
    BY <1>1, RootsSame, SkillSteps DEF CatalogInv, ErrorsInv
<1> QED
    BY <1>1, <1>2, <1>3 DEF ErrorsInv, BadSkill, MissingRoot

LEMMA PassOverKeeps ==
    ASSUME NEW N, CatalogInv(N), PassOver
    PROVE  CatalogInv(N)'
<1>1. SkillStep /\ UNCHANGED <<skillsRoots, seenNames, entries>> /\ Skill.file \in {"none", "bad"}
    BY DEF PassOver, SkillStep
<1>2. CatalogTyped(N)'
    BY <1>1, SkillSteps
<1>3. \A r, i : ReadAt(r, i) => (Scanned(r, i)' <=> Scanned(r, i))
    BY <1>1, SkillSteps DEF ReadAt
<1>4. NamesInv' /\ EntriesInv(N)'
    BY <1>1, <1>3, NamesKept, EntriesKept DEF CatalogInv
<1>5. scanErrors' = IF Skill.file = "bad" THEN scanErrors \cup {BadSkill(atRoot, Skill.name)} ELSE scanErrors
    BY DEF PassOver
<1>6. \A r : MissingRoot(r) \in scanErrors' <=> MissingRoot(r) \in scanErrors
    BY <1>5 DEF MissingRoot, BadSkill
<1>7. ErrorsInv'
    BY <1>1, <1>5, <1>6, ErrorsKept
<1> QED
    BY <1>2, <1>4, <1>7 DEF CatalogInv

LEMMA ShadowedKeeps ==
    ASSUME NEW N, CatalogInv(N), Shadowed
    PROVE  CatalogInv(N)'
<1>1. /\ SkillStep /\ UNCHANGED <<skillsRoots, seenNames, entries, scanErrors>>
      /\ Skill.file = "read" /\ Skill.name \in seenNames
    BY DEF Shadowed, SkillStep
<1>2. CatalogTyped(N) /\ CatalogTyped(N)'
    BY <1>1, SkillSteps DEF CatalogInv
<1>3. PICK R, K, s : R = atRoot /\ K = atSkill + 1 /\ s = Skill
    OBVIOUS
<1>4. /\ InOne(R, K) /\ s = SkillOf(R, K) /\ ~Scanned(R, K)
      /\ \A r, i : InOne(r, i) => (Scanned(r, i)' <=> Scanned(r, i) \/ (r = R /\ i = K))
    BY <1>1, <1>3, SkillSteps
<1>5. \A r, i : ReadAt(r, i) => (Scanned(r, i)' <=> Scanned(r, i) \/ (r = R /\ i = K))
    BY <1>4 DEF ReadAt
<1>6. ~FirstAt(R, K)
    <2>1. PICK q, j : ReadAt(q, j) /\ Scanned(q, j) /\ SkillOf(q, j).name = s.name
        BY <1>1, <1>3 DEF CatalogInv, NamesInv
    <2>2. q < R
        <3>1. CASE q = R
            <4>1. j = K
                BY <1>2, <1>4, <2>1, <3>1, SkillTyped DEF ReadAt
            <4> QED
                BY <1>4, <2>1, <3>1, <4>1
        <3> QED
            BY <1>3, <2>1, <3>1 DEF Scanned
    <2>3. q \in Nat /\ R \in Nat
        BY <1>2, <1>4, <2>1, SkillTyped DEF ReadAt
    <2>4. ~(R <= q)
        BY <2>2, <2>3
    <2> QED
        BY <1>4, <2>1, <2>4 DEF FirstAt
<1>7. NamesInv'
    BY <1>1, <1>3, <1>4, <1>5, NamesKept DEF CatalogInv
<1>8. EntriesInv(N)'
    BY <1>1, <1>5, <1>6, EntriesKept DEF CatalogInv
<1>9. ErrorsInv'
    BY <1>1, ErrorsKept
<1> QED
    BY <1>2, <1>7, <1>8, <1>9 DEF CatalogInv

LEMMA ListSkillKeeps ==
    ASSUME NEW N, CatalogInv(N), ListSkill
    PROVE  CatalogInv(N)'
<1>1. /\ SkillStep /\ skillsRoots' = skillsRoots /\ seenNames' = seenNames \cup {Skill.name}
      /\ Skill.file = "read" /\ Skill.name \notin seenNames
    BY DEF ListSkill, SkillStep, NamesWith
<1>2. CatalogTyped(N) /\ CatalogTyped(N)'
    BY <1>1, SkillSteps DEF CatalogInv
<1>3. PICK R, K, s : R = atRoot /\ K = atSkill + 1 /\ s = Skill
    OBVIOUS
<1>4. /\ InOne(R, K) /\ s = SkillOf(R, K) /\ ~Scanned(R, K)
      /\ \A r, i : InOne(r, i) => (Scanned(r, i)' <=> Scanned(r, i) \/ (r = R /\ i = K))
    BY <1>1, <1>3, SkillSteps
<1>5. /\ \A r, i : ReadAt(r, i) => (Scanned(r, i)' <=> Scanned(r, i) \/ (r = R /\ i = K))
      /\ ReadAt(R, K)
    BY <1>1, <1>3, <1>4 DEF ReadAt
<1>6. s \in SkillKind(N) /\ R \in Nat
    BY <1>2, <1>4, SkillTyped
<1>7. FirstAt(R, K)
    <2>1. SUFFICES ASSUME NEW q, NEW j, ReadAt(q, j), SkillOf(q, j).name = s.name
                   PROVE  R <= q
        BY <1>4 DEF FirstAt
    <2>2. ~Scanned(q, j)
        BY <1>1, <1>3, <2>1 DEF CatalogInv, NamesInv
    <2>3. q \in Nat
        BY <1>2, <2>1, SkillTyped DEF ReadAt
    <2> QED
        BY <1>3, <1>6, <2>2, <2>3 DEF Scanned
<1>8. NamesInv'
    <2>1. \A n : n \in seenNames => \E r, i : ReadAt(r, i)' /\ Scanned(r, i)' /\ SkillOf(r, i)'.name = n
        BY <1>1, <1>5, RootsSame DEF CatalogInv, NamesInv
    <2>2. ReadAt(R, K)' /\ Scanned(R, K)' /\ SkillOf(R, K)'.name = s.name
        BY <1>1, <1>4, <1>5, RootsSame
    <2>3. \A r, i : ReadAt(r, i)' /\ Scanned(r, i)' => SkillOf(r, i)'.name \in seenNames \cup {s.name}
        BY <1>1, <1>4, <1>5, RootsSame DEF CatalogInv, NamesInv
    <2> QED
        BY <1>1, <1>3, <2>1, <2>2, <2>3 DEF NamesInv
<1>9. PICK E : E = {[name |-> s.name, root |-> R, surface |-> f,
                     team |-> <<s.name, "team">> \in overrides,
                     user |-> <<s.name, "user">> \in overrides] : f \in s.surfaces}
    OBVIOUS
<1>10. PICK list : list = SetToSeq(E)
    OBVIOUS
<1>11. entries' = entries \o list
    BY <1>3, <1>9, <1>10 DEF ListSkill
<1>12. /\ \A e \in E : e \in EntryKind(N) /\ e.name = s.name /\ e.root = R /\ e.surface \in s.surfaces
       /\ \A f \in s.surfaces : \E e \in E : e.surface = f
       /\ \A e, o \in E : e.surface = o.surface => e = o
    <2>1. \A f \in s.surfaces : f \in Surfaces /\ s.name \in N
        BY <1>6 DEF SkillKind
    <2>2. PICK T, U : T = (<<s.name, "team">> \in overrides) /\ U = (<<s.name, "user">> \in overrides)
        OBVIOUS
    <2>3. T \in BOOLEAN /\ U \in BOOLEAN
        BY <2>2
    <2>4. E = {[name |-> s.name, root |-> R, surface |-> f, team |-> T, user |-> U] : f \in s.surfaces}
        BY <1>9, <2>2
    <2>5. ASSUME NEW e \in E
          PROVE  e \in EntryKind(N) /\ e.name = s.name /\ e.root = R /\ e.surface \in s.surfaces
                 /\ e = [name |-> s.name, root |-> R, surface |-> e.surface, team |-> T, user |-> U]
        <3>1. PICK f \in s.surfaces : e = [name |-> s.name, root |-> R, surface |-> f, team |-> T, user |-> U]
            BY <2>4
        <3> QED
            BY <1>6, <2>1, <2>3, <3>1 DEF EntryKind
    <2>6. ASSUME NEW f \in s.surfaces
          PROVE  \E e \in E : e.surface = f
        <3>1. PICK e : e = [name |-> s.name, root |-> R, surface |-> f, team |-> T, user |-> U]
            OBVIOUS
        <3> QED
            BY <2>4, <3>1
    <2> QED
        BY <2>5, <2>6
<1>13. IsFiniteSet(E)
    <2>1. IsFiniteSet(Surfaces)
        <3>1. IsFiniteSet({"agent"})
            BY FS_Singleton
        <3>2. IsFiniteSet({"agent"} \cup {"workflow"})
            BY <3>1, FS_AddElement
        <3>3. Surfaces = {"agent"} \cup {"workflow"}
            BY DEF Surfaces
        <3> QED
            BY <3>2, <3>3
    <2>2. IsFiniteSet(s.surfaces)
        BY <1>6, <2>1, FS_Subset DEF SkillKind
    <2>3. PICK g : g = [f \in s.surfaces |-> [name |-> s.name, root |-> R, surface |-> f,
                           team |-> <<s.name, "team">> \in overrides,
                           user |-> <<s.name, "user">> \in overrides]]
        OBVIOUS
    <2>4. g \in Surjection(s.surfaces, E)
        BY <1>9, <2>3 DEF Surjection
    <2> QED
        BY <2>2, <2>4, FS_Surjection
<1>14. /\ list \in Seq(EntryKind(N)) /\ ToSet(list) = E
       /\ \A i, j \in 1 .. Len(list) : list[i] = list[j] => i = j
       /\ \A i \in 1 .. Len(list) : list[i] \in E
    <2>1. list \in Seq(E) /\ ToSet(list) = E /\ \A i, j \in 1 .. Len(list) : list[i] = list[j] => i = j
        BY <1>10, <1>13, SetToSeqGives
    <2> QED
        BY <1>12, <2>1
<1>15. /\ entries \in Seq(EntryKind(N)) /\ entries' \in Seq(EntryKind(N))
       /\ ToSet(entries') = ToSet(entries) \cup E
    <2>1. entries \in Seq(EntryKind(N))
        BY DEF CatalogInv, EntriesInv
    <2> QED
        BY <1>11, <1>14, <2>1, ToSetConcat
<1>16. \A e \in ToSet(entries) : e.name \in seenNames
    BY DEF CatalogInv, EntriesInv, Backs, NamesInv
<1>17. \A e \in ToSet(entries') : \E i : Backs(e, i)'
    <2>1. ASSUME NEW e \in ToSet(entries)
          PROVE  \E i : Backs(e, i)'
        <3>1. PICK i : Backs(e, i)
            BY DEF CatalogInv, EntriesInv
        <3>2. Backs(e, i)'
            BY <1>1, <1>5, <3>1, RootsSame DEF Backs
        <3> QED
            BY <3>2
    <2>2. ASSUME NEW e \in E
          PROVE  Backs(e, K)'
        BY <1>1, <1>4, <1>5, <1>7, <1>12, RootsSame DEF Backs
    <2> QED
        BY <1>15, <2>1, <2>2
<1>18. ASSUME NEW r, NEW i, ReadAt(r, i)', Scanned(r, i)', FirstAt(r, i)', NEW f \in SkillOf(r, i)'.surfaces
       PROVE  \E e \in ToSet(entries') : e.name = SkillOf(r, i)'.name /\ e.root = r /\ e.surface = f
    <2>1. ReadAt(r, i) /\ FirstAt(r, i) /\ SkillOf(r, i)' = SkillOf(r, i)
        BY <1>1, <1>18, RootsSame
    <2>2. CASE Scanned(r, i)
        BY <1>15, <1>18, <2>1, <2>2 DEF CatalogInv, EntriesInv
    <2>3. CASE r = R /\ i = K
        BY <1>4, <1>12, <1>15, <1>18, <2>1, <2>3
    <2> QED
        BY <1>5, <1>18, <2>1, <2>2, <2>3
<1>19. \A k, l \in 1 .. Len(entries') :
          entries'[k].name = entries'[l].name /\ entries'[k].surface = entries'[l].surface => k = l
    <2>1. PICK m \in Nat, n \in Nat : m = Len(entries) /\ n = Len(list)
        BY <1>14, <1>15
    <2>2. /\ Len(entries') = m + n
          /\ \A k \in 1 .. m : entries'[k] = entries[k]
          /\ \A k \in 1 .. (m + n) : k > m => k - m \in 1 .. n /\ entries'[k] = list[k - m]
        BY <1>11, <1>14, <1>15, <2>1
    <2>3. \A k \in 1 .. m : entries[k].name \in seenNames
        BY <1>15, <1>16, <2>1, ToSetIs
    <2>4. \A k \in 1 .. (m + n) : k > m => entries'[k].name \notin seenNames
        BY <1>1, <1>3, <1>12, <1>14, <2>1, <2>2
    <2>5. SUFFICES ASSUME NEW k \in 1 .. (m + n), NEW l \in 1 .. (m + n),
                          entries'[k].name = entries'[l].name, entries'[k].surface = entries'[l].surface
                   PROVE  k = l
        BY <2>2
    <2>6. CASE k <= m /\ l <= m
        <3>1. k \in 1 .. m /\ l \in 1 .. m
            BY <2>6
        <3> QED
            BY <2>1, <2>2, <2>5, <3>1 DEF CatalogInv, EntriesInv
    <2>7. CASE k > m /\ l > m
        <3>1. /\ k - m \in 1 .. n /\ entries'[k] = list[k - m]
              /\ l - m \in 1 .. n /\ entries'[l] = list[l - m]
            BY <2>2, <2>7
        <3>2. list[k - m] = list[l - m]
            BY <1>12, <1>14, <2>1, <2>5, <3>1
        <3>3. k - m = l - m
            BY <1>14, <2>1, <3>1, <3>2
        <3> QED
            BY <3>3
    <2>8. CASE k <= m /\ l > m
        <3>1. k \in 1 .. m
            BY <2>8
        <3> QED
            BY <2>2, <2>3, <2>4, <2>5, <2>8, <3>1
    <2>9. CASE k > m /\ l <= m
        <3>1. l \in 1 .. m
            BY <2>9
        <3> QED
            BY <2>2, <2>3, <2>4, <2>5, <2>9, <3>1
    <2> QED
        BY <2>6, <2>7, <2>8, <2>9
<1>20. EntriesInv(N)'
    <2>1. EntryKind(N)' = EntryKind(N)
        BY DEF EntryKind, Surfaces
    <2> QED
        BY <1>15, <1>17, <1>18, <1>19, <2>1 DEF EntriesInv
<1>21. ErrorsInv'
    <2>1. scanErrors' = IF Skill.surfaces = {} THEN scanErrors \cup {BadSkill(atRoot, Skill.name)} ELSE scanErrors
        BY DEF ListSkill
    <2>2. \A r : MissingRoot(r) \in scanErrors' <=> MissingRoot(r) \in scanErrors
        BY <2>1 DEF MissingRoot, BadSkill
    <2> QED
        BY <1>1, <2>1, <2>2, ErrorsKept
<1> QED
    BY <1>2, <1>8, <1>20, <1>21 DEF CatalogInv

\* Every step keeps the invariant.
LEMMA CatalogKeeps ==
    ASSUME NEW N, CatalogInv(N), [CatalogNext]_catalogVars
    PROVE  CatalogInv(N)'
<1>1. ASSUME UNCHANGED catalogVars PROVE CatalogInv(N)'
    <2>1. UNCHANGED <<skillsRoots, atRoot, atSkill, seenNames, entries, scanErrors>>
        BY <1>1 DEF catalogVars
    <2>2. \A r, i : Scanned(r, i)' <=> Scanned(r, i)
        BY <2>1 DEF Scanned
    <2>3. NamesInv' /\ EntriesInv(N)'
        BY <2>1, <2>2, NamesKept, EntriesKept DEF CatalogInv
    <2>4. CatalogTyped(N)'
        BY <2>1 DEF CatalogInv, CatalogTyped, RootKind, SkillKind, Surfaces
    <2>5. ErrorsInv'
        BY <2>1, <2>2, RootsSame DEF CatalogInv, ErrorsInv, MissingRoot, BadSkill
    <2> QED
        BY <2>3, <2>4, <2>5 DEF CatalogInv
<1> QED
    BY <1>1, NextRootKeeps, PassOverKeeps, ShadowedKeeps, ListSkillKeeps DEF CatalogNext

\* The scan starts with the invariant.
LEMMA CatalogStarts ==
    ASSUME NEW N, NEW rootLists \in SUBSET Seq(RootKind(N)), NEW overrideSets,
           CatalogInit(rootLists, overrideSets)
    PROVE  CatalogInv(N)
<1>1. /\ atRoot = 1 /\ atSkill = 0 /\ seenNames = {} /\ entries = <<>> /\ scanErrors = {}
      /\ skillsRoots \in Seq(RootKind(N))
    <2>1. PICK given \in rootLists : skillsRoots = Distinct(given)
        BY DEF CatalogInit, DistinctRoots
    <2>2. Distinct(given) \in Seq(RootKind(N))
        BY DistinctGives
    <2> QED
        BY <2>1, <2>2 DEF CatalogInit
<1>2. CatalogTyped(N)
    BY <1>1 DEF CatalogTyped
<1>3. \A r, i : InOne(r, i) => ~Scanned(r, i)
    BY <1>1, <1>2, SkillTyped DEF Scanned
<1>4. \A r \in DOMAIN skillsRoots : ~(r < atRoot)
    BY <1>1
<1>5. NamesInv
    BY <1>1, <1>3 DEF NamesInv, ReadAt
<1>6. EntriesInv(N)
    BY <1>1, <1>3 DEF EntriesInv, ReadAt, ToSet
<1>7. ErrorsInv
    BY <1>1, <1>3, <1>4 DEF ErrorsInv
<1> QED
    BY <1>2, <1>5, <1>6, <1>7 DEF CatalogInv

\* At the end, the invariant gives the list.
LEMMA CatalogRight ==
    ASSUME NEW N, CatalogInv(N)
    PROVE  CatalogExact
<1>1. SUFFICES ASSUME ScanDone
               PROVE  CatalogExact
    BY DEF CatalogExact
<1>2. CatalogTyped(N) /\ skillsRoots \in Seq(RootKind(N)) /\ atRoot \in Nat /\ atRoot > Len(skillsRoots)
    BY <1>1 DEF CatalogInv, CatalogTyped, ScanDone
<1>3. \A r \in DOMAIN skillsRoots : r \in Nat /\ r < atRoot /\ r <= Len(skillsRoots)
    BY <1>2
<1>4. \A r, i : InOne(r, i) => Scanned(r, i)
    BY <1>3 DEF InOne, Scanned
<1>5. /\ \A p \in Readable : p = <<p[1], p[2]>> /\ ReadAt(p[1], p[2]) /\ SkillAt(p) = SkillOf(p[1], p[2])
      /\ \A r, i : ReadAt(r, i) => <<r, i>> \in Readable
    BY DEF Readable, SkillAt, ReadAt, InOne, SkillOf
<1>6. ASSUME NEW p \in Readable
      PROVE  LET name == SkillAt(p).name
                 first == Min({q[1] : q \in {o \in Readable : SkillAt(o).name = name}})
             IN  \A s \in Surfaces :
                   LET listed == {i \in DOMAIN entries : entries[i].name = name /\ entries[i].surface = s}
                   IN  IF p[1] = first
                       THEN /\ Cardinality(listed) = IF s \in SkillAt(p).surfaces THEN 1 ELSE 0
                            /\ \A i \in listed : entries[i].root = first
                       ELSE \A i \in listed : entries[i].root # p[1]
    <2>1. PICK name, D : name = SkillAt(p).name
                         /\ D = {q[1] : q \in {o \in Readable : SkillAt(o).name = name}}
        OBVIOUS
    <2>2. PICK r, k : r = p[1] /\ k = p[2]
        OBVIOUS
    <2>3. ReadAt(r, k) /\ SkillAt(p) = SkillOf(r, k) /\ SkillOf(r, k).name = name
        BY <1>5, <2>1, <2>2
    <2>4. \A q : q \in D <=> \E j : ReadAt(q, j) /\ SkillOf(q, j).name = name
        <3>1. ASSUME NEW q \in D
              PROVE  \E j : ReadAt(q, j) /\ SkillOf(q, j).name = name
            BY <1>5, <2>1, <3>1
        <3>2. ASSUME NEW q, NEW j, ReadAt(q, j), SkillOf(q, j).name = name
              PROVE  q \in D
            <4>1. PICK o : o = <<q, j>>
                OBVIOUS
            <4>2. o \in Readable /\ o[1] = q /\ o[2] = j
                BY <1>5, <3>2, <4>1
            <4>3. SkillAt(o).name = name
                BY <1>5, <3>2, <4>2
            <4> QED
                BY <2>1, <4>2, <4>3
        <3> QED
            BY <3>1, <3>2
    <2>5. PICK first : first = Min(D)
        OBVIOUS
    <2>6. first \in D /\ (\A q \in D : first <= q) /\ r \in D /\ D \subseteq Nat
        <3>1. D \subseteq 1 .. Len(skillsRoots)
            BY <1>2, <2>4, SkillTyped DEF ReadAt
        <3>2. Len(skillsRoots) \in Nat
            BY <1>2
        <3>3. IsFiniteSet(1 .. Len(skillsRoots))
            BY <3>2, FS_Interval
        <3>4. IsFiniteSet(D) /\ D \in SUBSET Int
            <4>1. IsFiniteSet(D)
                BY <3>1, <3>3, FS_Subset
            <4>2. D \in SUBSET Int
                BY <3>1, <3>2
            <4> QED
                BY <4>1, <4>2
        <3>5. r \in D
            BY <2>3, <2>4
        <3>6. first \in D /\ \A q \in D : first <= q
            BY <2>5, <3>4, <3>5, MinIn
        <3> QED
            BY <3>1, <3>5, <3>6
    <2>7. \A q, j : ReadAt(q, j) /\ SkillOf(q, j).name = name => (FirstAt(q, j) <=> q = first)
        <3>1. SUFFICES ASSUME NEW q, NEW j, ReadAt(q, j), SkillOf(q, j).name = name
                       PROVE  FirstAt(q, j) <=> q = first
            OBVIOUS
        <3>2. q \in D /\ q \in Nat /\ first \in Nat
            BY <2>4, <2>6, <3>1
        <3>3. FirstAt(q, j) <=> \A o \in D : q <= o
            BY <2>4, <3>1 DEF FirstAt
        <3> QED
            BY <2>6, <3>2, <3>3
    <2>8. \A i \in DOMAIN entries : entries[i] \in ToSet(entries)
        BY DEF ToSet
    <2>9. \A i \in DOMAIN entries : entries[i].name = name => entries[i].root = first
        BY <2>7, <2>8 DEF CatalogInv, EntriesInv, Backs
    <2>10. ASSUME NEW s \in Surfaces, NEW listed,
                  listed = {i \in DOMAIN entries : entries[i].name = name /\ entries[i].surface = s},
                  r = first
           PROVE  Cardinality(listed) = IF s \in SkillOf(r, k).surfaces THEN 1 ELSE 0
        <3>1. CASE s \in SkillOf(r, k).surfaces
            <4>1. ReadAt(r, k) /\ Scanned(r, k) /\ FirstAt(r, k)
                BY <1>4, <2>3, <2>7, <2>10 DEF ReadAt
            <4>2. PICK e \in ToSet(entries) : e.name = name /\ e.surface = s
                BY <2>3, <3>1, <4>1 DEF CatalogInv, EntriesInv
            <4>3. PICK i \in DOMAIN entries : entries[i] = e
                BY <4>2 DEF ToSet
            <4>4. \A l \in DOMAIN entries : entries[l].name = name /\ entries[l].surface = s => l = i
                <5>1. DOMAIN entries = 1 .. Len(entries)
                    BY DEF CatalogInv, EntriesInv
                <5> QED
                    BY <4>2, <4>3, <5>1 DEF CatalogInv, EntriesInv
            <4>5. listed = {i}
                BY <2>10, <4>2, <4>3, <4>4
            <4> QED
                BY <3>1, <4>5, FS_Singleton
        <3>2. CASE s \notin SkillOf(r, k).surfaces
            <4>1. ASSUME NEW i \in listed
                  PROVE  FALSE
                <5>1. PICK j : Backs(entries[i], j)
                    BY <2>8, <2>10 DEF CatalogInv, EntriesInv
                <5>2. /\ ReadAt(r, j) /\ SkillOf(r, j).name = name /\ s \in SkillOf(r, j).surfaces
                    BY <2>9, <2>10, <5>1 DEF Backs
                <5>3. j = k
                    BY <1>2, <2>3, <5>2, SkillTyped DEF ReadAt
                <5> QED
                    BY <3>2, <5>2, <5>3
            <4>2. listed = {}
                BY <4>1
            <4> QED
                BY <3>2, <4>2, FS_EmptySet
        <3> QED
            BY <3>1, <3>2
    <2> QED
        BY <2>1, <2>2, <2>3, <2>5, <2>9, <2>10
<1>7. ASSUME NEW i \in DOMAIN entries
      PROVE  \E p \in Readable : SkillAt(p).name = entries[i].name
    <2>1. entries[i] \in ToSet(entries)
        BY DEF ToSet
    <2>2. PICK j : Backs(entries[i], j)
        BY <2>1 DEF CatalogInv, EntriesInv
    <2>3. PICK p : p = <<entries[i].root, j>>
        OBVIOUS
    <2>4. p \in Readable /\ p[1] = entries[i].root /\ p[2] = j
        BY <1>5, <2>2, <2>3 DEF Backs
    <2>5. SkillAt(p).name = entries[i].name
        BY <1>5, <2>2, <2>4 DEF Backs
    <2> QED
        BY <2>4, <2>5
<1>8. \A r \in DOMAIN skillsRoots : ~skillsRoots[r].exists <=> MissingRoot(r) \in scanErrors
    BY <1>3 DEF CatalogInv, ErrorsInv
<1>9. ASSUME NEW r \in DOMAIN skillsRoots, skillsRoots[r].exists, NEW i \in DOMAIN skillsRoots[r].skills,
             skillsRoots[r].skills[i].file = "bad"
      PROVE  BadSkill(r, skillsRoots[r].skills[i].name) \in scanErrors
    BY <1>4, <1>9 DEF CatalogInv, ErrorsInv, InOne, SkillOf
<1> QED
    BY <1>6, <1>7, <1>8, <1>9 DEF CatalogExact

\* list_customizable_skills.py lists exactly the surfaces of the first readable skill of
\* each name, and reports every root that is missing and every file it cannot read, for
\* any roots in which no name is twice.
THEOREM CatalogListsExactly ==
    ASSUME NEW Names, NEW rootLists \in SUBSET Seq(RootKind(Names)), NEW overrideSets
    PROVE  CatalogSpec(rootLists, overrideSets) => []CatalogExact
<1>1. CatalogInit(rootLists, overrideSets) => CatalogInv(Names)
    BY CatalogStarts
<1>2. CatalogInv(Names) /\ [CatalogNext]_catalogVars => CatalogInv(Names)'
    BY CatalogKeeps
<1>3. CatalogInv(Names) => CatalogExact
    BY CatalogRight
<1> QED
    BY <1>1, <1>2, <1>3, PTL DEF CatalogSpec

-----------------------------------------------------------------------------
(* SkillScans: what passes is sound. *)

\* What a use of a path can be, and what can come of a linter.
AllKinds == {"double-prefix", "absolute-path", "relative-prefix", "cross-dir"} \cup BmadPaths
Hows == {"no-runner", "not-started", "timeout", "garbled", "silent", "listed"}
LintResult == [how : Hows, levels : SUBSET {"high", "medium"}]

\* What the scans' expressions can see in a skill.
WellSeen(s) ==
    /\ \A p \in DOMAIN s.files :
          /\ s.files[p].number \in Nat
          /\ \A u \in s.files[p].uses : u.kind \in AllKinds /\ u.back \in Nat
    /\ \A i \in DOMAIN s.scripts : s.scripts[i].language \in {"python", "shell", "node"}
    /\ Len(s.scripts) \in Nat /\ DOMAIN s.scripts = 1 .. Len(s.scripts)

\* A rule that applies is a finding.
LEMMA Applies ==
    ASSUME NEW rules, NEW about, NEW c, NEW sev, NEW cat, <<c, sev, cat>> \in rules, c
    PROVE  <<sev, cat, about>> \in Apply(rules, about)
<1>1. PICK r : r = <<c, sev, cat>>
    OBVIOUS
<1>2. r \in rules /\ r[1] /\ r[2] = sev /\ r[3] = cat
    BY <1>1
<1> QED
    BY <1>2 DEF Apply

\* A scan that passes has neither critical nor high findings...
LEMMA PassesClean ==
    ASSUME NEW F, Status(F) = "pass", NEW f \in F
    PROVE  f[1] # "critical" /\ f[1] # "high"
BY DEF Status

\* ... and one of execution no medium one either.
LEMMA ExecutionClean ==
    ASSUME NEW F, ExecutionStatus(F) = "pass", NEW f \in F
    PROVE  f[1] \notin {"critical", "high", "medium"}
BY DEF ExecutionStatus

\* No finding of a scan that passes is critical or high.
LEMMA NotFound ==
    ASSUME NEW F, Status(F) = "pass", NEW a, NEW b
    PROVE  <<"critical", a, b>> \notin F /\ <<"high", a, b>> \notin F
<1>1. PICK f, g : f = <<"critical", a, b>> /\ g = <<"high", a, b>>
    OBVIOUS
<1>2. f[1] = "critical" /\ g[1] = "high"
    BY <1>1
<1> QED
    BY <1>1, <1>2, PassesClean

\* No marker known is left in a text that was scanned.
LEMMA NoMarkers ==
    ASSUME NEW F, Status(F) = "pass", NEW T, NEW known, NEW about,
           ArtifactFindings(T, known, about) \subseteq F
    PROVE  T.left \cap known = {}
<1>1. SUFFICES ASSUME NEW m \in T.left \cap known PROVE FALSE
    OBVIOUS
<1>2. <<"high", "artifacts", <<m, about>>>> \in ArtifactFindings(T, known, about)
    BY DEF ArtifactFindings
<1> QED
    BY <1>2, NotFound

\* The sections required are there.
LEMMA SectionsThere ==
    ASSUME NEW F, Status(F) = "pass", NEW required, SectionFindings(required) \subseteq F
    PROVE  required \subseteq Main.sections
<1>1. SUFFICES ASSUME NEW s \in required, s \notin Main.sections PROVE FALSE
    OBVIOUS
<1>2. <<"high", "sections", s>> \in SectionFindings(required)
    BY <1>1 DEF SectionFindings
<1> QED
    BY <1>2, NotFound

\* A prompt that was scanned leads on.
LEMMA ProgressThere ==
    ASSUME NEW F, Status(F) = "pass", NEW p,
           Apply({<<~Text(p).header, "medium", "config-header">>,
                  <<~Text(p).progress, "high", "progression">>}, p) \subseteq F
    PROVE  Text(p).progress
<1>1. SUFFICES ASSUME ~Text(p).progress PROVE FALSE
    OBVIOUS
<1>2. PICK rules : rules = {<<~Text(p).header, "medium", "config-header">>,
                            <<~Text(p).progress, "high", "progression">>}
    OBVIOUS
<1>3. <<~Text(p).progress, "high", "progression">> \in rules
    BY <1>2
<1>4. <<"high", "progression", p>> \in Apply(rules, p)
    BY <1>1, <1>3, Applies
<1>5. Apply(rules, p) \subseteq F
    BY <1>2
<1> QED
    BY <1>4, <1>5, NotFound

\* An agent that passes has no marker left and the sections of its kind.
LEMMA AgentSound ==
    ASSUME Status(AgentIssues) = "pass"
    PROVE  /\ ~Main.absent /\ AgentSections \subseteq Main.sections
           /\ Main.left \cap AgentArtifacts = {}
           /\ \A p \in Texts({"root", "references"}) : Text(p).left \cap AgentArtifacts = {} /\ Text(p).progress
<1>1. ~Main.absent
    <2>1. SUFFICES ASSUME Main.absent PROVE FALSE
        OBVIOUS
    <2>2. <<"critical", "missing-file", "SKILL.md">> \in AgentIssues
        BY <2>1 DEF AgentIssues
    <2> QED
        BY <2>2, NotFound
<1>2. /\ SectionFindings(AgentSections) \subseteq AgentIssues
      /\ ArtifactFindings(Main, AgentArtifacts, "SKILL.md") \subseteq AgentIssues
      /\ \A p \in Texts({"root", "references"}) : AgentPrompt(p) \subseteq AgentIssues
    BY <1>1 DEF AgentIssues
<1>3. ASSUME NEW p \in Texts({"root", "references"})
      PROVE  Text(p).left \cap AgentArtifacts = {} /\ Text(p).progress
    <2>1. /\ ArtifactFindings(Text(p), AgentArtifacts, p) \subseteq AgentIssues
          /\ Apply({<<~Text(p).header, "medium", "config-header">>,
                    <<~Text(p).progress, "high", "progression">>}, p) \subseteq AgentIssues
        BY <1>2 DEF AgentPrompt
    <2> QED
        BY <2>1, NoMarkers, ProgressThere
<1> QED
    BY <1>1, <1>2, <1>3, SectionsThere, NoMarkers

\* Every stage a workflow that passes names is a numbered file that leads on.
LEMMA WorkflowSound ==
    ASSUME Status(WorkflowIssues) = "pass"
    PROVE  \A p \in Main.refs :
              /\ p \in DOMAIN skill.files
              /\ Text(p).progress /\ Text(p).left \cap WorkflowArtifacts = {}
<1>1. ~Main.absent
    <2>1. SUFFICES ASSUME Main.absent PROVE FALSE
        OBVIOUS
    <2>2. <<"critical", "missing-file", "SKILL.md">> \in WorkflowIssues
        BY <2>1 DEF WorkflowIssues
    <2> QED
        BY <2>2, NotFound
<1>2. /\ StageFindings \subseteq WorkflowIssues
      /\ \A p \in StageFiles : WorkflowPrompt(p) \subseteq WorkflowIssues
    BY <1>1 DEF WorkflowIssues
<1>3. ASSUME NEW p \in Main.refs
      PROVE  /\ p \in DOMAIN skill.files
             /\ Text(p).progress /\ Text(p).left \cap WorkflowArtifacts = {}
    <2>1. p \in StageFiles
        <3>1. SUFFICES ASSUME p \notin StageFiles PROVE FALSE
            OBVIOUS
        <3>2. <<"critical", "missing-stage", p>> \in StageFindings
            BY <3>1 DEF StageFindings
        <3> QED
            BY <1>2, <3>2, NotFound
    <2>2. p \in DOMAIN skill.files
        BY <2>1 DEF StageFiles, Texts
    <2>3. /\ ArtifactFindings(Text(p), WorkflowArtifacts, p) \subseteq WorkflowIssues
          /\ Apply({<<~Text(p).header, "medium", "config-header">>,
                    <<~Text(p).progress, "high", "progression">>}, p) \subseteq WorkflowIssues
        BY <1>2, <2>1 DEF WorkflowPrompt
    <2> QED
        BY <2>2, <2>3, NoMarkers, ProgressThere
<1> QED
    BY <1>3

\* A scan of execution that passes has no critical and no medium finding.
LEMMA NoneFound ==
    ASSUME NEW F, ExecutionStatus(F) = "pass", NEW a, NEW b, NEW sev \in {"critical", "high", "medium"}
    PROVE  <<sev, a, b>> \notin F
<1>1. PICK f : f = <<sev, a, b>>
    OBVIOUS
<1>2. f[1] = sev
    BY <1>1
<1> QED
    BY <1>1, <1>2, ExecutionClean

\* No prompt of an agent that passes has a pattern.
LEMMA AgentExecutionSound ==
    ASSUME ExecutionStatus(AgentExecutionIssues) = "pass"
    PROVE  \A p \in Texts({"prompts", "agents"}) : Text(p).patterns = {}
<1>1. SUFFICES ASSUME NEW p \in Texts({"prompts", "agents"}), NEW t \in Text(p).patterns PROVE FALSE
    OBVIOUS
<1>2. PICK sev : sev = IF t \in BulkMemory THEN "high" ELSE "medium"
    OBVIOUS
<1>3. <<sev, t, p>> \in PatternFindings(Text(p), p)
    BY <1>2 DEF PatternFindings
<1>4. PatternFindings(Text(p), p) \subseteq AgentExecutionIssues
    BY DEF AgentExecutionIssues
<1>5. sev \in {"critical", "high", "medium"}
    BY <1>2
<1> QED
    BY <1>3, <1>4, <1>5, NoneFound

\* No subagent of a workflow that passes spawns others.
LEMMA WorkflowExecutionSound ==
    ASSUME ExecutionStatus(WorkflowExecutionIssues) = "pass", WellSeen(skill)
    PROVE  \A p \in Texts({"root"}) : Text(p).spawns => Text(p).number > 0
<1>1. SUFFICES ASSUME NEW p \in Texts({"root"}), Text(p).spawns, ~(Text(p).number > 0) PROVE FALSE
    OBVIOUS
<1>2. Text(p).number = 0
    <2>1. Text(p).number \in Nat
        BY DEF Texts, Text, WellSeen
    <2> QED
        BY <1>1, <2>1
<1>3. PICK rules : rules = {<<Text(p).spawns /\ Text(p).number = 0, "critical", "subagent-chain-violation">>}
    OBVIOUS
<1>4. Apply(rules, p) \subseteq WorkflowExecutionIssues
    <2> DEFINE Of(T, about) == PatternFindings([T EXCEPT !.patterns = @ \cap Loops], about)
               At(q) == Of(Text(q), q) \cup Apply({<<Text(q).spawns /\ Text(q).number = 0,
                                           "critical", "subagent-chain-violation">>}, q)
    <2>1. UNION {At(q) : q \in Texts({"root"})} \subseteq WorkflowExecutionIssues
        BY DEF WorkflowExecutionIssues
    <2>2. Apply(rules, p) \subseteq At(p)
        BY <1>3
    <2> HIDE DEF At
    <2> QED
        BY <2>1, <2>2
<1>5. <<Text(p).spawns /\ Text(p).number = 0, "critical", "subagent-chain-violation">> \in rules
    BY <1>3
<1>6. <<"critical", "subagent-chain-violation", p>> \in Apply(rules, p)
    BY <1>1, <1>2, <1>5, Applies
<1> QED
    BY <1>4, <1>6, NoneFound

\* A sanctum without findings is what init-sanctum.py copies.
LEMMA SanctumSound ==
    ASSUME SanctumIssues = {}, SanctumTemplates # {}
    PROVE  /\ StandardTemplates \subseteq skill.init[1].templates
           /\ skill.init[1].templates \subseteq SanctumTemplates
           /\ FirstBreath \in DOMAIN skill.files
<1>1. /\ {<<"critical", "missing-template", t>> : t \in StandardTemplates \ SanctumTemplates} = {}
      /\ InitFindings = {}
      /\ FirstBreath \in DOMAIN skill.files
    BY DEF SanctumIssues
<1>2. StandardTemplates \subseteq SanctumTemplates
    BY <1>1
<1>3. skill.init # <<>>
    BY <1>1 DEF InitFindings
<1>4. skill.init[1].templates = SanctumTemplates
    <2>1. PICK rules : rules = {<<~skill.init[1].named, "critical", "skill-name">>,
                <<skill.init[1].templates # SanctumTemplates, "high", "templates">>}
        OBVIOUS
    <2>2. Apply(rules, "init-sanctum.py") = {}
        BY <1>1, <1>3, <2>1 DEF InitFindings
    <2>3. <<skill.init[1].templates # SanctumTemplates, "high", "templates">> \in rules
        BY <2>1
    <2> QED
        BY <2>2, <2>3, Applies
<1> QED
    BY <1>1, <1>2, <1>4

\* Without findings every path outside of examples stands by its root.
LEMMA PathsSound ==
    ASSUME PathIssues(TRUE) = {}, WellSeen(skill)
    PROVE  \A p \in DOMAIN skill.files :
              \A u \in {v \in Text(p).uses : ~Fenced(v)} :
                  u.kind \in BmadPaths /\ u.back <= (IF u.kind = "_bmad" THEN 30 ELSE 20)
<1>1. SUFFICES ASSUME NEW p \in DOMAIN skill.files, NEW u \in Text(p).uses, ~Fenced(u)
               PROVE  u.kind \in BmadPaths /\ u.back <= (IF u.kind = "_bmad" THEN 30 ELSE 20)
    OBVIOUS
<1>2. u.kind \in AllKinds /\ u.back \in Nat
    BY DEF WellSeen, Text
<1>3. UseFindings(Text(p), TRUE, p) = {}
    BY DEF PathIssues
<1>4. u.kind # "double-prefix"
    BY <1>1, <1>3 DEF UseFindings
<1>5. u.kind \notin {"absolute-path", "relative-prefix", "cross-dir"}
    BY <1>1, <1>3 DEF UseFindings
<1>6. u.kind \in BmadPaths => ~(u.back > 30)
    BY <1>1, <1>3 DEF UseFindings
<1>7. u.kind = "_bmad/memory" => ~(u.back > 20)
    BY <1>1, <1>3 DEF UseFindings
<1> QED
    BY <1>2, <1>4, <1>5, <1>6, <1>7 DEF AllKinds, BmadPaths

\* A critical or high rule does not apply where a scan passes.
LEMMA ApplyOnly ==
    ASSUME NEW about, NEW rules, NEW c, NEW sev, NEW cat, <<c, sev, cat>> \in rules,
           NEW F, Status(F) = "pass", Apply(rules, about) \subseteq F, sev \in {"critical", "high"}
    PROVE  ~c
<1>1. SUFFICES ASSUME c PROVE FALSE
    OBVIOUS
<1>2. <<sev, cat, about>> \in Apply(rules, about)
    BY <1>1, Applies
<1> QED
    BY <1>2, NotFound

\* A Python script without critical findings parses and asks nothing.
LEMMA PythonSound ==
    ASSUME NEW s, NEW F, Status(F) = "pass", PythonFindings(s) \subseteq F
    PROVE  ~Is(s, "syntax-error") /\ ~Is(s, "input")
<1>1. ~Is(s, "syntax-error")
    <2>1. PICK rules : rules = {<<~Is(s, "pep723") /\ Is(s, "imports"), "medium", "dependencies">>,
           <<Is(s, "pep723") /\ ~Is(s, "requires-python"), "low", "dependencies">>,
           <<Is(s, "pip"), "high", "dependencies">>,
           <<Is(s, "syntax-error"), "critical", "error-handling">>}
        OBVIOUS
    <2>2. <<Is(s, "syntax-error"), "critical", "error-handling">> \in rules
        BY <2>1
    <2>3. Apply(rules, s.name) \subseteq F
        BY <2>1 DEF PythonFindings
    <2> QED
        BY <2>2, <2>3, ApplyOnly
<1>2. ~Is(s, "input")
    <2>1. PICK rules : rules = {<<Is(s, "input"), "critical", "agentic-design">>,
                      <<~Is(s, "argparse") /\ s.lines > 20, "medium", "agentic-design">>,
                      <<~Is(s, "dumps") /\ s.lines > 20, "medium", "agentic-design">>,
                      <<~Is(s, "exit") /\ s.lines > 20, "low", "agentic-design">>,
                      <<Is(s, "file-imports") /\ s.lines < 30, "low", "over-engineered">>,
                      <<s.lines < 5, "medium", "over-engineered">>}
        OBVIOUS
    <2>2. <<Is(s, "input"), "critical", "agentic-design">> \in rules
        BY <2>1
    <2>3. Apply(rules, s.name) \subseteq F
        BY <1>1, <2>1 DEF PythonFindings
    <2> QED
        BY <2>2, <2>3, ApplyOnly
<1> QED
    BY <1>1, <1>2

\* A shell script without high findings says what runs it.
LEMMA ShellSound ==
    ASSUME NEW s, NEW F, Status(F) = "pass", ShellFindings(s) \subseteq F
    PROVE  Is(s, "shebang")
<1>1. PICK rules : rules = {<<~Is(s, "shebang"), "high", "portability">>,
           <<Is(s, "shebang") /\ ~Is(s, "env"), "medium", "portability">>,
           <<~Is(s, "set-e"), "medium", "error-handling">>,
           <<Is(s, "hardcoded") \/ Is(s, "gnu-only"), "medium", "portability">>,
           <<Is(s, "unquoted"), "low", "portability">>,
           <<Is(s, "unpinned"), "medium", "dependencies">>,
           <<s.lines < 5, "medium", "over-engineered">>}
    OBVIOUS
<1>2. <<~Is(s, "shebang"), "high", "portability">> \in rules
    BY <1>1
<1>3. Apply(rules, s.name) \subseteq F
    BY <1>1 DEF ShellFindings
<1> QED
    BY <1>2, <1>3, ApplyOnly

\* A linter that leaves no high finding was started and listed no grave problem.
LEMMA LintSound ==
    ASSUME NEW s, s.language \in {"python", "shell", "node"}, NEW r, NEW F, Status(F) = "pass",
           LintFindings(s, r) \subseteq F
    PROVE  r.how \notin {"no-runner", "not-started"} /\ "high" \notin r.levels
<1>1. RunnerFindings(r, s.name) \subseteq LintFindings(s, r)
    <2>1. CASE s.language = "python"
        BY <2>1 DEF LintFindings, RuffFindings
    <2>2. CASE s.language = "shell"
        BY <2>2 DEF LintFindings, ShellcheckFindings
    <2>3. CASE s.language = "node"
        BY <2>3 DEF LintFindings, BiomeFindings
    <2> QED
        BY <2>1, <2>2, <2>3
<1>2. r.how \notin {"no-runner", "not-started"}
    <2>1. PICK rules : rules = {<<r.how \in {"no-runner", "not-started"}, "high", "lint-setup">>,
           <<r.how \in {"timeout", "garbled"}, "medium", "lint">>}
        OBVIOUS
    <2>2. <<r.how \in {"no-runner", "not-started"}, "high", "lint-setup">> \in rules
        BY <2>1
    <2>3. Apply(rules, s.name) \subseteq F
        BY <1>1, <2>1 DEF RunnerFindings
    <2> QED
        BY <2>2, <2>3, ApplyOnly
<1>3. "high" \notin r.levels
    <2>1. SUFFICES ASSUME "high" \in r.levels PROVE FALSE
        OBVIOUS
    <2>2. <<"high", "lint", s.name>> \in RunnerFindings(r, s.name)
        BY <2>1 DEF RunnerFindings
    <2> QED
        BY <1>1, <2>2, NotFound
<1> QED
    BY <1>2, <1>3

\* The invariant: a scan that has ended has its findings, and every script
\* scanned has left its own.
ScriptFound(i) ==
    PatternChecks(skill.scripts[i]) \cup TestFindings(skill.scripts[i])
    \cup LintFindings(skill.scripts[i], linted[i])
NoTests == Apply({<<skill.scripts # <<>> /\ skill.tests = <<>>, "high", "tests">>}, "tests")
ScansInv ==
    /\ WellSeen(skill)
    /\ DOMAIN issues = Scans
    /\ \A scan \in Scans \ {"scripts"} : Ended(scan) => issues[scan][1] = Found(scan)
    /\ scriptsDone \in Nat /\ linted \in Seq(LintResult) /\ Len(linted) = scriptsDone
    /\ scriptsDone <= Len(skill.scripts)
    /\ \A i \in 1 .. scriptsDone : ScriptFound(i) \subseteq scriptIssues
    /\ Ended("scripts") => /\ scriptsDone = Len(skill.scripts)
                           /\ scriptIssues \cup NoTests \subseteq issues["scripts"][1]

\* The scans start with the invariant.
LEMMA ScansStart ==
    ASSUME NEW skills, \A s \in skills : WellSeen(s), ScanInit(skills)
    PROVE  ScansInv
<1>1. skill \in skills /\ WellSeen(skill) /\ linted = <<>> /\ scriptsDone = 0
    BY DEF ScanInit
<1>2. linted \in Seq(LintResult) /\ Len(linted) = 0
    BY <1>1
<1>3. DOMAIN issues = Scans /\ \A scan \in Scans : ~Ended(scan)
    BY DEF ScanInit, Ended
<1>4. "scripts" \in Scans
    BY DEF Scans
<1>5. Len(skill.scripts) \in Nat
    BY <1>1 DEF WellSeen
<1>6. scriptsDone \in Nat /\ scriptsDone <= Len(skill.scripts) /\ Len(linted) = scriptsDone
    BY <1>1, <1>2, <1>5
<1>7. \A i \in 1 .. scriptsDone : ScriptFound(i) \subseteq scriptIssues
    BY <1>1
<1> QED
    BY <1>1, <1>2, <1>3, <1>4, <1>6, <1>7 DEF ScansInv

\* While the skill is the same, so is what every scan finds in it.
LEMMA FoundSame ==
    ASSUME skill' = skill
    PROVE  \A scan : Found(scan)' = Found(scan)
<1>1. /\ Main' = Main /\ \A p : Text(p)' = Text(p)
      /\ \A dirs : Texts(dirs)' = Texts(dirs)
    BY DEF Main, Text, Texts
<1>2. AgentIssues' = AgentIssues
    <2>1. SanctumTemplates' = SanctumTemplates /\ IsMemoryAgent' = IsMemoryAgent
        BY <1>1 DEF SanctumTemplates, IsMemoryAgent
    <2>2. \A p : AgentPrompt(p)' = AgentPrompt(p)
        BY <1>1 DEF AgentPrompt
    <2>3. \A required : SectionFindings(required)' = SectionFindings(required)
        BY <1>1 DEF SectionFindings
    <2>4. AgentSections' = AgentSections
        BY <2>1 DEF AgentSections
    <2> QED
        BY <1>1, <2>2, <2>3, <2>4 DEF AgentIssues
<1>3. WorkflowIssues' = WorkflowIssues
    <2>1. StageFiles' = StageFiles
        BY <1>1 DEF StageFiles
    <2>2. Numbers' = Numbers
        BY <1>1, <2>1 DEF Numbers
    <2>3. NumberGaps' = NumberGaps
        BY <2>1, <2>2 DEF NumberGaps
    <2>4. StageFindings' = StageFindings
        BY <1>1, <2>1, <2>3 DEF StageFindings
    <2>5. \A p : WorkflowPrompt(p)' = WorkflowPrompt(p)
        BY <1>1 DEF WorkflowPrompt
    <2>6. SectionFindings({"Overview", "On Activation"})' = SectionFindings({"Overview", "On Activation"})
        BY <1>1 DEF SectionFindings
    <2>7. UNION {WorkflowPrompt(p) : p \in StageFiles}' = UNION {WorkflowPrompt(p) : p \in StageFiles}
        BY <2>1, <2>5
    <2> QED
        BY <1>1, <2>4, <2>6, <2>7 DEF WorkflowIssues
<1>4. AgentExecutionIssues' = AgentExecutionIssues
    BY <1>1 DEF AgentExecutionIssues
<1>5. WorkflowExecutionIssues' = WorkflowExecutionIssues
    <2> DEFINE Of(T, about) == PatternFindings([T EXCEPT !.patterns = @ \cap Loops], about)
               At(q, T) == Of(T, q) \cup Apply({<<T.spawns /\ T.number = 0,
                                           "critical", "subagent-chain-violation">>}, q)
               Rest == IF Main.absent THEN {} ELSE Of(Main, "SKILL.md")
    <2>1. WorkflowExecutionIssues = UNION {At(q, Text(q)) : q \in Texts({"root"})} \cup Rest
        BY DEF WorkflowExecutionIssues
    <2>2. WorkflowExecutionIssues' = UNION {At(q, Text(q)') : q \in Texts({"root"})'} \cup Rest'
        BY DEF WorkflowExecutionIssues
    <2>3. Rest' = Rest
        BY <1>1
    <2> HIDE DEF At, Rest
    <2> QED
        BY <1>1, <2>1, <2>2, <2>3
<1>6. SanctumIssues' = SanctumIssues
    <2>1. SanctumTemplates' = SanctumTemplates /\ \A p : SectionsAt(p)' = SectionsAt(p)
        BY <1>1 DEF SanctumTemplates, SectionsAt
    <2>2. BreathSections' = BreathSections /\ InitFindings' = InitFindings
        BY <2>1 DEF BreathSections, InitFindings
    <2> QED
        BY <1>1, <2>1, <2>2 DEF SanctumIssues
<1>7. PathIssues(TRUE)' = PathIssues(TRUE) /\ PathIssues(FALSE)' = PathIssues(FALSE)
    <2>1. \A m : PathIssues(m)' = PathIssues(m)
        BY <1>1 DEF PathIssues
    <2> QED
        BY <2>1
<1> QED
    BY <1>2, <1>3, <1>4, <1>5, <1>6, <1>7 DEF Found

\* The names of the scans of a structure.
LEMMA StructureScan ==
    ASSUME NEW i \in DOMAIN StructureScans
    PROVE  StructureScans[i] \in Scans /\ StructureScans[i] # "scripts"
<1>1. DOMAIN StructureScans = 1 .. 7
    BY DEF StructureScans
<1>2. StructureScans[i] # "scripts"
    BY <1>1 DEF StructureScans
<1> QED
    BY <1>2 DEF Scans

\* The end of a scan of the structure keeps it.
LEMMA StructureKeeps ==
    ASSUME ScansInv, ScanStructure
    PROVE  ScansInv'
<1>1. PICK i \in DOMAIN StructureScans :
         issues' = [issues EXCEPT ![StructureScans[i]] = <<Found(StructureScans[i])>>]
    BY DEF ScanStructure
<1>2. UNCHANGED <<skill, scriptsDone, scriptIssues, linted>>
    BY DEF ScanStructure
<1>3. PICK name : name = StructureScans[i]
    OBVIOUS
<1>4. name \in Scans /\ name # "scripts" /\ DOMAIN issues = Scans
    BY <1>3, StructureScan DEF ScansInv
<1>5. \A scan : Found(scan)' = Found(scan)
    BY <1>2, FoundSame
<1>6. DOMAIN issues' = Scans /\ issues'[name][1] = Found(name)
      /\ \A scan \in Scans \ {name} : issues'[scan] = issues[scan]
    BY <1>1, <1>3, <1>4
<1>7. \A scan \in Scans \ {"scripts"} : Ended(scan)' => issues'[scan][1] = Found(scan)'
    BY <1>5, <1>6 DEF Ended, ScansInv
<1>8. Ended("scripts")' = Ended("scripts") /\ issues'["scripts"] = issues["scripts"]
    <2>1. "scripts" \in Scans
        BY DEF Scans
    <2> QED
        BY <1>4, <1>6, <2>1 DEF Ended
<1>9. NoTests' = NoTests /\ \A k : ScriptFound(k)' = ScriptFound(k)
    BY <1>2 DEF NoTests, ScriptFound, TestFindings
<1> QED
    BY <1>2, <1>6, <1>7, <1>8, <1>9 DEF ScansInv

\* One script more keeps it.
LEMMA ScriptKeeps ==
    ASSUME ScansInv, ScanScript
    PROVE  ScansInv'
<1>1. /\ ~Ended("scripts") /\ scriptsDone < Len(skill.scripts)
      /\ scriptsDone' = scriptsDone + 1 /\ skill' = skill /\ issues' = issues
    BY DEF ScanScript
<1>2. PICK n \in Nat : n = scriptsDone
    BY DEF ScansInv
<1>3. PICK s : s = skill.scripts[n + 1]
    OBVIOUS
<1>4. PICK r \in LintResults(s) : /\ scriptIssues' = scriptIssues \cup PatternChecks(s) \cup TestFindings(s)
                                              \cup LintFindings(s, r)
                                  /\ linted' = Append(linted, r)
    BY <1>2, <1>3 DEF ScanScript
<1>5. r \in LintResult
    BY DEF LintResults, LintResult, Hows
<1>6. linted \in Seq(LintResult) /\ Len(linted) = n
    BY <1>2 DEF ScansInv
<1>7. /\ linted' \in Seq(LintResult) /\ Len(linted') = n + 1
      /\ linted'[n + 1] = r /\ \A i \in 1 .. n : linted'[i] = linted[i]
    BY <1>4, <1>5, <1>6
<1>8. Len(skill.scripts) \in Nat
    BY DEF ScansInv, WellSeen
<1>9. \A k : TestFindings(k)' = TestFindings(k)
    BY <1>1 DEF TestFindings
<1>10. ASSUME NEW i \in 1 .. (n + 1)
       PROVE  ScriptFound(i)' \subseteq scriptIssues'
    <2>1. CASE i \in 1 .. n
        <3>1. ScriptFound(i)' = ScriptFound(i)
            BY <1>1, <1>7, <2>1 DEF ScriptFound, TestFindings
        <3>2. ScriptFound(i) \subseteq scriptIssues
            BY <1>2, <2>1 DEF ScansInv
        <3> QED
            BY <1>4, <3>1, <3>2
    <2>2. CASE i = n + 1
        <3>1. ScriptFound(i)' = PatternChecks(s) \cup TestFindings(s) \cup LintFindings(s, r)
            BY <1>1, <1>3, <1>7, <2>2 DEF ScriptFound, TestFindings
        <3> QED
            BY <1>4, <3>1
    <2> QED
        BY <1>2, <2>1, <2>2
<1>11. /\ Ended("scripts")' = Ended("scripts") /\ \A scan : Found(scan)' = Found(scan)
       /\ \A scan : Ended(scan)' = Ended(scan)
    BY <1>1, FoundSame DEF Ended
<1>12. scriptsDone' = n + 1 /\ scriptsDone' \in Nat /\ scriptsDone' <= Len(skill'.scripts)
    BY <1>1, <1>2, <1>8
<1>13. \A i \in 1 .. scriptsDone' : ScriptFound(i)' \subseteq scriptIssues'
    BY <1>10, <1>12
<1> QED
    BY <1>1, <1>7, <1>11, <1>12, <1>13 DEF ScansInv

\* The end of the scan of scripts keeps it.
LEMMA ScriptsEndKeeps ==
    ASSUME ScansInv, ScriptsEnd
    PROVE  ScansInv'
<1>1. /\ scriptsDone = Len(skill.scripts) /\ UNCHANGED <<skill, scriptsDone, scriptIssues, linted>>
      /\ issues' = [issues EXCEPT !["scripts"] = <<scriptIssues \cup NoTests>>]
    BY DEF ScriptsEnd, NoTests
<1>2. "scripts" \in Scans /\ DOMAIN issues = Scans
    BY DEF Scans, ScansInv
<1>3. /\ DOMAIN issues' = Scans /\ issues'["scripts"][1] = scriptIssues \cup NoTests
      /\ \A scan \in Scans \ {"scripts"} : issues'[scan] = issues[scan]
    BY <1>1, <1>2
<1>4. \A scan : Found(scan)' = Found(scan)
    BY <1>1, FoundSame
<1>5. \A scan \in Scans \ {"scripts"} : Ended(scan)' => issues'[scan][1] = Found(scan)'
    BY <1>3, <1>4 DEF Ended, ScansInv
<1>6. NoTests' = NoTests /\ \A k : ScriptFound(k)' = ScriptFound(k)
    BY <1>1 DEF NoTests, ScriptFound, TestFindings
<1>7. scriptsDone' = Len(skill'.scripts) /\ scriptIssues' \cup NoTests' \subseteq issues'["scripts"][1]
    BY <1>1, <1>3, <1>6
<1> QED
    BY <1>1, <1>3, <1>5, <1>6, <1>7 DEF ScansInv

\* Every step keeps it.
LEMMA ScansKeep ==
    ASSUME ScansInv, [ScanNext]_scanVars
    PROVE  ScansInv'
<1>1. CASE UNCHANGED scanVars
    <2>1. \A scan : Found(scan)' = Found(scan)
        BY <1>1, FoundSame DEF scanVars
    <2>2. NoTests' = NoTests /\ \A k : ScriptFound(k)' = ScriptFound(k)
        BY <1>1 DEF NoTests, ScriptFound, TestFindings, scanVars
    <2>3. \A scan : Ended(scan)' = Ended(scan)
        BY <1>1 DEF Ended, scanVars
    <2> QED
        BY <1>1, <2>1, <2>2, <2>3 DEF ScansInv, scanVars
<1> QED
    BY <1>1, StructureKeeps, ScriptKeeps, ScriptsEndKeeps DEF ScanNext

\* The scripts: what passes was found by the scan of each of them.
LEMMA ScriptsSound ==
    ASSUME ScansInv, Ended("scripts"), Status(issues["scripts"][1]) = "pass"
    PROVE  /\ skill.scripts # <<>> => skill.tests # <<>>
           /\ \A i \in DOMAIN skill.scripts :
                LET s == skill.scripts[i]
                IN  /\ s.language = "python" => ~Is(s, "syntax-error") /\ ~Is(s, "input")
                    /\ s.language = "shell" => Is(s, "shebang")
                    /\ linted[i].how \notin {"no-runner", "not-started"}
                    /\ linted[i].how = "listed" => "high" \notin linted[i].levels
<1>1. PICK F : F = issues["scripts"][1]
    OBVIOUS
<1>2. Status(F) = "pass" /\ scriptIssues \subseteq F /\ NoTests \subseteq F /\ scriptsDone = Len(skill.scripts)
    BY <1>1 DEF ScansInv
<1>3. skill.scripts # <<>> => skill.tests # <<>>
    <2>1. PICK rules : rules = {<<skill.scripts # <<>> /\ skill.tests = <<>>, "high", "tests">>}
        OBVIOUS
    <2>2. <<skill.scripts # <<>> /\ skill.tests = <<>>, "high", "tests">> \in rules
        BY <2>1
    <2>3. Apply(rules, "tests") \subseteq F
        BY <1>2, <2>1 DEF NoTests
    <2> QED
        BY <1>2, <2>2, <2>3, ApplyOnly
<1>4. ASSUME NEW i \in DOMAIN skill.scripts, NEW s, s = skill.scripts[i]
      PROVE  /\ s.language = "python" => ~Is(s, "syntax-error") /\ ~Is(s, "input")
             /\ s.language = "shell" => Is(s, "shebang")
             /\ linted[i].how \notin {"no-runner", "not-started"}
             /\ linted[i].how = "listed" => "high" \notin linted[i].levels
    <2>1. i \in 1 .. scriptsDone /\ s.language \in {"python", "shell", "node"}
        BY <1>2, <1>4 DEF ScansInv, WellSeen
    <2>2. PatternChecks(s) \subseteq F /\ LintFindings(s, linted[i]) \subseteq F
        <3>1. ScriptFound(i) \subseteq scriptIssues
            BY <2>1 DEF ScansInv
        <3> QED
            BY <1>2, <1>4, <3>1 DEF ScriptFound
    <2>3. s.language = "python" => ~Is(s, "syntax-error") /\ ~Is(s, "input")
        <3>1. SUFFICES ASSUME s.language = "python" PROVE ~Is(s, "syntax-error") /\ ~Is(s, "input")
            OBVIOUS
        <3>2. PythonFindings(s) \subseteq F
            BY <2>2, <3>1 DEF PatternChecks
        <3> QED
            BY <1>2, <3>2, PythonSound
    <2>4. s.language = "shell" => Is(s, "shebang")
        <3>1. SUFFICES ASSUME s.language = "shell" PROVE Is(s, "shebang")
            OBVIOUS
        <3>2. ShellFindings(s) \subseteq F
            BY <2>2, <3>1 DEF PatternChecks
        <3> QED
            BY <1>2, <3>2, ShellSound
    <2>5. linted[i].how \notin {"no-runner", "not-started"} /\ "high" \notin linted[i].levels
        BY <1>2, <2>1, <2>2, LintSound
    <2> QED
        BY <2>3, <2>4, <2>5
<1> QED
    BY <1>3, <1>4

\* What passes is sound.
LEMMA ScansVouch ==
    ASSUME ScansInv
    PROVE  PassMeansSound
<1>1. {"agent", "workflow", "agent-execution", "workflow-execution", "sanctum", "agent-paths"} \subseteq Scans
    <2>1. DOMAIN StructureScans = 1 .. 7
        BY DEF StructureScans
    <2>2. /\ StructureScans[1] = "agent-paths" /\ StructureScans[3] = "agent"
          /\ StructureScans[4] = "workflow" /\ StructureScans[5] = "agent-execution"
          /\ StructureScans[6] = "workflow-execution" /\ StructureScans[7] = "sanctum"
        BY DEF StructureScans
    <2> QED
        BY <2>1, <2>2 DEF Scans
<1>2. WellSeen(skill)
    BY DEF ScansInv
<1>3. Passed("agent") => Status(AgentIssues) = "pass"
    BY <1>1 DEF ScansInv, Passed, Found
<1>4. Passed("workflow") => Status(WorkflowIssues) = "pass"
    BY <1>1 DEF ScansInv, Passed, Found
<1>5. Passed("agent-execution") => ExecutionStatus(AgentExecutionIssues) = "pass"
    BY <1>1 DEF ScansInv, Passed, Found
<1>6. Passed("workflow-execution") => ExecutionStatus(WorkflowExecutionIssues) = "pass"
    BY <1>1 DEF ScansInv, Passed, Found
<1>7. Passed("sanctum") => SanctumIssues = {}
    BY <1>1 DEF ScansInv, Passed, Found
<1>8. Passed("agent-paths") => PathIssues(TRUE) = {}
    BY <1>1 DEF ScansInv, Passed, Found
<1>9. Passed("scripts") => Ended("scripts") /\ Status(issues["scripts"][1]) = "pass"
    BY DEF Passed
<1> QED
    BY <1>2, <1>3, <1>4, <1>5, <1>6, <1>7, <1>8, <1>9, AgentSound, WorkflowSound, AgentExecutionSound,
       WorkflowExecutionSound, SanctumSound, PathsSound, ScriptsSound DEF PassMeansSound

\* What a scan of prepass-*.py, scan-path-standards.py or scan-scripts.py
\* that passes vouches for is so, for every skill and whatever comes of each
\* linter.
THEOREM PassesMeanSound ==
    ASSUME NEW skills, \A s \in skills : WellSeen(s)
    PROVE  ScanSpec(skills) => []PassMeansSound
<1>1. ScanInit(skills) => ScansInv
    BY ScansStart
<1>2. ScansInv /\ [ScanNext]_scanVars => ScansInv'
    BY ScansKeep
<1>3. ScansInv => PassMeansSound
    BY ScansVouch
<1> QED
    BY <1>1, <1>2, <1>3, PTL DEF ScanSpec

-----------------------------------------------------------------------------
(* SourceGroups: every file has one place in the plan. *)

\* What the arguments may be over the files that are given, and what a group holds of them.
Argument(Given) == [kind : {"file", "folder", "glob"}, files : Seq(Given)]
GroupMember(Given) == [file : Given, role : {"primary", "companion"}]

\* The files of an argument are among those that are given.
LEMMA FilesOfGives ==
    ASSUME NEW Given, NEW input \in Argument(Given)
    PROVE  FilesOf(input) \in Seq(Given)
<1>1. input.files \in Seq(Given) /\ input.kind \in {"file", "folder", "glob"}
    BY DEF Argument
<1>2. \A P : Filter(input.files, P) \in Seq(Given)
    BY <1>1, FilterGives
<1>3. CASE input.kind = "file"
    BY <1>1, <1>3 DEF FilesOf
<1>4. CASE input.kind = "folder"
    BY <1>2, <1>4 DEF FilesOf
<1>5. CASE input.kind = "glob"
    BY <1>2, <1>5 DEF FilesOf
<1> QED
    BY <1>1, <1>3, <1>4, <1>5

\* The files of all of them, one argument after another.
ConcatStep(g, s, U) == IF U = {} THEN <<>> ELSE g[U \ {Max(U)}] \o FilesOf(s[Max(U)])

\* So are all that are resolved.
LEMMA ResolvedGives ==
    ASSUME NEW Given, inputs \in Seq(Argument(Given))
    PROVE  Resolved \in Seq(Given)
<1>1. PICK s : s = inputs
    OBVIOUS
<1>2. PICK D : D = DOMAIN s
    OBVIOUS
<1>3. Positions(D) /\ \A i \in D : s[i] \in Argument(Given)
    BY <1>1, <1>2, ListPositions
<1>4. PICK T : T = [p \in Seq(Given) \X Argument(Given) |-> p[1] \o FilesOf(p[2])]
    OBVIOUS
<1>5. T \in [Seq(Given) \X Argument(Given) -> Seq(Given)] /\ <<>> \in Seq(Given)
    <2>1. ASSUME NEW p \in Seq(Given) \X Argument(Given)
          PROVE  p[1] \o FilesOf(p[2]) \in Seq(Given)
        <3>1. p[1] \in Seq(Given) /\ FilesOf(p[2]) \in Seq(Given)
            BY FilesOfGives
        <3> QED
            BY <3>1
    <2> QED
        BY <1>4, <2>1
<1>6. PICK g : IsFolds(g, T, <<>>, s, D)
    BY <1>3, FoldsExist
<1>7. \A U \in SUBSET D : g[U] \in Seq(Given)
    BY <1>3, <1>5, <1>6, FoldsIn
<1>8. ASSUME NEW U \in SUBSET D
      PROVE  g[U] = ConcatStep(g, s, U)
    <2>1. g[U] = FoldStep(g, T, <<>>, s, U)
        BY <1>6, FoldsApply
    <2>2. CASE U = {}
        BY <2>1, <2>2 DEF FoldStep, ConcatStep
    <2>3. CASE U # {}
        <3>1. PICK v, m : v = g[U \ {Max(U)}] /\ m = s[Max(U)]
            OBVIOUS
        <3>2. v \in Seq(Given) /\ m \in Argument(Given)
            BY <1>3, <1>7, <2>3, <3>1 DEF Positions
        <3>3. T[<<v, m>>] = v \o FilesOf(m)
            BY <1>4, <3>2
        <3> QED
            BY <2>1, <2>3, <3>1, <3>3 DEF FoldStep, ConcatStep
    <2> QED
        BY <2>2, <2>3
<1>9. g = [U \in SUBSET D |-> ConcatStep(g, s, U)]
    BY <1>6, <1>8 DEF IsFolds
<1>10. PICK h : h = CHOOSE f : f = [U \in SUBSET D |-> ConcatStep(f, s, U)]
    OBVIOUS
<1>11. h = [U \in SUBSET D |-> ConcatStep(h, s, U)]
    BY <1>9, <1>10
<1>12. ASSUME NEW U \in SUBSET D, \A V \in SUBSET U : V # U => h[V] \in Seq(Given)
       PROVE  h[U] \in Seq(Given)
    <2>1. h[U] = ConcatStep(h, s, U)
        BY <1>11
    <2>2. CASE U = {}
        BY <1>5, <2>1, <2>2 DEF ConcatStep
    <2>3. CASE U # {}
        <3>1. PICK v, m : v = h[U \ {Max(U)}] /\ m = s[Max(U)]
            OBVIOUS
        <3>2. v \in Seq(Given) /\ m \in Argument(Given)
            BY <1>3, <1>12, <2>3, <3>1 DEF Positions
        <3>3. FilesOf(m) \in Seq(Given)
            BY <3>2, FilesOfGives
        <3>4. v \o FilesOf(m) \in Seq(Given)
            BY <3>2, <3>3
        <3> QED
            BY <2>1, <2>3, <3>1, <3>4 DEF ConcatStep
    <2> QED
        BY <2>2, <2>3
<1>13. h[D] \in Seq(Given)
    <2> DEFINE P == {U \in SUBSET D : h[U] \in Seq(Given)}
    <2>1. ASSUME NEW U \in SUBSET D, \A V \in SUBSET U : V # U => V \in P
          PROVE  U \in P
        BY <1>12, <2>1
    <2> HIDE DEF P
    <2>2. D \in P
        BY <1>3, <2>1, SubsetInduction DEF Positions
    <2> QED
        BY <2>2 DEF P
<1>14. FoldLeft(LAMBDA all, input : all \o FilesOf(input), <<>>, inputs) = h[D]
    BY <1>1, <1>2, <1>10 DEF FoldLeft, MapThenFoldSet, ConcatStep
<1> QED
    BY <1>13, <1>14, DistinctGives DEF Resolved

\* The sizes, one file after another.
SizeStep(g, s, U) == IF U = {} THEN 0 ELSE g[U \ {Max(U)}] + s[Max(U)].size

\* The estimate is a natural number.
LEMMA TokensNat ==
    ASSUME SourceAssumption, NEW Given, \A f \in Given : f.size \in Nat, files \in Seq(Given)
    PROVE  Tokens \in Nat
<1>1. PICK s : s = files
    OBVIOUS
<1>2. PICK D : D = DOMAIN s
    OBVIOUS
<1>3. Positions(D) /\ \A i \in D : s[i] \in Given
    BY <1>1, <1>2, ListPositions
<1>4. PICK T : T = [p \in Nat \X Given |-> p[1] + p[2].size]
    OBVIOUS
<1>5. T \in [Nat \X Given -> Nat] /\ 0 \in Nat
    BY <1>4
<1>6. PICK g : IsFolds(g, T, 0, s, D)
    BY <1>3, FoldsExist
<1>7. \A U \in SUBSET D : g[U] \in Nat
    BY <1>3, <1>5, <1>6, FoldsIn
<1>8. ASSUME NEW U \in SUBSET D
      PROVE  g[U] = SizeStep(g, s, U)
    <2>1. g[U] = FoldStep(g, T, 0, s, U)
        BY <1>6, FoldsApply
    <2>2. CASE U = {}
        BY <2>1, <2>2 DEF FoldStep, SizeStep
    <2>3. CASE U # {}
        <3>1. PICK v, m : v = g[U \ {Max(U)}] /\ m = s[Max(U)]
            OBVIOUS
        <3>2. v \in Nat /\ m \in Given
            BY <1>3, <1>7, <2>3, <3>1 DEF Positions
        <3>3. T[<<v, m>>] = v + m.size
            BY <1>4, <3>2
        <3> QED
            BY <2>1, <2>3, <3>1, <3>3 DEF FoldStep, SizeStep
    <2> QED
        BY <2>2, <2>3
<1>9. g = [U \in SUBSET D |-> SizeStep(g, s, U)]
    BY <1>6, <1>8 DEF IsFolds
<1>10. PICK h : h = CHOOSE f : f = [U \in SUBSET D |-> SizeStep(f, s, U)]
    OBVIOUS
<1>11. h = [U \in SUBSET D |-> SizeStep(h, s, U)]
    BY <1>9, <1>10
<1>12. ASSUME NEW U \in SUBSET D, \A V \in SUBSET U : V # U => h[V] \in Nat
       PROVE  h[U] \in Nat
    <2>1. h[U] = SizeStep(h, s, U)
        BY <1>11
    <2>2. CASE U = {}
        BY <2>1, <2>2 DEF SizeStep
    <2>3. CASE U # {}
        <3>1. PICK v, m : v = h[U \ {Max(U)}] /\ m = s[Max(U)]
            OBVIOUS
        <3>2. v \in Nat /\ m.size \in Nat
            BY <1>3, <1>12, <2>3, <3>1 DEF Positions
        <3> QED
            BY <2>1, <2>3, <3>1, <3>2 DEF SizeStep
    <2> QED
        BY <2>2, <2>3
<1>13. h[D] \in Nat
    <2> DEFINE P == {U \in SUBSET D : h[U] \in Nat}
    <2>1. ASSUME NEW U \in SUBSET D, \A V \in SUBSET U : V # U => V \in P
          PROVE  U \in P
        BY <1>12, <2>1
    <2> HIDE DEF P
    <2>2. D \in P
        BY <1>3, <2>1, SubsetInduction DEF Positions
    <2> QED
        BY <2>2 DEF P
<1>14. FoldLeft(LAMBDA sum, f : sum + f.size, 0, files) = h[D]
    BY <1>1, <1>2, <1>10 DEF FoldLeft, MapThenFoldSet, SizeStep
<1>15. PICK k \in Nat : k = h[D]
    BY <1>13
<1>16. PICK c \in Nat : c = CharsPerToken /\ c > 0
    BY DEF SourceAssumption
<1>17. Tokens = k \div c
    BY <1>14, <1>15, <1>16 DEF Tokens
<1>18. k \div c \in Nat
    BY <1>16
<1> QED
    BY <1>17, <1>18

\* What one compressor takes is not split.
LEMMA SingleUnsplit ==
    ASSUME SourceAssumption, NEW Given, \A f \in Given : f.size \in Nat, files \in Seq(Given)
    PROVE  Routing = "single" => SplitPrediction = "unlikely"
<1>1. PICK t \in Nat : t = Tokens
    BY TokensNat
<1>2. SUFFICES ASSUME Routing = "single"
      PROVE  SplitPrediction = "unlikely"
    OBVIOUS
<1>3. t <= SingleCompressorMax
    BY <1>1, <1>2 DEF Routing
<1>4. PICK a \in Nat, b \in Nat : a = SingleCompressorMax /\ b = SingleDistillateMax /\ a \div 3 <= b
    BY DEF SourceAssumption
<1>5. t \div 3 <= b
    BY <1>3, <1>4
<1>6. ~(Tokens \div 3 > SingleDistillateMax)
    BY <1>1, <1>4, <1>5
<1> QED
    BY <1>6 DEF SplitPrediction

\* The invariant: a member of a group is given, assigned, and in the place its
\* role says; no name is in two places, none assigned is missing, and a group
\* lacks its base only where the base is in another; and a file met is in a
\* group or put aside.
GroupsTyped(Given) == \A k \in DOMAIN groups : groups[k] \in Seq(GroupMember(Given))
InGroup(gs, k, i) == k \in DOMAIN gs /\ i \in DOMAIN gs[k]
GroupsSound ==
    \A k, i : InGroup(groups, k, i) =>
        /\ groups[k][i].file \in ToSet(files) /\ groups[k][i].file.name \in assigned
        /\ groups[k][i].role = "companion" =>
              groups[k][i].file.name \in Companions /\ BaseOf[groups[k][i].file.name] = k
        /\ groups[k][i].role = "primary" => i = 1 /\ groups[k][i].file.name = k
NamedOnce ==
    \A k, i, l, j :
        InGroup(groups, k, i) /\ InGroup(groups, l, j) /\ groups[k][i].file.name = groups[l][j].file.name
        => k = l /\ i = j
AssignedIn == \A n \in assigned : \E k, i : InGroup(groups, k, i) /\ groups[k][i].file.name = n
BasesTaken == \A k \in DOMAIN groups : \A f \in ToSet(files) : f.name = k => k \in assigned
AsideSound == \A f \in ToSet(ungrouped) : f \in ToSet(files) /\ f.name \notin Companions
MetPlaced == \A f \in ToSet(files) : f \in ToSet(toGroup) \/ f.name \in assigned \/ f \in ToSet(ungrouped)

PlanTyped(Given) ==
    /\ inputs \in Seq(Argument(Given))
    /\ files \in Seq(Given) /\ toGroup \in Seq(Given) /\ ungrouped \in Seq(Given)
    /\ ToSet(toGroup) \subseteq ToSet(files)
    /\ planPhase = "resolve" => DOMAIN groups = {} /\ ungrouped = <<>> /\ assigned = {}
    /\ planPhase = "planned" => toGroup = <<>>
    /\ GroupsTyped(Given)
PlanInv(Given) ==
    PlanTyped(Given) /\ GroupsSound /\ NamedOnce /\ AssignedIn /\ BasesTaken /\ AsideSound /\ MetPlaced

\* An empty list has no elements.
LEMMA EmptyToSet == ToSet(<<>>) = {}
BY DEF ToSet

\* The plan starts with the invariant.
LEMMA PlanStarts ==
    ASSUME NEW Given, NEW arguments \in SUBSET Seq(Argument(Given)), PlanInit(arguments)
    PROVE  PlanInv(Given)
<1>1. /\ inputs \in Seq(Argument(Given)) /\ toGroup = <<>> /\ files = <<>> /\ ungrouped = <<>>
      /\ DOMAIN groups = {} /\ assigned = {} /\ planPhase = "resolve"
    BY DEF PlanInit
<1>2. PlanTyped(Given)
    BY <1>1, EmptyToSet DEF PlanTyped, GroupsTyped
<1>3. \A k, i : ~InGroup(groups, k, i)
    BY <1>1 DEF InGroup
<1>4. GroupsSound /\ NamedOnce
    BY <1>3 DEF GroupsSound, NamedOnce
<1> QED
    BY <1>1, <1>2, <1>4, EmptyToSet DEF PlanInv, AssignedIn, BasesTaken, AsideSound, MetPlaced

\* Every file has the positions of its name, and the last of them is one.
LEMMA NamedIs ==
    ASSUME NEW Given, files \in Seq(Given), NEW name, Named(name) # {}
    PROVE  FileNamed(name) \in ToSet(files) /\ FileNamed(name) \in Given /\ FileNamed(name).name = name
<1>1. PICK D : D = DOMAIN files
    OBVIOUS
<1>2. Positions(D) /\ \A i \in D : files[i] \in Given
    BY <1>1, ListPositions
<1>3. Named(name) \in SUBSET D
    BY <1>1 DEF Named
<1>4. PICK m : m = Max(Named(name))
    OBVIOUS
<1>5. m \in Named(name)
    BY <1>2, <1>3, <1>4 DEF Positions
<1>6. m \in D /\ files[m].name = name
    BY <1>1, <1>5 DEF Named
<1> QED
    BY <1>1, <1>2, <1>4, <1>6 DEF FileNamed, ToSet

\* A file that is given has a position.
LEMMA NamedOf ==
    ASSUME NEW f \in ToSet(files)
    PROVE  Named(f.name) # {}
BY DEF Named, ToSet

\* What says nothing of the files to come is kept while nothing else changes.
LEMMA GroupsSame ==
    ASSUME UNCHANGED <<files, groups, assigned>>, GroupsSound, NamedOnce, AssignedIn, BasesTaken
    PROVE  GroupsSound' /\ NamedOnce' /\ AssignedIn' /\ BasesTaken'
BY DEF GroupsSound, NamedOnce, AssignedIn, BasesTaken

\* Resolving the inputs keeps it...
LEMMA ResolveKeeps ==
    ASSUME NEW Given, PlanInv(Given), ResolveInputs
    PROVE  PlanInv(Given)'
<1>1. PICK R : R = Resolved
    OBVIOUS
<1>2. /\ inputs \in Seq(Argument(Given)) /\ DOMAIN groups = {} /\ ungrouped = <<>> /\ assigned = {}
      /\ files' = R /\ toGroup' = R /\ planPhase' \in {"error", "group"}
      /\ UNCHANGED <<inputs, groups, ungrouped, assigned>>
    BY <1>1 DEF PlanInv, PlanTyped, ResolveInputs
<1>3. R \in Seq(Given)
    BY <1>1, <1>2, ResolvedGives
<1>4. PlanTyped(Given)'
    BY <1>2, <1>3 DEF PlanTyped, GroupsTyped
<1>5. \A k, i : ~InGroup(groups', k, i)
    BY <1>2 DEF InGroup
<1>6. GroupsSound' /\ NamedOnce'
    BY <1>5 DEF GroupsSound, NamedOnce
<1>7. AssignedIn' /\ BasesTaken' /\ AsideSound' /\ MetPlaced'
    BY <1>2, EmptyToSet DEF AssignedIn, BasesTaken, AsideSound, MetPlaced
<1> QED
    BY <1>4, <1>6, <1>7 DEF PlanInv

\* The file that is looked at, and those left.
LEMMA NextFile ==
    ASSUME NEW Given, PlanInv(Given), toGroup # <<>>
    PROVE  /\ Head(toGroup) \in Given /\ Head(toGroup) \in ToSet(files)
           /\ Tail(toGroup) \in Seq(Given) /\ ToSet(Tail(toGroup)) \subseteq ToSet(files)
           /\ ToSet(toGroup) = ToSet(Tail(toGroup)) \cup {Head(toGroup)}
<1>1. toGroup \in Seq(Given) /\ ToSet(toGroup) \subseteq ToSet(files)
    BY DEF PlanInv, PlanTyped
<1> QED
    BY <1>1, ToSetTail

\* ... so does passing over a file that is in a group...
LEMMA SkipKeeps ==
    ASSUME NEW Given, PlanInv(Given), GroupSkip
    PROVE  PlanInv(Given)'
<1>1. /\ toGroup # <<>> /\ Head(toGroup).name \in assigned /\ toGroup' = Tail(toGroup) /\ planPhase = "group"
      /\ UNCHANGED <<inputs, files, groups, ungrouped, assigned, planPhase>>
    BY DEF GroupSkip
<1>2. PlanTyped(Given)'
    BY <1>1, NextFile DEF PlanInv, PlanTyped, GroupsTyped
<1>3. GroupsSound' /\ NamedOnce' /\ AssignedIn' /\ BasesTaken'
    BY <1>1, GroupsSame DEF PlanInv
<1>4. AsideSound' /\ MetPlaced'
    BY <1>1, NextFile DEF PlanInv, AsideSound, MetPlaced
<1> QED
    BY <1>2, <1>3, <1>4 DEF PlanInv

\* ... putting a file aside...
LEMMA OtherKeeps ==
    ASSUME NEW Given, PlanInv(Given), GroupOther
    PROVE  PlanInv(Given)'
<1>1. PICK f : f = Head(toGroup)
    OBVIOUS
<1>2. /\ toGroup # <<>> /\ f.name \notin assigned /\ f.name \notin Companions
      /\ toGroup' = Tail(toGroup) /\ planPhase = "group"
      /\ ungrouped' = IF f.name \in DOMAIN groups THEN ungrouped ELSE Append(ungrouped, f)
      /\ UNCHANGED <<inputs, files, groups, assigned, planPhase>>
    BY <1>1 DEF GroupOther
<1>3. f \in Given /\ f \in ToSet(files)
    BY <1>1, <1>2, NextFile
<1>4. ungrouped' = Append(ungrouped, f)
    BY <1>2, <1>3 DEF PlanInv, BasesTaken
<1>5. ungrouped \in Seq(Given)
    BY DEF PlanInv, PlanTyped
<1>6. ungrouped' \in Seq(Given) /\ ToSet(ungrouped') = ToSet(ungrouped) \cup {f}
    BY <1>3, <1>4, <1>5, ToSetAppend
<1>7. PlanTyped(Given)'
    BY <1>2, <1>6, NextFile DEF PlanInv, PlanTyped, GroupsTyped
<1>8. GroupsSound' /\ NamedOnce' /\ AssignedIn' /\ BasesTaken'
    BY <1>2, GroupsSame DEF PlanInv
<1>9. AsideSound' /\ MetPlaced'
    BY <1>1, <1>2, <1>3, <1>6, NextFile DEF PlanInv, AsideSound, MetPlaced
<1> QED
    BY <1>7, <1>8, <1>9 DEF PlanInv

\* ... and the end.
LEMMA DoneKeeps ==
    ASSUME NEW Given, PlanInv(Given), GroupDone
    PROVE  PlanInv(Given)'
<1>1. toGroup = <<>> /\ planPhase' = "planned" /\ UNCHANGED <<inputs, toGroup, files, groups, ungrouped, assigned>>
    BY DEF GroupDone
<1>2. PlanTyped(Given)'
    BY <1>1 DEF PlanInv, PlanTyped, GroupsTyped
<1>3. GroupsSound' /\ NamedOnce' /\ AssignedIn' /\ BasesTaken'
    BY <1>1, GroupsSame DEF PlanInv
<1> QED
    BY <1>1, <1>2, <1>3 DEF PlanInv, AsideSound, MetPlaced

\* What a companion does to the groups: old is what its group holds before it.
TakesBase(key) == key \notin DOMAIN groups /\ Named(key) # {} /\ key \notin assigned
CompanionStep(f, key, base, old) ==
    /\ f = Head(toGroup) /\ key = BaseOf[f.name] /\ f.name \notin assigned /\ f.name \in Companions
    /\ base = FileNamed(key)
    /\ key \in DOMAIN groups => old = groups[key]
    /\ TakesBase(key) => old = <<Member(base, "primary")>>
    /\ key \notin DOMAIN groups /\ ~TakesBase(key) => old = <<>>
    /\ groups' = [k \in DOMAIN groups \cup {key} |->
                     IF k = key THEN Append(old, Member(f, "companion")) ELSE groups[k]]
    /\ assigned' = assigned \cup {f.name} \cup (IF TakesBase(key) THEN {key} ELSE {})

\* The step for a companion is of that form.
LEMMA CompanionSteps ==
    ASSUME GroupCompanion
    PROVE  \E f, key, base, old : CompanionStep(f, key, base, old)
<1>1. PICK f, key, base : f = Head(toGroup) /\ key = BaseOf[f.name] /\ base = FileNamed(key)
    OBVIOUS
<1>2. PICK old : old = CASE key \in DOMAIN groups -> groups[key]
                         [] TakesBase(key) -> <<Member(FileNamed(key), "primary")>>
                         [] OTHER -> <<>>
    OBVIOUS
<1>3. /\ f.name \notin assigned /\ f.name \in Companions
      /\ groups' = [k \in DOMAIN groups \cup {key} |->
                     IF k = key THEN Append(old, Member(f, "companion")) ELSE groups[k]]
      /\ assigned' = assigned \cup {f.name} \cup (IF TakesBase(key) THEN {key} ELSE {})
    BY <1>1, <1>2 DEF GroupCompanion, TakesBase
<1>4. /\ key \in DOMAIN groups => old = groups[key]
      /\ TakesBase(key) => old = <<Member(base, "primary")>>
      /\ key \notin DOMAIN groups /\ ~TakesBase(key) => old = <<>>
    BY <1>1, <1>2 DEF TakesBase
<1> QED
    BY <1>1, <1>3, <1>4 DEF CompanionStep

\* Where the members are after such a step: where they were, with the
\* companion last in its group and the base, if it is taken, first.
PlacesKept == \A k, i : InGroup(groups, k, i) => InGroup(groups', k, i) /\ groups'[k][i] = groups[k][i]
PlacesAdded(f, key, base, last) ==
    /\ InGroup(groups', key, last) /\ groups'[key][last] = Member(f, "companion")
    /\ TakesBase(key) => InGroup(groups', key, 1) /\ groups'[key][1] = Member(base, "primary")
    /\ \A k, i : InGroup(groups', k, i) =>
          \/ InGroup(groups, k, i)
          \/ k = key /\ i = last
          \/ TakesBase(key) /\ k = key /\ i = 1
PlacesAfter(Given, f, key, base) ==
    /\ f \in Given /\ f \in ToSet(files)
    /\ TakesBase(key) => base \in Given /\ base \in ToSet(files) /\ base.name = key
    /\ GroupsTyped(Given)' /\ DOMAIN groups' = DOMAIN groups \cup {key}
    /\ PlacesKept /\ \E last : PlacesAdded(f, key, base, last)

\* That is where they are.
LEMMA CompanionPlaces ==
    ASSUME NEW Given, PlanInv(Given), toGroup # <<>>,
           NEW f, NEW key, NEW base, NEW old, CompanionStep(f, key, base, old)
    PROVE  PlacesAfter(Given, f, key, base)
<1>1. f \in Given /\ f \in ToSet(files)
    BY NextFile DEF CompanionStep
<1>2. TakesBase(key) => base \in Given /\ base \in ToSet(files) /\ base.name = key
    <2>1. files \in Seq(Given)
        BY DEF PlanInv, PlanTyped
    <2> QED
        BY <2>1, NamedIs DEF CompanionStep, TakesBase
<1>3. PICK c, b : c = Member(f, "companion") /\ b = Member(base, "primary")
    OBVIOUS
<1>4. PICK E : E = GroupMember(Given)
    OBVIOUS
<1>5. c \in E /\ (TakesBase(key) => b \in E)
    BY <1>1, <1>2, <1>3, <1>4 DEF Member, GroupMember
<1>6. \A k \in DOMAIN groups : groups[k] \in Seq(E)
    BY <1>4 DEF PlanInv, PlanTyped, GroupsTyped
<1>7. old \in Seq(E)
    <2>1. CASE key \in DOMAIN groups
        BY <1>6, <2>1 DEF CompanionStep
    <2>2. CASE TakesBase(key)
        <3>1. PICK one : one = Append(<<>>, b)
            OBVIOUS
        <3>2. one = <<b>> /\ one \in Seq(E)
            BY <1>5, <2>2, <3>1
        <3> QED
            BY <1>3, <2>2, <3>2 DEF CompanionStep
    <2>3. CASE key \notin DOMAIN groups /\ ~TakesBase(key)
        BY <2>3 DEF CompanionStep
    <2> QED
        BY <2>1, <2>2, <2>3
<1>8. PICK n \in Nat : n = Len(old)
    BY <1>7
<1>9. PICK new : new = Append(old, c)
    OBVIOUS
<1>10. new \in Seq(E) /\ DOMAIN new = 1 .. (n + 1) /\ new[n + 1] = c /\ \A i \in 1 .. n : new[i] = old[i]
    BY <1>5, <1>7, <1>8, <1>9
<1>11. DOMAIN old = 1 .. n
    BY <1>7, <1>8
<1>12. /\ DOMAIN groups' = DOMAIN groups \cup {key} /\ groups'[key] = new
       /\ \A k \in DOMAIN groups : k # key => groups'[k] = groups[k]
    BY <1>3, <1>9 DEF CompanionStep
<1>13. GroupsTyped(Given)'
    BY <1>4, <1>6, <1>10, <1>12 DEF GroupsTyped
<1>14. ASSUME NEW k, NEW i, InGroup(groups, k, i)
       PROVE  InGroup(groups', k, i) /\ groups'[k][i] = groups[k][i]
    <2>1. CASE k = key
        <3>1. old = groups[key] /\ i \in 1 .. n
            BY <1>11, <1>14, <2>1 DEF InGroup, CompanionStep
        <3>2. i \in 1 .. (n + 1) /\ new[i] = old[i]
            BY <1>10, <3>1
        <3> QED
            BY <1>10, <1>12, <2>1, <3>1, <3>2 DEF InGroup
    <2>2. CASE k # key
        BY <1>12, <1>14, <2>2 DEF InGroup
    <2> QED
        BY <2>1, <2>2
<1>15. InGroup(groups', key, n + 1) /\ groups'[key][n + 1] = c
    <2>1. n + 1 \in 1 .. (n + 1)
        BY <1>8
    <2> QED
        BY <1>10, <1>12, <2>1 DEF InGroup
<1>16. TakesBase(key) => n = 1 /\ old[1] = b
    BY <1>3, <1>8 DEF CompanionStep
<1>17. TakesBase(key) => InGroup(groups', key, 1) /\ groups'[key][1] = b
    <2>1. TakesBase(key) => 1 \in 1 .. (n + 1) /\ new[1] = b
        BY <1>10, <1>16
    <2> QED
        BY <1>10, <1>12, <2>1 DEF InGroup
<1>18. ASSUME NEW k, NEW i, InGroup(groups', k, i)
       PROVE  \/ InGroup(groups, k, i)
              \/ k = key /\ i = n + 1
              \/ TakesBase(key) /\ k = key /\ i = 1
    <2>1. CASE k # key
        BY <1>12, <1>18, <2>1 DEF InGroup
    <2>2. CASE k = key
        <3>1. i \in 1 .. n \/ i = n + 1
            <4>1. i \in 1 .. (n + 1)
                BY <1>10, <1>12, <1>18, <2>2 DEF InGroup
            <4> QED
                BY <1>8, <4>1
        <3>2. CASE key \in DOMAIN groups
            <4>1. old = groups[key]
                BY <3>2 DEF CompanionStep
            <4> QED
                BY <1>11, <2>2, <3>1, <3>2, <4>1 DEF InGroup
        <3>3. CASE TakesBase(key)
            BY <1>16, <2>2, <3>1, <3>3
        <3>4. CASE key \notin DOMAIN groups /\ ~TakesBase(key)
            <4>1. n = 0
                BY <1>8, <3>4 DEF CompanionStep
            <4> QED
                BY <2>2, <3>1, <4>1
        <3> QED
            BY <3>2, <3>3, <3>4
    <2> QED
        BY <2>1, <2>2
<1>19. PlacesAdded(f, key, base, n + 1)
    BY <1>3, <1>15, <1>17, <1>18 DEF PlacesAdded
<1> QED
    BY <1>1, <1>2, <1>12, <1>13, <1>14, <1>19 DEF PlacesAfter, PlacesKept

\* A companion keeps the invariant, since no document accompanies itself.
LEMMA CompanionKeeps ==
    ASSUME SourceAssumption, NEW Given, PlanInv(Given), GroupCompanion
    PROVE  PlanInv(Given)'
<1>1. PICK f, key, base, old : CompanionStep(f, key, base, old)
    BY CompanionSteps
<1>2. /\ toGroup # <<>> /\ toGroup' = Tail(toGroup) /\ planPhase = "group"
      /\ UNCHANGED <<inputs, files, ungrouped, planPhase>>
    BY DEF GroupCompanion
<1>3. PICK gs : gs = groups'
    OBVIOUS
<1>4. PlacesAfter(Given, f, key, base)
    BY <1>1, <1>2, CompanionPlaces
<1>5. PICK last : PlacesAdded(f, key, base, last)
    BY <1>4 DEF PlacesAfter
<1>6. /\ f \in ToSet(files) /\ GroupsTyped(Given)' /\ DOMAIN gs = DOMAIN groups \cup {key}
      /\ TakesBase(key) => base \in ToSet(files) /\ base.name = key
      /\ \A k, i : InGroup(groups, k, i) => InGroup(gs, k, i) /\ gs[k][i] = groups[k][i]
    BY <1>3, <1>4 DEF PlacesAfter, PlacesKept
<1>7. /\ InGroup(gs, key, last) /\ gs[key][last] = Member(f, "companion")
      /\ TakesBase(key) => InGroup(gs, key, 1) /\ gs[key][1] = Member(base, "primary")
      /\ \A k, i : InGroup(gs, k, i) =>
            \/ InGroup(groups, k, i)
            \/ k = key /\ i = last
            \/ TakesBase(key) /\ k = key /\ i = 1
    BY <1>3, <1>5 DEF PlacesAdded
<1>8. /\ key = BaseOf[f.name] /\ f.name \notin assigned /\ f.name \in Companions
      /\ assigned' = assigned \cup {f.name} \cup (IF TakesBase(key) THEN {key} ELSE {})
    BY <1>1 DEF CompanionStep
<1>9. f.name # key
    BY <1>8 DEF SourceAssumption
<1>10. /\ gs[key][last].file = f /\ gs[key][last].role = "companion"
       /\ TakesBase(key) => gs[key][1].file = base /\ gs[key][1].role = "primary"
    BY <1>6, <1>7 DEF Member
<1>11. ASSUME NEW k, NEW i, InGroup(gs, k, i)
       PROVE  \/ /\ InGroup(groups, k, i) /\ gs[k][i] = groups[k][i]
              \/ /\ k = key /\ i = last
              \/ /\ TakesBase(key) /\ k = key /\ i = 1
    BY <1>6, <1>7, <1>11
<1>12. GroupsSound'
    <2>1. ASSUME NEW k, NEW i, InGroup(gs, k, i)
          PROVE  /\ gs[k][i].file \in ToSet(files) /\ gs[k][i].file.name \in assigned'
                 /\ gs[k][i].role = "companion" =>
                       gs[k][i].file.name \in Companions /\ BaseOf[gs[k][i].file.name] = k
                 /\ gs[k][i].role = "primary" => i = 1 /\ gs[k][i].file.name = k
        <3>1. CASE InGroup(groups, k, i) /\ gs[k][i] = groups[k][i]
            BY <1>8, <3>1 DEF PlanInv, GroupsSound
        <3>2. CASE k = key /\ i = last
            BY <1>6, <1>8, <1>10, <3>2
        <3>3. CASE TakesBase(key) /\ k = key /\ i = 1
            BY <1>6, <1>8, <1>10, <3>3
        <3> QED
            BY <1>11, <2>1, <3>1, <3>2, <3>3
    <2> QED
        BY <1>2, <1>3, <2>1 DEF GroupsSound
<1>13. \A k, i : InGroup(groups, k, i) => gs[k][i].file.name \in assigned
    BY <1>6 DEF PlanInv, GroupsSound
<1>14. NamedOnce'
    <2>1. ASSUME NEW k, NEW i, NEW l, NEW j, InGroup(gs, k, i), InGroup(gs, l, j),
                 gs[k][i].file.name = gs[l][j].file.name
          PROVE  k = l /\ i = j
        <3>1. CASE InGroup(groups, k, i) /\ InGroup(groups, l, j)
            BY <1>6, <2>1, <3>1 DEF PlanInv, NamedOnce
        <3>2. \A m, o : InGroup(groups, m, o) => gs[m][o].file.name # f.name
            BY <1>8, <1>13
        <3>3. TakesBase(key) => \A m, o : InGroup(groups, m, o) => gs[m][o].file.name # key
            BY <1>13 DEF TakesBase
        <3>4. CASE k = key /\ i = last
            BY <1>6, <1>9, <1>10, <1>11, <2>1, <3>2, <3>4
        <3>5. CASE l = key /\ j = last
            BY <1>6, <1>9, <1>10, <1>11, <2>1, <3>2, <3>5
        <3>6. CASE TakesBase(key) /\ k = key /\ i = 1
            BY <1>6, <1>9, <1>10, <1>11, <2>1, <3>3, <3>6
        <3>7. CASE TakesBase(key) /\ l = key /\ j = 1
            BY <1>6, <1>9, <1>10, <1>11, <2>1, <3>3, <3>7
        <3> QED
            BY <1>11, <2>1, <3>1, <3>4, <3>5, <3>6, <3>7
    <2> QED
        BY <1>3, <2>1 DEF NamedOnce
<1>15. AssignedIn'
    <2>1. ASSUME NEW n \in assigned'
          PROVE  \E k, i : InGroup(gs, k, i) /\ gs[k][i].file.name = n
        <3>1. CASE n \in assigned
            <4>1. PICK k, i : InGroup(groups, k, i) /\ groups[k][i].file.name = n
                BY <3>1 DEF PlanInv, AssignedIn
            <4> QED
                BY <1>6, <4>1
        <3>2. CASE n = f.name
            BY <1>7, <1>10, <3>2
        <3>3. CASE TakesBase(key) /\ n = key
            BY <1>6, <1>7, <1>10, <3>3
        <3> QED
            BY <1>8, <2>1, <3>1, <3>2, <3>3
    <2> QED
        BY <1>3, <2>1 DEF AssignedIn
<1>16. BasesTaken'
    <2>1. ASSUME NEW k \in DOMAIN gs, NEW d \in ToSet(files), d.name = k
          PROVE  k \in assigned'
        <3>1. CASE k \in DOMAIN groups
            BY <1>8, <2>1, <3>1 DEF PlanInv, BasesTaken
        <3>2. CASE k \notin DOMAIN groups
            <4>1. k = key /\ Named(key) # {}
                BY <1>6, <2>1, <3>2, NamedOf
            <4> QED
                BY <1>8, <3>2, <4>1 DEF PlanInv, TakesBase
        <3> QED
            BY <3>1, <3>2
    <2> QED
        BY <1>2, <1>3, <2>1 DEF BasesTaken
<1>17. PlanTyped(Given)'
    BY <1>2, <1>6, NextFile DEF PlanInv, PlanTyped
<1>18. AsideSound' /\ MetPlaced'
    <2>1. f = Head(toGroup) /\ f.name \in assigned' /\ assigned \subseteq assigned'
        BY <1>1, <1>8 DEF CompanionStep
    <2> QED
        BY <1>2, <2>1, NextFile DEF PlanInv, AsideSound, MetPlaced
<1> QED
    BY <1>12, <1>14, <1>15, <1>16, <1>17, <1>18 DEF PlanInv

\* Every step keeps it.
LEMMA PlanKeeps ==
    ASSUME SourceAssumption, NEW Given, PlanInv(Given), [PlanNext]_planVars
    PROVE  PlanInv(Given)'
<1>1. CASE UNCHANGED planVars
    <2>1. UNCHANGED <<inputs, toGroup, files, groups, ungrouped, assigned, planPhase>>
        BY <1>1 DEF planVars
    <2>2. PlanTyped(Given)'
        BY <2>1 DEF PlanInv, PlanTyped, GroupsTyped
    <2>3. GroupsSound' /\ NamedOnce' /\ AssignedIn' /\ BasesTaken'
        BY <2>1, GroupsSame DEF PlanInv
    <2> QED
        BY <2>1, <2>2, <2>3 DEF PlanInv, AsideSound, MetPlaced
<1> QED
    BY <1>1, ResolveKeeps, SkipKeeps, CompanionKeeps, OtherKeeps, DoneKeeps DEF PlanNext

\* A group of the plan, and one file alone.
Grouped(k) == [key |-> k, files |-> groups[k]]
Alone(f) == [key |-> f.name, files |-> <<Member(f, "standalone")>>]
IsAlone(f) == f \in ToSet(ungrouped) /\ f.name \notin assigned

\* The plan has the groups, and the files put aside that none has taken.
LEMMA PlanHolds ==
    ASSUME NEW g
    PROVE  g \in Plan <=> (\E k \in DOMAIN groups : g = Grouped(k)) \/ (\E f : IsAlone(f) /\ g = Alone(f))
BY DEF Plan, Grouped, Alone, IsAlone

\* A file alone is the only one of its group.
LEMMA AloneHas ==
    ASSUME NEW f
    PROVE  /\ Alone(f).key = f.name /\ DOMAIN Alone(f).files = {1}
           /\ Alone(f).files[1].file = f /\ Alone(f).files[1].role = "standalone"
<1>1. PICK m : m = Member(f, "standalone")
    OBVIOUS
<1>2. PICK one : one = <<m>>
    OBVIOUS
<1>3. DOMAIN one = {1} /\ one[1] = m
    BY <1>2
<1>4. m.file = f /\ m.role = "standalone"
    BY <1>1 DEF Member
<1>5. Alone(f).key = f.name /\ Alone(f).files = one
    BY <1>1, <1>2 DEF Alone
<1> QED
    BY <1>3, <1>4, <1>5

\* What is at a place of the plan.
PlaceIs(g, i) ==
    \/ \E k : InGroup(groups, k, i) /\ g = Grouped(k)
    \/ \E f : IsAlone(f) /\ g = Alone(f) /\ i = 1

\* There is nothing else.
LEMMA PlacesAre ==
    ASSUME NEW g, NEW i
    PROVE  g \in Plan /\ i \in DOMAIN g.files <=> PlaceIs(g, i)
<1>1. ASSUME g \in Plan, i \in DOMAIN g.files
      PROVE  PlaceIs(g, i)
    <2>1. CASE \E k \in DOMAIN groups : g = Grouped(k)
        BY <1>1, <2>1 DEF PlaceIs, Grouped, InGroup
    <2>2. CASE \E f : IsAlone(f) /\ g = Alone(f)
        BY <1>1, <2>2, AloneHas DEF PlaceIs
    <2> QED
        BY <1>1, <2>1, <2>2, PlanHolds
<1>2. ASSUME PlaceIs(g, i)
      PROVE  g \in Plan /\ i \in DOMAIN g.files
    <2>1. CASE \E k : InGroup(groups, k, i) /\ g = Grouped(k)
        BY <2>1, PlanHolds DEF Grouped, InGroup
    <2>2. CASE \E f : IsAlone(f) /\ g = Alone(f) /\ i = 1
        BY <2>2, PlanHolds, AloneHas
    <2> QED
        BY <1>2, <2>1, <2>2 DEF PlaceIs
<1> QED
    BY <1>1, <1>2

\* Of files with different names each has one place.
LEMMA OnePlace ==
    ASSUME NEW Given, PlanInv(Given), planPhase = "planned", DistinctNames, NEW f \in ToSet(files)
    PROVE  Cardinality(PlacesOf(f)) = 1
<1>1. ASSUME NEW h \in ToSet(files), h.name = f.name
      PROVE  h = f
    <2>1. PICK i \in DOMAIN files, j \in DOMAIN files : h = files[i] /\ f = files[j]
        BY DEF ToSet
    <2> QED
        BY <1>1, <2>1 DEF DistinctNames
<1>2. \A p : p \in PlacesOf(f) <=> \E g, i : p = <<g, i>> /\ PlaceIs(g, i) /\ g.files[i].file = f
    <2>1. \A p : p \in PlacesOf(f) <=>
              \E g \in Plan : \E i \in DOMAIN g.files : p = <<g, i>> /\ g.files[i].file = f
        BY DEF PlacesOf
    <2>2. ASSUME NEW p, NEW g \in Plan, NEW i \in DOMAIN g.files, p = <<g, i>> /\ g.files[i].file = f
          PROVE  \E h, j : p = <<h, j>> /\ PlaceIs(h, j) /\ h.files[j].file = f
        BY <2>2, PlacesAre
    <2>3. ASSUME NEW p, NEW g, NEW i, p = <<g, i>> /\ PlaceIs(g, i) /\ g.files[i].file = f
          PROVE  \E h \in Plan : \E j \in DOMAIN h.files : p = <<h, j>> /\ h.files[j].file = f
        BY <2>3, PlacesAre
    <2> QED
        BY <2>1, <2>2, <2>3
<1>3. ASSUME NEW k, NEW i, InGroup(groups, k, i)
      PROVE  /\ Grouped(k).files[i].file = groups[k][i].file
             /\ groups[k][i].file \in ToSet(files) /\ groups[k][i].file.name \in assigned
    BY <1>3 DEF PlanInv, GroupsSound, Grouped
<1>4. CASE f.name \in assigned
    <2>1. PICK k, i : InGroup(groups, k, i) /\ groups[k][i].file.name = f.name
        BY <1>4 DEF PlanInv, AssignedIn
    <2>2. groups[k][i].file = f
        BY <1>1, <1>3, <2>1
    <2>3. <<Grouped(k), i>> \in PlacesOf(f)
        BY <1>2, <1>3, <2>1, <2>2 DEF PlaceIs
    <2>4. ASSUME NEW g, NEW j, PlaceIs(g, j), g.files[j].file = f
          PROVE  <<g, j>> = <<Grouped(k), i>>
        <3>1. CASE \E l : InGroup(groups, l, j) /\ g = Grouped(l)
            <4>1. PICK l : InGroup(groups, l, j) /\ g = Grouped(l)
                BY <3>1
            <4>2. groups[l][j].file = f
                BY <1>3, <2>4, <4>1
            <4>3. l = k /\ j = i
                BY <2>1, <4>1, <4>2 DEF PlanInv, NamedOnce
            <4> QED
                BY <4>1, <4>3
        <3>2. CASE \E h : IsAlone(h) /\ g = Alone(h) /\ j = 1
            BY <1>4, <2>4, <3>2, AloneHas DEF IsAlone
        <3> QED
            BY <2>4, <3>1, <3>2 DEF PlaceIs
    <2>5. PICK place : place = <<Grouped(k), i>>
        OBVIOUS
    <2>6. PlacesOf(f) = {place}
        BY <1>2, <2>3, <2>4, <2>5
    <2> QED
        BY <2>6, FS_Singleton
<1>5. CASE f.name \notin assigned
    <2>1. IsAlone(f)
        BY <1>5, EmptyToSet DEF IsAlone, PlanInv, PlanTyped, MetPlaced
    <2>2. <<Alone(f), 1>> \in PlacesOf(f)
        <3>1. PlaceIs(Alone(f), 1)
            BY <2>1 DEF PlaceIs
        <3>2. Alone(f).files[1].file = f
            BY AloneHas
        <3> QED
            BY <1>2, <3>1, <3>2
    <2>3. ASSUME NEW g, NEW j, PlaceIs(g, j), g.files[j].file = f
          PROVE  <<g, j>> = <<Alone(f), 1>>
        <3>1. CASE \E l : InGroup(groups, l, j) /\ g = Grouped(l)
            BY <1>3, <1>5, <2>3, <3>1
        <3>2. CASE \E h : IsAlone(h) /\ g = Alone(h) /\ j = 1
            BY <2>3, <3>2, AloneHas
        <3> QED
            BY <2>3, <3>1, <3>2 DEF PlaceIs
    <2>4. PICK place : place = <<Alone(f), 1>>
        OBVIOUS
    <2>5. PlacesOf(f) = {place}
        BY <1>2, <2>2, <2>3, <2>4
    <2> QED
        BY <2>5, FS_Singleton
<1> QED
    BY <1>4, <1>5

\* A plan that is made is exact.
LEMMA PlanRight ==
    ASSUME SourceAssumption, NEW Given, \A f \in Given : f.size \in Nat, PlanInv(Given)
    PROVE  GroupsExact
<1>1. SUFFICES ASSUME planPhase = "planned" PROVE GroupsExact
    BY DEF GroupsExact
<1>2. Routing = "single" => SplitPrediction = "unlikely"
    BY SingleUnsplit DEF PlanInv, PlanTyped
<1>3. ASSUME NEW g \in Plan, NEW i \in DOMAIN g.files
      PROVE  /\ g.files[i].file \in ToSet(files)
             /\ IF g.files[i].role = "companion"
                THEN g.files[i].file.name \in Companions /\ BaseOf[g.files[i].file.name] = g.key
                ELSE g.files[i].file.name = g.key /\ i = 1
    <2>1. CASE \E k : InGroup(groups, k, i) /\ g = Grouped(k)
        <3>1. PICK k : InGroup(groups, k, i) /\ g = Grouped(k)
            BY <2>1
        <3>2. g.key = k /\ g.files[i] = groups[k][i]
            BY <3>1 DEF Grouped
        <3>3. groups[k][i].role \in {"primary", "companion"}
            <4>1. groups[k][i] \in GroupMember(Given)
                BY <3>1 DEF InGroup, PlanInv, PlanTyped, GroupsTyped
            <4> QED
                BY <4>1 DEF GroupMember
        <3> QED
            BY <3>1, <3>2, <3>3 DEF PlanInv, GroupsSound
    <2>2. CASE \E f : IsAlone(f) /\ g = Alone(f) /\ i = 1
        <3>1. PICK f : IsAlone(f) /\ g = Alone(f) /\ i = 1
            BY <2>2
        <3>2. f \in ToSet(files)
            BY <3>1 DEF IsAlone, PlanInv, AsideSound
        <3>3. g.files[i].file = f /\ g.files[i].role = "standalone" /\ g.key = f.name
            BY <3>1, AloneHas
        <3> QED
            BY <3>1, <3>2, <3>3
    <2> QED
        BY <2>1, <2>2, PlacesAre DEF PlaceIs
<1>4. ASSUME DistinctNames, NEW f \in ToSet(files), f.name \notin Companions
      PROVE  \E g \in Plan : g.key = f.name /\ g.files[1].file = f
    <2>1. CASE f.name \in assigned
        <3>1. PICK k, i : InGroup(groups, k, i) /\ groups[k][i].file.name = f.name
            BY <2>1 DEF PlanInv, AssignedIn
        <3>2. groups[k][i].file \in ToSet(files) /\ groups[k][i].role # "companion"
            BY <1>4, <3>1 DEF PlanInv, GroupsSound
        <3>3. groups[k][i].role = "primary"
            <4>1. groups[k][i] \in GroupMember(Given)
                BY <3>1 DEF InGroup, PlanInv, PlanTyped, GroupsTyped
            <4> QED
                BY <3>2, <4>1 DEF GroupMember
        <3>4. i = 1 /\ k = f.name
            BY <3>1, <3>3 DEF PlanInv, GroupsSound
        <3>5. groups[k][1].file = f
            <4>1. PICK m \in DOMAIN files, j \in DOMAIN files : groups[k][i].file = files[m] /\ f = files[j]
                BY <3>2 DEF ToSet
            <4> QED
                BY <1>4, <3>1, <3>4, <4>1 DEF DistinctNames
        <3>6. Grouped(k) \in Plan
            BY <3>1, PlanHolds DEF InGroup
        <3> QED
            BY <3>4, <3>5, <3>6 DEF Grouped
    <2>2. CASE f.name \notin assigned
        <3>1. IsAlone(f)
            BY <1>1, <2>2, EmptyToSet DEF IsAlone, PlanInv, PlanTyped, MetPlaced
        <3> QED
            BY <3>1, PlanHolds, AloneHas
    <2> QED
        BY <2>1, <2>2
<1>5. DistinctNames => \A f \in ToSet(files) : Cardinality(PlacesOf(f)) = 1
    BY <1>1, OnePlace
<1> QED
    BY <1>2, <1>3, <1>4, <1>5 DEF GroupsExact

\* suggest_groups puts every file in exactly one group and with its document, and nothing
\* else in any, and what analyze routes to one compressor it does not expect to be split:
\* for any files, in whatever order and however the arguments name them.
THEOREM PlansAreExact ==
    ASSUME NEW Given, \A f \in Given : f.size \in Nat, NEW arguments \in SUBSET Seq(Argument(Given))
    PROVE  PlanSpec(arguments) => []GroupsExact
<1>1. PlanInit(arguments) => PlanInv(Given)
    BY PlanStarts
<1>2. PlanInv(Given) /\ [PlanNext]_planVars => PlanInv(Given)'
    BY SourceAssumption, PlanKeeps
<1>3. PlanInv(Given) => GroupsExact
    BY SourceAssumption, PlanRight
<1> QED
    BY <1>1, <1>2, <1>3, PTL DEF PlanSpec

-----------------------------------------------------------------------------
(* SkillTemplate: a text comes out as what its template means. *)

\* What a list of numbers in order says: they are those of K, each once.
Enumerates(f, K) ==
    f \in [1 .. Cardinality(K) -> K] /\ \A i, j \in DOMAIN f : i < j => f[i] < f[j]

\* A finite set of numbers can be put in order.
LEMMA OrderExists ==
    ASSUME NEW D \in SUBSET Nat, IsFiniteSet(D)
    PROVE  \E f : Enumerates(f, D)
<1> DEFINE P == {K \in SUBSET D : \E f : Enumerates(f, K)}
<1>1. ASSUME NEW K \in SUBSET D, \A U \in SUBSET K : U # K => U \in P
      PROVE  K \in P
    <2>1. IsFiniteSet(K)
        BY FS_Subset
    <2>2. CASE K = {}
        <3>1. Cardinality(K) = 0
            BY <2>2, FS_EmptySet
        <3>2. PICK f : f = [i \in {} |-> 0]
            OBVIOUS
        <3>3. 1 .. 0 = {} /\ f \in [{} -> K] /\ DOMAIN f = {}
            BY <3>2
        <3>4. Enumerates(f, K)
            BY <3>1, <3>3 DEF Enumerates
        <3> QED
            BY <3>4
    <2>3. CASE K # {}
        <3>1. PICK m \in K : \A i \in K : i <= m
            <4>1. K \in SUBSET Int
                OBVIOUS
            <4> QED
                BY <2>1, <2>3, <4>1, MaxIn
        <3>2. PICK U : U = K \ {m}
            OBVIOUS
        <3>3. PICK f : Enumerates(f, U)
            <4>1. U \in P
                BY <1>1, <3>1, <3>2
            <4> QED
                BY <4>1
        <3>4. PICK n \in Nat : n = Cardinality(U) /\ Cardinality(K) = n + 1
            <4>1. Cardinality(U) = Cardinality(K) - 1 /\ IsFiniteSet(U)
                BY <2>1, <3>1, <3>2, FS_RemoveElement
            <4>2. Cardinality(U) \in Nat /\ Cardinality(K) \in Nat
                BY <2>1, <4>1, FS_CardinalityType
            <4> QED
                BY <4>1, <4>2
        <3>5. PICK g : g = [i \in 1 .. (n + 1) |-> IF i = n + 1 THEN m ELSE f[i]]
            OBVIOUS
        <3>6. f \in [1 .. n -> U] /\ \A i, j \in 1 .. n : i < j => f[i] < f[j]
            BY <3>3, <3>4 DEF Enumerates
        <3>7. g \in [1 .. (n + 1) -> K] /\ g[n + 1] = m /\ \A i \in 1 .. n : g[i] = f[i] /\ f[i] \in U
            BY <3>1, <3>2, <3>5, <3>6
        <3>8. ASSUME NEW i \in 1 .. (n + 1), NEW j \in 1 .. (n + 1), i < j
              PROVE  g[i] < g[j]
            <4>1. i \in 1 .. n
                BY <3>8
            <4>2. CASE j = n + 1
                <5>1. g[i] \in K /\ g[i] # m /\ g[i] <= m /\ m \in Nat
                    BY <3>1, <3>2, <3>7, <4>1
                <5>2. g[i] \in Nat
                    BY <5>1
                <5> QED
                    BY <3>7, <4>2, <5>1, <5>2
            <4>3. CASE j # n + 1
                <5>1. j \in 1 .. n
                    BY <4>3
                <5> QED
                    BY <3>6, <3>7, <3>8, <4>1, <5>1
            <4> QED
                BY <4>2, <4>3
        <3>9. DOMAIN g = 1 .. (n + 1)
            BY <3>7
        <3>10. Enumerates(g, K)
            BY <3>4, <3>7, <3>8, <3>9 DEF Enumerates
        <3> QED
            BY <3>10
    <2> QED
        BY <2>2, <2>3
<1> HIDE DEF P
<1>2. D \in P
    BY <1>1, SubsetInduction
<1> QED
    BY <1>2 DEF P

\* Every number of K is in such a list, once.
LEMMA OrderOnto ==
    ASSUME NEW K \in SUBSET Nat, IsFiniteSet(K), NEW f, Enumerates(f, K), NEW n, n = Cardinality(K)
    PROVE  /\ n \in Nat /\ f \in [1 .. n -> K]
           /\ \A i, j \in 1 .. n : i < j => f[i] < f[j]
           /\ \A k \in K : \E i \in 1 .. n : f[i] = k
<1>1. n \in Nat /\ f \in [1 .. n -> K] /\ \A i, j \in 1 .. n : i < j => f[i] < f[j]
    BY FS_CardinalityType DEF Enumerates
<1>2. PICK D : D = 1 .. n
    OBVIOUS
<1>3. IsFiniteSet(D) /\ Cardinality(D) = n
    BY <1>1, <1>2, FS_Interval
<1>4. ASSUME NEW i \in D, NEW j \in D, f[i] = f[j]
      PROVE  i = j
    <2>1. f[i] \in Nat /\ f[j] \in Nat /\ i \in Int /\ j \in Int
        <3>1. f[i] \in K /\ f[j] \in K
            BY <1>1, <1>2
        <3>2. f[i] \in Nat /\ f[j] \in Nat
            BY <3>1
        <3>3. i \in Int /\ j \in Int
            BY <1>1, <1>2
        <3> QED
            BY <3>2, <3>3
    <2>2. ~(i < j) /\ ~(j < i)
        BY <1>1, <1>2, <1>4, <2>1
    <2> QED
        BY <2>1, <2>2
<1>5. f \in Injection(D, K)
    BY <1>1, <1>2, <1>4 DEF Injection, IsInjective
<1>6. f \in Surjection(D, K)
    BY <1>3, <1>5, FS_Injection
<1>7. \A k \in K : \E i \in D : f[i] = k
    BY <1>6 DEF Surjection
<1> QED
    BY <1>1, <1>2, <1>7

\* The i-th in such a list is the one up to which there are i.
LEMMA OrderIsNth ==
    ASSUME NEW K \in SUBSET Nat, IsFiniteSet(K), NEW f, Enumerates(f, K),
           NEW n, n = Cardinality(K), NEW i \in 1 .. n
    PROVE  Nth(K, i) = f[i]
<1>1. /\ n \in Nat /\ f \in [1 .. n -> K]
      /\ \A a, b \in 1 .. n : a < b => f[a] < f[b]
      /\ \A k \in K : \E a \in 1 .. n : f[a] = k
    BY OrderOnto
<1>2. ASSUME NEW a \in 1 .. n
      PROVE  Cardinality({l \in K : l <= f[a]}) = a
    <2>1. PICK N, U : N = 1 .. a /\ U = {l \in K : l <= f[a]}
        OBVIOUS
    <2>2. IsFiniteSet(N) /\ Cardinality(N) = a
        <3>1. a \in Nat
            BY <1>1
        <3> QED
            BY <2>1, <3>1, FS_Interval
    <2>3. \A b \in N : b \in 1 .. n /\ b <= a
        BY <1>1, <2>1
    <2>4. \A b \in 1 .. n : f[b] \in K /\ f[b] \in Nat
        BY <1>1
    <2>5. ASSUME NEW b \in 1 .. n
          PROVE  b <= a <=> f[b] <= f[a]
        <3>1. b < a \/ b = a \/ a < b
            BY <1>1
        <3>2. f[a] \in Nat /\ f[b] \in Nat /\ a \in Int /\ b \in Int
            BY <1>1, <2>4
        <3>3. (b < a => f[b] < f[a]) /\ (a < b => f[a] < f[b])
            BY <1>1
        <3> QED
            BY <3>1, <3>2, <3>3
    <2>6. PICK g : g = [b \in N |-> f[b]]
        OBVIOUS
    <2>7. \A b \in N : g[b] = f[b] /\ f[b] \in U
        BY <2>1, <2>3, <2>4, <2>5, <2>6
    <2>8. ASSUME NEW b \in N, NEW c \in N, g[b] = g[c]
          PROVE  b = c
        <3>1. b \in 1 .. n /\ c \in 1 .. n /\ f[b] = f[c] /\ f[b] \in Nat /\ b \in Int /\ c \in Int
            BY <1>1, <2>3, <2>4, <2>7, <2>8
        <3>2. ~(b < c) /\ ~(c < b)
            BY <1>1, <3>1
        <3> QED
            BY <3>1, <3>2
    <2>9. ASSUME NEW k \in U
          PROVE  \E b \in N : g[b] = k
        <3>1. PICK b \in 1 .. n : f[b] = k
            BY <1>1, <2>1
        <3>2. b <= a
            BY <2>1, <2>5, <3>1
        <3>3. b \in N
            BY <1>1, <2>1, <3>2
        <3> QED
            BY <2>7, <3>1, <3>3
    <2>10. g \in [N -> U]
        BY <2>6, <2>7
    <2>11. g \in Bijection(N, U)
        BY <2>8, <2>9, <2>10 DEF Bijection, Injection, Surjection, IsInjective
    <2> QED
        BY <2>1, <2>2, <2>11, FS_Bijection DEF ExistsBijection
<1>3. PICK k : k = Nth(K, i)
    OBVIOUS
<1>4. f[i] \in K /\ Cardinality({l \in K : l <= f[i]}) = i
    BY <1>1, <1>2
<1>5. k \in K /\ Cardinality({l \in K : l <= k}) = i
    BY <1>3, <1>4 DEF Nth
<1>6. PICK a \in 1 .. n : f[a] = k
    BY <1>1, <1>5
<1> QED
    BY <1>2, <1>3, <1>5, <1>6

\* A text u that is t without the tokens at D: g says where each one comes from.
Shrinks(t, u, g, D) ==
    /\ g \in [1 .. Len(u) -> 1 .. Len(t)]
    /\ \A i, j \in 1 .. Len(u) : i < j <=> g[i] < g[j]
    /\ \A i \in 1 .. Len(u) : u[i] = t[g[i]] /\ g[i] \notin D
    /\ \A x \in 1 .. Len(t) : x \in D \/ \E i \in 1 .. Len(u) : g[i] = x

\* D takes whole blocks.
WholeBlocks(t, D) == \A p \in Blocks(t) : p[1] \in D <=> p[2] \in D

\* What a block is: two places, and no end for it in between.
IsBlock(t, p) ==
    /\ p[1] \in 1 .. Len(t) /\ p[2] \in 1 .. Len(t) /\ p[1] < p[2] /\ p = <<p[1], p[2]>>
    /\ t[p[1]].kind = "open" /\ t[p[2]] = Close(t[p[1]].name)
    /\ \A k \in 1 .. Len(t) : p[1] < k /\ k < p[2] => t[k] # t[p[2]]

\* Every block is one.
LEMMA BlockIs ==
    ASSUME NEW Symbols, NEW t \in Seq(Symbols), NEW p \in Blocks(t)
    PROVE  IsBlock(t, p)
<1>1. /\ p[1] \in 1 .. Len(t) /\ p[2] \in 1 .. Len(t) /\ p[1] < p[2]
      /\ p = <<p[1], p[2]>>
      /\ t[p[1]].kind = "open" /\ t[p[2]] = Close(t[p[1]].name)
    BY DEF Blocks, Pairs
<1>2. ASSUME NEW k \in 1 .. Len(t), p[1] < k, k < p[2]
      PROVE  t[k] # t[p[2]]
    <2>1. p[1] \in Int /\ p[2] \in Int
        BY <1>1
    <2>2. k \in (p[1] + 1) .. (p[2] - 1)
        BY <1>2, <2>1
    <2> QED
        BY <2>2 DEF Blocks
<1> QED
    BY <1>1, <1>2 DEF IsBlock

\* A block ends at the nearest token that can end it.
LEMMA NearestIs ==
    ASSUME NEW Symbols, NEW t \in Seq(Symbols), NEW i \in 1 .. Len(t), NEW j \in 1 .. Len(t),
           i < j, t[i].kind = "open", t[j] = Close(t[i].name),
           \A k \in 1 .. Len(t) : i < k /\ k < j => t[k] # t[j]
    PROVE  <<i, j>> \in Blocks(t)
<1>1. PICK p : p = <<i, j>>
    OBVIOUS
<1>2. p[1] = i /\ p[2] = j /\ p \in (1 .. Len(t)) \X (1 .. Len(t))
    BY <1>1
<1>3. p \in Pairs(t)
    BY <1>2 DEF Pairs
<1>4. ASSUME NEW k \in (p[1] + 1) .. (p[2] - 1)
      PROVE  t[k] # t[p[2]]
    <2>1. k \in 1 .. Len(t) /\ i < k /\ k < j
        <3>1. Len(t) \in Nat
            OBVIOUS
        <3> QED
            BY <1>2, <3>1
    <2> QED
        BY <1>2, <2>1
<1> QED
    BY <1>1, <1>3, <1>4 DEF Blocks

\* The blocks of what is left are the blocks that are left.
LEMMA BlocksMove ==
    ASSUME NEW Symbols, NEW t \in Seq(Symbols), NEW u \in Seq(Symbols), NEW g, NEW D,
           Shrinks(t, u, g, D), WholeBlocks(t, D), Balanced(t),
           NEW k \in 1 .. Len(u), NEW l \in 1 .. Len(u)
    PROVE  <<k, l>> \in Blocks(u) <=> <<g[k], g[l]>> \in Blocks(t)
<1>1. /\ \A i \in 1 .. Len(u) : g[i] \in 1 .. Len(t) /\ u[i] = t[g[i]] /\ g[i] \notin D
      /\ \A i, j \in 1 .. Len(u) : i < j <=> g[i] < g[j]
      /\ \A x \in 1 .. Len(t) : x \in D \/ \E i \in 1 .. Len(u) : g[i] = x
    BY DEF Shrinks
<1>2. PICK p, q : p = <<k, l>> /\ q = <<g[k], g[l]>>
    OBVIOUS
<1>3. p[1] = k /\ p[2] = l /\ q[1] = g[k] /\ q[2] = g[l]
    BY <1>2
<1>4. ASSUME q \in Blocks(t)
      PROVE  p \in Blocks(u)
    <2>0. IsBlock(t, q)
        BY <1>4, BlockIs
    <2>1. k < l /\ u[k].kind = "open" /\ u[l] = Close(u[k].name)
        BY <1>1, <1>3, <2>0 DEF IsBlock
    <2>2. ASSUME NEW i \in 1 .. Len(u), k < i, i < l
          PROVE  u[i] # u[l]
        <3>1. g[k] < g[i] /\ g[i] < g[l]
            BY <1>1, <2>2
        <3>2. t[g[i]] # t[g[l]]
            BY <1>1, <1>3, <2>0, <3>1 DEF IsBlock
        <3> QED
            BY <1>1, <3>2
    <2> QED
        BY <1>2, <2>1, <2>2, NearestIs
<1>5. ASSUME p \in Blocks(u)
      PROVE  q \in Blocks(t)
    <2>0. IsBlock(u, p)
        BY <1>5, BlockIs
    <2>1. g[k] < g[l] /\ t[g[k]].kind = "open" /\ t[g[l]] = Close(t[g[k]].name)
        BY <1>1, <1>3, <2>0 DEF IsBlock
    <2>2. ASSUME NEW x \in 1 .. Len(t), g[k] < x, x < g[l], t[x] = t[g[l]]
          PROVE  FALSE
        <3>1. PICK r \in Blocks(t) : g[k] \in {r[1], r[2]}
            <4>1. g[k] \in DOMAIN t
                BY <1>1
            <4> QED
                BY <2>1, <4>1 DEF Balanced
        <3>2. /\ r[1] \in 1 .. Len(t) /\ r[2] \in 1 .. Len(t) /\ r[1] < r[2]
              /\ t[r[2]] = Close(t[r[1]].name) /\ t[r[2]].kind = "close"
              /\ \A y \in 1 .. Len(t) : r[1] < y /\ y < r[2] => t[y] # t[r[2]]
            <4>1. IsBlock(t, r)
                BY BlockIs
            <4>2. Close(t[r[1]].name).kind = "close"
                BY DEF Close
            <4> QED
                BY <4>1, <4>2 DEF IsBlock
        <3>3. r[1] = g[k]
            BY <2>1, <3>1, <3>2
        <3>4. t[r[2]] = t[x]
            BY <2>1, <2>2, <3>2, <3>3
        <3>5. ~(x < r[2])
            BY <2>2, <3>2, <3>3, <3>4
        <3>6. r[2] \notin D
            BY <1>1, <3>3 DEF WholeBlocks
        <3>7. PICK i \in 1 .. Len(u) : g[i] = r[2]
            BY <1>1, <3>2, <3>6
        <3>8. g[k] < g[i] /\ g[i] < g[l]
            <4>1. g[l] \in 1 .. Len(t) /\ g[k] \in 1 .. Len(t)
                BY <1>1
            <4> QED
                BY <2>2, <3>2, <3>3, <3>5, <3>7, <4>1
        <3>9. k < i /\ i < l
            BY <1>1, <3>8
        <3>10. u[i] = u[l]
            BY <1>1, <2>2, <3>4, <3>7
        <3> QED
            BY <1>3, <2>0, <3>9, <3>10 DEF IsBlock
    <2>3. \A x \in 1 .. Len(t) : g[k] < x /\ x < g[l] => t[x] # t[g[l]]
        BY <2>2
    <2> QED
        BY <1>1, <1>2, <2>1, <2>3, NearestIs
<1> QED
    BY <1>2, <1>4, <1>5

\* So what is left is balanced too.
LEMMA BalancedMove ==
    ASSUME NEW Symbols, NEW t \in Seq(Symbols), NEW u \in Seq(Symbols), NEW g, NEW D,
           Shrinks(t, u, g, D), WholeBlocks(t, D), Balanced(t)
    PROVE  Balanced(u)
<1>1. /\ \A i \in 1 .. Len(u) : g[i] \in 1 .. Len(t) /\ u[i] = t[g[i]] /\ g[i] \notin D
      /\ \A i, j \in 1 .. Len(u) : i < j <=> g[i] < g[j]
      /\ \A x \in 1 .. Len(t) : x \in D \/ \E i \in 1 .. Len(u) : g[i] = x
    BY DEF Shrinks
<1>2. DOMAIN u = 1 .. Len(u) /\ DOMAIN t = 1 .. Len(t)
    OBVIOUS
<1>3. ASSUME NEW k \in 1 .. Len(u), u[k].kind \in {"open", "close"}
      PROVE  \E p \in Blocks(u) : k \in {p[1], p[2]}
    <2>1. PICK r \in Blocks(t) : g[k] \in {r[1], r[2]}
        <3>1. g[k] \in DOMAIN t /\ t[g[k]].kind \in {"open", "close"}
            BY <1>1, <1>2, <1>3
        <3> QED
            BY <3>1 DEF Balanced
    <2>2. r[1] \in 1 .. Len(t) /\ r[2] \in 1 .. Len(t) /\ r = <<r[1], r[2]>>
        BY BlockIs DEF IsBlock
    <2>3. r[1] \notin D /\ r[2] \notin D
        BY <1>1, <2>1 DEF WholeBlocks
    <2>4. PICK i \in 1 .. Len(u), j \in 1 .. Len(u) : g[i] = r[1] /\ g[j] = r[2]
        BY <1>1, <2>2, <2>3
    <2>5. PICK p : p = <<i, j>>
        OBVIOUS
    <2>6. p \in Blocks(u)
        BY <2>2, <2>4, <2>5, BlocksMove
    <2>7. k = i \/ k = j
        <3>1. g[k] = g[i] \/ g[k] = g[j]
            BY <2>1, <2>4
        <3>2. \A x \in 1 .. Len(u), y \in 1 .. Len(u) : g[x] = g[y] => x = y
            <4>1. SUFFICES ASSUME NEW x \in 1 .. Len(u), NEW y \in 1 .. Len(u), g[x] = g[y]
                           PROVE  x = y
                OBVIOUS
            <4>2. g[x] \in Int /\ g[y] \in Int
                BY <1>1
            <4>3. ~(x < y) /\ ~(y < x)
                BY <1>1, <4>1, <4>2
            <4> QED
                BY <4>3
        <3> QED
            BY <3>1, <3>2
    <2> QED
        BY <2>5, <2>6, <2>7
<1>4. ASSUME NEW p \in Blocks(u), NEW q \in Blocks(u)
      PROVE  p = q \/ p[2] < q[1] \/ q[2] < p[1] \/ Inside(p, q) \/ Inside(q, p)
    <2>1. /\ p[1] \in 1 .. Len(u) /\ p[2] \in 1 .. Len(u) /\ p = <<p[1], p[2]>>
          /\ q[1] \in 1 .. Len(u) /\ q[2] \in 1 .. Len(u) /\ q = <<q[1], q[2]>>
        BY BlockIs DEF IsBlock
    <2>2. PICK P, Q : P = <<g[p[1]], g[p[2]]>> /\ Q = <<g[q[1]], g[q[2]]>>
        OBVIOUS
    <2>3. P \in Blocks(t) /\ Q \in Blocks(t)
        BY <2>1, <2>2, BlocksMove
    <2>4. P = Q \/ P[2] < Q[1] \/ Q[2] < P[1] \/ Inside(P, Q) \/ Inside(Q, P)
        BY <2>3 DEF Balanced
    <2>5. P[1] = g[p[1]] /\ P[2] = g[p[2]] /\ Q[1] = g[q[1]] /\ Q[2] = g[q[2]]
        BY <2>2
    <2>6. CASE P = Q
        <3>1. ~(p[1] < q[1]) /\ ~(q[1] < p[1]) /\ ~(p[2] < q[2]) /\ ~(q[2] < p[2])
            <4>1. g[p[1]] = g[q[1]] /\ g[p[2]] = g[q[2]] /\ g[p[1]] \in Int /\ g[p[2]] \in Int
                BY <1>1, <2>1, <2>5, <2>6
            <4> QED
                BY <1>1, <2>1, <4>1
        <3>2. p[1] = q[1] /\ p[2] = q[2]
            BY <2>1, <3>1
        <3> QED
            BY <2>1, <3>2
    <2>7. CASE P # Q
        BY <1>1, <2>1, <2>4, <2>5, <2>7 DEF Inside
    <2> QED
        BY <2>6, <2>7
<1> QED
    BY <1>2, <1>3, <1>4 DEF Balanced

\* What is taken away says nothing, and takes along all that its blocks keep out.
Covered(t, D, C) ==
    /\ \A x \in 1 .. Len(t) : x \in D => x \notin Stays(t, C)
    /\ \A p \in Blocks(t) : p[1] \in D /\ t[p[1]].name \notin C =>
          \A x \in 1 .. Len(t) : p[1] < x /\ x < p[2] => x \in D

\* Then the tokens that stay are those that stayed before.
LEMMA StaysMove ==
    ASSUME NEW Symbols, NEW t \in Seq(Symbols), NEW u \in Seq(Symbols), NEW g, NEW D, NEW C,
           Shrinks(t, u, g, D), WholeBlocks(t, D), Balanced(t), Covered(t, D, C),
           NEW k \in 1 .. Len(u)
    PROVE  k \in Stays(u, C) <=> g[k] \in Stays(t, C)
<1>1. /\ \A i \in 1 .. Len(u) : g[i] \in 1 .. Len(t) /\ u[i] = t[g[i]] /\ g[i] \notin D
      /\ \A i, j \in 1 .. Len(u) : i < j <=> g[i] < g[j]
      /\ \A x \in 1 .. Len(t) : x \in D \/ \E i \in 1 .. Len(u) : g[i] = x
    BY DEF Shrinks
<1>2. k \in DOMAIN u /\ g[k] \in DOMAIN t /\ u[k] = t[g[k]]
    BY <1>1
<1>3. ASSUME Around(t, g[k]) \subseteq C
      PROVE  Around(u, k) \subseteq C
    <2>1. SUFFICES ASSUME NEW p \in Blocks(u), p[1] < k, k < p[2]
                   PROVE  u[p[1]].name \in C
        BY DEF Around
    <2>2. p[1] \in 1 .. Len(u) /\ p[2] \in 1 .. Len(u) /\ p = <<p[1], p[2]>>
        BY BlockIs DEF IsBlock
    <2>3. PICK q : q = <<g[p[1]], g[p[2]]>>
        OBVIOUS
    <2>4. q \in Blocks(t) /\ q[1] = g[p[1]] /\ q[2] = g[p[2]]
        BY <2>2, <2>3, BlocksMove
    <2>5. q[1] < g[k] /\ g[k] < q[2]
        BY <1>1, <2>1, <2>2, <2>4
    <2>6. t[q[1]].name \in C
        BY <1>3, <2>4, <2>5 DEF Around
    <2> QED
        BY <1>1, <2>2, <2>4, <2>6
<1>4. ASSUME Around(u, k) \subseteq C
      PROVE  Around(t, g[k]) \subseteq C
    <2>1. SUFFICES ASSUME NEW q \in Blocks(t), q[1] < g[k], g[k] < q[2], t[q[1]].name \notin C
                   PROVE  FALSE
        BY DEF Around
    <2>2. q[1] \in 1 .. Len(t) /\ q[2] \in 1 .. Len(t) /\ q = <<q[1], q[2]>>
        BY BlockIs DEF IsBlock
    <2>3. q[1] \notin D
        BY <1>1, <2>1 DEF Covered
    <2>4. q[2] \notin D
        BY <2>3 DEF WholeBlocks
    <2>5. PICK i \in 1 .. Len(u), j \in 1 .. Len(u) : g[i] = q[1] /\ g[j] = q[2]
        BY <1>1, <2>2, <2>3, <2>4
    <2>6. PICK p : p = <<i, j>>
        OBVIOUS
    <2>7. p \in Blocks(u) /\ p[1] = i /\ p[2] = j
        BY <2>2, <2>5, <2>6, BlocksMove
    <2>8. p[1] < k /\ k < p[2]
        BY <1>1, <2>1, <2>5, <2>7
    <2>9. u[p[1]].name \in C
        BY <1>4, <2>7, <2>8 DEF Around
    <2> QED
        BY <1>1, <2>1, <2>5, <2>7, <2>9
<1> QED
    BY <1>2, <1>3, <1>4 DEF Stays

\* The tokens that stay have places in the text.
LEMMA StaysFinite ==
    ASSUME NEW Symbols, NEW t \in Seq(Symbols), NEW C
    PROVE  /\ Stays(t, C) \in SUBSET Nat /\ Stays(t, C) \subseteq 1 .. Len(t)
           /\ IsFiniteSet(Stays(t, C))
<1>1. Stays(t, C) \subseteq 1 .. Len(t)
    BY DEF Stays
<1>2. IsFiniteSet(1 .. Len(t))
    BY FS_Interval
<1>3. IsFiniteSet(Stays(t, C))
    BY <1>1, <1>2, FS_Subset
<1> QED
    BY <1>1, <1>3

\* Any list of their places in order gives the meaning.
LEMMA MeaningIs ==
    ASSUME NEW Symbols, NEW t \in Seq(Symbols), NEW C, NEW f, Enumerates(f, Stays(t, C))
    PROVE  Meaning(t, C) = [i \in DOMAIN f |-> t[f[i]]]
<1>1. PICK K : K = Stays(t, C)
    OBVIOUS
<1>2. PICK n : n = Cardinality(K)
    OBVIOUS
<1>3. DOMAIN f = 1 .. n
    BY <1>1, <1>2 DEF Enumerates
<1>4. Meaning(t, C) = [i \in 1 .. n |-> t[Nth(K, i)]]
    BY <1>1, <1>2 DEF Meaning
<1>5. K \in SUBSET Nat /\ IsFiniteSet(K) /\ Enumerates(f, K)
    BY <1>1, StaysFinite
<1>6. \A i \in 1 .. n : Nth(K, i) = f[i]
    BY <1>2, <1>5, OrderIsNth
<1> QED
    BY <1>3, <1>4, <1>6

\* Taking away what says nothing does not change what a text means.
LEMMA MeaningMove ==
    ASSUME NEW Symbols, NEW t \in Seq(Symbols), NEW u \in Seq(Symbols), NEW g, NEW D, NEW C,
           Shrinks(t, u, g, D), WholeBlocks(t, D), Balanced(t), Covered(t, D, C)
    PROVE  Meaning(u, C) = Meaning(t, C)
<1>1. /\ \A i \in 1 .. Len(u) : g[i] \in 1 .. Len(t) /\ u[i] = t[g[i]] /\ g[i] \notin D
      /\ \A i, j \in 1 .. Len(u) : i < j <=> g[i] < g[j]
      /\ \A x \in 1 .. Len(t) : x \in D \/ \E i \in 1 .. Len(u) : g[i] = x
    BY DEF Shrinks
<1>2. PICK K, L : K = Stays(t, C) /\ L = Stays(u, C)
    OBVIOUS
<1>3. /\ K \in SUBSET Nat /\ K \subseteq 1 .. Len(t) /\ IsFiniteSet(K)
      /\ L \in SUBSET Nat /\ L \subseteq 1 .. Len(u) /\ IsFiniteSet(L)
    BY <1>2, StaysFinite
<1>4. \A k \in 1 .. Len(u) : k \in L <=> g[k] \in K
    BY <1>2, StaysMove
<1>5. PICK h : Enumerates(h, L)
    BY <1>3, OrderExists
<1>6. PICK n : n = Cardinality(L)
    OBVIOUS
<1>7. /\ n \in Nat /\ h \in [1 .. n -> L]
      /\ \A i, j \in 1 .. n : i < j => h[i] < h[j]
      /\ \A k \in L : \E i \in 1 .. n : h[i] = k
    BY <1>3, <1>5, <1>6, OrderOnto
<1>8. PICK f : f = [i \in 1 .. n |-> g[h[i]]]
    OBVIOUS
<1>9. \A i \in 1 .. n : h[i] \in L /\ h[i] \in 1 .. Len(u) /\ f[i] = g[h[i]] /\ f[i] \in K
    BY <1>3, <1>4, <1>7, <1>8
<1>10. f \in [1 .. n -> K]
    BY <1>8, <1>9
<1>11. ASSUME NEW i \in 1 .. n, NEW j \in 1 .. n, i < j
       PROVE  f[i] < f[j]
    <2>1. h[i] < h[j] /\ h[i] \in 1 .. Len(u) /\ h[j] \in 1 .. Len(u)
        BY <1>7, <1>9, <1>11
    <2>2. g[h[i]] < g[h[j]]
        BY <1>1, <2>1
    <2> QED
        BY <1>9, <2>2
<1>12. ASSUME NEW x \in K
       PROVE  \E i \in 1 .. n : f[i] = x
    <2>1. x \notin D
        BY <1>2, <1>3 DEF Covered
    <2>2. PICK k \in 1 .. Len(u) : g[k] = x
        BY <1>1, <1>3, <2>1
    <2>3. k \in L
        BY <1>4, <2>2
    <2>4. PICK i \in 1 .. n : h[i] = k
        BY <1>7, <2>3
    <2> QED
        BY <1>9, <2>2, <2>4
<1>13. Cardinality(K) = n
    <2>1. PICK N : N = 1 .. n
        OBVIOUS
    <2>2. IsFiniteSet(N) /\ Cardinality(N) = n
        BY <1>7, <2>1, FS_Interval
    <2>3. ASSUME NEW i \in N, NEW j \in N, f[i] = f[j]
          PROVE  i = j
        <3>1. i \in 1 .. n /\ j \in 1 .. n /\ f[i] \in Nat
            <4>1. i \in 1 .. n /\ j \in 1 .. n
                BY <2>1
            <4> QED
                BY <1>3, <1>9, <4>1
        <3>2. ~(i < j) /\ ~(j < i)
            BY <1>11, <2>3, <3>1
        <3> QED
            BY <1>7, <3>1, <3>2
    <2>4. f \in Bijection(N, K)
        BY <1>10, <1>12, <2>1, <2>3 DEF Bijection, Injection, Surjection, IsInjective
    <2> QED
        BY <2>2, <2>4, FS_Bijection DEF ExistsBijection
<1>14. Enumerates(f, K)
    <2>1. DOMAIN f = 1 .. n
        BY <1>10
    <2> QED
        BY <1>10, <1>11, <1>13, <2>1 DEF Enumerates
<1>15. DOMAIN f = 1 .. n /\ DOMAIN h = 1 .. n
    BY <1>7, <1>10
<1>16. Meaning(t, C) = [i \in 1 .. n |-> t[f[i]]]
    <2>1. Meaning(t, C) = [i \in DOMAIN f |-> t[f[i]]]
        BY <1>2, <1>14, MeaningIs
    <2> QED
        BY <1>15, <2>1
<1>17. Meaning(u, C) = [i \in 1 .. n |-> u[h[i]]]
    <2>1. Meaning(u, C) = [i \in DOMAIN h |-> u[h[i]]]
        BY <1>2, <1>5, MeaningIs
    <2> QED
        BY <1>15, <2>1
<1>18. \A i \in 1 .. n : u[h[i]] = t[f[i]]
    BY <1>1, <1>9
<1> QED
    BY <1>16, <1>17, <1>18

\* A balanced text without pairs of markers means itself.
LEMMA MeansItself ==
    ASSUME NEW Symbols, NEW t \in Seq(Symbols), NEW C, Balanced(t), Pairs(t) = {}
    PROVE  Meaning(t, C) = t
<1>1. PICK n \in Nat : n = Len(t) /\ DOMAIN t = 1 .. n
    OBVIOUS
<1>2. Blocks(t) = {}
    BY DEF Blocks
<1>3. Stays(t, C) = 1 .. n
    BY <1>1, <1>2 DEF Stays, Around, Balanced
<1>4. PICK f : f = [i \in 1 .. n |-> i]
    OBVIOUS
<1>5. Cardinality(1 .. n) = n
    BY FS_Interval
<1>6. Enumerates(f, Stays(t, C))
    <2>1. f \in [1 .. n -> 1 .. n] /\ DOMAIN f = 1 .. n /\ \A i \in 1 .. n : f[i] = i
        BY <1>4
    <2> QED
        BY <1>3, <1>5, <2>1 DEF Enumerates
<1>7. Meaning(t, C) = [i \in DOMAIN f |-> t[f[i]]]
    BY <1>6, MeaningIs
<1>8. DOMAIN f = 1 .. n /\ \A i \in 1 .. n : f[i] = i
    BY <1>4
<1>9. Meaning(t, C) = [i \in 1 .. n |-> t[i]]
    BY <1>7, <1>8
<1> QED
    BY <1>1, <1>9

\* There is a first match: it is a block, and no block begins before it.
LEMMA FirstIsBlock ==
    ASSUME NEW Symbols, NEW t \in Seq(Symbols), Pairs(t) # {}, NEW p, p = FirstMatch(t)
    PROVE  p \in Blocks(t) /\ \A q \in Pairs(t) : p[1] <= q[1]
<1>1. PICK n \in Nat : n = Len(t)
    OBVIOUS
<1>2. IsFiniteSet(1 .. n)
    BY FS_Interval
<1>3. \A q \in Pairs(t) : q[1] \in 1 .. n /\ q[2] \in 1 .. n /\ q = <<q[1], q[2]>>
    BY <1>1 DEF Pairs
<1>4. PICK A : A = {i \in 1 .. n : \E q \in Pairs(t) : q[1] = i}
    OBVIOUS
<1>5. PICK a \in A : \A i \in A : a <= i
    <2>1. A # {} /\ A \subseteq 1 .. n
        BY <1>3, <1>4
    <2>2. IsFiniteSet(A)
        BY <1>2, <2>1, FS_Subset
    <2>3. A \in SUBSET Int
        BY <2>1
    <2> QED
        BY <2>1, <2>2, <2>3, MinIn
<1>6. PICK B : B = {j \in 1 .. n : \E q \in Pairs(t) : q[1] = a /\ q[2] = j}
    OBVIOUS
<1>7. PICK b \in B : \A j \in B : b <= j
    <2>1. B # {} /\ B \subseteq 1 .. n
        BY <1>3, <1>4, <1>5, <1>6
    <2>2. IsFiniteSet(B)
        BY <1>2, <2>1, FS_Subset
    <2>3. B \in SUBSET Int
        BY <2>1
    <2> QED
        BY <2>1, <2>2, <2>3, MinIn
<1>8. PICK r \in Pairs(t) : r[1] = a /\ r[2] = b
    BY <1>6, <1>7
<1>9. \A q \in Pairs(t) : r[1] < q[1] \/ (r[1] = q[1] /\ r[2] \leq q[2])
    <2>1. SUFFICES ASSUME NEW q \in Pairs(t)
                   PROVE  a < q[1] \/ (a = q[1] /\ b <= q[2])
        BY <1>8
    <2>2. q[1] \in A /\ a <= q[1] /\ a \in Int /\ q[1] \in Int
        BY <1>3, <1>4, <1>5
    <2>3. a = q[1] => b <= q[2]
        BY <1>3, <1>6, <1>7
    <2> QED
        BY <2>2, <2>3
<1>10. /\ p \in Pairs(t)
       /\ \A q \in Pairs(t) : p[1] < q[1] \/ (p[1] = q[1] /\ p[2] \leq q[2])
    <2>1. p = CHOOSE x \in Pairs(t) : \A q \in Pairs(t) :
                 x[1] < q[1] \/ (x[1] = q[1] /\ x[2] \leq q[2])
        BY DEF FirstMatch
    <2> QED
        BY <1>8, <1>9, <2>1
<1>11. ASSUME NEW k \in (p[1] + 1) .. (p[2] - 1), t[k] = t[p[2]]
       PROVE  FALSE
    <2>1. /\ p[1] \in 1 .. n /\ p[2] \in 1 .. n
          /\ t[p[1]].kind = "open" /\ t[p[2]] = Close(t[p[1]].name)
        BY <1>1, <1>10 DEF Pairs
    <2>2. k \in 1 .. n /\ p[1] < k /\ k < p[2]
        BY <2>1
    <2>3. PICK q : q = <<p[1], k>>
        OBVIOUS
    <2>4. q[1] = p[1] /\ q[2] = k /\ q \in (1 .. n) \X (1 .. n)
        BY <2>1, <2>2, <2>3
    <2>5. q \in Pairs(t)
        BY <1>1, <1>11, <2>1, <2>2, <2>4 DEF Pairs
    <2> QED
        BY <1>10, <2>1, <2>2, <2>4, <2>5
<1>12. ASSUME NEW q \in Pairs(t)
       PROVE  p[1] <= q[1]
    <2>1. p[1] \in 1 .. n /\ q[1] \in 1 .. n
        BY <1>3, <1>10
    <2>2. p[1] < q[1] \/ p[1] = q[1]
        BY <1>10
    <2> QED
        BY <2>1, <2>2
<1> QED
    BY <1>10, <1>11, <1>12 DEF Blocks

\* The text x is v, then w.
Follows(x, v, w, c, d) ==
    /\ Len(x) = c + d
    /\ \A i \in 1 .. c : x[i] = v[i]
    /\ \A i \in 1 .. d : x[c + i] = w[i]

\* Two texts one after the other.
LEMMA OneAfterOther ==
    ASSUME NEW Symbols, NEW v \in Seq(Symbols), NEW w \in Seq(Symbols),
           NEW c \in Nat, c = Len(v), NEW d \in Nat, d = Len(w), NEW x, x = v \o w
    PROVE  x \in Seq(Symbols) /\ Follows(x, v, w, c, d)
<1>1. x \in Seq(Symbols) /\ Len(x) = Len(v) + Len(w)
    BY ConcatProperties
<1>2. \A i \in 1 .. (Len(v) + Len(w)) : x[i] = IF i <= Len(v) THEN v[i] ELSE w[i - Len(v)]
    BY ConcatProperties
<1>3. /\ \A i \in 1 .. c : i \in 1 .. (c + d) /\ i <= c
      /\ \A i \in 1 .. d : c + i \in 1 .. (c + d) /\ ~(c + i <= c) /\ (c + i) - c = i
    OBVIOUS
<1>4. \A i \in 1 .. (c + d) : x[i] = IF i <= c THEN v[i] ELSE w[i - c]
    BY <1>2
<1>5. \A i \in 1 .. c : x[i] = v[i]
    BY <1>3, <1>4
<1>6. \A i \in 1 .. d : x[c + i] = w[i]
    BY <1>3, <1>4
<1> QED
    BY <1>1, <1>5, <1>6 DEF Follows

Assembled(u, t, inner, a, b, m, n) ==
    /\ Len(u) = (a - 1) + m + (n - b)
    /\ \A i \in 1 .. (a - 1) : u[i] = t[i]
    /\ \A i \in 1 .. m : u[(a - 1) + i] = inner[i]
    /\ \A i \in 1 .. (n - b) : u[(a - 1) + m + i] = t[b + i]

\* A text put together from what is before a block, something, and what is after it.
LEMMA PutTogether ==
    ASSUME NEW Symbols, NEW t \in Seq(Symbols), NEW n \in Nat, n = Len(t),
           NEW a \in Int, NEW b \in Int, 1 <= a, a < b, b <= n,
           NEW inner \in Seq(Symbols), NEW m \in Nat, m = Len(inner),
           NEW u, u = SubSeq(t, 1, a - 1) \o inner \o SubSeq(t, b + 1, n)
    PROVE  u \in Seq(Symbols) /\ Assembled(u, t, inner, a, b, m, n)
<1>1. PICK c \in Nat, d \in Nat : c = a - 1 /\ d = n - b
    <2>1. a - 1 \in Nat /\ n - b \in Nat
        OBVIOUS
    <2> QED
        BY <2>1
<1>2. PICK W, V : W = SubSeq(t, 1, c) /\ V = SubSeq(t, b + 1, n)
    OBVIOUS
<1>3. W \in Seq(Symbols) /\ Len(W) = c /\ \A i \in 1 .. c : W[i] = t[i]
    <2>1. /\ 1 \in Int /\ c \in Int
          /\ \A i \in 1 .. c : t[i] \in Symbols
        BY <1>1
    <2>2. /\ W \in Seq(Symbols)
          /\ Len(W) = (IF 1 <= c THEN c - 1 + 1 ELSE 0)
          /\ \A i \in 1 .. (c - 1 + 1) : W[i] = t[1 + i - 1]
        BY <1>2, <2>1, SubSeqProperties
    <2>3. (IF 1 <= c THEN c - 1 + 1 ELSE 0) = c /\ c - 1 + 1 = c /\ \A i \in 1 .. c : 1 + i - 1 = i
        OBVIOUS
    <2> QED
        BY <2>2, <2>3
<1>4. V \in Seq(Symbols) /\ Len(V) = d /\ \A i \in 1 .. d : V[i] = t[b + i]
    <2>1. /\ b + 1 \in Int /\ n \in Int
          /\ \A i \in (b + 1) .. n : t[i] \in Symbols
        OBVIOUS
    <2>2. PICK e \in Int : e = b + 1
        BY <2>1
    <2>3. /\ V \in Seq(Symbols)
          /\ Len(V) = (IF e <= n THEN n - e + 1 ELSE 0)
          /\ \A i \in 1 .. (n - e + 1) : V[i] = t[e + i - 1]
        <3>1. V = SubSeq(t, e, n) /\ \A i \in e .. n : t[i] \in Symbols
            BY <1>2, <2>1, <2>2
        <3> QED
            BY <2>1, <3>1, SubSeqProperties
    <2>4. (IF e <= n THEN n - e + 1 ELSE 0) = d /\ n - e + 1 = d /\ \A i \in 1 .. d : e + i - 1 = b + i
        BY <1>1, <2>2
    <2> QED
        BY <2>3, <2>4
<1>5. PICK X : X = W \o inner
    OBVIOUS
<1>6. /\ X \in Seq(Symbols) /\ Len(X) = c + m
      /\ \A i \in 1 .. c : X[i] = W[i]
      /\ \A i \in 1 .. m : X[c + i] = inner[i]
    <2>1. X \in Seq(Symbols) /\ Follows(X, W, inner, c, m)
        BY <1>3, <1>5, OneAfterOther
    <2> QED
        BY <2>1 DEF Follows
<1>7. u = X \o V
    BY <1>1, <1>2, <1>5
<1>8. PICK e \in Nat : e = c + m
    <2>1. c + m \in Nat
        OBVIOUS
    <2> QED
        BY <2>1
<1>8a. /\ u \in Seq(Symbols) /\ Len(u) = e + d
       /\ \A i \in 1 .. e : u[i] = X[i]
       /\ \A i \in 1 .. d : u[e + i] = V[i]
    <2>1. u \in Seq(Symbols) /\ Follows(u, X, V, e, d)
        BY <1>4, <1>6, <1>7, <1>8, OneAfterOther
    <2> QED
        BY <2>1 DEF Follows
<1>9. \A i \in 1 .. c : u[i] = t[i]
    <2>1. \A i \in 1 .. c : i \in 1 .. e
        BY <1>8
    <2> QED
        BY <1>3, <1>6, <1>8a, <2>1
<1>10. \A i \in 1 .. m : u[c + i] = inner[i]
    <2>1. \A i \in 1 .. m : c + i \in 1 .. e
        BY <1>8
    <2> QED
        BY <1>6, <1>8a, <2>1
<1>11. \A i \in 1 .. d : u[c + m + i] = t[b + i]
    BY <1>4, <1>8, <1>8a
<1> QED
    BY <1>1, <1>8, <1>8a, <1>9, <1>10, <1>11 DEF Assembled

\* How other blocks lie to a block of a balanced text.
LEMMA BesideBlock ==
    ASSUME NEW Symbols, NEW t \in Seq(Symbols), Balanced(t), NEW p \in Blocks(t), NEW q \in Blocks(t),
           NEW a, NEW b, a = p[1], b = p[2]
    PROVE  /\ q[1] \in Int /\ q[2] \in Int /\ a \in Int /\ b \in Int /\ a < b /\ q[1] < q[2]
           /\ \/ q[1] = a /\ q[2] = b
              \/ b < q[1]
              \/ q[2] < a
              \/ q[1] < a /\ b < q[2]
              \/ a < q[1] /\ q[2] < b
<1>1. /\ p[1] \in 1 .. Len(t) /\ p[2] \in 1 .. Len(t) /\ p[1] < p[2]
      /\ q[1] \in 1 .. Len(t) /\ q[2] \in 1 .. Len(t) /\ q[1] < q[2]
    BY BlockIs DEF IsBlock
<1>2. p = q \/ p[2] < q[1] \/ q[2] < p[1] \/ Inside(p, q) \/ Inside(q, p)
    BY DEF Balanced
<1>3. p = q => q[1] = a /\ q[2] = b
    OBVIOUS
<1> QED
    BY <1>1, <1>2, <1>3 DEF Inside

\* Markers are not among the tokens that stay.
LEMMA MarkersGo ==
    ASSUME NEW Symbols, NEW t \in Seq(Symbols), NEW p \in Blocks(t), NEW C
    PROVE  p[1] \notin Stays(t, C) /\ p[2] \notin Stays(t, C)
<1>1. t[p[1]].kind = "open" /\ t[p[2]] = Close(t[p[1]].name)
    BY BlockIs DEF IsBlock
<1>2. t[p[2]].kind = "close"
    <2>1. Close(t[p[1]].name).kind = "close"
        BY DEF Close
    <2> QED
        BY <1>1, <2>1
<1> QED
    BY <1>1, <1>2 DEF Stays

\* The numbers up to n outside D, in order.
Climbs(g, l, n, D) ==
    /\ g \in [1 .. l -> 1 .. n]
    /\ \A i, j \in 1 .. l : i < j <=> g[i] < g[j]
    /\ \A i \in 1 .. l : g[i] \notin D
    /\ \A x \in 1 .. n : x \in D \/ \E i \in 1 .. l : g[i] = x

\* The numbers up to n outside a to b, in order.
LEMMA SkipRange ==
    ASSUME NEW n \in Nat, NEW a \in Int, NEW b \in Int, 1 <= a, a < b, b <= n,
           NEW l \in Nat, l = (a - 1) + (n - b),
           NEW g, g = [i \in 1 .. l |-> IF i < a THEN i ELSE i - (a - 1) + b],
           NEW D, D = {x \in 1 .. n : a <= x /\ x <= b}
    PROVE  Climbs(g, l, n, D)
<1>1. \A i \in 1 .. l : g[i] = IF i < a THEN i ELSE i - (a - 1) + b
    OBVIOUS
<1>2. ASSUME NEW i \in 1 .. l
      PROVE  g[i] \in 1 .. n /\ ~(a <= g[i] /\ g[i] <= b)
    <2>1. CASE i < a
        BY <1>1, <2>1
    <2>2. CASE ~(i < a)
        <3>1. i - (a - 1) + b \in 1 .. n /\ i - (a - 1) + b > b
            BY <2>2
        <3> QED
            BY <1>1, <2>2, <3>1
    <2> QED
        BY <2>1, <2>2
<1>2a. 1 <= a /\ a < b /\ b <= n
    BY <1>2
<1>3. ASSUME NEW i \in 1 .. l, NEW j \in 1 .. l
      PROVE  i < j <=> g[i] < g[j]
    <2>1. CASE i < a /\ j < a
        BY <1>1, <2>1
    <2>2. CASE i < a /\ ~(j < a)
        BY <1>1, <2>2
    <2>3. CASE ~(i < a) /\ j < a
        BY <1>1, <2>3
    <2>4. CASE ~(i < a) /\ ~(j < a)
        BY <1>1, <2>4
    <2> QED
        BY <2>1, <2>2, <2>3, <2>4
<1>4. ASSUME NEW x \in 1 .. n
      PROVE  (a <= x /\ x <= b) \/ \E i \in 1 .. l : g[i] = x
    <2>1. CASE x < a
        <3>1. x \in 1 .. l
            BY <2>1
        <3> QED
            BY <1>1, <2>1, <3>1
    <2>2. CASE x > b
        <3>1. PICK i \in Int : i = x - b + (a - 1)
            OBVIOUS
        <3>2. i \in 1 .. l /\ ~(i < a) /\ i - (a - 1) + b = x
            BY <2>2, <3>1
        <3> QED
            BY <1>1, <3>2
    <2> QED
        BY <2>1, <2>2
<1>5. g \in [1 .. l -> 1 .. n]
    BY <1>2
<1> QED
    BY <1>2, <1>3, <1>4, <1>5 DEF Climbs

\* The numbers up to n but a and b, in order.
LEMMA SkipTwo ==
    ASSUME NEW n \in Nat, NEW a \in Int, NEW b \in Int, 1 <= a, a < b, b <= n,
           NEW l \in Nat, l = n - 2,
           NEW g, g = [i \in 1 .. l |-> IF i < a THEN i ELSE IF i < b - 1 THEN i + 1 ELSE i + 2]
    PROVE  Climbs(g, l, n, {a, b})
<1>1. \A i \in 1 .. l : g[i] = IF i < a THEN i ELSE IF i < b - 1 THEN i + 1 ELSE i + 2
    OBVIOUS
<1>2. ASSUME NEW i \in 1 .. l
      PROVE  g[i] \in 1 .. n /\ g[i] \notin {a, b}
    <2>1. CASE i < a
        BY <1>1, <2>1
    <2>2. CASE ~(i < a) /\ i < b - 1
        BY <1>1, <2>2
    <2>3. CASE ~(i < a) /\ ~(i < b - 1)
        BY <1>1, <2>3
    <2> QED
        BY <2>1, <2>2, <2>3
<1>3. ASSUME NEW i \in 1 .. l, NEW j \in 1 .. l
      PROVE  i < j <=> g[i] < g[j]
    <2>1. CASE i < a
        BY <1>1, <2>1
    <2>2. CASE ~(i < a) /\ i < b - 1
        BY <1>1, <2>2
    <2>3. CASE ~(i < a) /\ ~(i < b - 1)
        BY <1>1, <2>3
    <2> QED
        BY <2>1, <2>2, <2>3
<1>4. ASSUME NEW x \in 1 .. n, x \notin {a, b}
      PROVE  \E i \in 1 .. l : g[i] = x
    <2>1. CASE x < a
        <3>1. x \in 1 .. l
            BY <2>1
        <3> QED
            BY <1>1, <2>1, <3>1
    <2>2. CASE a < x /\ x < b
        <3>1. PICK i \in Int : i = x - 1
            OBVIOUS
        <3>2. i \in 1 .. l /\ ~(i < a) /\ i < b - 1 /\ i + 1 = x
            BY <2>2, <3>1
        <3> QED
            BY <1>1, <3>2
    <2>3. CASE x > b
        <3>1. PICK i \in Int : i = x - 2
            OBVIOUS
        <3>2. i \in 1 .. l /\ ~(i < a) /\ ~(i < b - 1) /\ i + 2 = x
            BY <2>3, <3>1
        <3> QED
            BY <1>1, <3>2
    <2> QED
        BY <1>4, <2>1, <2>2, <2>3
<1>5. g \in [1 .. l -> 1 .. n]
    BY <1>2
<1> QED
    BY <1>2, <1>3, <1>4, <1>5 DEF Climbs

\* A text with another one in the place of a match, and what a match holds.
Replaced(t, p, inner) == SubSeq(t, 1, p[1] - 1) \o inner \o SubSeq(t, p[2] + 1, Len(t))
WithinMatch(t, p) == SubSeq(t, p[1] + 1, p[2] - 1)

\* A block that is dropped goes with everything in it.
LEMMA BlockDropped ==
    ASSUME NEW Symbols, NEW t \in Seq(Symbols), NEW C, Balanced(t), NEW p \in Blocks(t),
           t[p[1]].name \notin C,
           NEW inner, inner = <<>>,
           NEW u, u = Replaced(t, p, inner)
    PROVE  u \in Seq(Symbols) /\ Balanced(u) /\ Meaning(u, C) = Meaning(t, C)
<1>1. PICK n \in Nat : n = Len(t)
    OBVIOUS
<1>2. PICK a \in Int, b \in Int : a = p[1] /\ b = p[2] /\ 1 <= a /\ a < b /\ b <= n
    <2>1. p[1] \in 1 .. n /\ p[2] \in 1 .. n /\ p[1] < p[2]
        BY <1>1, BlockIs DEF IsBlock
    <2>2. p[1] \in Int /\ p[2] \in Int /\ 1 <= p[1] /\ p[2] <= n
        BY <2>1
    <2> QED
        BY <2>1, <2>2
<1>2a. 1 <= a /\ a < b /\ b <= n
    BY <1>2
<1>3. PICK m \in Nat : m = Len(inner) /\ m = 0 /\ inner \in Seq(Symbols)
    OBVIOUS
<1>4. /\ u \in Seq(Symbols) /\ Len(u) = (a - 1) + m + (n - b)
      /\ \A i \in 1 .. (a - 1) : u[i] = t[i]
      /\ \A i \in 1 .. (n - b) : u[(a - 1) + m + i] = t[b + i]
    <2>1. u = SubSeq(t, 1, a - 1) \o inner \o SubSeq(t, b + 1, n)
        BY <1>1, <1>2 DEF Replaced
    <2>2. u \in Seq(Symbols) /\ Assembled(u, t, inner, a, b, m, n)
        BY <1>1, <1>2a, <1>3, <2>1, PutTogether
    <2> QED
        BY <2>2 DEF Assembled
<1>5. PICK l \in Nat : l = Len(u) /\ l = (a - 1) + (n - b)
    <2>1. (a - 1) + (n - b) \in Nat
        BY <1>1, <1>2
    <2> QED
        BY <1>3, <1>4, <2>1
<1>6. PICK g : g = [i \in 1 .. l |-> IF i < a THEN i ELSE i - (a - 1) + b]
    OBVIOUS
<1>7. PICK D : D = {x \in 1 .. n : a <= x /\ x <= b}
    OBVIOUS
<1>8. \A i \in 1 .. l : g[i] = IF i < a THEN i ELSE i - (a - 1) + b
    BY <1>6
<1>9. Climbs(g, l, n, D)
    BY <1>2a, <1>5, <1>6, <1>7, SkipRange
<1>10. Shrinks(t, u, g, D)
    <2>1. ASSUME NEW i \in 1 .. l
          PROVE  u[i] = t[g[i]]
        <3>1. CASE i < a
            <4>1. i \in 1 .. (a - 1) /\ g[i] = i
                BY <1>2, <1>8, <3>1
            <4> QED
                BY <1>4, <4>1
        <3>2. CASE ~(i < a)
            <4>1. PICK k \in 1 .. (n - b) : i = (a - 1) + m + k /\ g[i] = b + k
                <5>1. i - (a - 1) \in 1 .. (n - b)
                    BY <1>2a, <1>5, <3>2
                <5>2. i = (a - 1) + m + (i - (a - 1)) /\ i - (a - 1) + b = b + (i - (a - 1))
                    BY <1>2a, <1>3
                <5> QED
                    BY <1>8, <3>2, <5>1, <5>2
            <4> QED
                BY <1>4, <4>1
        <3> QED
            BY <3>1, <3>2
    <2> QED
        BY <1>1, <1>5, <1>9, <2>1 DEF Climbs, Shrinks
<1>11. ASSUME NEW q \in Blocks(t)
       PROVE  /\ q[1] \in D <=> q[2] \in D
              /\ q[1] \in D => a <= q[1] /\ q[2] <= b
    <2>1. q[1] \in 1 .. n /\ q[2] \in 1 .. n
        BY <1>1, BlockIs DEF IsBlock
    <2>2. /\ q[1] \in Int /\ q[2] \in Int /\ a \in Int /\ b \in Int /\ a < b /\ q[1] < q[2]
          /\ \/ q[1] = a /\ q[2] = b
             \/ b < q[1]
             \/ q[2] < a
             \/ q[1] < a /\ b < q[2]
             \/ a < q[1] /\ q[2] < b
        BY <1>2, BesideBlock
    <2> QED
        BY <1>7, <2>1, <2>2
<1>12. WholeBlocks(t, D)
    BY <1>11 DEF WholeBlocks
<1>13. Covered(t, D, C)
    <2>1. ASSUME NEW x \in 1 .. n, x \in D, x \in Stays(t, C)
          PROVE  FALSE
        <3>1. x # a /\ x # b
            BY <1>2, <2>1, MarkersGo
        <3>2. a < x /\ x < b
            BY <1>2, <1>7, <2>1, <3>1
        <3>3. t[p[1]].name \in Around(t, x)
            BY <1>2, <3>2 DEF Around
        <3> QED
            BY <2>1, <3>3 DEF Stays
    <2>2. ASSUME NEW q \in Blocks(t), q[1] \in D, NEW x \in 1 .. n, q[1] < x, x < q[2]
          PROVE  x \in D
        <3>1. q[1] \in 1 .. n /\ q[2] \in 1 .. n /\ a <= q[1] /\ q[2] <= b
            BY <1>1, <1>11, <2>2, BlockIs DEF IsBlock
        <3> QED
            BY <1>7, <2>2, <3>1
    <2> QED
        BY <1>1, <2>1, <2>2 DEF Covered
<1> QED
    BY <1>4, <1>10, <1>12, <1>13, BalancedMove, MeaningMove

\* A block that is kept loses its two markers.
LEMMA BlockKept ==
    ASSUME NEW Symbols, NEW t \in Seq(Symbols), NEW C, Balanced(t), NEW p \in Blocks(t),
           t[p[1]].name \in C,
           NEW inner, inner = WithinMatch(t, p),
           NEW u, u = Replaced(t, p, inner)
    PROVE  u \in Seq(Symbols) /\ Balanced(u) /\ Meaning(u, C) = Meaning(t, C)
<1>1. PICK n \in Nat : n = Len(t)
    OBVIOUS
<1>2. PICK a \in Int, b \in Int : a = p[1] /\ b = p[2] /\ 1 <= a /\ a < b /\ b <= n
    <2>1. p[1] \in 1 .. n /\ p[2] \in 1 .. n /\ p[1] < p[2]
        BY <1>1, BlockIs DEF IsBlock
    <2>2. p[1] \in Int /\ p[2] \in Int /\ 1 <= p[1] /\ p[2] <= n
        BY <2>1
    <2> QED
        BY <2>1, <2>2
<1>2a. 1 <= a /\ a < b /\ b <= n
    BY <1>2
<1>3. PICK m \in Nat : m = b - a - 1
    <2>1. b - a - 1 \in Nat
        BY <1>2
    <2> QED
        BY <2>1
<1>4. inner \in Seq(Symbols) /\ Len(inner) = m /\ \A i \in 1 .. m : inner[i] = t[a + i]
    <2>1. PICK x \in Int, y \in Int : x = a + 1 /\ y = b - 1
        OBVIOUS
    <2>2. \A i \in x .. y : t[i] \in Symbols
        BY <1>1, <1>2a, <2>1
    <2>3. /\ inner \in Seq(Symbols)
          /\ Len(inner) = (IF x <= y THEN y - x + 1 ELSE 0)
          /\ \A i \in 1 .. (y - x + 1) : inner[i] = t[x + i - 1]
        <3>1. inner = SubSeq(t, x, y)
            BY <1>2, <2>1 DEF WithinMatch
        <3> QED
            BY <2>2, <3>1, SubSeqProperties
    <2>4. /\ (IF x <= y THEN y - x + 1 ELSE 0) = m /\ y - x + 1 = m
          /\ \A i \in 1 .. m : x + i - 1 = a + i
        BY <1>2a, <1>3, <2>1
    <2> QED
        BY <2>3, <2>4
<1>5. /\ u \in Seq(Symbols) /\ Len(u) = (a - 1) + m + (n - b)
      /\ \A i \in 1 .. (a - 1) : u[i] = t[i]
      /\ \A i \in 1 .. m : u[(a - 1) + i] = inner[i]
      /\ \A i \in 1 .. (n - b) : u[(a - 1) + m + i] = t[b + i]
    <2>1. u = SubSeq(t, 1, a - 1) \o inner \o SubSeq(t, b + 1, n)
        BY <1>1, <1>2 DEF Replaced
    <2>2. u \in Seq(Symbols) /\ Assembled(u, t, inner, a, b, m, n)
        BY <1>1, <1>2a, <1>4, <2>1, PutTogether
    <2> QED
        BY <2>2 DEF Assembled
<1>6. PICK l \in Nat : l = Len(u) /\ l = n - 2
    <2>1. (a - 1) + m + (n - b) = n - 2 /\ n - 2 \in Nat
        BY <1>2a, <1>3
    <2> QED
        BY <1>5, <2>1
<1>7. PICK g : g = [i \in 1 .. l |-> IF i < a THEN i ELSE IF i < b - 1 THEN i + 1 ELSE i + 2]
    OBVIOUS
<1>8. \A i \in 1 .. l : g[i] = IF i < a THEN i ELSE IF i < b - 1 THEN i + 1 ELSE i + 2
    BY <1>7
<1>9. Climbs(g, l, n, {a, b})
    BY <1>2a, <1>6, <1>7, SkipTwo
<1>10. Shrinks(t, u, g, {a, b})
    <2>1. ASSUME NEW i \in 1 .. l
          PROVE  u[i] = t[g[i]]
        <3>1. CASE i < a
            <4>1. i \in 1 .. (a - 1) /\ g[i] = i
                BY <1>2, <1>8, <3>1
            <4> QED
                BY <1>5, <4>1
        <3>2. CASE ~(i < a) /\ i < b - 1
            <4>1. PICK k \in 1 .. m : i = (a - 1) + k /\ g[i] = a + k
                <5>1. i - (a - 1) \in 1 .. m
                    BY <1>2a, <1>3, <3>2
                <5>2. i = (a - 1) + (i - (a - 1)) /\ i + 1 = a + (i - (a - 1))
                    BY <1>2a
                <5> QED
                    BY <1>8, <3>2, <5>1, <5>2
            <4> QED
                BY <1>4, <1>5, <4>1
        <3>3. CASE ~(i < a) /\ ~(i < b - 1)
            <4>1. PICK k \in 1 .. (n - b) : i = (a - 1) + m + k /\ g[i] = b + k
                <5>1. i - (b - 2) \in 1 .. (n - b)
                    BY <1>2a, <1>6, <3>3
                <5>2. i = (a - 1) + m + (i - (b - 2)) /\ i + 2 = b + (i - (b - 2))
                    BY <1>2a, <1>3
                <5> QED
                    BY <1>8, <3>3, <5>1, <5>2
            <4> QED
                BY <1>5, <4>1
        <3> QED
            BY <3>1, <3>2, <3>3
    <2> QED
        BY <1>1, <1>6, <1>9, <2>1 DEF Climbs, Shrinks
<1>11. ASSUME NEW q \in Blocks(t)
       PROVE  /\ q[1] \in {a, b} <=> q[2] \in {a, b}
              /\ q[1] \in {a, b} => q[1] = a
    <2>1. /\ q[1] \in Int /\ q[2] \in Int /\ a \in Int /\ b \in Int /\ a < b /\ q[1] < q[2]
          /\ \/ q[1] = a /\ q[2] = b
             \/ b < q[1]
             \/ q[2] < a
             \/ q[1] < a /\ b < q[2]
             \/ a < q[1] /\ q[2] < b
        BY <1>2, BesideBlock
    <2> QED
        BY <2>1
<1>12. WholeBlocks(t, {a, b})
    BY <1>11 DEF WholeBlocks
<1>13. Covered(t, {a, b}, C)
    <2>1. \A x \in {a, b} : x \notin Stays(t, C)
        BY <1>2, MarkersGo
    <2>2. \A q \in Blocks(t) : q[1] \in {a, b} => t[q[1]].name \in C
        BY <1>2, <1>11
    <2> QED
        BY <2>1, <2>2 DEF Covered
<1> QED
    BY <1>5, <1>10, <1>12, <1>13, BalancedMove, MeaningMove

\* A round of the loop keeps a text balanced, and what it means.
LEMMA RoundKeepsMeaning ==
    ASSUME NEW Symbols, NEW t \in Seq(Symbols), NEW C, Balanced(t), Pairs(t) # {},
           NEW p, p = FirstMatch(t),
           NEW inner, inner = IF t[p[1]].name \in C THEN WithinMatch(t, p) ELSE <<>>,
           NEW u, u = Replaced(t, p, inner)
    PROVE  u \in Seq(Symbols) /\ Balanced(u) /\ Meaning(u, C) = Meaning(t, C)
<1>1. p \in Blocks(t)
    BY FirstIsBlock
<1>2. CASE t[p[1]].name \in C
    BY <1>1, <1>2, BlockKept
<1>3. CASE t[p[1]].name \notin C
    BY <1>1, <1>3, BlockDropped
<1> QED
    BY <1>2, <1>3

\* Until the placeholders are replaced, a text means what its template means;
\* when they are, no marker is left, so that it is what the template means.
MeansTheSame(Symbols) ==
    templatePhase # "written" =>
        text \in Seq(Symbols) /\ Balanced(text) /\ Meaning(text, trueOnes) = Meaning(template, trueOnes)
MarkersGone == templatePhase = "variables" => Pairs(text) = {}
FilledIn == templatePhase = "written" => text = Filled(Meaning(template, trueOnes), variables)

TemplateInv(Symbols) ==
    Balanced(template) => MeansTheSame(Symbols) /\ MarkersGone /\ FilledIn

LEMMA TemplateInvStep ==
    ASSUME NEW Symbols, TemplateInv(Symbols), [TemplateNext]_templateVars
    PROVE  TemplateInv(Symbols)'
<1>1. template' = template /\ trueOnes' = trueOnes /\ variables' = variables
    BY DEF TemplateNext, ResolveBlock, BlocksDone, Substitute, templateVars
<1>2. SUFFICES ASSUME Balanced(template)
               PROVE  MeansTheSame(Symbols)' /\ MarkersGone' /\ FilledIn'
    BY <1>1 DEF TemplateInv
<1>3. MeansTheSame(Symbols) /\ MarkersGone /\ FilledIn
    BY <1>2 DEF TemplateInv
<1>4. CASE ResolveBlock
    <2>1. PICK p, inner : /\ p = FirstMatch(text)
                          /\ inner = IF text[p[1]].name \in trueOnes THEN WithinMatch(text, p) ELSE <<>>
        OBVIOUS
    <2>2. text' = Replaced(text, p, inner) /\ Pairs(text) # {}
        BY <1>4, <2>1 DEF ResolveBlock, Replaced, WithinMatch
    <2>3. templatePhase = "blocks" /\ templatePhase' = "blocks"
        BY <1>4 DEF ResolveBlock
    <2>4. text \in Seq(Symbols) /\ Balanced(text) /\ Meaning(text, trueOnes) = Meaning(template, trueOnes)
        BY <1>3, <2>3 DEF MeansTheSame
    <2>5. PICK u : u = text'
        OBVIOUS
    <2>6. u \in Seq(Symbols) /\ Balanced(u) /\ Meaning(u, trueOnes) = Meaning(text, trueOnes)
        BY <2>1, <2>2, <2>4, <2>5, RoundKeepsMeaning
    <2>7. text' \in Seq(Symbols) /\ Balanced(text') /\ Meaning(text', trueOnes) = Meaning(text, trueOnes)
        BY <2>5, <2>6
    <2>8. Balanced(text)' /\ Meaning(text, trueOnes)' = Meaning(template, trueOnes)'
        BY <1>1, <2>4, <2>7
    <2> QED
        BY <2>3, <2>7, <2>8 DEF MeansTheSame, MarkersGone, FilledIn
<1>5. CASE BlocksDone
    <2>1. /\ templatePhase = "blocks" /\ templatePhase' = "variables" /\ text' = text
          /\ Pairs(text) = {}
        BY <1>5 DEF BlocksDone
    <2>2. text \in Seq(Symbols) /\ Balanced(text) /\ Meaning(text, trueOnes) = Meaning(template, trueOnes)
        BY <1>3, <2>1 DEF MeansTheSame
    <2>3. Balanced(text)' /\ Meaning(text, trueOnes)' = Meaning(template, trueOnes)' /\ Pairs(text)' = {}
        BY <1>1, <2>1, <2>2
    <2> QED
        BY <2>1, <2>2, <2>3 DEF MeansTheSame, MarkersGone, FilledIn
<1>6. CASE Substitute
    <2>1. /\ templatePhase = "variables" /\ templatePhase' = "written"
          /\ text' = Filled(text, variables)
        BY <1>6 DEF Substitute
    <2>2. text \in Seq(Symbols) /\ Balanced(text) /\ Meaning(text, trueOnes) = Meaning(template, trueOnes)
        BY <1>3, <2>1 DEF MeansTheSame
    <2>3. Pairs(text) = {}
        BY <1>3, <2>1 DEF MarkersGone
    <2>4. text = Meaning(template, trueOnes)
        BY <2>2, <2>3, MeansItself
    <2>5. text' = Filled(Meaning(template, trueOnes), variables)
        BY <2>1, <2>4
    <2>6. text' = Filled(Meaning(template, trueOnes), variables)'
        BY <1>1, <2>5
    <2> QED
        BY <2>1, <2>6 DEF MeansTheSame, MarkersGone, FilledIn
<1>7. CASE UNCHANGED templateVars
    BY <1>3, <1>7 DEF templateVars, MeansTheSame, MarkersGone, FilledIn
<1> QED
    BY <1>4, <1>5, <1>6, <1>7 DEF TemplateNext

\* Whatever the templates, the conditions given and the values: a balanced
\* template comes out as what it means (process_conditionals and
\* process_variables of process-template.py).
THEOREM TemplatesComeOut ==
    ASSUME NEW Symbols, NEW templates \in SUBSET Seq(Symbols), NEW pairs
    PROVE  TemplateSpec(templates, pairs) => []BlocksResolved
<1>1. TemplateInit(templates, pairs) => TemplateInv(Symbols)
    BY DEF TemplateInit, TemplateInv, MeansTheSame, MarkersGone, FilledIn
<1>2. TemplateInv(Symbols) /\ [TemplateNext]_templateVars => TemplateInv(Symbols)'
    BY TemplateInvStep
<1>3. TemplateInv(Symbols) => BlocksResolved
    BY DEF TemplateInv, MeansTheSame, FilledIn, BlocksResolved
<1> QED
    BY <1>1, <1>2, <1>3, PTL DEF TemplateSpec

-----------------------------------------------------------------------------
(* LayeredConfig: the layers, and what becomes of them. *)

\* What there is along a path.
CurrentStep(g, v, p, n) == IF n = 0 THEN v ELSE Down(g[n - 1], p[n])
IsCurrent(g, v, p, N) == g = [n \in 0 .. N |-> CurrentStep(g, v, p, n)]

\* The recursion of extract_key has a function that satisfies it.
LEMMA CurrentExists ==
    ASSUME NEW v, NEW p, NEW N \in Nat
    PROVE  \E g : IsCurrent(g, v, p, N)
<1> DEFINE P == {m \in 0 .. N : \E g : IsCurrent(g, v, p, m)}
<1>1. 0 \in P
    <2>1. PICK g : g = [n \in 0 .. 0 |-> v]
        OBVIOUS
    <2>2. g = [n \in 0 .. 0 |-> CurrentStep(g, v, p, n)]
        BY <2>1 DEF CurrentStep
    <2> QED
        BY <2>2 DEF IsCurrent
<1>2. ASSUME NEW k \in 1 .. N, k - 1 \in P
      PROVE  k \in P
    <2>1. PICK g : IsCurrent(g, v, p, k - 1)
        BY <1>2
    <2>2. PICK h : h = [n \in 0 .. k |-> IF n = k THEN Down(g[k - 1], p[k]) ELSE g[n]]
        OBVIOUS
    <2>3. ASSUME NEW n \in 0 .. k
          PROVE  h[n] = CurrentStep(h, v, p, n)
        <3>1. CASE n = k
            BY <2>2, <3>1 DEF CurrentStep
        <3>2. CASE n # k
            <4>1. n \in 0 .. (k - 1) /\ (n # 0 => n - 1 \in 0 .. (k - 1))
                BY <3>2
            <4>2. g[n] = CurrentStep(g, v, p, n)
                BY <2>1, <4>1 DEF IsCurrent
            <4>3. h[n] = g[n] /\ (n # 0 => h[n - 1] = g[n - 1])
                BY <2>2, <4>1
            <4> QED
                BY <4>2, <4>3 DEF CurrentStep
        <3> QED
            BY <3>1, <3>2
    <2>4. h = [n \in 0 .. k |-> CurrentStep(h, v, p, n)]
        <3>1. \A n \in 0 .. k : h[n] = CurrentStep(h, v, p, n)
            BY <2>3
        <3>2. DOMAIN h = 0 .. k /\ h = [n \in 0 .. k |-> h[n]]
            BY <2>2
        <3> QED
            BY <3>1, <3>2
    <2> QED
        BY <2>4 DEF IsCurrent
<1> HIDE DEF P
<1>3. \A k \in 0 .. N : k \in P
    BY <1>1, <1>2, Upwards
<1>4. N \in P
    BY <1>3
<1> QED
    BY <1>4 DEF P

\* Two such functions agree.
LEMMA CurrentUnique ==
    ASSUME NEW v, NEW p, NEW q, NEW N \in Nat, NEW M \in Nat, N <= M,
           \A n \in 1 .. N : p[n] = q[n],
           NEW g, IsCurrent(g, v, p, N), NEW h, IsCurrent(h, v, q, M)
    PROVE  \A n \in 0 .. N : g[n] = h[n]
<1> DEFINE P == {n \in 0 .. N : g[n] = h[n]}
<1>0. /\ \A n \in 0 .. N : g[n] = CurrentStep(g, v, p, n)
      /\ \A n \in 0 .. M : h[n] = CurrentStep(h, v, q, n)
    BY DEF IsCurrent
<1>1. 0 \in P
    BY <1>0 DEF CurrentStep
<1>2. ASSUME NEW k \in 1 .. N, k - 1 \in P
      PROVE  k \in P
    <2>1. g[k] = Down(g[k - 1], p[k]) /\ h[k] = Down(h[k - 1], q[k])
        BY <1>0 DEF CurrentStep
    <2> QED
        BY <2>1, <1>2
<1> HIDE DEF P
<1>3. \A k \in 0 .. N : k \in P
    BY <1>1, <1>2, Upwards
<1> QED
    BY <1>3 DEF P

\* extract_key is such a function's value at the end of the path.
LEMMA ExtractIs ==
    ASSUME NEW v, NEW E, NEW p \in Seq(E), NEW N \in Nat, Len(p) = N
    PROVE  \E g : IsCurrent(g, v, p, N) /\ ExtractKey(v, p) = g[N]
<1>1. PICK h : h = CHOOSE g : IsCurrent(g, v, p, N)
    OBVIOUS
<1>2. IsCurrent(h, v, p, N)
    BY <1>1, CurrentExists
<1>3. ExtractKey(v, p) = h[N]
    BY <1>1 DEF ExtractKey, IsCurrent, CurrentStep
<1> QED
    BY <1>2, <1>3

\* At the end of no path there is the value itself.
LEMMA ExtractNothing ==
    ASSUME NEW v
    PROVE  ExtractKey(v, <<>>) = v
<1>1. <<>> \in Seq({}) /\ Len(<<>>) = 0
    OBVIOUS
<1>2. PICK g : IsCurrent(g, v, <<>>, 0) /\ ExtractKey(v, <<>>) = g[0]
    BY <1>1, ExtractIs
<1> QED
    BY <1>2 DEF IsCurrent, CurrentStep

\* A part more goes down one table.
LEMMA ExtractOne ==
    ASSUME NEW v, NEW E, NEW p \in Seq(E), NEW k \in E
    PROVE  ExtractKey(v, Append(p, k)) = Down(ExtractKey(v, p), k)
<1>1. PICK N \in Nat : N = Len(p)
    OBVIOUS
<1>2. PICK q : q = Append(p, k)
    OBVIOUS
<1>3. q \in Seq(E) /\ Len(q) = N + 1 /\ q[N + 1] = k /\ \A n \in 1 .. N : p[n] = q[n]
    BY <1>1, <1>2
<1>4. PICK g : IsCurrent(g, v, p, N) /\ ExtractKey(v, p) = g[N]
    BY <1>1, ExtractIs
<1>5. PICK h : IsCurrent(h, v, q, N + 1) /\ ExtractKey(v, q) = h[N + 1]
    BY <1>3, ExtractIs
<1>6. \A n \in 0 .. N : g[n] = h[n]
    <2>1. PICK M \in Nat : M = N + 1
        OBVIOUS
    <2>2. N <= M
        BY <2>1
    <2>3. IsCurrent(h, v, q, M) /\ IsCurrent(g, v, p, N) /\ \A n \in 1 .. N : p[n] = q[n]
        BY <2>1, <1>3, <1>4, <1>5
    <2> QED
        BY <2>2, <2>3, CurrentUnique
<1>7. h[N + 1] = Down(h[N], k)
    BY <1>3, <1>5 DEF IsCurrent, CurrentStep
<1> QED
    BY <1>2, <1>4, <1>5, <1>6, <1>7

\* A path with a part more.
LEMMA PathMore ==
    ASSUME NEW E, NEW p \in Seq(E)
    PROVE  Len(p) \in Nat /\ \A k \in E : Append(p, k) \in Seq(E) /\ Len(Append(p, k)) = Len(p) + 1
OBVIOUS

\* What holds of no path, and of a path with a part more, holds of every path.
LEMMA PathInduction ==
    ASSUME NEW E, NEW P, <<>> \in P,
           \A p \in Seq(E) : \A k \in E : p \in P => Append(p, k) \in P
    PROVE  \A p \in Seq(E) : p \in P
<1>1. SUFFICES ASSUME NEW p \in Seq(E)
      PROVE  p \in P
    OBVIOUS
<1>2. PICK N \in Nat : N = Len(p)
    OBVIOUS
<1> DEFINE Q == {n \in 0 .. N : \A q \in Seq(E) : Len(q) = n => q \in P}
<1>3. 0 \in Q
    OBVIOUS
<1>4. ASSUME NEW n \in 1 .. N, n - 1 \in Q
      PROVE  n \in Q
    <2>1. ASSUME NEW q \in Seq(E), Len(q) = n
          PROVE  q \in P
        <3>1. PICK m \in Nat : m = n - 1
            OBVIOUS
        <3>2. PICK t : t = SubSeq(q, 1, m)
            OBVIOUS
        <3>3. Len(q) = m + 1
            BY <2>1, <3>1
        <3>4. t \in Seq(E) /\ Len(t) = m /\ \A i \in 1 .. m : t[i] = q[i]
            BY <3>2, <3>3, FrontOf
        <3>5. q[m + 1] \in E
            BY <3>3
        <3>6. q = Append(t, q[m + 1])
            BY <3>3, <3>4, <3>5
        <3>7. t \in P
            BY <1>4, <3>1, <3>4
        <3> QED
            BY <3>4, <3>5, <3>6, <3>7
    <2> QED
        BY <2>1
<1> HIDE DEF Q
<1>5. \A n \in 0 .. N : n \in Q
    BY <1>3, <1>4, Upwards
<1>6. N \in Q
    BY <1>5
<1> QED
    BY <1>2, <1>6 DEF Q

\* Nothing is no table, no array and no scalar; a table and an array are what they hold.
LEMMA Kinds ==
    /\ ~IsTable(Missing) /\ ~IsArray(Missing)
    /\ \A f : /\ IsTable(Table(f)) /\ ~IsArray(Table(f)) /\ Table(f).table = f
              /\ Table(f) # Missing
    /\ \A s : /\ IsArray(Array(s)) /\ ~IsTable(Array(s)) /\ Array(s).array = s
              /\ Array(s) # Missing
<1>1. ~IsTable(Missing) /\ ~IsArray(Missing)
    BY DEF IsTable, IsArray, Missing
<1>2. ASSUME NEW f
      PROVE  /\ IsTable(Table(f)) /\ ~IsArray(Table(f)) /\ Table(f).table = f
             /\ Table(f) # Missing
    BY <1>1 DEF IsTable, IsArray, Table
<1>3. ASSUME NEW s
      PROVE  /\ IsArray(Array(s)) /\ ~IsTable(Array(s)) /\ Array(s).array = s
             /\ Array(s) # Missing
    BY <1>1 DEF IsTable, IsArray, Array
<1> QED
    BY <1>1, <1>2, <1>3

\* A value on the way along a path that is no table, and a file that speaks of a path.
Bars(v, p) ==
    \E n \in 1 .. (Len(p) - 1) :
        /\ ExtractKey(v, SubSeq(p, 1, n)) # Missing
        /\ ~IsTable(ExtractKey(v, SubSeq(p, 1, n)))
Says(v, p) == ExtractKey(v, p) # Missing \/ Bars(v, p)

\* What bars the way along a path bars it along a longer one, and so does its end.
LEMMA BarsSteps ==
    ASSUME NEW v, IsTable(v), NEW E
    PROVE  /\ ~Bars(v, <<>>)
           /\ \A p \in Seq(E) : \A k \in E :
                 Bars(v, Append(p, k)) <=>
                    Bars(v, p) \/ (ExtractKey(v, p) # Missing /\ ~IsTable(ExtractKey(v, p)))
<1>1. ~Bars(v, <<>>)
    <2>1. 1 .. (0 - 1) = {} /\ Len(<<>>) = 0
        OBVIOUS
    <2> QED
        BY <2>1 DEF Bars
<1>2. ASSUME NEW p \in Seq(E), NEW k \in E
      PROVE  Bars(v, Append(p, k)) <=>
                Bars(v, p) \/ (ExtractKey(v, p) # Missing /\ ~IsTable(ExtractKey(v, p)))
    <2>1. PICK N \in Nat : N = Len(p)
        OBVIOUS
    <2>2. PICK q : q = Append(p, k)
        OBVIOUS
    <2>3. Len(q) = N + 1 /\ (N + 1) - 1 = N
        BY <2>1, <2>2
    <2>4. \A n \in 1 .. N : SubSeq(q, 1, n) = SubSeq(p, 1, n)
        BY <2>1, <2>2
    <2>5. N # 0 => SubSeq(p, 1, N) = p
        BY <2>1
    <2>6. Bars(v, q) <=> \E n \in 1 .. N : /\ ExtractKey(v, SubSeq(p, 1, n)) # Missing
                                           /\ ~IsTable(ExtractKey(v, SubSeq(p, 1, n)))
        BY <2>3, <2>4 DEF Bars
    <2>7. Bars(v, p) <=> \E n \in 1 .. (N - 1) : /\ ExtractKey(v, SubSeq(p, 1, n)) # Missing
                                                 /\ ~IsTable(ExtractKey(v, SubSeq(p, 1, n)))
        BY <2>1 DEF Bars
    <2>8. \A n \in 1 .. N : n \in 1 .. (N - 1) \/ n = N
        OBVIOUS
    <2>9. (\A n \in 1 .. (N - 1) : n \in 1 .. N) /\ (N # 0 => N \in 1 .. N)
        OBVIOUS
    <2>10. CASE N = 0
        <3>1. p = <<>>
            BY <2>1, <2>10, EmptySeq
        <3>2. IsTable(ExtractKey(v, p))
            BY <3>1, ExtractNothing
        <3>3. 1 .. N = {} /\ 1 .. (N - 1) = {}
            BY <2>10
        <3> QED
            BY <3>2, <3>3, <2>2, <2>6, <2>7
    <2>11. CASE N # 0
        BY <2>2, <2>5, <2>6, <2>7, <2>8, <2>9, <2>11
    <2> QED
        BY <2>10, <2>11
<1> QED
    BY <1>1, <1>2

\* Behind a bar there is nothing.
LEMMA BarredIsMissing ==
    ASSUME NEW v, IsTable(v), NEW E
    PROVE  \A p \in Seq(E) : Bars(v, p) => ExtractKey(v, p) = Missing
<1> DEFINE P == {p \in Seq(E) : Bars(v, p) => ExtractKey(v, p) = Missing}
<1>1. <<>> \in P
    BY BarsSteps
<1>2. ASSUME NEW p \in Seq(E), NEW k \in E, p \in P
      PROVE  Append(p, k) \in P
    <2>1. ExtractKey(v, Append(p, k)) = Down(ExtractKey(v, p), k)
        BY ExtractOne
    <2>2. Bars(v, Append(p, k)) => ~IsTable(ExtractKey(v, p))
        BY <1>2, BarsSteps, Kinds
    <2>3. Append(p, k) \in Seq(E)
        OBVIOUS
    <2> QED
        BY <2>1, <2>2, <2>3 DEF Down
<1> HIDE DEF P
<1>3. \A p \in Seq(E) : p \in P
    BY <1>1, <1>2, PathInduction
<1> QED
    BY <1>3 DEF P

\* A table speaks of what is on no path; of a path with a part more if there is something, or
\* if it speaks of the path and has no table there.
LEMMA SaysSteps ==
    ASSUME NEW v, IsTable(v), NEW E
    PROVE  /\ Says(v, <<>>)
           /\ \A p \in Seq(E) : \A k \in E :
                 Says(v, Append(p, k)) <=>
                    \/ ExtractKey(v, Append(p, k)) # Missing
                    \/ Says(v, p) /\ ~IsTable(ExtractKey(v, p))
<1>1. Says(v, <<>>)
    <2>1. ExtractKey(v, <<>>) = v
        BY ExtractNothing
    <2> QED
        BY <2>1, Kinds DEF Says
<1>2. ASSUME NEW p \in Seq(E), NEW k \in E
      PROVE  Says(v, Append(p, k)) <=>
                \/ ExtractKey(v, Append(p, k)) # Missing
                \/ Says(v, p) /\ ~IsTable(ExtractKey(v, p))
    <2>1. Bars(v, Append(p, k)) <=>
             Bars(v, p) \/ (ExtractKey(v, p) # Missing /\ ~IsTable(ExtractKey(v, p)))
        BY BarsSteps
    <2>2. Bars(v, p) => ExtractKey(v, p) = Missing
        BY BarredIsMissing
    <2> QED
        BY <2>1, <2>2, Kinds DEF Says
<1> QED
    BY <1>1, <1>2

\* A file that holds a table as TOML gives it: every value in it is of one kind, no table is
\* nested deeper than d, the keys are strings with a value each, and an array is a list of things.
TidyAt(x, n, Things, d) ==
    /\ ~(IsTable(x) /\ IsArray(x))
    /\ IsTable(x) => /\ n < d
                     /\ DOMAIN x.table \subseteq STRING
                     /\ \A k \in DOMAIN x.table : x.table[k] # Missing
    /\ IsArray(x) => x.array \in Seq(Things)
Tidy(v, Things, d) ==
    IsTable(v) /\ \A p \in Seq(STRING) : TidyAt(ExtractKey(v, p), Len(p), Things, d)

\* The recursion of deep_merge, on the values b and o at a path.
EntryStep(m, b, o, p, k) ==
    CASE k \notin DOMAIN o.table -> b.table[k]
      [] k \notin DOMAIN b.table -> o.table[k]
      [] OTHER -> m[Append(p, k)]
MergeStep(m, b, o, p) ==
    CASE IsTable(b) /\ IsTable(o) ->
            Table([k \in DOMAIN b.table \cup DOMAIN o.table |-> EntryStep(m, b, o, p, k)])
      [] IsArray(b) /\ IsArray(o) -> Array(MergeArrays(b.array, o.array))
      [] OTHER -> o
IsMerge(m, base, over) ==
    m = [p \in Seq(STRING) |-> MergeStep(m, ExtractKey(base, p), ExtractKey(over, p), p)]

\* The step depends on what is merged one key further down alone, and only for two tables.
LEMMA MergeStepSame ==
    ASSUME NEW b, NEW o, NEW p, NEW g, NEW h,
           IsTable(b) /\ IsTable(o) =>
              /\ DOMAIN b.table \subseteq STRING /\ DOMAIN o.table \subseteq STRING
              /\ \A k \in STRING : g[Append(p, k)] = h[Append(p, k)]
    PROVE  MergeStep(g, b, o, p) = MergeStep(h, b, o, p)
<1>1. CASE IsTable(b) /\ IsTable(o)
    <2>1. \A k \in DOMAIN b.table \cup DOMAIN o.table : EntryStep(g, b, o, p, k) = EntryStep(h, b, o, p, k)
        BY <1>1 DEF EntryStep
    <2>2. [k \in DOMAIN b.table \cup DOMAIN o.table |-> EntryStep(g, b, o, p, k)]
          = [k \in DOMAIN b.table \cup DOMAIN o.table |-> EntryStep(h, b, o, p, k)]
        BY <2>1
    <2> QED
        BY <2>2 DEF MergeStep
<1>2. CASE ~(IsTable(b) /\ IsTable(o))
    BY <1>2 DEF MergeStep
<1> QED
    BY <1>1, <1>2

\* There is a function that satisfies it: no table is deeper than d.
LEMMA MergeExists ==
    ASSUME NEW Things, NEW d \in Nat, NEW base, NEW over, Tidy(base, Things, d), Tidy(over, Things, d)
    PROVE  \E m : IsMerge(m, base, over)
<1> DEFINE Step(g, p) == MergeStep(g, ExtractKey(base, p), ExtractKey(over, p), p)
           P == {n \in 0 .. d : \E g : /\ g = [p \in Seq(STRING) |-> g[p]]
                                      /\ \A p \in Seq(STRING) : Len(p) >= d - n => g[p] = Step(g, p)}
<1>0. ASSUME NEW n \in 0 .. d, NEW g, NEW h, NEW p \in Seq(STRING), Len(p) >= d - n,
             \A q \in Seq(STRING) : Len(q) > d - n => g[q] = h[q]
      PROVE  Step(g, p) = Step(h, p)
    <2>1. PICK b, o : b = ExtractKey(base, p) /\ o = ExtractKey(over, p)
        OBVIOUS
    <2>2. \A k \in STRING : Append(p, k) \in Seq(STRING) /\ Len(Append(p, k)) > d - n
        <3>1. Len(p) \in Nat /\ Len(p) + 1 > d - n
            BY <1>0
        <3>2. \A k \in STRING : Append(p, k) \in Seq(STRING) /\ Len(Append(p, k)) = Len(p) + 1
            BY PathMore
        <3> HIDE DEF P
        <3> QED
            BY <3>1, <3>2
    <2>3. \A k \in STRING : g[Append(p, k)] = h[Append(p, k)]
        BY <1>0, <2>2
    <2>4. IsTable(b) /\ IsTable(o) => DOMAIN b.table \subseteq STRING /\ DOMAIN o.table \subseteq STRING
        BY <2>1 DEF Tidy, TidyAt
    <2> QED
        BY <2>1, <2>3, <2>4, MergeStepSame
<1>1. 0 \in P
    <2>1. PICK e : e = [p \in Seq(STRING) |-> Missing]
        OBVIOUS
    <2>2. PICK g : g = [p \in Seq(STRING) |-> Step(e, p)]
        OBVIOUS
    <2>3. ASSUME NEW p \in Seq(STRING), Len(p) >= d - 0
          PROVE  g[p] = Step(g, p)
        <3>1. ~IsTable(ExtractKey(base, p))
            BY <2>3 DEF Tidy, TidyAt
        <3>2. Step(e, p) = Step(g, p)
            BY <3>1, MergeStepSame
        <3> HIDE DEF Step
        <3> QED
            BY <2>2, <3>2
    <2>4. g = [p \in Seq(STRING) |-> g[p]]
        <3> HIDE DEF Step
        <3> QED
            BY <2>2
    <2> HIDE DEF Step
    <2> QED
        BY <2>3, <2>4
<1>2. ASSUME NEW n \in 1 .. d, n - 1 \in P
      PROVE  n \in P
    <2>1. PICK g : /\ g = [p \in Seq(STRING) |-> g[p]]
                   /\ \A p \in Seq(STRING) : Len(p) >= d - (n - 1) => g[p] = Step(g, p)
        BY <1>2
    <2> HIDE DEF Step
    <2>2. PICK h : h = [p \in Seq(STRING) |-> Step(g, p)]
        OBVIOUS
    <2>3. \A p \in Seq(STRING) : Len(p) > d - n => g[p] = h[p]
        <3>1. \A i \in Nat : i > d - n => i >= d - (n - 1)
            OBVIOUS
        <3>2. \A p \in Seq(STRING) : Len(p) \in Nat
            OBVIOUS
        <3> QED
            BY <2>1, <2>2, <3>1, <3>2
    <2>4. ASSUME NEW p \in Seq(STRING), Len(p) >= d - n
          PROVE  h[p] = Step(h, p)
        <3>1. n \in 0 .. d
            OBVIOUS
        <3>2. Step(g, p) = Step(h, p)
            BY <1>0, <2>3, <2>4, <3>1
        <3> QED
            BY <2>2, <3>2
    <2>5. h = [p \in Seq(STRING) |-> h[p]]
        BY <2>2
    <2> QED
        BY <2>4, <2>5
<1>3. d \in P
    <2> HIDE DEF P
    <2>1. \A n \in 0 .. d : n \in P
        BY <1>1, <1>2, Upwards
    <2> QED
        BY <2>1
<1>4. PICK m : /\ m = [p \in Seq(STRING) |-> m[p]]
               /\ \A p \in Seq(STRING) : Len(p) >= d - d => m[p] = Step(m, p)
    BY <1>3
<1>5. \A p \in Seq(STRING) : m[p] = Step(m, p)
    <2>1. \A p \in Seq(STRING) : Len(p) >= d - d
        OBVIOUS
    <2> HIDE DEF Step
    <2> QED
        BY <1>4, <2>1
<1>6. m = [p \in Seq(STRING) |-> Step(m, p)]
    <2> HIDE DEF Step
    <2> QED
        BY <1>4, <1>5
<1> QED
    BY <1>6 DEF IsMerge

\* A function that satisfies it at every path, whose value at the root is deep_merge's.
MergedBy(m, base, over) ==
    /\ DeepMerge(base, over) = m[<<>>]
    /\ \A p \in Seq(STRING) : m[p] = MergeStep(m, ExtractKey(base, p), ExtractKey(over, p), p)

\* deep_merge is such a function's value at the root.
LEMMA MergeIs ==
    ASSUME NEW Things, NEW d \in Nat, NEW base, NEW over, Tidy(base, Things, d), Tidy(over, Things, d)
    PROVE  \E m : MergedBy(m, base, over)
<1>1. PICK h : h = CHOOSE m : IsMerge(m, base, over)
    OBVIOUS
<1>2. IsMerge(h, base, over)
    BY <1>1, MergeExists
<1>3. DeepMerge(base, over) = h[<<>>]
    BY <1>1 DEF DeepMerge, IsMerge, MergeStep, EntryStep
<1>4. \A p \in Seq(STRING) : h[p] = MergeStep(h, ExtractKey(base, p), ExtractKey(over, p), p)
    BY <1>2 DEF IsMerge
<1>5. MergedBy(h, base, over)
    BY <1>3, <1>4 DEF MergedBy
<1> QED
    BY <1>5

\* One item put among those there are: the step of _merge_by_key, and its recursion.
SameKey(result, item, f) == {i \in DOMAIN result : result[i].table[f] = item.table[f]}
PutItem(result, item, f) ==
    IF SameKey(result, item, f) = {} THEN Append(result, item)
    ELSE [result EXCEPT ![Max(SameKey(result, item, f))] = item]
PutStep(g, base, over, f, U) ==
    IF U = {} THEN base ELSE PutItem(g[U \ {Max(U)}], over[Max(U)], f)
IsPuts(g, Things, base, over, f, N) ==
    /\ g[0] = base
    /\ \A n \in 0 .. N : g[n] \in Seq(Things)
    /\ \A n \in 1 .. N : g[n] = PutItem(g[n - 1], over[n], f)

\* The list stays one of the same things.
LEMMA PutIn ==
    ASSUME NEW Things, NEW result \in Seq(Things), NEW item \in Things, NEW f
    PROVE  PutItem(result, item, f) \in Seq(Things)
<1>1. Append(result, item) \in Seq(Things)
    OBVIOUS
<1>2. PICK m : m = Max(SameKey(result, item, f))
    OBVIOUS
<1>3. [result EXCEPT ![m] = item] \in Seq(Things)
    <2>1. PICK N \in Nat : N = Len(result)
        OBVIOUS
    <2>2. result \in [1 .. N -> Things]
        BY <2>1
    <2>3. [result EXCEPT ![m] = item] \in [1 .. N -> Things]
        BY <2>2
    <2> QED
        BY <2>3
<1> QED
    BY <1>1, <1>2, <1>3 DEF PutItem

\* The numbers up to n, one of those up to N.
LEMMA PartOfRange ==
    ASSUME NEW N \in Nat, NEW n \in 1 .. N
    PROVE  1 .. n \in SUBSET (1 .. N) /\ 1 .. n # {} /\ (1 .. n) \ {n} = 1 .. (n - 1)
<1>1. \A i \in 1 .. n : i \in 1 .. N
    OBVIOUS
<1>2. n \in 1 .. n
    OBVIOUS
<1>3. \A i \in Int : i \in (1 .. n) \ {n} <=> i \in 1 .. (n - 1)
    OBVIOUS
<1>4. (1 .. n) \ {n} \subseteq Int /\ 1 .. (n - 1) \subseteq Int
    OBVIOUS
<1>5. (1 .. n) \ {n} = 1 .. (n - 1)
    BY <1>3, <1>4, Zenon
<1> QED
    BY <1>1, <1>2, <1>5

\* Merging by key puts the items of the higher list one after the other.
LEMMA PutSteps ==
    ASSUME NEW Things, NEW base \in Seq(Things), NEW over \in Seq(Things), NEW f,
           NEW N \in Nat, Len(over) = N
    PROVE  \E g : IsPuts(g, Things, base, over, f, N) /\ MergeByKey(base, over, f) = g[N]
<1>1. PICK D : D = DOMAIN over
    OBVIOUS
<1>2. Positions(D) /\ D = 1 .. N /\ \A i \in D : over[i] \in Things
    BY <1>1, ListPositions
<1>3. PICK T : T = [p \in Seq(Things) \X Things |-> PutItem(p[1], p[2], f)]
    OBVIOUS
<1>4. T \in [Seq(Things) \X Things -> Seq(Things)]
    BY <1>3, PutIn
<1>5. PICK g : IsFolds(g, T, base, over, D)
    BY <1>2, FoldsExist
<1>6. \A U \in SUBSET D : g[U] \in Seq(Things)
    BY <1>2, <1>4, <1>5, FoldsIn
<1>7. ASSUME NEW U \in SUBSET D
      PROVE  g[U] = PutStep(g, base, over, f, U)
    <2>1. g[U] = FoldStep(g, T, base, over, U)
        BY <1>5, FoldsApply
    <2>2. CASE U = {}
        BY <2>1, <2>2 DEF FoldStep, PutStep
    <2>3. CASE U # {}
        <3>1. PICK v, m : v = g[U \ {Max(U)}] /\ m = over[Max(U)]
            OBVIOUS
        <3>2. v \in Seq(Things) /\ m \in Things
            BY <1>2, <1>6, <2>3, <3>1 DEF Positions
        <3>3. T[<<v, m>>] = PutItem(v, m, f)
            BY <1>3, <3>2
        <3> QED
            BY <2>1, <2>3, <3>1, <3>3 DEF FoldStep, PutStep
    <2> QED
        BY <2>2, <2>3
<1>8. g = [U \in SUBSET D |-> PutStep(g, base, over, f, U)]
    BY <1>5, <1>7 DEF IsFolds
<1>9. PICK h : h = CHOOSE e : e = [U \in SUBSET D |-> PutStep(e, base, over, f, U)]
    OBVIOUS
<1>10. h = [U \in SUBSET D |-> PutStep(h, base, over, f, U)]
    BY <1>8, <1>9
<1>11. MergeByKey(base, over, f) = h[D]
    BY <1>1, <1>9 DEF MergeByKey, FoldLeft, MapThenFoldSet, PutStep, PutItem, SameKey
<1>12. \A U \in SUBSET D : h[U] = PutStep(h, base, over, f, U)
    BY <1>10
<1>13. PICK e : e = [n \in 0 .. N |-> h[1 .. n]]
    OBVIOUS
<1>14. e[0] = base
    <2>1. 1 .. 0 = {}
        OBVIOUS
    <2>2. h[{}] = base
        BY <1>12 DEF PutStep
    <2>3. e[0] = h[1 .. 0]
        BY <1>13
    <2> QED
        BY <2>1, <2>2, <2>3
<1>15. ASSUME NEW n \in 1 .. N
       PROVE  e[n] = PutItem(e[n - 1], over[n], f)
    <2>1. 1 .. n \in SUBSET D /\ 1 .. n # {} /\ (1 .. n) \ {n} = 1 .. (n - 1)
        BY <1>2, PartOfRange
    <2>2. Max(1 .. n) = n
        <3>1. IsFiniteSet(1 .. n)
            BY FS_Interval
        <3>2. 1 .. n \in SUBSET Int
            OBVIOUS
        <3>3. Max(1 .. n) \in 1 .. n /\ \A i \in 1 .. n : i <= Max(1 .. n)
            BY <2>1, <3>1, <3>2, MaxIn
        <3>4. n \in 1 .. n
            OBVIOUS
        <3> QED
            BY <3>3, <3>4
    <2>3. h[1 .. n] = PutItem(h[1 .. (n - 1)], over[n], f)
        BY <1>12, <2>1, <2>2 DEF PutStep
    <2>4. e[n] = h[1 .. n] /\ e[n - 1] = h[1 .. (n - 1)]
        BY <1>13
    <2> QED
        BY <2>3, <2>4
<1>16. e[N] = h[D]
    BY <1>2, <1>13
<1>17. \A n \in 0 .. N : e[n] \in Seq(Things)
    <2> DEFINE P == {n \in 0 .. N : e[n] \in Seq(Things)}
    <2>1. 0 \in P
        BY <1>14
    <2>2. ASSUME NEW n \in 1 .. N, n - 1 \in P
          PROVE  n \in P
        BY <1>2, <1>15, <2>2, PutIn
    <2> HIDE DEF P
    <2>3. \A n \in 0 .. N : n \in P
        BY <2>1, <2>2, Upwards
    <2> QED
        BY <2>3 DEF P
<1> QED
    BY <1>11, <1>14, <1>15, <1>16, <1>17 DEF IsPuts

\* Every item is a table with the key f, and no two have the same; the keys they have.
AllHave(s, f) == \A i \in DOMAIN s : IsTable(s[i]) /\ f \in DOMAIN s[i].table
Apart(s, f) == \A i, j \in DOMAIN s : s[i].table[f] = s[j].table[f] => i = j
KeysOf(s, f) == {s[n].table[f] : n \in DOMAIN s}

\* What one item put among others makes of them.
LEMMA PutKeeps ==
    ASSUME NEW Things, NEW r \in Seq(Things), NEW item \in Things, NEW f, Apart(r, f),
           NEW z, z = PutItem(r, item, f)
    PROVE  /\ Apart(z, f) /\ item \in ToSet(z)
           /\ \A y \in ToSet(z) : y = item \/ (y \in ToSet(r) /\ y.table[f] # item.table[f])
           /\ \A y \in ToSet(r) : y.table[f] # item.table[f] => y \in ToSet(z)
<1>1. PICK N \in Nat : N = Len(r)
    OBVIOUS
<1>2. PICK D : D = 1 .. N
    OBVIOUS
<1>3. DOMAIN r = D /\ (N + 1) \notin D /\ IsFiniteSet(D) /\ D \subseteq Int
    BY <1>1, <1>2, FS_Interval
<1>4. PICK S : S = SameKey(r, item, f)
    OBVIOUS
<1>5. S = {i \in D : r[i].table[f] = item.table[f]}
    BY <1>3, <1>4 DEF SameKey
<1>6. CASE S = {}
    <2>1. z = Append(r, item)
        BY <1>4, <1>6 DEF PutItem
    <2>2. DOMAIN z = D \cup {N + 1} /\ z[N + 1] = item /\ \A i \in D : z[i] = r[i]
        BY <1>1, <1>2, <2>1
    <2> QED
        BY <2>2, <1>3, <1>5, <1>6 DEF Apart, ToSet
<1>7. CASE S # {}
    <2>1. PICK m : m = Max(S)
        OBVIOUS
    <2>2. m \in S
        <3>1. S \in SUBSET Int /\ IsFiniteSet(S)
            BY <1>3, <1>5, FS_Subset
        <3> QED
            BY <3>1, <2>1, <1>7, MaxIn
    <2>3. z = [r EXCEPT ![m] = item]
        BY <1>4, <1>7, <2>1 DEF PutItem
    <2>4. DOMAIN z = D /\ m \in D /\ z[m] = item /\ \A i \in D : i # m => z[i] = r[i]
        BY <2>2, <2>3, <1>3, <1>5
    <2>5. r[m].table[f] = item.table[f] /\ \A i \in D : i # m => r[i].table[f] # item.table[f]
        BY <2>2, <1>3, <1>5 DEF Apart
    <2> QED
        BY <2>4, <2>5, <1>3 DEF Apart, ToSet
<1> QED
    BY <1>6, <1>7

\* One list over another: the items of the higher one, and those of the lower one with
\* another key.
Overlaid(z, base, over, f) ==
    /\ ToSet(over) \subseteq ToSet(z)
    /\ \A y \in ToSet(z) :
          y \in ToSet(over) \/ (y \in ToSet(base) /\ y.table[f] \notin KeysOf(over, f))
    /\ \A y \in ToSet(base) : y.table[f] \notin KeysOf(over, f) => y \in ToSet(z)

\* Merged by key, the items of the higher list are all there, and those of the lower with
\* another key; still no two with the same.
LEMMA MergeByKeyGives ==
    ASSUME NEW Things, NEW base \in Seq(Things), NEW over \in Seq(Things), NEW f,
           Apart(base, f), Apart(over, f), NEW z, z = MergeByKey(base, over, f)
    PROVE  /\ z \in Seq(Things) /\ Apart(z, f) /\ Overlaid(z, base, over, f)
           /\ over = <<>> => z = base
<1>1. PICK N \in Nat : N = Len(over)
    OBVIOUS
<1>0. PICK g : IsPuts(g, Things, base, over, f, N) /\ MergeByKey(base, over, f) = g[N]
    BY <1>1, PutSteps
<1>2. /\ g[0] = base /\ MergeByKey(base, over, f) = g[N]
      /\ \A n \in 0 .. N : g[n] \in Seq(Things)
      /\ \A n \in 1 .. N : g[n] = PutItem(g[n - 1], over[n], f)
    BY <1>0 DEF IsPuts
<1>3. \A i \in 1 .. N : over[i] \in Things
    BY <1>1
<1>4. DOMAIN over = 1 .. N
    BY <1>1
<1> DEFINE Fresh(y, n) == \A i \in 1 .. n : y.table[f] # over[i].table[f]
           P == {n \in 0 .. N :
                    /\ Apart(g[n], f)
                    /\ \A i \in 1 .. n : over[i] \in ToSet(g[n])
                    /\ \A y \in ToSet(g[n]) : (\E i \in 1 .. n : y = over[i]) \/ (y \in ToSet(base) /\ Fresh(y, n))
                    /\ \A y \in ToSet(base) : Fresh(y, n) => y \in ToSet(g[n])}
<1>5. 0 \in P
    <2>1. 1 .. 0 = {}
        OBVIOUS
    <2> QED
        BY <2>1, <1>2
<1>6. ASSUME NEW n \in 1 .. N, n - 1 \in P
      PROVE  n \in P
    <2>1. PICK v, x, w : v = g[n - 1] /\ x = over[n] /\ w = g[n]
        OBVIOUS
    <2>2. v \in Seq(Things) /\ x \in Things /\ w = PutItem(v, x, f) /\ Apart(v, f)
        BY <1>2, <1>3, <1>6, <2>1
    <2>3. /\ Apart(w, f) /\ x \in ToSet(w)
          /\ \A y \in ToSet(w) : y = x \/ (y \in ToSet(v) /\ y.table[f] # x.table[f])
          /\ \A y \in ToSet(v) : y.table[f] # x.table[f] => y \in ToSet(w)
        BY <2>2, PutKeeps
    <2>4. \A i \in 1 .. n : i \in 1 .. (n - 1) \/ i = n
        OBVIOUS
    <2>5. n \in 1 .. n /\ n \in 0 .. N /\ \A i \in 1 .. (n - 1) : i \in 1 .. n /\ i # n /\ i \in 1 .. N
        OBVIOUS
    <2>6. \A i \in 1 .. (n - 1) : over[i].table[f] # x.table[f]
        BY <1>4, <2>1, <2>5 DEF Apart
    <2>7. /\ \A i \in 1 .. (n - 1) : over[i] \in ToSet(v)
          /\ \A y \in ToSet(v) : (\E i \in 1 .. (n - 1) : y = over[i]) \/ (y \in ToSet(base) /\ Fresh(y, n - 1))
          /\ \A y \in ToSet(base) : Fresh(y, n - 1) => y \in ToSet(v)
        BY <1>6, <2>1
    <2>8. \A y : Fresh(y, n) <=> (Fresh(y, n - 1) /\ y.table[f] # x.table[f])
        BY <2>1, <2>4, <2>5
    <2> HIDE DEF Fresh
    <2>9. \A i \in 1 .. n : over[i] \in ToSet(w)
        BY <2>1, <2>3, <2>4, <2>6, <2>7
    <2>10. \A y \in ToSet(w) : (\E i \in 1 .. n : y = over[i]) \/ (y \in ToSet(base) /\ Fresh(y, n))
        BY <2>1, <2>3, <2>5, <2>7, <2>8
    <2>11. \A y \in ToSet(base) : Fresh(y, n) => y \in ToSet(w)
        BY <2>3, <2>7, <2>8
    <2> QED
        BY <2>1, <2>3, <2>5, <2>9, <2>10, <2>11
<1>7. N \in P
    <2> HIDE DEF P
    <2>1. \A n \in 0 .. N : n \in P
        BY <1>5, <1>6, Upwards
    <2> QED
        BY <2>1
<1>8. \A y : Fresh(y, N) <=> y.table[f] \notin KeysOf(over, f)
    BY <1>4 DEF KeysOf
<1>9. \A y : y \in ToSet(over) <=> \E i \in 1 .. N : y = over[i]
    BY <1>4 DEF ToSet
<1>10. z = g[N] /\ z \in Seq(Things)
    BY <1>2
<1>11. over = <<>> => z = base
    BY <1>1, <1>2
<1>12. /\ Apart(z, f)
       /\ \A i \in 1 .. N : over[i] \in ToSet(z)
       /\ \A y \in ToSet(z) : (\E i \in 1 .. N : y = over[i]) \/ (y \in ToSet(base) /\ Fresh(y, N))
       /\ \A y \in ToSet(base) : Fresh(y, N) => y \in ToSet(z)
    BY <1>7, <1>10
<1> HIDE DEF Fresh, P
<1> QED
    BY <1>8, <1>9, <1>10, <1>11, <1>12 DEF Overlaid

\* Every item of a list is a table with the key f, said of its elements.
LEMMA AllHaveIs ==
    ASSUME NEW s, NEW f
    PROVE  AllHave(s, f) <=> \A y \in ToSet(s) : IsTable(y) /\ f \in DOMAIN y.table
BY DEF AllHave, ToSet

\* The key field of a list.
LEMMA KeyFieldIs ==
    ASSUME NEW s
    PROVE  /\ KeyField(s) = "code" <=> s # <<>> /\ AllHave(s, "code")
           /\ KeyField(s) = "id" <=> s # <<>> /\ AllHave(s, "id") /\ ~AllHave(s, "code")
           /\ KeyField(s) = "none" <=> s = <<>> \/ (~AllHave(s, "id") /\ ~AllHave(s, "code"))
<1>1. PICK S : S = {f \in {"code", "id"} : AllHave(s, f)}
    OBVIOUS
<1>2. KeyField(s) = CASE s = <<>> \/ S = {} -> "none"
                      [] s # <<>> /\ "code" \in S -> "code"
                      [] OTHER -> "id"
    BY <1>1 DEF KeyField, AllHave
<1>3. ("code" \in S <=> AllHave(s, "code")) /\ ("id" \in S <=> AllHave(s, "id"))
    BY <1>1
<1>4. S = {} <=> "code" \notin S /\ "id" \notin S
    BY <1>1
<1>5. "code" # "id" /\ "code" # "none" /\ "id" # "none"
    OBVIOUS
<1>6. CASE s = <<>> \/ S = {}
    BY <1>2, <1>3, <1>4, <1>5, <1>6
<1>7. CASE s # <<>> /\ S # {} /\ "code" \in S
    BY <1>2, <1>3, <1>4, <1>5, <1>7
<1>8. CASE s # <<>> /\ S # {} /\ "code" \notin S
    BY <1>2, <1>3, <1>4, <1>5, <1>8
<1> QED
    BY <1>6, <1>7, <1>8

\* What two lists put together have in common, and when they are not empty.
LEMMA AllHaveBoth ==
    ASSUME NEW Things, NEW s \in Seq(Things), NEW t \in Seq(Things)
    PROVE  /\ \A f : AllHave(s \o t, f) <=> AllHave(s, f) /\ AllHave(t, f)
           /\ s \o t = <<>> <=> s = <<>> /\ t = <<>>
           /\ s \o t \in Seq(Things)
<1>1. \A f : AllHave(s \o t, f) <=> AllHave(s, f) /\ AllHave(t, f)
    BY ToSetConcat, AllHaveIs
<1>2. s \o t = <<>> <=> s = <<>> /\ t = <<>>
    <2>1. Len(s \o t) = Len(s) + Len(t) /\ Len(s) \in Nat /\ Len(t) \in Nat /\ s \o t \in Seq(Things)
        OBVIOUS
    <2>2. \A u \in Seq(Things) : u = <<>> <=> Len(u) = 0
        BY EmptySeq
    <2> QED
        BY <2>1, <2>2
<1> QED
    BY <1>1, <1>2

\* Arrays merge to an array of the same things.
LEMMA MergeArraysIn ==
    ASSUME NEW Things, NEW base \in Seq(Things), NEW over \in Seq(Things)
    PROVE  MergeArrays(base, over) \in Seq(Things)
<1>1. PICK f : f = KeyField(base \o over)
    OBVIOUS
<1>2. MergeByKey(base, over, f) \in Seq(Things)
    <2>1. PICK N \in Nat : N = Len(over)
        OBVIOUS
    <2>2. PICK g : IsPuts(g, Things, base, over, f, N) /\ MergeByKey(base, over, f) = g[N]
        BY <2>1, PutSteps
    <2> QED
        BY <2>2 DEF IsPuts
<1>3. base \o over \in Seq(Things)
    OBVIOUS
<1> QED
    BY <1>1, <1>2, <1>3 DEF MergeArrays

\* A list with an item without a key takes what comes over it at its end.
LEMMA MergeUnkeyed ==
    ASSUME NEW Things, NEW base \in Seq(Things), NEW over \in Seq(Things),
           base # <<>>, KeyField(base) = "none"
    PROVE  /\ MergeArrays(base, over) = base \o over
           /\ base \o over # <<>> /\ KeyField(base \o over) = "none"
<1>1. PICK u : u = base \o over
    OBVIOUS
<1>2. KeyField(u) = "none" /\ u # <<>>
    BY <1>1, AllHaveBoth, KeyFieldIs
<1> QED
    BY <1>1, <1>2 DEF MergeArrays

\* A list whose items have f as their key, each its own.
Keyed(s, f) == Apart(s, f) /\ (s # <<>> => KeyField(s) = f)

\* Keyed lists merge to one, the higher over the lower.
LEMMA MergeKeyed ==
    ASSUME NEW Things, NEW base \in Seq(Things), NEW over \in Seq(Things), NEW f \in {"code", "id"},
           Keyed(base, f), Keyed(over, f)
    PROVE  /\ Keyed(MergeArrays(base, over), f)
           /\ Overlaid(MergeArrays(base, over), base, over, f)
<1>1. PICK u, z : u = base \o over /\ z = MergeArrays(base, over)
    OBVIOUS
<1>2. ToSet(<<>>) = {} /\ KeyField(<<>>) = "none"
    BY KeyFieldIs DEF ToSet
<1>3. CASE base = <<>> /\ over = <<>>
    <2>1. z = <<>>
        BY <1>1, <1>2, <1>3 DEF MergeArrays
    <2> QED
        BY <2>1, <1>1, <1>2, <1>3 DEF Overlaid
<1>4. CASE ~(base = <<>> /\ over = <<>>)
    <2>1. AllHave(base, f) /\ AllHave(over, f)
        <3>1. AllHave(<<>>, f)
            BY <1>2, AllHaveIs
        <3> QED
            BY <3>1, KeyFieldIs DEF Keyed
    <2>2. KeyField(u) = f
        <3>1. u # <<>> /\ \A h : AllHave(u, h) <=> AllHave(base, h) /\ AllHave(over, h)
            BY <1>1, <1>4, AllHaveBoth
        <3>2. f = "id" => ~AllHave(u, "code")
            BY <3>1, <1>4, KeyFieldIs DEF Keyed
        <3> QED
            BY <3>1, <3>2, <2>1, KeyFieldIs
    <2>3. z = MergeByKey(base, over, f)
        BY <1>1, <2>2 DEF MergeArrays
    <2>4. /\ z \in Seq(Things) /\ Apart(z, f) /\ Overlaid(z, base, over, f)
          /\ over = <<>> => z = base
        BY <2>3, MergeByKeyGives DEF Keyed
    <2>5. KeyField(z) = f
        <3>1. CASE over = <<>>
            BY <3>1, <2>4, <1>4 DEF Keyed
        <3>2. CASE over # <<>>
            <4>1. AllHave(z, f)
                BY <2>1, <2>4, AllHaveIs DEF Overlaid
            <4>2. z # <<>>
                <5>1. over[1] \in ToSet(over)
                    <6>1. 1 \in DOMAIN over
                        BY <3>2, EmptySeq
                    <6> QED
                        BY <6>1 DEF ToSet
                <5> QED
                    BY <5>1, <2>4, <1>2 DEF Overlaid
            <4>3. f = "id" => ~AllHave(z, "code")
                <5>1. f = "id" => ~AllHave(over, "code")
                    BY <3>2, KeyFieldIs DEF Keyed
                <5> QED
                    BY <5>1, <2>4, AllHaveIs DEF Overlaid
            <4> QED
                BY <4>1, <4>2, <4>3, KeyFieldIs
        <3> QED
            BY <3>1, <3>2
    <2> QED
        BY <1>1, <2>4, <2>5 DEF Keyed
<1> QED
    BY <1>3, <1>4

\* What a table holds under a key, and what nothing or another value does.
LEMMA DownIs ==
    ASSUME NEW x, NEW k
    PROVE  /\ Down(Missing, k) = Missing
           /\ ~IsTable(x) => Down(x, k) = Missing
           /\ IsTable(x) /\ k \in DOMAIN x.table => Down(x, k) = x.table[k]
           /\ IsTable(x) /\ k \notin DOMAIN x.table => Down(x, k) = Missing
BY Kinds DEF Down

\* What the step of deep_merge gives, when the higher file has a value.
StepGives(z, m, b, o, p) ==
    /\ z # Missing
    /\ IsTable(b) /\ IsTable(o) =>
          z = Table([k \in DOMAIN b.table \cup DOMAIN o.table |-> EntryStep(m, b, o, p, k)])
    /\ IsArray(b) /\ IsArray(o) => z = Array(MergeArrays(b.array, o.array))
    /\ ~(IsTable(b) /\ IsTable(o)) /\ ~(IsArray(b) /\ IsArray(o)) => z = o

\* So it does.
LEMMA MergeStepIs ==
    ASSUME NEW m, NEW b, NEW o, NEW p, ~(IsTable(b) /\ IsArray(b)), o # Missing
    PROVE  StepGives(MergeStep(m, b, o, p), m, b, o, p)
<1>1. CASE IsTable(b) /\ IsTable(o)
    BY <1>1, Kinds DEF MergeStep, StepGives
<1>2. CASE IsArray(b) /\ IsArray(o)
    BY <1>2, Kinds DEF MergeStep, StepGives
<1>3. CASE ~(IsTable(b) /\ IsTable(o)) /\ ~(IsArray(b) /\ IsArray(o))
    BY <1>3 DEF MergeStep, StepGives
<1> QED
    BY <1>1, <1>2, <1>3

\* Where r, merged from b and o, stands at the end of a path: both have a value and m is what
\* they merge to; the higher file does not speak and the lower one's value stays; the higher
\* one alone has a value; or a value of it that is no table hides what the lower one has.
JoinedAt(b, o, r, m, says) ==
    \/ b # Missing /\ o # Missing /\ r = m
    \/ ~says /\ o = Missing /\ r = b
    \/ b = Missing /\ o # Missing /\ r = o
    \/ says /\ o = Missing /\ r = Missing

\* One key further down.
LEMMA JoinedDown ==
    ASSUME NEW Things, NEW d, NEW n, NEW m, NEW p, NEW k, NEW b, NEW o, NEW r, NEW over, NEW q,
           TidyAt(b, n, Things, d), TidyAt(o, n, Things, d), q = Append(p, k),
           o # Missing => Says(over, p),
           Says(over, q) <=> Down(o, k) # Missing \/ (Says(over, p) /\ ~IsTable(o)),
           JoinedAt(b, o, r, MergeStep(m, b, o, p), Says(over, p))
    PROVE  JoinedAt(Down(b, k), Down(o, k), Down(r, k), m[q], Says(over, q))
<1>0. /\ Down(b, k) = Missing <=> ~(IsTable(b) /\ k \in DOMAIN b.table)
      /\ Down(o, k) = Missing <=> ~(IsTable(o) /\ k \in DOMAIN o.table)
    BY DownIs DEF TidyAt
<1>1. CASE b # Missing /\ o # Missing /\ r = MergeStep(m, b, o, p)
    <2>0. ~(IsTable(b) /\ IsArray(b)) /\ ~(IsTable(o) /\ IsArray(o)) /\ StepGives(r, m, b, o, p)
        BY <1>1, MergeStepIs DEF TidyAt
    <2>1. CASE IsTable(b) /\ IsTable(o)
        <3>1. PICK h : h = [e \in DOMAIN b.table \cup DOMAIN o.table |-> EntryStep(m, b, o, p, e)]
            OBVIOUS
        <3>2. r = Table(h)
            BY <3>1, <2>0, <2>1 DEF StepGives
        <3>3. IsTable(r) /\ r.table = h
            BY <3>2, Kinds
        <3>4. CASE k \in DOMAIN b.table /\ k \in DOMAIN o.table
            <4>1. Down(r, k) = m[q]
                BY <3>1, <3>3, <3>4, DownIs DEF EntryStep
            <4> QED
                BY <4>1, <3>4, <2>1, <1>0 DEF JoinedAt
        <3>5. CASE k \in DOMAIN b.table /\ k \notin DOMAIN o.table
            <4>1. Down(r, k) = b.table[k] /\ Down(b, k) = b.table[k]
                BY <3>1, <3>3, <3>5, <2>1, DownIs DEF EntryStep
            <4> QED
                BY <4>1, <3>5, <2>1, <1>0 DEF JoinedAt
        <3>6. CASE k \notin DOMAIN b.table /\ k \in DOMAIN o.table
            <4>1. Down(r, k) = o.table[k] /\ Down(o, k) = o.table[k]
                BY <3>1, <3>3, <3>6, <2>1, DownIs DEF EntryStep
            <4> QED
                BY <4>1, <3>6, <2>1, <1>0 DEF JoinedAt
        <3>7. CASE k \notin DOMAIN b.table /\ k \notin DOMAIN o.table
            <4>1. Down(r, k) = Missing
                BY <3>1, <3>3, <3>7, DownIs
            <4> QED
                BY <4>1, <3>7, <2>1, <1>0 DEF JoinedAt
        <3> QED
            BY <3>4, <3>5, <3>6, <3>7
    <2>2. CASE IsArray(b) /\ IsArray(o)
        <3>1. ~IsTable(r)
            BY <2>0, <2>2, Kinds DEF StepGives
        <3>2. Down(r, k) = Missing
            BY <3>1, DownIs
        <3> QED
            BY <3>2, <2>0, <2>2, <1>0, <1>1 DEF JoinedAt
    <2>3. CASE ~(IsTable(b) /\ IsTable(o)) /\ ~(IsArray(b) /\ IsArray(o))
        <3>1. r = o
            BY <2>0, <2>3 DEF StepGives
        <3> QED
            BY <3>1, <2>3, <1>0, <1>1 DEF JoinedAt
    <2> QED
        BY <2>1, <2>2, <2>3
<1>2. CASE ~Says(over, p) /\ o = Missing /\ r = b
    BY <1>2, <1>0, Kinds DEF JoinedAt
<1>3. CASE b = Missing /\ o # Missing /\ r = o
    BY <1>3, <1>0, Kinds DEF JoinedAt
<1>4. CASE Says(over, p) /\ o = Missing /\ r = Missing
    BY <1>4, <1>0, Kinds DEF JoinedAt
<1> QED
    BY <1>1, <1>2, <1>3, <1>4 DEF JoinedAt

\* So it stands at the end of every path.
LEMMA JoinedEverywhere ==
    ASSUME NEW Things, NEW d \in Nat, NEW base, NEW over, Tidy(base, Things, d), Tidy(over, Things, d),
           NEW m, \A p \in Seq(STRING) : m[p] = MergeStep(m, ExtractKey(base, p), ExtractKey(over, p), p)
    PROVE  \A p \in Seq(STRING) :
              JoinedAt(ExtractKey(base, p), ExtractKey(over, p), ExtractKey(m[<<>>], p), m[p], Says(over, p))
<1> DEFINE J(p) == JoinedAt(ExtractKey(base, p), ExtractKey(over, p), ExtractKey(m[<<>>], p),
                            m[p], Says(over, p))
           P == {p \in Seq(STRING) : J(p)}
<1>1. <<>> \in P
    <2>1. /\ ExtractKey(base, <<>>) = base /\ ExtractKey(over, <<>>) = over
          /\ ExtractKey(m[<<>>], <<>>) = m[<<>>]
        BY ExtractNothing
    <2>2. base # Missing /\ over # Missing
        BY Kinds DEF Tidy
    <2>3. <<>> \in Seq(STRING)
        OBVIOUS
    <2> QED
        BY <2>1, <2>2, <2>3 DEF JoinedAt
<1>2. ASSUME NEW p \in Seq(STRING), NEW k \in STRING, p \in P
      PROVE  Append(p, k) \in P
    <2>1. PICK q \in Seq(STRING) : q = Append(p, k)
        BY PathMore
    <2>2. PICK b, o, r : b = ExtractKey(base, p) /\ o = ExtractKey(over, p) /\ r = ExtractKey(m[<<>>], p)
        OBVIOUS
    <2>3. /\ ExtractKey(base, q) = Down(b, k) /\ ExtractKey(over, q) = Down(o, k)
          /\ ExtractKey(m[<<>>], q) = Down(r, k)
        <3>1. \A v : ExtractKey(v, Append(p, k)) = Down(ExtractKey(v, p), k)
            <4> HIDE DEF P
            <4> QED
                BY <1>2, ExtractOne, Zenon
        <3> QED
            BY <2>1, <2>2, <3>1
    <2>4. TidyAt(b, Len(p), Things, d) /\ TidyAt(o, Len(p), Things, d)
        BY <2>2 DEF Tidy
    <2>5. o # Missing => Says(over, p)
        BY <2>2 DEF Says
    <2>6. Says(over, q) <=> Down(o, k) # Missing \/ (Says(over, p) /\ ~IsTable(o))
        BY <2>1, <2>2, <2>3, SaysSteps DEF Tidy
    <2>7. JoinedAt(b, o, r, MergeStep(m, b, o, p), Says(over, p))
        BY <1>2, <2>2
    <2>8. JoinedAt(Down(b, k), Down(o, k), Down(r, k), m[q], Says(over, q))
        BY <2>1, <2>4, <2>5, <2>6, <2>7, JoinedDown
    <2>9. J(q)
        BY <2>3, <2>8
    <2> QED
        BY <2>1, <2>9
<1> HIDE DEF J
<1>3. \A p \in Seq(STRING) : p \in P
    <2> HIDE DEF P
    <2> QED
        BY <1>1, <1>2, PathInduction
<1>4. \A p \in Seq(STRING) : J(p)
    BY <1>3
<1> QED
    BY <1>4 DEF J

\* What there is in the merged file at the end of a path: what was there, if the higher file
\* does not speak of it; otherwise what the higher one has, merged if both have tables or both
\* have arrays.
MergedAt(b, o, r, says) ==
    /\ ~says => r = b
    /\ says /\ IsTable(o) => IsTable(r)
    /\ says /\ IsArray(o) => IsArray(r)
    /\ says /\ IsArray(b) /\ IsArray(o) => r = Array(MergeArrays(b.array, o.array))
    /\ says /\ ~IsTable(o) /\ ~(IsArray(b) /\ IsArray(o)) => r = o

\* Something is merged one key further down, where both have a value there.
SomethingBelow(m, b, o, p) ==
    \A k \in STRING : Down(b, k) # Missing /\ Down(o, k) # Missing => m[Append(p, k)] # Missing

\* The value at a path is tidy if what it is merged from is.
LEMMA StepTidy ==
    ASSUME NEW Things, NEW d, NEW n, NEW m, NEW p, NEW b, NEW o, NEW z, StepGives(z, m, b, o, p),
           TidyAt(b, n, Things, d), TidyAt(o, n, Things, d),
           SomethingBelow(m, b, o, p)
    PROVE  TidyAt(z, n, Things, d)
<1>1. CASE IsTable(b) /\ IsTable(o)
    <2>1. PICK h : h = [k \in DOMAIN b.table \cup DOMAIN o.table |-> EntryStep(m, b, o, p, k)]
        OBVIOUS
    <2>2. z = Table(h)
        BY <2>1, <1>1 DEF StepGives
    <2>3. IsTable(z) /\ ~IsArray(z) /\ z.table = h
        BY <2>2, Kinds
    <2>4. DOMAIN h = DOMAIN b.table \cup DOMAIN o.table /\ DOMAIN h \subseteq STRING
        BY <2>1, <1>1 DEF TidyAt
    <2>5. ASSUME NEW k \in DOMAIN h
          PROVE  h[k] # Missing
        <3>1. h[k] = EntryStep(m, b, o, p, k) /\ k \in STRING
            BY <2>1, <2>4
        <3>2. CASE k \notin DOMAIN o.table
            BY <3>1, <3>2, <2>4, <2>5, <1>1 DEF EntryStep, TidyAt
        <3>3. CASE k \in DOMAIN o.table /\ k \notin DOMAIN b.table
            BY <3>1, <3>3, <1>1 DEF EntryStep, TidyAt
        <3>4. CASE k \in DOMAIN o.table /\ k \in DOMAIN b.table
            <4>1. Down(b, k) # Missing /\ Down(o, k) # Missing
                BY <3>4, <1>1, DownIs DEF TidyAt
            <4>2. h[k] = m[Append(p, k)]
                BY <3>1, <3>4 DEF EntryStep
            <4> QED
                BY <3>1, <4>1, <4>2 DEF SomethingBelow
        <3> QED
            BY <3>2, <3>3, <3>4
    <2>6. n < d
        BY <1>1 DEF TidyAt
    <2> QED
        BY <2>3, <2>4, <2>5, <2>6 DEF TidyAt
<1>2. CASE IsArray(b) /\ IsArray(o)
    <2>1. PICK s : s = MergeArrays(b.array, o.array)
        OBVIOUS
    <2>2. s \in Seq(Things)
        BY <2>1, <1>2, MergeArraysIn DEF TidyAt
    <2>3. z = Array(s)
        BY <2>1, <1>2 DEF StepGives
    <2> QED
        BY <2>2, <2>3, Kinds DEF TidyAt
<1>3. CASE ~(IsTable(b) /\ IsTable(o)) /\ ~(IsArray(b) /\ IsArray(o))
    BY <1>3 DEF StepGives
<1> QED
    BY <1>1, <1>2, <1>3

\* Two tidy files merge to a tidy one, which has the above at the end of every path.
LEMMA DeepMergeGives ==
    ASSUME NEW Things, NEW d \in Nat, NEW base, NEW over, Tidy(base, Things, d), Tidy(over, Things, d),
           NEW r, r = DeepMerge(base, over)
    PROVE  /\ Tidy(r, Things, d)
           /\ \A p \in Seq(STRING) :
                 MergedAt(ExtractKey(base, p), ExtractKey(over, p), ExtractKey(r, p), Says(over, p))
<1>0. PICK m : MergedBy(m, base, over)
    BY MergeIs
<1>1. /\ DeepMerge(base, over) = m[<<>>]
      /\ \A p \in Seq(STRING) :
            m[p] = MergeStep(m, ExtractKey(base, p), ExtractKey(over, p), p)
    BY <1>0 DEF MergedBy
<1>2. r = m[<<>>]
    BY <1>1
<1>3. \A p \in Seq(STRING) :
         JoinedAt(ExtractKey(base, p), ExtractKey(over, p), ExtractKey(r, p), m[p], Says(over, p))
    BY <1>1, <1>2, JoinedEverywhere
<1>4. ASSUME NEW p \in Seq(STRING), ExtractKey(over, p) # Missing
      PROVE  StepGives(m[p], m, ExtractKey(base, p), ExtractKey(over, p), p)
    <2>1. ~(IsTable(ExtractKey(base, p)) /\ IsArray(ExtractKey(base, p)))
        BY DEF Tidy, TidyAt
    <2> QED
        BY <1>1, <1>4, <2>1, MergeStepIs
<1>5. ASSUME NEW p \in Seq(STRING)
      PROVE  /\ MergedAt(ExtractKey(base, p), ExtractKey(over, p), ExtractKey(r, p), Says(over, p))
             /\ TidyAt(ExtractKey(r, p), Len(p), Things, d)
    <2>1. PICK b, o, z : b = ExtractKey(base, p) /\ o = ExtractKey(over, p) /\ z = ExtractKey(r, p)
        OBVIOUS
    <2>2. /\ JoinedAt(b, o, z, m[p], Says(over, p))
          /\ TidyAt(b, Len(p), Things, d) /\ TidyAt(o, Len(p), Things, d)
        BY <1>3, <2>1 DEF Tidy
    <2>3. o # Missing => StepGives(m[p], m, b, o, p) /\ Says(over, p)
        BY <1>4, <2>1 DEF Says
    <2>4. CASE b # Missing /\ o # Missing /\ z = m[p]
        <3>1. MergedAt(b, o, z, Says(over, p))
            <4>1. StepGives(z, m, b, o, p) /\ Says(over, p) /\ ~(IsTable(o) /\ IsArray(o))
                BY <2>2, <2>3, <2>4 DEF TidyAt
            <4>2. IsTable(b) /\ IsTable(o) => IsTable(z)
                BY <4>1, Kinds DEF StepGives
            <4>3. /\ IsArray(b) /\ IsArray(o) => z = Array(MergeArrays(b.array, o.array))
                  /\ ~(IsTable(b) /\ IsTable(o)) /\ ~(IsArray(b) /\ IsArray(o)) => z = o
                BY <4>1 DEF StepGives
            <4>4. IsArray(o) => IsArray(z)
                BY <4>1, <4>3, Kinds
            <4> QED
                BY <4>1, <4>2, <4>3, <4>4 DEF MergedAt
        <3>2. ASSUME NEW k \in STRING, Down(o, k) # Missing
              PROVE  m[Append(p, k)] # Missing
            <4>1. PICK q \in Seq(STRING) : q = Append(p, k)
                BY PathMore
            <4>2. ExtractKey(over, Append(p, k)) = Down(ExtractKey(over, p), k)
                BY <3>2, ExtractOne, Zenon
            <4>3. ExtractKey(over, q) # Missing
                BY <2>1, <3>2, <4>1, <4>2
            <4> QED
                BY <1>4, <4>1, <4>3 DEF StepGives
        <3>3. TidyAt(z, Len(p), Things, d)
            <4>1. PICK n : n = Len(p)
                OBVIOUS
            <4>2. /\ StepGives(z, m, b, o, p) /\ TidyAt(b, n, Things, d) /\ TidyAt(o, n, Things, d)
                  /\ SomethingBelow(m, b, o, p)
                BY <2>2, <2>3, <2>4, <3>2, <4>1 DEF SomethingBelow
            <4>3. TidyAt(z, n, Things, d)
                BY <4>2, StepTidy
            <4> QED
                BY <4>1, <4>3
        <3> QED
            BY <2>1, <3>1, <3>3
    <2>5. CASE ~(b # Missing /\ o # Missing /\ z = m[p])
        <3>1. TidyAt(Missing, Len(p), Things, d)
            BY Kinds DEF TidyAt
        <3>2. TidyAt(z, Len(p), Things, d)
            BY <3>1, <2>2, <2>5 DEF JoinedAt
        <3>3. MergedAt(b, o, z, Says(over, p))
            BY <2>2, <2>3, <2>5, Kinds DEF JoinedAt, MergedAt
        <3> QED
            BY <2>1, <3>2, <3>3
    <2> QED
        BY <2>4, <2>5
<1>6. IsTable(r)
    <2>1. <<>> \in Seq(STRING)
        OBVIOUS
    <2>2. ExtractKey(base, <<>>) = base /\ ExtractKey(over, <<>>) = over
        BY ExtractNothing
    <2>3. IsTable(base) /\ IsTable(over) /\ over # Missing
        BY Kinds DEF Tidy
    <2>4. StepGives(m[<<>>], m, base, over, <<>>)
        BY <1>4, <2>1, <2>2, <2>3
    <2> QED
        BY <1>2, <2>3, <2>4, Kinds DEF StepGives
<1> QED
    BY <1>5, <1>6 DEF Tidy

\* What the files of a stack come to, merged up to each.
UpToStep(g, stack, n) == IF n = 1 THEN stack[1] ELSE DeepMerge(g[n - 1], stack[n])
IsUpTo(g, stack, N) == g = [n \in 1 .. N |-> UpToStep(g, stack, n)]

\* There is a function that satisfies it.
LEMMA UpToExists ==
    ASSUME NEW stack, NEW N \in Nat
    PROVE  \E g : IsUpTo(g, stack, N)
<1> DEFINE P == {m \in 0 .. N : \E g : IsUpTo(g, stack, m)}
<1>1. 0 \in P
    <2>1. PICK g : g = [n \in 1 .. 0 |-> stack]
        OBVIOUS
    <2>2. g = [n \in 1 .. 0 |-> UpToStep(g, stack, n)]
        BY <2>1
    <2>3. IsUpTo(g, stack, 0)
        BY <2>2 DEF IsUpTo
    <2> QED
        BY <2>3
<1>2. ASSUME NEW k \in 1 .. N, k - 1 \in P
      PROVE  k \in P
    <2>1. PICK g : IsUpTo(g, stack, k - 1)
        BY <1>2
    <2>2. PICK h : h = [n \in 1 .. k |-> IF n = k THEN UpToStep(g, stack, k) ELSE g[n]]
        OBVIOUS
    <2>3. ASSUME NEW n \in 1 .. k
          PROVE  h[n] = UpToStep(h, stack, n)
        <3>1. n # 1 => n - 1 \in 1 .. (k - 1) /\ n - 1 # k /\ n - 1 \in 1 .. k
            OBVIOUS
        <3>2. n # 1 => h[n - 1] = g[n - 1]
            BY <2>2, <3>1
        <3>3. UpToStep(h, stack, n) = UpToStep(g, stack, n)
            BY <3>2 DEF UpToStep
        <3>4. CASE n = k
            BY <2>2, <3>3, <3>4
        <3>5. CASE n # k
            <4>1. n \in 1 .. (k - 1)
                BY <3>5
            <4>2. g[n] = UpToStep(g, stack, n)
                BY <2>1, <4>1 DEF IsUpTo
            <4>3. h[n] = g[n]
                BY <2>2, <3>5
            <4> QED
                BY <3>3, <4>2, <4>3
        <3> QED
            BY <3>4, <3>5
    <2>4. h = [n \in 1 .. k |-> UpToStep(h, stack, n)]
        <3>1. \A n \in 1 .. k : h[n] = UpToStep(h, stack, n)
            BY <2>3
        <3>2. h = [n \in 1 .. k |-> h[n]]
            BY <2>2
        <3> QED
            BY <3>1, <3>2
    <2> QED
        BY <2>4 DEF IsUpTo
<1> HIDE DEF P
<1>3. \A k \in 0 .. N : k \in P
    BY <1>1, <1>2, Upwards
<1>4. N \in P
    BY <1>3
<1> QED
    BY <1>4 DEF P

\* Each file is merged over what the ones before it gave, which stays tidy.
Merges(g, stack, N, Things, d) ==
    /\ g[1] = stack[1]
    /\ \A n \in 2 .. N : g[n] = DeepMerge(g[n - 1], stack[n])
    /\ \A n \in 1 .. N : Tidy(g[n], Things, d)

AllTidy(stack, N, Things, d) ==
    N >= 1 /\ Len(stack) = N /\ \A n \in 1 .. N : Tidy(stack[n], Things, d)

\* The recursion of MergeAll is that.
LEMMA MergeAllIs ==
    ASSUME NEW Things, NEW d \in Nat, NEW stack, NEW N \in Nat, AllTidy(stack, N, Things, d)
    PROVE  \E g : Merges(g, stack, N, Things, d) /\ MergeAll(stack) = g[N]
<1>0. N >= 1 /\ Len(stack) = N /\ \A n \in 1 .. N : Tidy(stack[n], Things, d)
    BY DEF AllTidy
<1>1. PICK h : h = CHOOSE g : IsUpTo(g, stack, N)
    OBVIOUS
<1>2. IsUpTo(h, stack, N)
    BY <1>1, UpToExists
<1>3. MergeAll(stack) = h[N]
    BY <1>0, <1>1 DEF MergeAll, IsUpTo, UpToStep
<1>4. \A n \in 1 .. N : h[n] = UpToStep(h, stack, n)
    BY <1>2 DEF IsUpTo
<1>5. h[1] = stack[1]
    BY <1>0, <1>4 DEF UpToStep
<1>6. ASSUME NEW n \in 2 .. N
      PROVE  h[n] = DeepMerge(h[n - 1], stack[n])
    BY <1>4 DEF UpToStep
<1>7. \A n \in 1 .. N : Tidy(h[n], Things, d)
    <2> DEFINE P == {n \in 0 .. N : n >= 1 => Tidy(h[n], Things, d)}
    <2>1. 0 \in P
        OBVIOUS
    <2>2. ASSUME NEW n \in 1 .. N, n - 1 \in P
          PROVE  n \in P
        <3>1. CASE n = 1
            BY <3>1, <1>0, <1>5
        <3>2. CASE n # 1
            <4>1. n \in 2 .. N /\ n - 1 >= 1
                BY <3>2
            <4>2. Tidy(h[n - 1], Things, d) /\ Tidy(stack[n], Things, d)
                BY <1>0, <2>2, <4>1
            <4>3. h[n] = DeepMerge(h[n - 1], stack[n])
                BY <1>6, <4>1
            <4>4. Tidy(h[n], Things, d)
                BY <4>2, <4>3, DeepMergeGives
            <4> QED
                BY <4>4
        <3> QED
            BY <3>1, <3>2
    <2> HIDE DEF P
    <2>3. \A n \in 0 .. N : n \in P
        BY <2>1, <2>2, Upwards
    <2> QED
        BY <2>3 DEF P
<1>8. Merges(h, stack, N, Things, d)
    BY <1>5, <1>6, <1>7 DEF Merges
<1> QED
    BY <1>3, <1>8

\* What the files hold at the end of a path, C, which of them speak of it, S, and what has been
\* merged up to each, A.
Chain(A, C, S, N, Things) ==
    /\ A[1] = C[1] /\ S \subseteq 1 .. N
    /\ \A n \in 2 .. N : MergedAt(A[n - 1], C[n], A[n], n \in S)
    /\ \A n \in 1 .. N : /\ n \notin S => C[n] = Missing
                         /\ ~(IsTable(C[n]) /\ IsArray(C[n])) /\ ~(IsTable(A[n]) /\ IsArray(A[n]))
                         /\ IsArray(C[n]) => C[n].array \in Seq(Things)
                         /\ IsArray(A[n]) => A[n].array \in Seq(Things)

\* Up to a file, the last that speaks says what there is: its scalar, or a table or an array
\* if that is what it has.
ToppedBy(A, C, S, n, top) ==
    /\ top \in S /\ top <= n /\ \A j \in S : j <= n => j <= top
    /\ IsTable(C[top]) => IsTable(A[n])
    /\ IsArray(C[top]) => IsArray(A[n])
    /\ ~IsTable(C[top]) /\ ~IsArray(C[top]) => A[n] = C[top]
Topped(A, C, S, n) ==
    \/ A[n] = Missing /\ \A j \in S : j > n
    \/ \E top \in S : ToppedBy(A, C, S, n, top)

\* Every file leaves it so.
LEMMA ChainTopped ==
    ASSUME NEW A, NEW C, NEW S, NEW N \in Nat, NEW Things, Chain(A, C, S, N, Things)
    PROVE  \A n \in 1 .. N : Topped(A, C, S, n)
<1> DEFINE P == {n \in 0 .. N : n >= 1 => Topped(A, C, S, n)}
<1>0. S \subseteq Int /\ \A j \in S : j >= 1
    BY DEF Chain
<1>1. 0 \in P
    OBVIOUS
<1>2. ASSUME NEW n \in 1 .. N, n - 1 \in P
      PROVE  n \in P
    <2>1. CASE n \in S /\ (n = 1 \/ n \in 2 .. N)
        <3>1. CASE n = 1
            <4>1. ToppedBy(A, C, S, n, n)
                BY <2>1, <3>1, <1>0 DEF Chain, ToppedBy
            <4> QED
                BY <2>1, <4>1 DEF Topped
        <3>2. CASE n \in 2 .. N
            <4>1. MergedAt(A[n - 1], C[n], A[n], n \in S)
                BY <3>2 DEF Chain
            <4>2. /\ IsTable(C[n]) => IsTable(A[n])
                  /\ IsArray(C[n]) => IsArray(A[n])
                  /\ ~IsTable(C[n]) /\ ~IsArray(C[n]) => A[n] = C[n]
                BY <2>1, <4>1 DEF MergedAt
            <4>3. ToppedBy(A, C, S, n, n)
                BY <2>1, <4>2, <1>0 DEF ToppedBy
            <4> QED
                BY <2>1, <4>3 DEF Topped
        <3> QED
            BY <2>1, <3>1, <3>2
    <2>2. CASE n \notin S /\ n = 1
        <3>1. A[n] = Missing
            BY <2>2 DEF Chain
        <3>2. \A j \in S : j \in Int /\ j >= 1 /\ j # 1
            BY <2>2, <1>0
        <3>3. \A j \in S : j > n
            BY <3>2, <2>2
        <3> QED
            BY <3>1, <3>3 DEF Topped
    <2>3. CASE n \notin S /\ n \in 2 .. N
        <3>1. PICK m \in Int : m = n - 1
            OBVIOUS
        <3>2. A[n] = A[m]
            BY <2>3, <3>1 DEF Chain, MergedAt
        <3>3. Topped(A, C, S, m)
            BY <1>2, <2>3, <3>1
        <3>4. \A j \in S : (j > m <=> j > n) /\ (j <= n <=> j <= m)
            BY <1>0, <2>3, <3>1
        <3> QED
            BY <3>2, <3>3, <3>4 DEF Topped, ToppedBy
    <2>4. n = 1 \/ n \in 2 .. N
        OBVIOUS
    <2> QED
        BY <2>1, <2>2, <2>3, <2>4
<1> HIDE DEF P
<1>3. \A n \in 0 .. N : n \in P
    BY <1>1, <1>2, Upwards
<1> QED
    BY <1>3 DEF P

\* The last files that speak of the path and all have an array there: from the first of them
\* on, arrays are merged and nothing else.
LastArrays(C, S, N) == {i \in S : \A j \in i .. N : j \in S => IsArray(C[j])}
Run(L, I, R, a, N) ==
    /\ L[a] = I[a]
    /\ \A n \in (a + 1) .. N : L[n] = IF n \in R THEN MergeArrays(L[n - 1], I[n]) ELSE L[n - 1]
FirstOf(a, R) == a \in R /\ \A i \in R : a <= i
AreArrays(L, A, N) == L = [n \in 1 .. N |-> A[n].array]
ListedBy(L, A, a, N, Things) == \A n \in a .. N : IsArray(A[n]) /\ L[n] \in Seq(Things)

\* The first of them stands as it is, whatever lies below it.
LEMMA ChainRun ==
    ASSUME NEW A, NEW C, NEW S, NEW N \in Nat, NEW Things, Chain(A, C, S, N, Things),
           NEW R, R = LastArrays(C, S, N), NEW a, FirstOf(a, R),
           NEW L, AreArrays(L, A, N), NEW I, AreArrays(I, C, N)
    PROVE  Run(L, I, R, a, N) /\ ListedBy(L, A, a, N, Things)
<1>0. /\ a \in R /\ \A i \in R : a <= i
      /\ L = [n \in 1 .. N |-> A[n].array] /\ I = [n \in 1 .. N |-> C[n].array]
    BY DEF FirstOf, AreArrays
<1>1. a \in S /\ a \in 1 .. N /\ IsArray(C[a]) /\ S \subseteq 1 .. N
    <2>1. a \in S /\ S \subseteq 1 .. N
        BY <1>0 DEF LastArrays, Chain
    <2>2. a \in a .. N
        BY <2>1
    <2> QED
        BY <1>0, <2>1, <2>2 DEF LastArrays
<1>2. ASSUME NEW n \in a .. N
      PROVE  n \in S <=> n \in R
    <2>1. \A j \in n .. N : j \in a .. N
        BY <1>1
    <2> QED
        BY <1>0, <2>1 DEF LastArrays
<1>3. A[a] = C[a]
    <2>1. CASE a = 1
        BY <2>1 DEF Chain
    <2>2. CASE a # 1
        <3>1. PICK m \in Int : m = a - 1
            BY <1>1
        <3>2. m \in 1 .. N /\ a \in 2 .. N /\ m < a
            BY <1>1, <2>2, <3>1
        <3>3. MergedAt(A[m], C[a], A[a], a \in S)
            BY <3>1, <3>2 DEF Chain
        <3>4. ~IsArray(A[m])
            <4>1. SUFFICES ASSUME IsArray(A[m])
                  PROVE  FALSE
                OBVIOUS
            <4>2. Topped(A, C, S, m)
                BY <3>2, ChainTopped
            <4>3. PICK top \in S : ToppedBy(A, C, S, m, top)
                BY <4>1, <4>2, Kinds DEF Topped
            <4>4. IsArray(C[top])
                BY <4>1, <4>3, <3>2 DEF ToppedBy, Chain
            <4>5. ASSUME NEW j \in top .. N, j \in S
                  PROVE  IsArray(C[j])
                <5>1. CASE j <= m
                    <6>1. j <= top
                        BY <4>3, <4>5, <5>1 DEF ToppedBy
                    <6>2. j = top
                        BY <6>1, <1>1
                    <6> QED
                        BY <6>2, <4>4
                <5>2. CASE j > m
                    <6>1. j \in a .. N
                        BY <5>2, <3>1, <1>1
                    <6> QED
                        BY <6>1, <4>5, <1>0 DEF LastArrays
                <5> QED
                    BY <5>1, <5>2, <1>1
            <4>6. top \in R
                BY <4>5 DEF LastArrays
            <4>7. top <= m
                BY <4>3 DEF ToppedBy
            <4> QED
                BY <4>6, <4>7, <3>2, <1>0, <1>1
        <3>5. ~IsTable(C[a])
            BY <1>1 DEF Chain
        <3> QED
            BY <3>3, <3>4, <3>5, <1>1 DEF MergedAt
    <2> QED
        BY <2>1, <2>2
<1>4. ASSUME NEW n \in (a + 1) .. N, IsArray(A[n - 1])
      PROVE  /\ IsArray(A[n])
             /\ L[n] = IF n \in R THEN MergeArrays(L[n - 1], I[n]) ELSE L[n - 1]
    <2>1. PICK m \in Int : m = n - 1
        BY <1>1
    <2>2. n \in 1 .. N /\ m \in 1 .. N /\ n \in 2 .. N /\ n \in a .. N
        BY <1>1, <2>1
    <2>3. MergedAt(A[m], C[n], A[n], n \in S) /\ IsArray(A[m])
        BY <2>1, <2>2, <1>4 DEF Chain
    <2>4. L[n] = A[n].array /\ L[m] = A[m].array /\ I[n] = C[n].array
        BY <1>0, <2>2
    <2>5. CASE n \in R
        <3>1. n \in S /\ IsArray(C[n])
            BY <2>2, <2>5, <1>2 DEF LastArrays
        <3>2. A[n] = Array(MergeArrays(A[m].array, C[n].array))
            BY <3>1, <2>3 DEF MergedAt
        <3> QED
            BY <3>2, <2>1, <2>4, <2>5, Kinds
    <2>6. CASE n \notin R
        <3>1. A[n] = A[m]
            BY <2>2, <2>3, <2>6, <1>2 DEF MergedAt
        <3> QED
            BY <3>1, <2>1, <2>3, <2>4, <2>6
    <2> QED
        BY <2>5, <2>6
<1>5. \A n \in a .. N : IsArray(A[n])
    <2> DEFINE P == {n \in 0 .. N : n >= a => IsArray(A[n])}
    <2>1. 0 \in P
        BY <1>1
    <2>2. ASSUME NEW n \in 1 .. N, n - 1 \in P
          PROVE  n \in P
        <3>1. CASE n < a
            BY <3>1, <1>1
        <3>2. CASE n = a
            BY <3>2, <1>1, <1>3
        <3>3. CASE n > a
            <4>1. n \in (a + 1) .. N /\ n - 1 >= a
                BY <3>3, <1>1
            <4>2. IsArray(A[n - 1])
                BY <4>1, <2>2
            <4> QED
                BY <4>1, <4>2, <1>4
        <3> QED
            BY <3>1, <3>2, <3>3, <1>1
    <2> HIDE DEF P
    <2>3. \A n \in 0 .. N : n \in P
        BY <2>1, <2>2, Upwards
    <2>4. \A n \in a .. N : n \in 0 .. N /\ n >= a
        BY <1>1
    <2> QED
        BY <2>3, <2>4 DEF P
<1>6. \A n \in (a + 1) .. N : n - 1 \in a .. N
    BY <1>1
<1>7. Run(L, I, R, a, N)
    <2>1. L[a] = I[a]
        BY <1>0, <1>1, <1>3
    <2> QED
        BY <2>1, <1>4, <1>5, <1>6 DEF Run
<1>8. \A n \in a .. N : L[n] \in Seq(Things)
    <2>1. \A n \in a .. N : n \in 1 .. N
        BY <1>1
    <2> QED
        BY <2>1, <1>0, <1>5 DEF Chain
<1> QED
    BY <1>5, <1>7, <1>8 DEF ListedBy

\* What a run of arrays is made of.
RunTyped(L, I, R, a, N, Things) ==
    /\ Run(L, I, R, a, N)
    /\ a \in R /\ R \subseteq 1 .. N /\ \A i \in R : a <= i
    /\ \A i \in R : I[i] \in Seq(Things)
    /\ \A n \in a .. N : L[n] \in Seq(Things)

\* What holds of the first of a run, and passes on, holds of all.
LEMMA RunInduction ==
    ASSUME NEW a \in Int, NEW N \in Nat, a >= 1, NEW P, a \in P,
           \A n \in (a + 1) .. N : n - 1 \in P => n \in P
    PROVE  \A n \in a .. N : n \in P
<1> DEFINE Q == {n \in 0 .. N : n >= a => n \in P}
<1>1. 0 \in Q
    OBVIOUS
<1>2. ASSUME NEW n \in 1 .. N, n - 1 \in Q
      PROVE  n \in Q
    <2>1. CASE n < a
        BY <2>1
    <2>2. CASE n = a
        BY <2>2
    <2>3. CASE n > a
        <3>1. n \in (a + 1) .. N /\ n - 1 >= a
            BY <2>3
        <3>2. n - 1 \in P
            BY <3>1, <1>2
        <3> QED
            BY <3>1, <3>2
    <2> QED
        BY <2>1, <2>2, <2>3
<1> HIDE DEF Q
<1>3. \A n \in 0 .. N : n \in Q
    BY <1>1, <1>2, Upwards
<1>4. \A n \in a .. N : n \in 0 .. N /\ n >= a
    OBVIOUS
<1> QED
    BY <1>3, <1>4 DEF Q

\* Over a list with an item without a key, everything is added at the end.
Unkeyed(s) == s # <<>> /\ KeyField(s) = "none"

\* So along the whole run, if its first list is such.
LEMMA RunUnkeyed ==
    ASSUME NEW L, NEW I, NEW R, NEW a, NEW N \in Nat, NEW Things, RunTyped(L, I, R, a, N, Things),
           Unkeyed(I[a])
    PROVE  \A n \in (a + 1) .. N : L[n] = IF n \in R THEN L[n - 1] \o I[n] ELSE L[n - 1]
<1>1. a \in 1 .. N /\ L[a] = I[a]
    BY DEF RunTyped, Run
<1>2. \A n \in (a + 1) .. N : n \in a .. N /\ n - 1 \in a .. N
    BY <1>1
<1>3. ASSUME NEW n \in (a + 1) .. N, Unkeyed(L[n - 1])
      PROVE  Unkeyed(L[n]) /\ L[n] = IF n \in R THEN L[n - 1] \o I[n] ELSE L[n - 1]
    <2>1. L[n - 1] \in Seq(Things) /\ (n \in R => I[n] \in Seq(Things))
        BY <1>2 DEF RunTyped
    <2>2. L[n] = IF n \in R THEN MergeArrays(L[n - 1], I[n]) ELSE L[n - 1]
        BY DEF RunTyped, Run
    <2>3. n \in R => /\ MergeArrays(L[n - 1], I[n]) = L[n - 1] \o I[n]
                     /\ Unkeyed(L[n - 1] \o I[n])
        BY <2>1, <1>3, MergeUnkeyed DEF Unkeyed
    <2> QED
        BY <2>2, <2>3, <1>3
<1>4. \A n \in a .. N : Unkeyed(L[n])
    <2> DEFINE P == {n \in a .. N : Unkeyed(L[n])}
    <2>1. a \in P
        BY <1>1
    <2>2. \A n \in (a + 1) .. N : n - 1 \in P => n \in P
        BY <1>2, <1>3
    <2>3. a \in Int /\ a >= 1
        BY <1>1
    <2> HIDE DEF P
    <2>4. \A n \in a .. N : n \in P
        BY <2>1, <2>2, <2>3, RunInduction
    <2> QED
        BY <2>4 DEF P
<1> QED
    BY <1>2, <1>3, <1>4

\* The keys of a list are those of its elements.
LEMMA KeysOfIs ==
    ASSUME NEW s, NEW f
    PROVE  KeysOf(s, f) = {y.table[f] : y \in ToSet(s)}
BY DEF KeysOf, ToSet

\* Of keyed lists, up to each the keys of all and, of each, the item of the last that has it.
Latest(L, I, R, n, f) ==
    /\ Keyed(L[n], f)
    /\ \A i \in R : i <= n => KeysOf(I[i], f) \subseteq KeysOf(L[n], f)
    /\ \A y \in ToSet(L[n]) : \E i \in R :
          /\ i <= n /\ y \in ToSet(I[i])
          /\ \A j \in R : i < j /\ j <= n => y.table[f] \notin KeysOf(I[j], f)

\* So it is all along a run of keyed lists.
LEMMA RunKeyed ==
    ASSUME NEW L, NEW I, NEW R, NEW a, NEW N \in Nat, NEW Things, RunTyped(L, I, R, a, N, Things),
           NEW f \in {"code", "id"}, \A i \in R : Keyed(I[i], f)
    PROVE  \A n \in a .. N : Latest(L, I, R, n, f)
<1>1. a \in 1 .. N /\ L[a] = I[a] /\ a \in R /\ R \subseteq Int /\ \A i \in R : a <= i
    BY DEF RunTyped, Run
<1>2. \A n \in (a + 1) .. N : n \in a .. N /\ n - 1 \in a .. N
    BY <1>1
<1>3. Latest(L, I, R, a, f)
    <2>1. \A i \in R : i <= a => i = a
        BY <1>1
    <2>2. \A j \in R : ~(a < j /\ j <= a)
        BY <1>1
    <2>3. a <= a
        BY <1>1
    <2> QED
        BY <2>1, <2>2, <2>3, <1>1 DEF Latest
<1>4. ASSUME NEW n \in (a + 1) .. N, Latest(L, I, R, n - 1, f)
      PROVE  Latest(L, I, R, n, f)
    <2>1. PICK m \in Int : m = n - 1
        BY <1>1
    <2>2. /\ L[m] \in Seq(Things) /\ (n \in R => I[n] \in Seq(Things))
          /\ L[n] = IF n \in R THEN MergeArrays(L[m], I[n]) ELSE L[m]
        BY <1>2, <2>1 DEF RunTyped, Run
    <2>3. \A i \in R : (i <= n <=> i <= m \/ i = n) /\ (i <= m => i # n) /\ (i = n => i <= n)
        BY <1>1, <2>1
    <2>4. /\ Keyed(L[m], f)
          /\ \A i \in R : i <= m => KeysOf(I[i], f) \subseteq KeysOf(L[m], f)
          /\ \A y \in ToSet(L[m]) : \E i \in R :
                /\ i <= m /\ y \in ToSet(I[i])
                /\ \A j \in R : i < j /\ j <= m => y.table[f] \notin KeysOf(I[j], f)
        BY <1>4, <2>1 DEF Latest
    <2>5. CASE n \notin R
        <3>1. L[n] = L[m] /\ \A i \in R : i <= n <=> i <= m
            BY <2>2, <2>3, <2>5
        <3> QED
            BY <3>1, <2>4 DEF Latest
    <2>6. CASE n \in R
        <3>1. PICK v, x, z : v = L[m] /\ x = I[n] /\ z = L[n]
            OBVIOUS
        <3>2. Keyed(z, f) /\ Overlaid(z, v, x, f)
            BY <2>2, <2>4, <2>6, <3>1, MergeKeyed
        <3>3. KeysOf(x, f) \subseteq KeysOf(z, f) /\ KeysOf(v, f) \subseteq KeysOf(z, f)
            BY <3>2, KeysOfIs DEF Overlaid
        <3>4. \A i \in R : i <= n => KeysOf(I[i], f) \subseteq KeysOf(z, f)
            BY <3>3, <3>1, <2>3, <2>4
        <3>5. ASSUME NEW y \in ToSet(z)
              PROVE  \E i \in R : /\ i <= n /\ y \in ToSet(I[i])
                                  /\ \A j \in R : i < j /\ j <= n => y.table[f] \notin KeysOf(I[j], f)
            <4>1. CASE y \in ToSet(x)
                <5>1. \A j \in R : ~(n < j /\ j <= n)
                    BY <1>1
                <5> QED
                    BY <5>1, <4>1, <3>1, <2>3, <2>6
            <4>2. CASE y \in ToSet(v) /\ y.table[f] \notin KeysOf(x, f)
                <5>1. PICK i \in R : /\ i <= m /\ y \in ToSet(I[i])
                                     /\ \A j \in R : i < j /\ j <= m => y.table[f] \notin KeysOf(I[j], f)
                    BY <4>2, <2>4, <3>1
                <5>2. \A j \in R : i < j /\ j <= n => y.table[f] \notin KeysOf(I[j], f)
                    BY <5>1, <4>2, <2>3, <3>1
                <5>3. i <= n
                    BY <5>1, <2>3
                <5> QED
                    BY <5>1, <5>2, <5>3
            <4> QED
                BY <4>1, <4>2, <3>2 DEF Overlaid
        <3> QED
            BY <3>1, <3>2, <3>4, <3>5 DEF Latest
    <2> QED
        BY <2>5, <2>6
<1>5. PICK P : P = {n \in a .. N : Latest(L, I, R, n, f)}
    OBVIOUS
<1>6. a \in P /\ (\A n \in (a + 1) .. N : n - 1 \in P => n \in P) /\ a \in Int /\ a >= 1
    <2>1. a \in a .. N /\ a \in Int /\ a >= 1
        BY <1>1
    <2> QED
        BY <2>1, <1>2, <1>3, <1>4, <1>5
<1>7. \A n \in a .. N : n \in P
    BY <1>6, RunInduction
<1> QED
    BY <1>5, <1>7

\* The keys of a list are as many as its items exactly if no two have the same.
LEMMA KeysCounted ==
    ASSUME NEW Things, NEW s \in Seq(Things), NEW f
    PROVE  Cardinality(KeysOf(s, f)) = Len(s) <=> Apart(s, f)
<1>1. PICK n \in Nat : n = Len(s)
    OBVIOUS
<1>2. DOMAIN s = 1 .. n
    BY <1>1
<1>3. PICK D, T : D = 1 .. n /\ T = KeysOf(s, f)
    OBVIOUS
<1>4. PICK h : h = [i \in D |-> s[i].table[f]]
    OBVIOUS
<1>5. T = {h[i] : i \in D}
    BY <1>2, <1>3, <1>4 DEF KeysOf
<1>6. h \in Surjection(D, T)
    <2>1. h \in [D -> T] /\ \A t \in T : \E i \in D : h[i] = t
        BY <1>4, <1>5
    <2> QED
        BY <2>1 DEF Surjection
<1>7. IsFiniteSet(D) /\ Cardinality(D) = n
    <2>1. IsFiniteSet(1 .. n) /\ Cardinality(1 .. n) = (IF 1 > n THEN 0 ELSE n - 1 + 1)
        BY FS_Interval
    <2>2. (IF 1 > n THEN 0 ELSE n - 1 + 1) = n
        OBVIOUS
    <2> QED
        BY <2>1, <2>2, <1>3
<1>8. Cardinality(T) = Cardinality(D) <=> h \in Injection(D, T)
    BY <1>6, <1>7, FS_Surjection
<1>9. h \in Injection(D, T) <=> Apart(s, f)
    <2>1. h \in [D -> T]
        BY <1>6 DEF Surjection
    <2>2. h \in Injection(D, T) <=> \A i, j \in D : h[i] = h[j] => i = j
        BY <2>1 DEF Injection, IsInjective
    <2> QED
        BY <2>2, <1>2, <1>3, <1>4 DEF Apart
<1> QED
    BY <1>1, <1>3, <1>7, <1>8, <1>9

\* The recursion by which the arrays of the layers are put together, end to end.
JoinStep(g, p, i) ==
    IF i = 0 THEN <<>>
    ELSE IF i \in Arrays(p) THEN g[i - 1] \o Items(i, p) ELSE g[i - 1]
IsJoined(g, p, N) == g = [i \in 0 .. N |-> JoinStep(g, p, i)]

\* That is what a run comes to over a list with an item without a key.
LEMMA JoinedIs ==
    ASSUME NEW p, NEW N \in Nat, N = Len(contents), NEW L, NEW I, NEW R, NEW a, NEW Things,
           R = Arrays(p), \A i \in R : I[i] = Items(i, p), RunTyped(L, I, R, a, N, Things), Unkeyed(I[a])
    PROVE  Concatenated(p) = L[N]
<1>1. a \in 1 .. N /\ L[a] = I[a] /\ a \in R /\ R \subseteq Int /\ \A i \in R : a <= i
    BY DEF RunTyped, Run
<1>2. PICK J : J = [i \in 0 .. N |-> IF i < a THEN <<>> ELSE L[i]]
    OBVIOUS
<1>3. ASSUME NEW i \in 0 .. N
      PROVE  J[i] = JoinStep(J, p, i)
    <2>1. CASE i = 0
        BY <2>1, <1>1, <1>2 DEF JoinStep
    <2>2. CASE i # 0 /\ i < a
        <3>1. i \notin R /\ i - 1 \in 0 .. N /\ i - 1 < a
            BY <2>2, <1>1
        <3>2. J[i] = <<>> /\ J[i - 1] = <<>>
            BY <3>1, <2>2, <1>2
        <3> QED
            BY <3>1, <3>2, <2>2 DEF JoinStep
    <2>3. CASE i = a
        <3>1. i # 0 /\ i - 1 \in 0 .. N /\ i - 1 < a /\ ~(i < a) /\ i \in R
            BY <2>3, <1>1
        <3>2. J[i] = I[i] /\ J[i - 1] = <<>>
            BY <3>1, <2>3, <1>1, <1>2
        <3>3. <<>> \o I[i] = I[i]
            <4>1. I[i] \in Seq(Things)
                BY <3>1 DEF RunTyped
            <4> QED
                BY <4>1
        <3> QED
            BY <3>1, <3>2, <3>3 DEF JoinStep
    <2>4. CASE i > a
        <3>1. i # 0 /\ i - 1 \in 0 .. N /\ ~(i - 1 < a) /\ ~(i < a) /\ i \in (a + 1) .. N
            BY <2>4, <1>1
        <3>2. J[i] = L[i] /\ J[i - 1] = L[i - 1]
            BY <3>1, <1>2
        <3>3. L[i] = IF i \in R THEN L[i - 1] \o I[i] ELSE L[i - 1]
            BY <3>1, RunUnkeyed
        <3> QED
            BY <3>1, <3>2, <3>3 DEF JoinStep
    <2> QED
        BY <2>1, <2>2, <2>3, <2>4, <1>1
<1>4. IsJoined(J, p, N)
    <2>1. J = [i \in 0 .. N |-> J[i]]
        BY <1>2
    <2>2. [i \in 0 .. N |-> J[i]] = [i \in 0 .. N |-> JoinStep(J, p, i)]
        BY <1>3
    <2> QED
        BY <2>1, <2>2 DEF IsJoined
<1>5. PICK h : h = CHOOSE g : IsJoined(g, p, N)
    OBVIOUS
<1>6. IsJoined(h, p, N)
    BY <1>4, <1>5
<1>7. Concatenated(p) = h[N]
    BY <1>5 DEF Concatenated, IsJoined, JoinStep
<1>8. \A i \in 0 .. N : h[i] = JoinStep(h, p, i)
    BY <1>6 DEF IsJoined
<1> DEFINE P == {i \in 0 .. N : h[i] = J[i]}
<1>9. 0 \in P
    BY <1>3, <1>8 DEF JoinStep
<1>10. ASSUME NEW i \in 1 .. N, i - 1 \in P
       PROVE  i \in P
    <2>1. i \in 0 .. N /\ h[i - 1] = J[i - 1]
        BY <1>10
    <2> QED
        BY <2>1, <1>3, <1>8 DEF JoinStep
<1>11. h[N] = J[N]
    <2> HIDE DEF P
    <2>1. \A i \in 0 .. N : i \in P
        BY <1>9, <1>10, Upwards
    <2>2. N \in P
        BY <2>1
    <2> QED
        BY <2>2 DEF P
<1>12. J[N] = L[N]
    BY <1>1, <1>2
<1> QED
    BY <1>7, <1>11, <1>12

\* What a run comes to over keyed lists has each key once, with the item of the last list.
LEMMA LastItemsHold ==
    ASSUME NEW p, NEW f, NEW L, NEW I, NEW R, NEW N \in Nat, NEW Things, R = Arrays(p),
           R \subseteq 1 .. N, \A i \in R : I[i] = Items(i, p), L[N] \in Seq(Things),
           ExtractKey(merged, p).array = L[N], Latest(L, I, R, N, f)
    PROVE  LastItems(p, f)
<1>1. PICK s, keys : s = L[N] /\ keys = UNION {ItemKeys(i, p, f) : i \in Arrays(p)}
    OBVIOUS
<1>2. \A i \in R : ItemKeys(i, p, f) = KeysOf(I[i], f)
    BY DEF ItemKeys, KeysOf
<1>3. \A i \in R : i <= N /\ i \in Int
    OBVIOUS
<1>4. /\ Apart(s, f) /\ \A i \in R : KeysOf(I[i], f) \subseteq KeysOf(s, f)
      /\ \A y \in ToSet(s) : \E i \in R :
            y \in ToSet(I[i]) /\ \A j \in R : i < j => y.table[f] \notin KeysOf(I[j], f)
    BY <1>1, <1>3 DEF Latest, Keyed
<1>5. keys = KeysOf(s, f)
    <2>1. keys = UNION {KeysOf(I[i], f) : i \in R}
        BY <1>1, <1>2
    <2>2. \A y \in ToSet(s) : \E i \in R : y.table[f] \in KeysOf(I[i], f)
        BY <1>4, KeysOfIs
    <2>3. \A k \in KeysOf(s, f) : \E i \in R : k \in KeysOf(I[i], f)
        BY <2>2, KeysOfIs
    <2> QED
        BY <2>1, <2>3, <1>4
<1>6. Len(s) = Cardinality(keys)
    BY <1>1, <1>4, <1>5, KeysCounted
<1>7. ASSUME NEW k \in keys
      PROVE  \E item \in ToSet(s) :
                /\ item.table[f] = k
                /\ item \in ToSet(Items(Max({i \in Arrays(p) : k \in ItemKeys(i, p, f)}), p))
    <2>1. PICK y \in ToSet(s) : y.table[f] = k
        BY <1>5, KeysOfIs
    <2>2. PICK i \in R : y \in ToSet(I[i]) /\ \A j \in R : i < j => y.table[f] \notin KeysOf(I[j], f)
        BY <1>4
    <2>3. PICK H : H = {j \in Arrays(p) : k \in ItemKeys(j, p, f)}
        OBVIOUS
    <2>4. H = {j \in R : k \in KeysOf(I[j], f)}
        BY <2>3, <1>2
    <2>5. i \in H
        BY <2>1, <2>2, <2>4, KeysOfIs
    <2>6. H \in SUBSET Int /\ IsFiniteSet(H)
        <3>1. IsFiniteSet(1 .. N)
            BY FS_Interval
        <3>2. H \in SUBSET (1 .. N)
            BY <2>4
        <3>3. IsFiniteSet(H)
            BY <3>1, <3>2, FS_Subset
        <3>4. H \in SUBSET Int
            BY <2>4, <1>3
        <3> QED
            BY <3>3, <3>4
    <2>7. Max(H) \in H /\ \A j \in H : j <= Max(H)
        BY <2>5, <2>6, MaxIn
    <2>8. ~(i < Max(H))
        BY <2>1, <2>2, <2>4, <2>7
    <2>9. Max(H) = i
        <3>1. PICK m : m = Max(H)
            OBVIOUS
        <3>2. m \in Int /\ i \in Int /\ i <= m /\ ~(i < m)
            BY <3>1, <2>5, <2>6, <2>7, <2>8
        <3> QED
            BY <3>1, <3>2
    <2> QED
        BY <2>1, <2>2, <2>3, <2>9
<1> QED
    BY <1>1, <1>6, <1>7 DEF LastItems

\* What the layers mean for one path: LaterLayersWin, path by path.
WonAt(p) ==
    LET speakers == {i \in DOMAIN contents : Speaks(i, p)}
        result == ExtractKey(merged, p)
    IN  IF speakers = {} THEN result = Missing
        ELSE LET top == ExtractKey(contents[Max(speakers)], p)
             IN  CASE IsTable(top) -> IsTable(result)
                   [] IsArray(top) ->
                        /\ IsArray(result)
                        /\ \A f \in {"code", "id"} : KeyedBy(p, f) => LastItems(p, f)
                        /\ KeyField(Items(Min(Arrays(p)), p)) = "none"
                               /\ Items(Min(Arrays(p)), p) # <<>>
                              => result.array = Concatenated(p)
                   [] OTHER -> result = top

\* The arrays of a path whose last speaker has one.
LEMMA ArraysWon ==
    ASSUME NEW p, NEW N \in Nat, N = Len(contents), NEW A, NEW C, NEW S, NEW Things,
           Chain(A, C, S, N, Things), \A n \in 1 .. N : C[n] = ExtractKey(contents[n], p),
           ExtractKey(merged, p) = A[N], Arrays(p) = LastArrays(C, S, N), Arrays(p) # {}
    PROVE  /\ \A f \in {"code", "id"} : KeyedBy(p, f) => LastItems(p, f)
           /\ KeyField(Items(Min(Arrays(p)), p)) = "none" /\ Items(Min(Arrays(p)), p) # <<>>
                 => ExtractKey(merged, p).array = Concatenated(p)
<1>1. PICK R, a : R = Arrays(p) /\ a = Min(R)
    OBVIOUS
<1>2. R \subseteq 1 .. N /\ \A i \in R : IsArray(C[i])
    <2>1. S \subseteq 1 .. N
        BY DEF Chain
    <2>2. \A i \in 1 .. N : i \in i .. N
        OBVIOUS
    <2> QED
        BY <2>1, <2>2, <1>1 DEF LastArrays
<1>3. a \in R /\ \A i \in R : a <= i
    <2>1. IsFiniteSet(1 .. N)
        BY FS_Interval
    <2>2. IsFiniteSet(R)
        BY <2>1, <1>2, FS_Subset
    <2>3. R \in SUBSET Int
        BY <1>2
    <2> QED
        BY <2>2, <2>3, <1>1, MinIn
<1>4. PICK L, I : L = [n \in 1 .. N |-> A[n].array] /\ I = [n \in 1 .. N |-> C[n].array]
    OBVIOUS
<1>5. /\ Run(L, I, R, a, N)
      /\ \A n \in a .. N : IsArray(A[n]) /\ L[n] \in Seq(Things)
    <2>1. R = LastArrays(C, S, N) /\ FirstOf(a, R) /\ AreArrays(L, A, N) /\ AreArrays(I, C, N)
        BY <1>1, <1>3, <1>4 DEF FirstOf, AreArrays
    <2>2. Run(L, I, R, a, N) /\ ListedBy(L, A, a, N, Things)
        BY <2>1, ChainRun
    <2> QED
        BY <2>2 DEF ListedBy
<1>6. \A i \in R : I[i] = Items(i, p) /\ I[i] \in Seq(Things)
    BY <1>2, <1>4 DEF Chain, Items
<1>7. RunTyped(L, I, R, a, N, Things)
    BY <1>2, <1>3, <1>5, <1>6 DEF RunTyped
<1>8. N \in 1 .. N /\ N \in a .. N
    <2>1. a \in 1 .. N
        BY <1>2, <1>3
    <2> QED
        BY <2>1
<1>9. ExtractKey(merged, p).array = L[N] /\ L[N] \in Seq(Things)
    BY <1>4, <1>5, <1>8
<1>10. ASSUME NEW f \in {"code", "id"}, KeyedBy(p, f)
       PROVE  LastItems(p, f)
    <2>1. ASSUME NEW i \in R
          PROVE  Keyed(I[i], f)
        <3>1. PICK s : s = I[i]
            OBVIOUS
        <3>2. s \in Seq(Things) /\ s = Items(i, p) /\ ItemKeys(i, p, f) = KeysOf(s, f)
            BY <3>1, <1>6 DEF ItemKeys, KeysOf
        <3>3. CASE s = <<>>
            BY <3>1, <3>3 DEF Keyed, Apart
        <3>4. CASE s # <<>>
            <4>1. KeyField(s) = f /\ Cardinality(KeysOf(s, f)) = Len(s)
                BY <3>2, <3>4, <1>1, <1>10 DEF KeyedBy
            <4>2. Apart(s, f)
                BY <3>2, <4>1, KeysCounted
            <4> QED
                BY <3>1, <4>1, <4>2 DEF Keyed
        <3> QED
            BY <3>3, <3>4
    <2>2. Latest(L, I, R, N, f)
        BY <2>1, <1>7, <1>8, RunKeyed
    <2> QED
        BY <2>2, <1>1, <1>2, <1>6, <1>9, LastItemsHold
<1>11. ASSUME KeyField(Items(a, p)) = "none", Items(a, p) # <<>>
       PROVE  ExtractKey(merged, p).array = Concatenated(p)
    <2>1. Unkeyed(I[a])
        BY <1>3, <1>6, <1>11 DEF Unkeyed
    <2>2. Concatenated(p) = L[N]
        BY <2>1, <1>1, <1>6, <1>7, JoinedIs
    <2> QED
        BY <2>2, <1>9
<1> QED
    BY <1>1, <1>10, <1>11

\* Tidy files, merged, mean that for every path.
LEMMA PathWon ==
    ASSUME NEW Things, NEW d \in Nat, NEW N \in Nat, N >= 1, N = Len(contents), DOMAIN contents = 1 .. N,
           \A n \in 1 .. N : Tidy(contents[n], Things, d), merged = MergeAll(contents),
           NEW p \in Seq(STRING)
    PROVE  WonAt(p)
<1>1. PICK g : Merges(g, contents, N, Things, d) /\ MergeAll(contents) = g[N]
    <2>1. PICK stack : stack = contents
        OBVIOUS
    <2>2. AllTidy(stack, N, Things, d)
        BY <2>1 DEF AllTidy
    <2>3. \E g : Merges(g, stack, N, Things, d) /\ MergeAll(stack) = g[N]
        BY <2>2, MergeAllIs
    <2> QED
        BY <2>1, <2>3
<1>2. PICK C : C = [n \in 1 .. N |-> ExtractKey(contents[n], p)]
    OBVIOUS
<1>3. PICK A : A = [n \in 1 .. N |-> ExtractKey(g[n], p)]
    OBVIOUS
<1>4. PICK S : S = {n \in 1 .. N : Speaks(n, p)}
    OBVIOUS
<1>5. \A n \in 1 .. N : Speaks(n, p) <=> Says(contents[n], p)
    BY DEF Speaks, Says, Bars
<1>6. Chain(A, C, S, N, Things)
    <2>1. 1 \in 1 .. N
        OBVIOUS
    <2>2. A[1] = C[1]
        BY <2>1, <1>1, <1>2, <1>3 DEF Merges
    <2>3. ASSUME NEW n \in 2 .. N
          PROVE  MergedAt(A[n - 1], C[n], A[n], n \in S)
        <3>1. n \in 1 .. N /\ n - 1 \in 1 .. N
            OBVIOUS
        <3>2. /\ Tidy(g[n - 1], Things, d) /\ Tidy(contents[n], Things, d)
              /\ g[n] = DeepMerge(g[n - 1], contents[n])
            BY <3>1, <1>1 DEF Merges
        <3>3. MergedAt(ExtractKey(g[n - 1], p), ExtractKey(contents[n], p), ExtractKey(g[n], p),
                       Says(contents[n], p))
            BY <3>2, DeepMergeGives
        <3>4. n \in S <=> Says(contents[n], p)
            BY <3>1, <1>4, <1>5
        <3>5. /\ A[n - 1] = ExtractKey(g[n - 1], p) /\ C[n] = ExtractKey(contents[n], p)
              /\ A[n] = ExtractKey(g[n], p)
            BY <3>1, <1>2, <1>3
        <3> QED
            BY <3>3, <3>4, <3>5 DEF MergedAt
    <2>4. ASSUME NEW n \in 1 .. N
          PROVE  /\ n \notin S => C[n] = Missing
                 /\ TidyAt(C[n], Len(p), Things, d) /\ TidyAt(A[n], Len(p), Things, d)
        <3>1. n \notin S => C[n] = Missing
            BY <1>2, <1>4, <1>5 DEF Says
        <3>2. TidyAt(C[n], Len(p), Things, d) /\ TidyAt(A[n], Len(p), Things, d)
            BY <1>1, <1>2, <1>3 DEF Merges, Tidy
        <3> QED
            BY <3>1, <3>2
    <2> QED
        BY <2>2, <2>3, <2>4, <1>4 DEF Chain, TidyAt
<1>7. ExtractKey(merged, p) = A[N] /\ N \in 1 .. N
    BY <1>1, <1>3
<1>8. S = {i \in DOMAIN contents : Speaks(i, p)}
    BY <1>4
<1>9. Arrays(p) = LastArrays(C, S, N)
    <2>1. ASSUME NEW i \in 1 .. N
          PROVE  (\A j \in i .. Len(contents) : Speaks(j, p) => IsArray(ExtractKey(contents[j], p)))
                 <=> (\A j \in i .. N : j \in S => IsArray(C[j]))
        <3>1. \A j \in i .. N : j \in 1 .. N
            OBVIOUS
        <3>2. \A j \in i .. N : (j \in S <=> Speaks(j, p)) /\ C[j] = ExtractKey(contents[j], p)
            BY <3>1, <1>2, <1>4
        <3> QED
            BY <3>2
    <2>2. \A i \in DOMAIN contents : i \in 1 .. N /\ (i \in S <=> Speaks(i, p))
        BY <1>4
    <2>3. \A i \in S : i \in DOMAIN contents
        BY <1>8
    <2> QED
        BY <2>1, <2>2, <2>3 DEF Arrays, LastArrays
<1>10. Topped(A, C, S, N)
    BY <1>6, <1>7, ChainTopped
<1>11. CASE S = {}
    <2>1. A[N] = Missing
        BY <1>10, <1>11 DEF Topped
    <2> QED
        BY <2>1, <1>7, <1>8, <1>11 DEF WonAt
<1>12. CASE S # {}
    <2>1. PICK top \in S : ToppedBy(A, C, S, N, top)
        <3>1. \A j \in S : ~(j > N)
            BY <1>4
        <3> QED
            BY <3>1, <1>10, <1>12 DEF Topped
    <2>2. \A j \in S : j \in Int /\ j <= N /\ j <= top
        BY <2>1, <1>4 DEF ToppedBy
    <2>3. Max(S) = top
        <3>1. IsFiniteSet(1 .. N)
            BY FS_Interval
        <3>2. S \in SUBSET (1 .. N)
            BY <1>4
        <3>3. IsFiniteSet(S) /\ S \in SUBSET Int
            BY <3>1, <3>2, <2>2, FS_Subset
        <3>4. PICK m : m = Max(S)
            OBVIOUS
        <3>5. m \in S /\ \A j \in S : j <= m
            BY <3>3, <3>4, <1>12, MaxIn
        <3>6. m \in Int /\ top \in Int /\ m <= top /\ top <= m
            BY <3>5, <2>2
        <3> QED
            BY <3>4, <3>6
    <2>4. C[top] = ExtractKey(contents[Max(S)], p)
        BY <2>1, <2>3, <1>2, <1>4
    <2>5. ~(IsTable(C[top]) /\ IsArray(C[top]))
        BY <2>1, <1>4, <1>6 DEF Chain
    <2>6. ASSUME IsArray(C[top])
          PROVE  /\ \A f \in {"code", "id"} : KeyedBy(p, f) => LastItems(p, f)
                 /\ KeyField(Items(Min(Arrays(p)), p)) = "none" /\ Items(Min(Arrays(p)), p) # <<>>
                       => ExtractKey(merged, p).array = Concatenated(p)
        <3>1. ASSUME NEW j \in top .. N, j \in S
              PROVE  IsArray(C[j])
            <4>1. j <= top /\ top <= j /\ j \in Int /\ top \in Int
                BY <3>1, <2>2
            <4>2. j = top
                BY <4>1
            <4> QED
                BY <4>2, <2>6
        <3>2. top \in LastArrays(C, S, N)
            BY <3>1, <2>1 DEF LastArrays
        <3>3. \A n \in 1 .. N : C[n] = ExtractKey(contents[n], p)
            BY <1>2
        <3>4. Arrays(p) # {}
            BY <3>2, <1>9
        <3> QED
            BY <3>3, <3>4, <1>6, <1>7, <1>9, ArraysWon
    <2>7. /\ IsTable(C[top]) => IsTable(A[N])
          /\ IsArray(C[top]) => IsArray(A[N])
          /\ ~IsTable(C[top]) /\ ~IsArray(C[top]) => A[N] = C[top]
        BY <2>1 DEF ToppedBy
    <2>8. CASE IsTable(C[top])
        BY <2>4, <2>5, <2>7, <2>8, <1>7, <1>8, <1>12 DEF WonAt
    <2>9. CASE IsArray(C[top])
        BY <2>4, <2>5, <2>6, <2>7, <2>9, <1>7, <1>8, <1>12 DEF WonAt
    <2>10. CASE ~IsTable(C[top]) /\ ~IsArray(C[top])
        BY <2>4, <2>7, <2>10, <1>7, <1>8, <1>12 DEF WonAt
    <2> QED
        BY <2>8, <2>9, <2>10
<1> QED
    BY <1>11, <1>12

\* The stacks of files that are read: none is empty, and what parses is tidy.
StacksTidy(stacks, Files, Things, d) ==
    /\ stacks \subseteq Seq(Files) \ {<<>>}
    /\ \A v \in Files : IsTable(v) => Tidy(v, Things, d)

\* The files read so far are tidy tables; what is printed is all of them, merged.
LayersInv(Files, Things, d) ==
    /\ layers \in Seq(Files) \ {<<>>}
    /\ contents \in Seq({v \in Files \cup {Empty} : Tidy(v, Things, d)})
    /\ resolvePhase = "printed" => merged = MergeAll(contents) /\ contents # <<>>

\* A file without settings is tidy.
LEMMA EmptyTidy ==
    ASSUME NEW Things, NEW d \in Nat, d >= 1
    PROVE  Tidy(Empty, Things, d)
<1>1. IsTable(Empty) /\ ~IsArray(Empty) /\ DOMAIN Empty.table = {}
    <2>1. PICK h : h = [k \in {} |-> 0]
        OBVIOUS
    <2>2. Empty = Table(h) /\ DOMAIN h = {}
        BY <2>1 DEF Empty
    <2> QED
        BY <2>2, Kinds
<1> DEFINE P == {p \in Seq(STRING) : TidyAt(ExtractKey(Empty, p), Len(p), Things, d)
                                     /\ (p # <<>> => ExtractKey(Empty, p) = Missing)}
<1>2. \A n : TidyAt(Missing, n, Things, d)
    BY Kinds DEF TidyAt
<1>3. <<>> \in P
    <2>1. ExtractKey(Empty, <<>>) = Empty
        BY ExtractNothing
    <2>2. <<>> \in Seq(STRING) /\ Len(<<>>) = 0 /\ 0 < d
        OBVIOUS
    <2>3. TidyAt(Empty, Len(<<>>), Things, d)
        BY <1>1, <2>2 DEF TidyAt
    <2> QED
        BY <2>1, <2>2, <2>3
<1>4. ASSUME NEW p \in Seq(STRING), NEW k \in STRING, p \in P
      PROVE  Append(p, k) \in P
    <2>1. PICK q \in Seq(STRING) : q = Append(p, k)
        BY PathMore
    <2>2. ExtractKey(Empty, Append(p, k)) = Down(ExtractKey(Empty, p), k)
        <3> HIDE DEF P
        <3> QED
            BY <1>4, ExtractOne, Zenon
    <2>3. ExtractKey(Empty, p) = Missing \/ ExtractKey(Empty, p) = Empty
        BY <1>4, ExtractNothing
    <2>4. ExtractKey(Empty, q) = Missing
        BY <2>1, <2>2, <2>3, <1>1, DownIs
    <2> QED
        BY <2>1, <2>4, <1>2
<1> HIDE DEF P
<1>5. \A p \in Seq(STRING) : p \in P
    BY <1>3, <1>4, PathInduction
<1>6. \A p \in Seq(STRING) : TidyAt(ExtractKey(Empty, p), Len(p), Things, d)
    BY <1>5 DEF P
<1> QED
    BY <1>1, <1>6 DEF Tidy

\* Reading starts with that.
LEMMA LayersStart ==
    ASSUME NEW stacks, NEW Files, NEW Things, NEW d, StacksTidy(stacks, Files, Things, d),
           ResolveInit(stacks)
    PROVE  LayersInv(Files, Things, d)
<1>1. layers \in Seq(Files) \ {<<>>} /\ contents = <<>> /\ resolvePhase = "load"
    BY DEF ResolveInit, StacksTidy
<1> QED
    BY <1>1 DEF LayersInv

\* Every step keeps it.
LEMMA LayersStep ==
    ASSUME NEW stacks, NEW Files, NEW Things, NEW d \in Nat, d >= 1,
           StacksTidy(stacks, Files, Things, d), LayersInv(Files, Things, d), [ResolveNext]_resolveVars
    PROVE  LayersInv(Files, Things, d)'
<1>1. PICK V : V = {v \in Files \cup {Empty} : Tidy(v, Things, d)}
    OBVIOUS
<1>2. /\ layers \in Seq(Files) /\ layers # <<>> /\ contents \in Seq(V)
      /\ resolvePhase = "printed" => merged = MergeAll(contents) /\ contents # <<>>
    BY <1>1 DEF LayersInv
<1>3. ASSUME NEW i \in 1 .. Len(layers), IsTable(layers[i])
      PROVE  layers[i] \in V
    BY <1>1, <1>2, <1>3 DEF StacksTidy
<1>4. Empty \in V
    BY <1>1, EmptyTidy
<1>5. Len(layers) \in Nat /\ Len(layers) # 0
    BY <1>2, EmptySeq
<1>6. SUFFICES /\ layers' \in Seq(Files) /\ layers' # <<>> /\ contents' \in Seq(V)
               /\ resolvePhase' = "printed" => merged' = MergeAll(contents') /\ contents' # <<>>
    BY <1>1 DEF LayersInv
<1>7. CASE LoadRequired
    <2>1. 1 \in 1 .. Len(layers)
        BY <1>5
    <2>2. layers' = layers /\ resolvePhase' # "printed"
        BY <1>7 DEF LoadRequired
    <2>3. contents' = contents \/ (IsTable(layers[1]) /\ contents' = <<layers[1]>>)
        BY <1>7 DEF LoadRequired
    <2>4. contents' \in Seq(V)
        <3>1. PICK v : v = layers[1]
            OBVIOUS
        <3>2. IsTable(v) => v \in V
            BY <3>1, <2>1, <1>3
        <3>3. \A u \in V : <<u>> \in Seq(V)
            OBVIOUS
        <3> QED
            BY <3>1, <3>2, <3>3, <2>3, <1>2
    <2> QED
        BY <2>2, <2>4, <1>2
<1>8. CASE LoadLayer
    <2>1. Len(contents) + 1 \in 1 .. Len(layers)
        <3>1. Len(contents) < Len(layers) /\ Len(contents) \in Nat
            BY <1>2, <1>8 DEF LoadLayer
        <3> QED
            BY <3>1, <1>5
    <2>2. PICK v : /\ v = layers[Len(contents) + 1]
                   /\ contents' = Append(contents, IF IsTable(v) THEN v ELSE Empty)
        BY <1>8 DEF LoadLayer
    <2>3. (IF IsTable(v) THEN v ELSE Empty) \in V
        BY <2>1, <2>2, <1>3, <1>4
    <2>4. contents' \in Seq(V)
        BY <2>2, <2>3, <1>2
    <2>5. layers' = layers /\ resolvePhase' # "printed"
        BY <1>8 DEF LoadLayer
    <2> QED
        BY <2>4, <2>5, <1>2
<1>9. CASE MergeLayers
    <2>1. contents # <<>>
        BY <1>2, <1>5, <1>9 DEF MergeLayers
    <2> QED
        BY <2>1, <1>2, <1>9 DEF MergeLayers
<1>10. CASE UNCHANGED resolveVars
    BY <1>2, <1>10 DEF resolveVars
<1> QED
    BY <1>7, <1>8, <1>9, <1>10 DEF ResolveNext

\* It makes every printed setting what the layers mean.
LEMMA LayersMean ==
    ASSUME NEW Files, NEW Things, NEW d \in Nat, LayersInv(Files, Things, d)
    PROVE  LaterLayersWin
<1>1. SUFFICES ASSUME resolvePhase = "printed", NEW p \in Paths
      PROVE  WonAt(p)
    BY DEF LaterLayersWin, WonAt
<1>2. PICK V : V = {v \in Files \cup {Empty} : Tidy(v, Things, d)}
    OBVIOUS
<1>3. contents \in Seq(V) /\ merged = MergeAll(contents) /\ contents # <<>>
    BY <1>1, <1>2 DEF LayersInv
<1>4. PICK N \in Nat : N = Len(contents)
    BY <1>3
<1>5. N # 0
    BY <1>3, <1>4, EmptySeq
<1>6. DOMAIN contents = 1 .. N /\ N >= 1
    BY <1>3, <1>4, <1>5
<1>7. \A n \in 1 .. N : Tidy(contents[n], Things, d)
    BY <1>2, <1>3, <1>4
<1>8. p \in Seq(STRING)
    BY PathsAssumption
<1> QED
    BY <1>3, <1>4, <1>6, <1>7, <1>8, PathWon

\* What resolve_config and resolve_customization print, for every stack of files, every depth
\* to which their tables are nested and whatever their arrays hold: at every path the highest
\* layer that speaks of it settles what there is; its array has been joined with the arrays
\* directly below, by key where all of them have keys and end to end where the lowest has none.
THEOREM HighestLayerSettles ==
    ASSUME NEW stacks, NEW Files, NEW Things, NEW d \in Nat \ {0},
           StacksTidy(stacks, Files, Things, d)
    PROVE  ResolveSpec(stacks) => []LaterLayersWin
<1>1. d \in Nat /\ d >= 1
    OBVIOUS
<1>2. ResolveInit(stacks) => LayersInv(Files, Things, d)
    BY LayersStart
<1>3. LayersInv(Files, Things, d) /\ [ResolveNext]_resolveVars => LayersInv(Files, Things, d)'
    BY <1>1, LayersStep
<1>4. LayersInv(Files, Things, d) => LaterLayersWin
    BY <1>1, LayersMean
<1> QED
    BY <1>2, <1>3, <1>4, PTL DEF ResolveSpec
=============================================================================
