----------------------------- MODULE StageGraph -----------------------------
(***************************************************************************)
(* What the builders' pre-pass computes about the stages of a skill and    *)
(* what they depend on (prepass-execution-deps.py): the stages that may    *)
(* run in parallel, level by level, the cycles a depth-first search meets, *)
(* and the declared dependencies that others already imply.                *)
(*                                                                         *)
(* A graph gives some nodes the sequence of nodes they depend on; a node   *)
(* it says nothing of depends on nothing.                                  *)
(***************************************************************************)
EXTENDS Naturals, Sequences, FiniteSets, SequencesExt

CONSTANT Nodes     \* every node a graph may mention

ASSUME NodesAssumption == IsFiniteSet(Nodes)

VARIABLES
    graph,         \* graph[n]: what n depends on, in the order declared
    stages,        \* the nodes to arrange in levels
    remaining,     \* the stages not arranged yet
    levels,        \* the levels found, each a set of stages
    levelsDone,    \* the loop has ended
    roots,         \* nodes the search has still to start from
    path,          \* the nodes on the way from the root of the search
    position,      \* position[i]: how many dependencies of path[i] are explored
    visited,       \* nodes the search has entered
    cycles         \* the cycles found

levelVars == <<remaining, levels, levelsDone>>
searchVars == <<roots, path, position, visited, cycles>>
graphVars == <<graph, stages, levelVars, searchVars>>

\* graph.get(node, [])
Depends(n) == IF n \in DOMAIN graph THEN graph[n] ELSE <<>>
DependsOn(n) == ToSet(Depends(n))

-----------------------------------------------------------------------------
(* find_parallel_groups: stages none of whose dependencies remain form the *)
(* next level.  Only levels of two or more are reported.                   *)

\* Mutant: one dependency that is through is enough.
ReadyInPart == {n \in remaining : DependsOn(n) = {} \/ ~(DependsOn(n) \subseteq remaining)}
Ready == {n \in remaining : DependsOn(n) \cap remaining = {}}

ArrangeLevel ==
    /\ ~levelsDone
    /\ remaining # {} /\ Ready # {}
    /\ levels' = Append(levels, Ready)
    /\ remaining' = remaining \ Ready
    /\ UNCHANGED <<graph, stages, levelsDone, searchVars>>

\* Nothing is left, or what is left waits for itself.
ArrangeEnd ==
    /\ ~levelsDone
    /\ remaining = {} \/ Ready = {}
    /\ levelsDone' = TRUE
    /\ UNCHANGED <<graph, stages, remaining, levels, searchVars>>

Groups == {levels[i] : i \in {j \in DOMAIN levels : \E m, n \in levels[j] : m # n}}

-----------------------------------------------------------------------------
(* detect_cycles: one call of dfs per step.                                *)

\* dfs(n): a node on the path closes a cycle, a node seen before is left
\* alone, another is entered.
Visit(n, positions) ==
    IF n \in ToSet(path)
    THEN LET start == CHOOSE i \in DOMAIN path : path[i] = n
         IN  /\ cycles' = Append(cycles, Append(SubSeq(path, start, Len(path)), n))
             /\ position' = positions
             /\ UNCHANGED <<path, visited>>
    ELSE IF n \in visited
    THEN position' = positions /\ UNCHANGED <<path, visited, cycles>>
    ELSE /\ visited' = visited \cup {n}
         /\ path' = Append(path, n)
         /\ position' = Append(positions, 0)
         /\ UNCHANGED cycles

SearchRoot ==
    /\ path = <<>> /\ roots # <<>>
    /\ Visit(Head(roots), <<>>)
    /\ roots' = Tail(roots)
    /\ UNCHANGED <<graph, stages, levelVars>>

SearchNext ==
    /\ path # <<>>
    /\ LET top == Len(path)
           at == position[top]
       IN  /\ at < Len(Depends(path[top]))
           /\ Visit(Depends(path[top])[at + 1], [position EXCEPT ![top] = at + 1])
    /\ UNCHANGED <<graph, stages, levelVars, roots>>

SearchReturn ==
    /\ path # <<>>
    /\ position[Len(path)] = Len(Depends(path[Len(path)]))
    /\ path' = SubSeq(path, 1, Len(path) - 1)
    /\ position' = SubSeq(position, 1, Len(path) - 1)
    /\ UNCHANGED <<graph, stages, levelVars, roots, visited, cycles>>

SearchDone == path = <<>> /\ roots = <<>>

-----------------------------------------------------------------------------
(* find_transitive_redundancy                                              *)

\* Mutant: only what n itself declares.
DirectOnly(n) == DependsOn(n)
\* get_transitive: what n reaches in one dependency or more.
Transitive(n) ==
    LET reached[k \in 0..Cardinality(Nodes)] ==
            IF k = 0 THEN DependsOn(n)
            ELSE reached[k - 1] \cup UNION {DependsOn(x) : x \in reached[k - 1]}
    IN  reached[Cardinality(Nodes)]

Redundancies ==
    {r \in [node : DOMAIN graph, dep : Nodes, via : Nodes] :
        /\ {r.dep, r.via} \subseteq DependsOn(r.node)
        /\ r.via # r.dep
        /\ r.dep \in Transitive(r.via)}

-----------------------------------------------------------------------------
GraphNext == ArrangeLevel \/ ArrangeEnd \/ SearchRoot \/ SearchNext \/ SearchReturn

\* A dictionary keeps its keys in an order: the order of the search.
GraphInit(graphs, stageSets) ==
    /\ graph \in graphs
    /\ stages \in stageSets
    /\ remaining = stages /\ levels = <<>> /\ levelsDone = FALSE
    /\ roots = SetToSeq(DOMAIN graph) /\ path = <<>> /\ position = <<>>
    /\ visited = {} /\ cycles = <<>>

GraphSpec(graphs, stageSets) == GraphInit(graphs, stageSets) /\ [][GraphNext]_graphVars

-----------------------------------------------------------------------------
(* Properties.                                                             *)

Edges == {e \in Nodes \X Nodes : e[2] \in DependsOn(e[1])}

\* A walk of one edge of E or more from m to n: n is wherever the edges lead
\* that begin at m or where an edge has led.
Leads(E, m, n) ==
    \A S \in SUBSET Nodes : (\A e \in E : e[1] \in S \cup {m} => e[2] \in S) => n \in S
OnCycle(n) == Leads(Edges, n, n)

\* What the pre-pass says of dependencies is right once the search is over:
\* every cycle it names is one, every node on a cycle is connected both ways
\* with a cycle it names, and in a graph without cycles it calls a
\* dependency redundant exactly when the graph without it still implies it.
DependencyReport ==
    SearchDone =>
        /\ \A c \in ToSet(cycles) :
              /\ Len(c) > 1 /\ c[1] = c[Len(c)]
              /\ \A i \in 1..(Len(c) - 1) : <<c[i], c[i + 1]>> \in Edges
        /\ \A n \in Nodes : OnCycle(n) =>
              \E c \in ToSet(cycles) : n = c[1] \/ (Leads(Edges, n, c[1]) /\ Leads(Edges, c[1], n))
        /\ (\A n \in Nodes : ~OnCycle(n)) =>
              \A e \in Edges : Leads(Edges \ {e}, e[1], e[2]) <=>
                  \E r \in Redundancies : r.node = e[1] /\ r.dep = e[2]

\* The levels take the stages in an order that respects what they depend on:
\* no stage is in two levels, and what a stage depends on, if it is a stage,
\* is in an earlier level.  So the stages of a group never wait for each
\* other, and running the levels in order never runs a stage too early.
Arranged == UNION ToSet(levels)
DependenciesFirst ==
    /\ \A i \in DOMAIN levels : \A n \in levels[i] :
          \A d \in DependsOn(n) \cap stages : \E j \in 1..(i - 1) : d \in levels[j]
    /\ \A i, j \in DOMAIN levels : i # j => levels[i] \cap levels[j] = {}
    /\ Arranged = stages \ remaining
=============================================================================
