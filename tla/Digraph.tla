------------------------------ MODULE Digraph ------------------------------
(***************************************************************************)
(* util::DiGraph (util/graph.hpp): nodes under ids that are never used      *)
(* again, edges kept from both ends, and the depth first walk in post-order *)
(* that topological_sort_for_each_node_id makes over the predecessors.      *)
(* A set of ids is walked in increasing order.                              *)
(***************************************************************************)
EXTENDS Integers, Sequences, FiniteSets

CONSTANT MaxNodeId  \* bounds the nodes that are made

Ids == 0..(MaxNodeId - 1)

ASSUME DigraphConstants == MaxNodeId \in Nat

VARIABLES
    nodeMap,     \* the ids in use
    nextId,      \* the ids given so far
    successors, predecessors,
    edgeCount,   \* m_number_of_edges
    edgeData,    \* the edges that m_edges has data for, in a graph with data
    walk         \* the walk: the state of each id, the stack, what is done

digraph == <<nodeMap, nextId, successors, predecessors, edgeCount, edgeData>>
digraphVars == <<digraph, walk>>

NoWalk == [on |-> FALSE, status |-> [n \in Ids |-> "no"], stack |-> <<>>, order |-> <<>>]

DigraphInit ==
    /\ nodeMap = {} /\ nextId = 0
    /\ successors = [n \in Ids |-> {}] /\ predecessors = [n \in Ids |-> {}]
    /\ edgeCount = 0 /\ edgeData = {}
    /\ walk = NoWalk

HasEdge(from, to) == from \in nodeMap /\ to \in successors[from]

AddNode ==
    /\ ~walk.on /\ nextId < MaxNodeId
    /\ nodeMap' = nodeMap \cup {nextId}
    /\ nextId' = nextId + 1
    /\ UNCHANGED <<successors, predecessors, edgeCount, edgeData, walk>>

AddEdge(from, to) ==
    /\ ~walk.on /\ ~HasEdge(from, to)
    /\ successors' = [successors EXCEPT ![from] = @ \cup {to}]
    /\ predecessors' = [predecessors EXCEPT ![to] = @ \cup {from}]
    /\ edgeCount' = edgeCount + 1
    /\ edgeData' = edgeData \cup {<<from, to>>}
    /\ UNCHANGED <<nodeMap, nextId, walk>>

RemoveEdge(from, to) ==
    /\ ~walk.on /\ HasEdge(from, to)
    /\ successors' = [successors EXCEPT ![from] = @ \ {to}]
    /\ predecessors' = [predecessors EXCEPT ![to] = @ \ {from}]
    /\ edgeCount' = edgeCount - 1
    /\ edgeData' = edgeData \ {<<from, to>>}
    /\ UNCHANGED <<nodeMap, nextId, walk>>

EdgesOfTwice(n) == Cardinality(successors[n]) + Cardinality(predecessors[n])
\* The edges that remove_node removes: those to the successors; then those
\* from the predecessors that are left, where an edge to itself is no more.
EdgesOf(n) == Cardinality(successors[n]) + Cardinality(predecessors[n] \ {n})

RemoveNode(n) ==
    /\ ~walk.on /\ n \in nodeMap
    /\ successors' = [m \in Ids |-> IF m = n THEN {} ELSE successors[m] \ {n}]
    /\ predecessors' = [m \in Ids |-> IF m = n THEN {} ELSE predecessors[m] \ {n}]
    /\ edgeCount' = edgeCount - EdgesOf(n)
    /\ edgeData' = edgeData \ (({n} \X successors[n]) \cup (predecessors[n] \X {n}))
    /\ nodeMap' = nodeMap \ {n}
    /\ UNCHANGED <<nextId, walk>>

-----------------------------------------------------------------------------
(* dfs_raw over the predecessors *)

StartWalk ==
    /\ ~walk.on
    /\ walk' = [NoWalk EXCEPT !.on = TRUE]
    /\ UNCHANGED digraph

Lowest(S) == CHOOSE n \in S : \A m \in S : n <= m
Top == walk.stack[Len(walk.stack)]

Roots == {n \in nodeMap : walk.status[n] = "no"}

\* The ids next to n that the walk goes to: reverse is true.
NextTo(n) == predecessors[n]

Entered(n, rest) ==
    [walk EXCEPT !.status[n] = "ongoing",
                 !.stack = Append(rest, [node |-> n, left |-> NextTo(n)])]

\* The loop over all ids: one that is not visited begins a tree, or the walk ends.
NextRoot ==
    /\ walk.on /\ walk.stack = <<>> /\ Roots # {}
    /\ walk' = Entered(Lowest(Roots), <<>>)
    /\ UNCHANGED digraph

\* The next child of the node on top: entered if it was not visited.
NextChild ==
    /\ walk.on /\ walk.stack # <<>> /\ Top.left # {}
    /\ LET child == Lowest(Top.left)
           rest == [walk.stack EXCEPT ![Len(walk.stack)].left = @ \ {child}]
       IN  walk' = IF walk.status[child] = "no" THEN Entered(child, rest)
                   ELSE [walk EXCEPT !.stack = rest]
    /\ UNCHANGED digraph

\* finish_node, after the last child.
FinishNode ==
    /\ walk.on /\ walk.stack # <<>> /\ Top.left = {}
    /\ walk' = [walk EXCEPT !.status[Top.node] = "yes",
                            !.order = Append(@, Top.node),
                            !.stack = SubSeq(@, 1, Len(@) - 1)]
    /\ UNCHANGED digraph

Sorted == walk.on /\ walk.stack = <<>> /\ Roots = {}

EndWalk ==
    /\ Sorted
    /\ walk' = NoWalk
    /\ UNCHANGED digraph

Walking == NextRoot \/ NextChild \/ FinishNode

DigraphNext ==
    \/ AddNode
    \/ \E m, n \in nodeMap : AddEdge(m, n) \/ RemoveEdge(m, n)
    \/ \E n \in nodeMap : RemoveNode(n)
    \/ StartWalk \/ Walking \/ EndWalk

DigraphSpec == DigraphInit /\ [][DigraphNext]_digraphVars

-----------------------------------------------------------------------------
DigraphTypeOK ==
    /\ nextId \in 0..MaxNodeId /\ nodeMap \subseteq 0..(nextId - 1)
    /\ successors \in [Ids -> SUBSET nodeMap] /\ predecessors \in [Ids -> SUBSET nodeMap]
    /\ edgeCount \in Nat /\ edgeData \subseteq Ids \X Ids
    /\ walk \in [on : BOOLEAN, status : [Ids -> {"no", "ongoing", "yes"}],
                 stack : Seq([node : nodeMap, left : SUBSET nodeMap]), order : Seq(nodeMap)]

Edges == {e \in Ids \X Ids : e[2] \in successors[e[1]]}

\* Whatever nodes and edges came and went, an edge is known from both of its
\* ends, both are in the graph, number_of_edges counts the edges, and it is they
\* that have data.
EdgesAgree ==
    /\ \A m, n \in Ids : n \in successors[m] <=> m \in predecessors[n]
    /\ Edges \subseteq nodeMap \X nodeMap
    /\ edgeCount = Cardinality(Edges) /\ edgeData = Edges

\* The least set with n that has the predecessors of what it has.
Ancestors(n) ==
    {m \in Ids : \A S \in SUBSET Ids :
        n \in S /\ (\A p \in S : predecessors[p] \subseteq S) => m \in S}
OnCycle(m, n) == m \in Ancestors(n) /\ n \in Ancestors(m)

\* topological_sort: every node once, and each after its predecessors but for
\* those that share a cycle with it.
TopologicallySorted ==
    Sorted =>
        LET Place(n) == CHOOSE i \in DOMAIN walk.order : walk.order[i] = n
        IN  /\ Len(walk.order) = Cardinality(nodeMap)
            /\ \A n \in nodeMap : \E i \in DOMAIN walk.order : walk.order[i] = n
            /\ \A n \in nodeMap : \A m \in predecessors[n] :
                 Place(m) < Place(n) \/ OnCycle(m, n)
=============================================================================
