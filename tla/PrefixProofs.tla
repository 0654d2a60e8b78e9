----------------------------- MODULE PrefixProofs -----------------------------
(***************************************************************************)
(* Proofs about what a prefix keeps and what is read from it: the graph in  *)
(* which its records are sorted, for any graph and any records; the history *)
(* and the lists of specs in it, for any requests.  And about the shells in *)
(* which prefixes are activated, for any environments, start paths and      *)
(* number of levels: deactivate undoes the activation before it, and PATH   *)
(* is the environments that are stacked, before what the first activation   *)
(* left.                                                                    *)
(***************************************************************************)
EXTENDS PrefixData, Activation, WellFoundedInduction, FiniteSetTheorems, SequenceTheorems, TLAPS

-----------------------------------------------------------------------------
(* Digraph: the edges *)

GraphTyped ==
    /\ nextId \in 0..MaxNodeId /\ nodeMap \subseteq 0..(nextId - 1)
    /\ successors \in [Ids -> SUBSET nodeMap] /\ predecessors \in [Ids -> SUBSET nodeMap]
    /\ edgeCount \in Nat /\ edgeData \subseteq Ids \X Ids

GraphInv == GraphTyped /\ EdgesAgree

LEMMA EdgesAreFinite == IsFiniteSet(Ids) /\ \A S \in SUBSET (Ids \X Ids) : IsFiniteSet(S)
<1>1. IsFiniteSet(Ids)
  BY DigraphConstants, FS_Interval DEF Ids
<1>2. IsFiniteSet(Ids \X Ids)
  BY <1>1, FS_Product
<1> QED BY <1>1, <1>2, FS_Subset

LEMMA NodesAreIds == GraphTyped => nodeMap \subseteq Ids
BY DigraphConstants DEF GraphTyped, Ids

LEMMA GraphInitial == DigraphInit => GraphInv
<1> SUFFICES ASSUME DigraphInit PROVE GraphInv
  OBVIOUS
<1>1. GraphTyped
  BY DigraphConstants DEF DigraphInit, GraphTyped
<1>2. Edges = {}
  BY DEF DigraphInit, Edges
<1> QED BY <1>1, <1>2, FS_EmptySet DEF DigraphInit, GraphInv, EdgesAgree

LEMMA AddEdgeKeeps ==
  ASSUME GraphInv, NEW from \in nodeMap, NEW to \in nodeMap, AddEdge(from, to)
  PROVE  GraphInv'
<1>0. from \in Ids /\ to \in Ids /\ nodeMap \subseteq Ids
  BY NodesAreIds DEF GraphInv
<1> USE DEF GraphInv, GraphTyped
<1>1. /\ \A m, n \in Ids : n \in successors'[m] <=> n \in successors[m] \/ (m = from /\ n = to)
      /\ \A m, n \in Ids : m \in predecessors'[n] <=> m \in predecessors[n] \/ (m = from /\ n = to)
  BY <1>0 DEF AddEdge
<1>2. Edges' = Edges \cup {<<from, to>>} /\ <<from, to>> \notin Edges
  BY <1>0, <1>1 DEF AddEdge, HasEdge, Edges
<1>3. Edges \in SUBSET (Ids \X Ids)
  BY DEF Edges
<1>4. Cardinality(Edges') = Cardinality(Edges) + 1
  BY <1>2, <1>3, EdgesAreFinite, FS_AddElement
<1>5. EdgesAgree'
  BY <1>0, <1>1, <1>2, <1>4 DEF AddEdge, EdgesAgree
<1>6. GraphTyped'
  BY <1>0 DEF AddEdge
<1> QED BY <1>5, <1>6

LEMMA RemoveEdgeKeeps ==
  ASSUME GraphInv, NEW from \in nodeMap, NEW to \in nodeMap, RemoveEdge(from, to)
  PROVE  GraphInv'
<1>0. from \in Ids /\ to \in Ids /\ nodeMap \subseteq Ids
  BY NodesAreIds DEF GraphInv
<1> USE DEF GraphInv, GraphTyped
<1>1. /\ \A m, n \in Ids : n \in successors'[m] <=> n \in successors[m] /\ ~(m = from /\ n = to)
      /\ \A m, n \in Ids : m \in predecessors'[n] <=> m \in predecessors[n] /\ ~(m = from /\ n = to)
  BY <1>0 DEF RemoveEdge
<1>2. Edges' = Edges \ {<<from, to>>} /\ <<from, to>> \in Edges
  BY <1>0, <1>1 DEF RemoveEdge, HasEdge, Edges
<1>3. Edges \in SUBSET (Ids \X Ids) /\ Edges' \in SUBSET (Ids \X Ids)
  BY DEF Edges
<1>4. Cardinality(Edges') = Cardinality(Edges) - 1 /\ Cardinality(Edges') \in Nat
  <2>1. IsFiniteSet(Edges) /\ IsFiniteSet(Edges')
    BY <1>3, EdgesAreFinite
  <2>2. Cardinality(Edges') = Cardinality(Edges) - 1
    BY <1>2, <2>1, FS_RemoveElement
  <2> QED BY <2>1, <2>2, FS_CardinalityType
<1>5. EdgesAgree'
  BY <1>0, <1>1, <1>2, <1>4 DEF RemoveEdge, EdgesAgree
<1>6. GraphTyped'
  BY <1>0, <1>4, <1>5 DEF RemoveEdge, EdgesAgree
<1> QED BY <1>5, <1>6

\* The edges of a node are those to its successors, and those from the other
\* predecessors, which are counted apart.
LEMMA RemoveNodeKeeps ==
  ASSUME GraphInv, NEW n \in nodeMap, RemoveNode(n)
  PROVE  GraphInv'
<1> DEFINE out == {n} \X successors[n]
           in == (predecessors[n] \ {n}) \X {n}
<1>0. n \in Ids /\ nodeMap \subseteq Ids
  BY NodesAreIds DEF GraphInv
<1> USE DEF GraphInv, GraphTyped
<1>1. /\ \A a, b \in Ids : b \in successors'[a] <=> b \in successors[a] /\ a # n /\ b # n
      /\ \A a, b \in Ids : a \in predecessors'[b] <=> a \in predecessors[b] /\ a # n /\ b # n
  BY <1>0 DEF RemoveNode
<1>2. /\ Edges' = Edges \ (out \cup in) /\ out \cup in \subseteq Edges /\ out \cap in = {}
      /\ Edges' = Edges \ (({n} \X successors[n]) \cup (predecessors[n] \X {n}))
  <2>1. \A e \in Ids \X Ids : e \in Edges <=> e[2] \in successors[e[1]]
    BY DEF Edges
  <2>2. \A e \in Ids \X Ids : e \in Edges' <=> e \in Edges /\ e[1] # n /\ e[2] # n
    BY <1>1 DEF Edges
  <2>3. Edges \subseteq Ids \X Ids /\ Edges' \subseteq Ids \X Ids
    BY DEF Edges
  <2>4. out \subseteq Ids \X Ids /\ in \subseteq Ids \X Ids /\ predecessors[n] \X {n} \subseteq Ids \X Ids
    BY <1>0
  <2>5. \A e \in Ids \X Ids : e \in out <=> e \in Edges /\ e[1] = n
    BY <1>0, <2>1
  <2>6. \A e \in Ids \X Ids : e \in in <=> e \in Edges /\ e[2] = n /\ e[1] # n
    BY <1>0, <2>1 DEF EdgesAgree
  <2>7. \A e \in Ids \X Ids : e \in predecessors[n] \X {n} <=> e \in Edges /\ e[2] = n
    BY <1>0, <2>1 DEF EdgesAgree
  <2> HIDE DEF out, in
  <2>8. Edges' = Edges \ (out \cup in)
    BY <2>2, <2>3, <2>5, <2>6
  <2>9. out \cup in \subseteq Edges /\ out \cap in = {}
    BY <2>4, <2>5, <2>6
  <2>10. Edges' = Edges \ (({n} \X successors[n]) \cup (predecessors[n] \X {n}))
    BY <2>2, <2>3, <2>5, <2>7 DEF out
  <2> QED BY <2>8, <2>9, <2>10
<1>3. Edges \in SUBSET (Ids \X Ids) /\ Edges' \in SUBSET (Ids \X Ids)
  BY DEF Edges
<1>4. IsFiniteSet(successors[n]) /\ IsFiniteSet(predecessors[n] \ {n}) /\ IsFiniteSet({n})
      /\ Cardinality({n}) = 1
  BY <1>0, EdgesAreFinite, FS_Subset, FS_Singleton
<1>5. Cardinality(out) = Cardinality(successors[n])
      /\ Cardinality(in) = Cardinality(predecessors[n] \ {n})
      /\ IsFiniteSet(out) /\ IsFiniteSet(in)
      /\ Cardinality(successors[n]) \in Nat /\ Cardinality(predecessors[n] \ {n}) \in Nat
  <2>1. /\ Cardinality(out) = 1 * Cardinality(successors[n]) /\ IsFiniteSet(out)
        /\ Cardinality(in) = Cardinality(predecessors[n] \ {n}) * 1 /\ IsFiniteSet(in)
    BY <1>4, FS_Product
  <2>2. Cardinality(successors[n]) \in Nat /\ Cardinality(predecessors[n] \ {n}) \in Nat
    BY <1>4, FS_CardinalityType
  <2> QED BY <2>1, <2>2
<1>6. Cardinality(out \cup in) = EdgesOf(n)
  <2>1. Cardinality(out \cup in) = Cardinality(out) + Cardinality(in) - Cardinality(out \cap in)
    BY <1>5, FS_Union
  <2>2. Cardinality(out \cap in) = 0
    BY <1>2, FS_EmptySet
  <2> HIDE DEF out, in
  <2> QED BY <1>5, <2>1, <2>2 DEF EdgesOf
<1>7. Edges \cap (out \cup in) = out \cup in
  BY <1>2
<1>8. Cardinality(Edges') = Cardinality(Edges) - EdgesOf(n) /\ Cardinality(Edges') \in Nat
  <2> HIDE DEF out, in
  <2>1. IsFiniteSet(Edges) /\ IsFiniteSet(Edges')
    BY <1>3, EdgesAreFinite
  <2>2. Cardinality(Edges') = Cardinality(Edges) - EdgesOf(n)
    <3>1. Cardinality(Edges \ (out \cup in)) = Cardinality(Edges) - Cardinality(Edges \cap (out \cup in))
      BY <2>1, FS_Difference
    <3> QED BY <1>2, <1>6, <1>7, <3>1
  <2> QED BY <2>1, <2>2, FS_CardinalityType
<1> HIDE DEF out, in
<1>9. EdgesAgree'
  <2>1. \A a, b \in Ids : b \in successors'[a] <=> a \in predecessors'[b]
    BY <1>1 DEF EdgesAgree
  <2>2. Edges' \subseteq nodeMap' \X nodeMap'
    BY <1>0, <1>1 DEF RemoveNode, EdgesAgree, Edges
  <2>3. edgeCount' = Cardinality(Edges')
    BY <1>8 DEF RemoveNode, EdgesAgree
  <2>4. edgeData' = Edges'
    BY <1>2 DEF RemoveNode, EdgesAgree
  <2> QED BY <2>1, <2>2, <2>3, <2>4 DEF EdgesAgree
<1>10. GraphTyped'
  BY <1>0, <1>8, <1>9 DEF RemoveNode, EdgesAgree
<1> QED BY <1>9, <1>10

-----------------------------------------------------------------------------
(* Digraph: the walk *)

WalkTyped ==
    walk \in [on : BOOLEAN, status : [Ids -> {"no", "ongoing", "yes"}],
              stack : Seq([node : nodeMap, left : SUBSET nodeMap]), order : Seq(nodeMap)]

\* <<n, m>>: the predecessors lead from n to m.
Above == {e \in Ids \X Ids : e[2] \in Ancestors(e[1])}

\* The states of the nodes: those that are done are in the order, those that
\* are begun on the stack, once.
StatesAreKept ==
    /\ \A n \in nodeMap : walk.status[n] = "yes" <=> \E i \in DOMAIN walk.order : walk.order[i] = n
    /\ \A n \in nodeMap :
         walk.status[n] = "ongoing" <=> \E i \in DOMAIN walk.stack : walk.stack[i].node = n
    /\ \A i, j \in DOMAIN walk.order : walk.order[i] = walk.order[j] => i = j
    /\ \A i, j \in DOMAIN walk.stack : walk.stack[i].node = walk.stack[j].node => i = j

\* On the stack a node is followed by what the predecessors lead to from it, and
\* those that are not left are visited.
StackIsAPath ==
    /\ \A i, j \in DOMAIN walk.stack :
         i <= j => <<walk.stack[i].node, walk.stack[j].node>> \in Above
    /\ \A i \in DOMAIN walk.stack :
         /\ walk.stack[i].left \subseteq predecessors[walk.stack[i].node]
         /\ \A p \in predecessors[walk.stack[i].node] :
              p \in walk.stack[i].left \/ walk.status[p] # "no"

\* What is done came after its predecessors, or is on a cycle with them.
DoneAfterPredecessors ==
    \A i \in DOMAIN walk.order : \A p \in predecessors[walk.order[i]] :
        \/ \E j \in DOMAIN walk.order : j < i /\ walk.order[j] = p
        \/ <<p, walk.order[i]>> \in Above /\ <<walk.order[i], p>> \in Above

WalkInv ==
    /\ WalkTyped /\ (~walk.on => walk = NoWalk)
    /\ StatesAreKept /\ StackIsAPath /\ DoneAfterPredecessors

LEMMA AboveIsClosed ==
  ASSUME GraphTyped
  PROVE  /\ \A n \in Ids : <<n, n>> \in Above
         /\ \A n, m \in Ids : \A p \in predecessors[m] :
              <<n, m>> \in Above => p \in Ids /\ <<n, p>> \in Above
<1>1. ASSUME NEW n \in Ids PROVE n \in Ancestors(n)
  BY <1>1 DEF Ancestors
<1>2. ASSUME NEW n \in Ids, NEW m \in Ids, NEW p \in predecessors[m], m \in Ancestors(n)
      PROVE  p \in Ids /\ p \in Ancestors(n)
  <2>1. p \in Ids
    BY <1>2, NodesAreIds DEF GraphTyped
  <2>2. SUFFICES ASSUME NEW S \in SUBSET Ids, n \in S, \A q \in S : predecessors[q] \subseteq S
                 PROVE  p \in S
    BY <2>1 DEF Ancestors
  <2>3. m \in S
    BY <1>2, <2>2 DEF Ancestors
  <2> QED BY <1>2, <2>2, <2>3
<1> QED BY <1>1, <1>2 DEF Above

LEMMA AboveStays == predecessors' = predecessors => Above' = Above
BY DEF Above, Ancestors

LEMMA LowestIsIn ==
  ASSUME NEW S \in SUBSET nodeMap, S # {}, GraphTyped
  PROVE  Lowest(S) \in S
<1>1. S \in SUBSET Nat
  BY NodesAreIds DEF Ids
<1>2. PICK n \in S : \A m \in S : <<m, n>> \notin OpToRel(<, Nat)
  BY <1>1, NatLessThanWellFounded, WFMin
<1>3. \A m \in S : ~(m < n)
  BY <1>1, <1>2, Zenon DEF OpToRel
<1>4. \A m \in S : n <= m
  BY <1>1, <1>3
<1> QED BY <1>4 DEF Lowest

Entry == [node : nodeMap, left : SUBSET nodeMap]

\* A node that is not visited is put on a stack of which only children of the
\* last node are no longer left.
LEMMA EnteredKeeps ==
  ASSUME GraphInv, WalkInv, walk.on, UNCHANGED digraph,
         NEW child \in nodeMap, walk.status[child] = "no",
         NEW rest \in Seq(Entry), Len(rest) = Len(walk.stack),
         \A i \in 1..Len(rest) :
            /\ rest[i].node = walk.stack[i].node /\ rest[i].left \subseteq walk.stack[i].left
            /\ \A p \in walk.stack[i].left : p \in rest[i].left \/ p = child,
         Len(rest) > 0 => child \in predecessors[rest[Len(rest)].node],
         walk' = Entered(child, rest)
  PROVE  WalkInv'
<1> DEFINE new == [node |-> child, left |-> predecessors[child]]
           top == Len(rest) + 1
<1>1. child \in Ids /\ new \in Entry /\ nodeMap' = nodeMap /\ predecessors' = predecessors
      /\ Above' = Above /\ nodeMap \subseteq Ids /\ Entry' = Entry
  BY NodesAreIds, AboveStays DEF GraphInv, GraphTyped, Entry, digraph
<1>2. /\ walk'.on = walk.on /\ walk'.order = walk.order
      /\ walk'.status = [walk.status EXCEPT ![child] = "ongoing"]
      /\ walk'.stack = Append(rest, new)
      /\ walk' \in [on : BOOLEAN, status : [Ids -> {"no", "ongoing", "yes"}],
                    stack : Seq(Entry), order : Seq(nodeMap)]
  <2>1. Append(rest, new) \in Seq(Entry)
    BY <1>1
  <2> HIDE DEF new
  <2>2. walk \in [on : BOOLEAN, status : [Ids -> {"no", "ongoing", "yes"}],
                  stack : Seq(Entry), order : Seq(nodeMap)]
    BY DEF WalkInv, WalkTyped, Entry
  <2>3. walk' = [on |-> walk.on, status |-> [walk.status EXCEPT ![child] = "ongoing"],
                 stack |-> Append(rest, new), order |-> walk.order]
    BY <2>2 DEF Entered, new, NextTo
  <2>4. [walk.status EXCEPT ![child] = "ongoing"] \in [Ids -> {"no", "ongoing", "yes"}]
    BY <2>2
  <2> QED BY <2>1, <2>2, <2>3, <2>4
<1>3. /\ DOMAIN walk'.stack = 1..top /\ DOMAIN walk.stack = 1..Len(rest) /\ Len(rest) \in Nat
      /\ \A i \in 1..Len(rest) : walk'.stack[i] = rest[i]
      /\ walk'.stack[top] = new
  <2>1. walk.stack \in Seq(Entry)
    BY DEF WalkInv, WalkTyped, Entry
  <2> HIDE DEF new
  <2> QED BY <1>1, <1>2, <2>1
<1> HIDE DEF new, top
<1>4. new.node = child /\ new.left = predecessors[child] /\ top = Len(rest) + 1
  BY DEF new, top
<1>10. \A i \in 1..Len(rest) : walk'.stack[i].node = walk.stack[i].node
  BY <1>3
<1>11. \A i \in 1..top : i \in 1..Len(rest) \/ i = top
  BY <1>3, <1>4
<1>5. \A n \in Ids : walk'.status[n] = IF n = child THEN "ongoing" ELSE walk.status[n]
  BY <1>1, <1>2 DEF WalkInv, WalkTyped
<1>6. StatesAreKept'
  <2>1. \A n \in nodeMap : walk'.status[n] = "yes" <=> walk.status[n] = "yes"
    BY <1>1, <1>5
  <2>2. \A i \in DOMAIN walk.stack : walk.stack[i].node # child
    BY DEF WalkInv, StatesAreKept
  <2>3. \A n \in nodeMap :
          walk'.status[n] = "ongoing" <=> \E i \in DOMAIN walk'.stack : walk'.stack[i].node = n
    <3> TAKE n \in nodeMap
    <3>1. CASE n = child
      BY <1>1, <1>3, <1>4, <1>5, <3>1
    <3>2. CASE n # child
      <4>1. walk.status[n] = "ongoing" <=> \E i \in 1..Len(rest) : walk.stack[i].node = n
        BY <1>3 DEF WalkInv, StatesAreKept
      <4>2. walk'.status[n] = walk.status[n]
        BY <1>1, <1>5, <3>2
      <4>3. \A i \in 1..Len(rest) : i \in 1..top /\ walk'.stack[i].node = walk.stack[i].node
        BY <1>3, <1>4, <1>10
      <4>4. walk'.stack[top].node # n
        BY <1>3, <1>4, <3>2
      <4> QED BY <1>3, <1>11, <4>1, <4>2, <4>3, <4>4
    <3> QED BY <3>1, <3>2
  <2>4. \A i, j \in DOMAIN walk'.stack : walk'.stack[i].node = walk'.stack[j].node => i = j
    <3> SUFFICES ASSUME NEW i \in 1..top, NEW j \in 1..top,
                        walk'.stack[i].node = walk'.stack[j].node
                 PROVE  i = j
      BY <1>3
    <3>1. CASE i \in 1..Len(rest) /\ j \in 1..Len(rest)
      <4>1. walk.stack[i].node = walk.stack[j].node
        BY <1>10, <3>1
      <4> QED BY <1>3, <3>1, <4>1 DEF WalkInv, StatesAreKept
    <3>2. \A k \in 1..Len(rest) : walk'.stack[k].node # child
      BY <1>3, <1>10, <2>2
    <3>3. walk'.stack[top].node = child
      BY <1>3, <1>4
    <3> QED BY <1>11, <3>1, <3>2, <3>3
  <2> QED BY <1>1, <1>2, <2>1, <2>3, <2>4 DEF WalkInv, StatesAreKept
<1>7. StackIsAPath'
  <2>1. ASSUME NEW i \in 1..top, NEW j \in 1..top, i <= j
        PROVE  <<walk'.stack[i].node, walk'.stack[j].node>> \in Above
    <3>1. CASE j <= Len(rest)
      <4>1. i \in 1..Len(rest) /\ j \in 1..Len(rest)
        BY <1>3, <2>1, <3>1
      <4> QED BY <1>3, <1>10, <2>1, <4>1 DEF WalkInv, StackIsAPath
    <3>2. CASE j = top /\ i = top
      BY <1>1, <1>3, <1>4, <3>2, AboveIsClosed DEF GraphInv
    <3>3. CASE j = top /\ i <= Len(rest)
      <4>1. <<rest[i].node, rest[Len(rest)].node>> \in Above /\ Len(rest) > 0
        <5>1. i \in 1..Len(rest) /\ Len(rest) \in 1..Len(rest)
          BY <1>3, <2>1, <3>3
        <5>2. <<walk.stack[i].node, walk.stack[Len(rest)].node>> \in Above
          <6>1. \A k, l \in DOMAIN walk.stack :
                  k <= l => <<walk.stack[k].node, walk.stack[l].node>> \in Above
            BY DEF WalkInv, StackIsAPath
          <6>2. DOMAIN walk.stack = 1..Len(rest) /\ i <= Len(rest)
            BY <1>3, <5>1
          <6> QED BY <5>1, <6>1, <6>2
        <5>3. rest[i].node = walk.stack[i].node /\ rest[Len(rest)].node = walk.stack[Len(rest)].node
          BY <1>3, <5>1
        <5> QED BY <5>1, <5>2, <5>3
      <4>2. <<rest[i].node, child>> \in Above
        BY <4>1, AboveIsClosed DEF GraphInv, Above
      <4> QED BY <1>3, <1>4, <3>3, <4>2
    <3> QED BY <1>3, <1>4, <3>1, <3>2, <3>3
  <2>2. ASSUME NEW i \in 1..top
        PROVE  /\ walk'.stack[i].left \subseteq predecessors[walk'.stack[i].node]
               /\ \A p \in predecessors[walk'.stack[i].node] :
                    p \in walk'.stack[i].left \/ walk'.status[p] # "no"
    <3>1. CASE i = top
      BY <1>3, <1>4, <3>1
    <3>2. CASE i <= Len(rest)
      <4>1. rest[i].node \in Ids
        <5>1. rest[i] \in Entry
          BY <1>3, <3>2
        <5> QED BY <1>1, <5>1 DEF Entry
      <4>2. predecessors[rest[i].node] \subseteq Ids
        BY <1>1, <4>1 DEF GraphInv, GraphTyped
      <4> QED BY <1>3, <1>5, <3>2, <4>2 DEF WalkInv, StackIsAPath
    <3> QED BY <1>3, <1>4, <3>1, <3>2
  <2> QED BY <1>1, <1>3, <2>1, <2>2 DEF StackIsAPath
<1>8. DoneAfterPredecessors'
  BY <1>1, <1>2 DEF WalkInv, DoneAfterPredecessors
<1>9. WalkTyped' /\ walk'.on
  BY <1>1, <1>2 DEF WalkTyped, Entry
<1> QED BY <1>6, <1>7, <1>8, <1>9 DEF WalkInv

LEMMA NextRootKeeps ==
  ASSUME GraphInv, WalkInv, NextRoot
  PROVE  WalkInv'
<1>1. Roots \in SUBSET nodeMap /\ Roots # {} /\ walk.on /\ walk.stack = <<>> /\ UNCHANGED digraph
  BY DEF NextRoot, Roots
<1>2. Lowest(Roots) \in Roots
  BY <1>1, LowestIsIn DEF GraphInv
<1>3. PICK child \in nodeMap : walk.status[child] = "no" /\ walk' = Entered(child, <<>>)
  BY <1>2 DEF NextRoot, Roots
<1>4. <<>> \in Seq(Entry) /\ Len(<<>>) = 0 /\ Len(walk.stack) = 0
  BY <1>1
<1> DEFINE rest == <<>>
<1>5. /\ rest \in Seq(Entry) /\ Len(rest) = Len(walk.stack)
      /\ \A i \in 1..Len(rest) :
            /\ rest[i].node = walk.stack[i].node /\ rest[i].left \subseteq walk.stack[i].left
            /\ \A p \in walk.stack[i].left : p \in rest[i].left \/ p = child
      /\ Len(rest) > 0 => child \in predecessors[rest[Len(rest)].node]
      /\ walk' = Entered(child, rest)
  BY <1>3, <1>4
<1> HIDE DEF rest
<1> QED BY <1>1, <1>3, <1>5, EnteredKeeps

\* The child on top of the stack that comes next, and the stack that is left.
LEMMA ChildOnTop ==
  ASSUME GraphInv, WalkInv, NextChild
  PROVE  LET child == Lowest(Top.left)
             rest == [walk.stack EXCEPT ![Len(walk.stack)].left = @ \ {child}]
         IN  /\ child \in nodeMap /\ child \in predecessors[Top.node]
             /\ rest \in Seq(Entry) /\ Len(rest) = Len(walk.stack) /\ Len(rest) \in Nat \ {0}
             /\ \A i \in 1..Len(rest) :
                  /\ rest[i].node = walk.stack[i].node /\ rest[i].left \subseteq walk.stack[i].left
                  /\ \A p \in walk.stack[i].left : p \in rest[i].left \/ p = child
<1> DEFINE child == Lowest(Top.left)
           n == Len(walk.stack)
           entry == [Top EXCEPT !.left = @ \ {child}]
           rest == [walk.stack EXCEPT ![n].left = @ \ {child}]
<1>1. walk.stack \in Seq(Entry) /\ walk.stack # <<>> /\ Top.left # {}
  BY DEF WalkInv, WalkTyped, Entry, NextChild
<1>2. n \in Nat \ {0} /\ n \in DOMAIN walk.stack /\ DOMAIN walk.stack = 1..n /\ walk.stack[n] = Top
  BY <1>1 DEF Top
<1>3. Top \in Entry
  BY <1>1, <1>2
<1>4. child \in Top.left
  BY <1>1, <1>3, LowestIsIn DEF GraphInv, Entry
<1>5. Top.left \subseteq predecessors[Top.node]
  BY <1>2 DEF WalkInv, StackIsAPath
<1>6. child \in nodeMap
  BY <1>3, <1>4 DEF Entry
<1> HIDE DEF child
<1>7. entry \in Entry /\ entry.node = Top.node /\ entry.left = Top.left \ {child}
  BY <1>3 DEF Entry
<1>8. rest = [walk.stack EXCEPT ![n] = entry]
  BY <1>2
<1> HIDE DEF n, entry
<1>9. rest \in Seq(Entry) /\ Len(rest) = n /\ \A i \in 1..n : rest[i] = IF i = n THEN entry ELSE walk.stack[i]
  <2>1. n \in 1..Len(walk.stack) /\ n = Len(walk.stack)
    BY <1>2 DEF n
  <2>2. [walk.stack EXCEPT ![n] = entry] \in Seq(Entry)
    BY <1>1, <1>7, <2>1, ExceptSeq
  <2>3. Len([walk.stack EXCEPT ![n] = entry]) = n
    BY <1>1, <1>7, <2>1, ExceptSeq
  <2>4. \A i \in 1..n : [walk.stack EXCEPT ![n] = entry][i] = IF i = n THEN entry ELSE walk.stack[i]
    BY <1>2
  <2> QED BY <1>8, <2>2, <2>3, <2>4
<1>10. child \in nodeMap /\ child \in predecessors[Top.node]
  BY <1>4, <1>5, <1>6
<1>11. \A i \in 1..n :
         /\ rest[i].node = walk.stack[i].node /\ rest[i].left \subseteq walk.stack[i].left
         /\ \A p \in walk.stack[i].left : p \in rest[i].left \/ p = child
  BY <1>2, <1>7, <1>9
<1>12. Len(rest) = Len(walk.stack) /\ Len(rest) \in Nat \ {0}
  BY <1>2, <1>9 DEF n
<1> QED BY <1>9, <1>10, <1>11, <1>12 DEF n, child

LEMMA NextChildKeeps ==
  ASSUME GraphInv, WalkInv, NextChild
  PROVE  WalkInv'
<1> DEFINE child == Lowest(Top.left)
           rest == [walk.stack EXCEPT ![Len(walk.stack)].left = @ \ {child}]
<1>1. /\ child \in nodeMap /\ child \in predecessors[Top.node]
      /\ rest \in Seq(Entry) /\ Len(rest) = Len(walk.stack) /\ Len(rest) \in Nat \ {0}
      /\ \A i \in 1..Len(rest) :
           /\ rest[i].node = walk.stack[i].node /\ rest[i].left \subseteq walk.stack[i].left
           /\ \A p \in walk.stack[i].left : p \in rest[i].left \/ p = child
  BY ChildOnTop
<1>2. walk.on /\ UNCHANGED digraph
      /\ walk' = IF walk.status[child] = "no" THEN Entered(child, rest) ELSE [walk EXCEPT !.stack = rest]
  BY DEF NextChild
<1> HIDE DEF child, rest
<1>3. CASE walk.status[child] = "no"
  <2>1. child \in predecessors[rest[Len(rest)].node]
    BY <1>1 DEF Top
  <2> QED BY <1>1, <1>2, <1>3, <2>1, EnteredKeeps
<1>4. CASE walk.status[child] # "no"
  <2>1. walk \in [on : BOOLEAN, status : [Ids -> {"no", "ongoing", "yes"}],
                  stack : Seq(Entry), order : Seq(nodeMap)]
    BY DEF WalkInv, WalkTyped, Entry
  <2>2. /\ walk' = [on |-> walk.on, status |-> walk.status, stack |-> rest, order |-> walk.order]
        /\ nodeMap' = nodeMap /\ predecessors' = predecessors /\ Above' = Above /\ Entry' = Entry
    BY <1>2, <1>4, <2>1, AboveStays DEF digraph, Entry
  <2>3. walk'.on /\ walk'.status = walk.status /\ walk'.stack = rest /\ walk'.order = walk.order
    BY <1>2, <2>2
  <2>4. WalkTyped'
    BY <1>1, <2>1, <2>2 DEF WalkTyped, Entry
  <2>5. DOMAIN rest = 1..Len(rest) /\ DOMAIN walk.stack = 1..Len(rest)
    BY <1>1, <2>1
  <2>6. StatesAreKept'
    <3>1. \A i \in 1..Len(rest) : rest[i].node = walk.stack[i].node
      BY <1>1
    <3> QED BY <2>2, <2>3, <2>5, <3>1 DEF WalkInv, StatesAreKept
  <2>7. StackIsAPath'
    <3>1. ASSUME NEW i \in 1..Len(rest), NEW j \in 1..Len(rest), i <= j
          PROVE  <<rest[i].node, rest[j].node>> \in Above
      BY <1>1, <2>5, <3>1 DEF WalkInv, StackIsAPath
    <3>2. ASSUME NEW i \in 1..Len(rest)
          PROVE  /\ rest[i].left \subseteq predecessors[rest[i].node]
                 /\ \A p \in predecessors[rest[i].node] : p \in rest[i].left \/ walk.status[p] # "no"
      BY <1>1, <1>4, <2>5 DEF WalkInv, StackIsAPath
    <3> QED BY <2>2, <2>3, <2>5, <3>1, <3>2 DEF StackIsAPath
  <2>8. DoneAfterPredecessors'
    BY <2>2, <2>3 DEF WalkInv, DoneAfterPredecessors
  <2> QED BY <2>3, <2>4, <2>6, <2>7, <2>8 DEF WalkInv
<1> QED BY <1>3, <1>4

\* A node is finished after its last child: each predecessor is done, or is on
\* the stack, where the path leads back from it.
LEMMA FinishNodeKeeps ==
  ASSUME GraphInv, WalkInv, FinishNode
  PROVE  WalkInv'
<1> DEFINE n == Len(walk.stack)
           node == Top.node
           rest == SubSeq(walk.stack, 1, n - 1)
           last == Len(walk.order) + 1
<1>1. walk \in [on : BOOLEAN, status : [Ids -> {"no", "ongoing", "yes"}],
                stack : Seq(Entry), order : Seq(nodeMap)]
  BY DEF WalkInv, WalkTyped, Entry
<1>2. walk.on /\ walk.stack # <<>> /\ Top.left = {} /\ nodeMap' = nodeMap /\ Entry' = Entry
      /\ predecessors' = predecessors /\ Above' = Above
  BY AboveStays DEF FinishNode, digraph, Entry
<1>3. n \in Nat \ {0} /\ DOMAIN walk.stack = 1..n /\ walk.stack[n] = Top /\ Top \in Entry
  <2>1. n \in Nat \ {0} /\ DOMAIN walk.stack = 1..n
    BY <1>1, <1>2
  <2> QED BY <1>1, <2>1 DEF Top
<1>4. node \in nodeMap /\ node \in Ids /\ nodeMap \subseteq Ids
  BY <1>3, NodesAreIds DEF Entry, GraphInv
<1>5. /\ walk'.on = walk.on /\ walk'.status = [walk.status EXCEPT ![node] = "yes"]
      /\ walk'.order = Append(walk.order, node) /\ walk'.stack = rest
      /\ walk' = [on |-> walk'.on, status |-> walk'.status, stack |-> walk'.stack, order |-> walk'.order]
  BY <1>1 DEF FinishNode
<1>6. rest \in Seq(Entry) /\ DOMAIN rest = 1..(n - 1) /\ \A i \in 1..(n - 1) : rest[i] = walk.stack[i]
  <2>1. \A i \in 1..(n - 1) : walk.stack[i] \in Entry
    BY <1>1, <1>3
  <2>2. rest \in Seq(Entry) /\ Len(rest) = n - 1 /\ \A i \in 1..(n - 1) : rest[i] = walk.stack[i]
    BY <1>3, <2>1, SubSeqProperties
  <2> QED BY <2>2
<1>7. /\ Append(walk.order, node) \in Seq(nodeMap) /\ DOMAIN walk.order = 1..(last - 1)
      /\ DOMAIN Append(walk.order, node) = 1..last /\ last \in Nat \ {0}
      /\ \A i \in 1..(last - 1) : Append(walk.order, node)[i] = walk.order[i]
      /\ Append(walk.order, node)[last] = node
  BY <1>1, <1>4
<1> HIDE DEF n, node, rest, last
<1>8. \A m \in Ids : walk'.status[m] = IF m = node THEN "yes" ELSE walk.status[m]
  BY <1>1, <1>5
<1>9. WalkTyped' /\ walk'.on
  <2>1. walk'.status \in [Ids -> {"no", "ongoing", "yes"}]
    BY <1>1, <1>5
  <2> QED BY <1>1, <1>2, <1>5, <1>6, <1>7, <2>1 DEF WalkTyped, Entry
<1>10. walk.status[node] = "ongoing" /\ walk.stack[n].node = node /\ n \in 1..n
  BY <1>3, <1>4 DEF WalkInv, StatesAreKept, node
<1>11. \A i \in 1..n : i \in 1..(n - 1) \/ i = n
  BY <1>3
<1>12. \A i \in 1..last : i \in 1..(last - 1) \/ i = last
  BY <1>7
<1>13. \A i \in 1..(n - 1) : walk.stack[i].node # node /\ i \in 1..n
  BY <1>3, <1>10 DEF WalkInv, StatesAreKept
<1>14. \A i \in 1..(last - 1) : walk.order[i] # node /\ i \in 1..last
  BY <1>4, <1>7, <1>10 DEF WalkInv, StatesAreKept
<1>15. StatesAreKept'
  <2>1. ASSUME NEW m \in nodeMap
        PROVE  walk'.status[m] = "yes" <=> \E i \in DOMAIN walk'.order : walk'.order[i] = m
    <3>1. walk.status[m] = "yes" <=> \E i \in 1..(last - 1) : walk.order[i] = m
      BY <1>7 DEF WalkInv, StatesAreKept
    <3>2. last \in 1..last
      BY <1>7
    <3> QED BY <1>4, <1>5, <1>7, <1>8, <1>12, <1>14, <3>1, <3>2
  <2>2. ASSUME NEW m \in nodeMap
        PROVE  walk'.status[m] = "ongoing" <=> \E i \in DOMAIN walk'.stack : walk'.stack[i].node = m
    <3>1. walk.status[m] = "ongoing" <=> \E i \in 1..n : walk.stack[i].node = m
      BY <1>3 DEF WalkInv, StatesAreKept
    <3> QED BY <1>4, <1>5, <1>6, <1>8, <1>10, <1>11, <1>13, <3>1
  <2>3. \A i, j \in 1..last : walk'.order[i] = walk'.order[j] => i = j
    <3>1. \A i, j \in 1..(last - 1) : walk.order[i] = walk.order[j] => i = j
      BY <1>7 DEF WalkInv, StatesAreKept
    <3> QED BY <1>5, <1>7, <1>12, <1>14, <3>1
  <2>4. \A i, j \in 1..(n - 1) : walk'.stack[i].node = walk'.stack[j].node => i = j
    <3>1. \A i, j \in 1..n : walk.stack[i].node = walk.stack[j].node => i = j
      BY <1>3 DEF WalkInv, StatesAreKept
    <3> QED BY <1>5, <1>6, <1>13, <3>1
  <2> QED BY <1>2, <1>5, <1>6, <1>7, <2>1, <2>2, <2>3, <2>4 DEF StatesAreKept
<1>16. StackIsAPath'
  <2>1. \A i, j \in 1..(n - 1) : i <= j => <<rest[i].node, rest[j].node>> \in Above
    <3>1. \A i, j \in 1..n : i <= j => <<walk.stack[i].node, walk.stack[j].node>> \in Above
      BY <1>3 DEF WalkInv, StackIsAPath
    <3> QED BY <1>6, <1>13, <3>1
  <2>2. ASSUME NEW i \in 1..(n - 1)
        PROVE  /\ rest[i].left \subseteq predecessors[rest[i].node]
               /\ \A p \in predecessors[rest[i].node] : p \in rest[i].left \/ walk'.status[p] # "no"
    <3>1. rest[i] = walk.stack[i] /\ i \in 1..n /\ rest[i] \in Entry
      <4>1. rest[i] = walk.stack[i] /\ i \in 1..n
        BY <1>6, <1>13
      <4>2. walk.stack[i] \in Entry
        BY <1>1, <1>3, <4>1
      <4> QED BY <4>1, <4>2
    <3>2. rest[i].node \in Ids
      BY <1>4, <3>1 DEF Entry
    <3>3. predecessors[rest[i].node] \subseteq Ids
      BY <1>4, <3>2 DEF GraphInv, GraphTyped
    <3> QED BY <1>3, <1>8, <3>1, <3>3 DEF WalkInv, StackIsAPath
  <2> QED BY <1>2, <1>5, <1>6, <2>1, <2>2 DEF StackIsAPath
<1>17. ASSUME NEW p \in predecessors[node]
       PROVE  \/ \E j \in 1..(last - 1) : walk.order[j] = p
              \/ <<p, node>> \in Above /\ <<node, p>> \in Above
  <2>1. p \in nodeMap /\ p \in Ids /\ <<node, p>> \in Above
    BY <1>4, AboveIsClosed DEF GraphInv, GraphTyped
  <2>2. walk.status[p] # "no"
    BY <1>2, <1>3 DEF WalkInv, StackIsAPath, node
  <2>3. CASE walk.status[p] = "yes"
    BY <1>7, <2>1, <2>3 DEF WalkInv, StatesAreKept
  <2>4. CASE walk.status[p] = "ongoing"
    <3>1. PICK i \in 1..n : walk.stack[i].node = p
      BY <1>3, <2>1, <2>4 DEF WalkInv, StatesAreKept
    <3>2. i <= n /\ n \in 1..n
      BY <1>3
    <3>3. <<p, node>> \in Above
      BY <1>3, <1>10, <3>1, <3>2 DEF WalkInv, StackIsAPath
    <3> QED BY <2>1, <3>3
  <2>5. walk.status[p] \in {"no", "ongoing", "yes"}
    BY <1>1, <2>1
  <2> QED BY <2>2, <2>3, <2>4, <2>5
<1>18. DoneAfterPredecessors'
  <2>1. \A i \in 1..(last - 1) : \A p \in predecessors[walk.order[i]] :
          \/ \E j \in 1..(last - 1) : j < i /\ walk.order[j] = p
          \/ <<p, walk.order[i]>> \in Above /\ <<walk.order[i], p>> \in Above
    BY <1>7 DEF WalkInv, DoneAfterPredecessors
  <2>2. SUFFICES ASSUME NEW i \in 1..last, NEW p \in predecessors[walk'.order[i]]
                 PROVE  \/ \E j \in 1..last : j < i /\ walk'.order[j] = p
                        \/ <<p, walk'.order[i]>> \in Above /\ <<walk'.order[i], p>> \in Above
    BY <1>2, <1>5, <1>7 DEF DoneAfterPredecessors
  <2>3. \A j \in 1..(last - 1) : walk'.order[j] = walk.order[j] /\ j \in 1..last /\ j < last
    BY <1>5, <1>7
  <2>4. CASE i \in 1..(last - 1)
    BY <2>1, <2>2, <2>3, <2>4
  <2>5. CASE i = last
    BY <1>5, <1>7, <1>17, <2>2, <2>3, <2>5
  <2> QED BY <1>12, <2>4, <2>5
<1> QED BY <1>9, <1>15, <1>16, <1>18 DEF WalkInv

\* Nothing is said of a graph that is not walked.
LEMMA NothingIsWalked ==
  GraphInv /\ (walk = NoWalk \/ walk = [NoWalk EXCEPT !.on = TRUE]) => WalkInv
<1> SUFFICES ASSUME GraphInv, walk = NoWalk \/ walk = [NoWalk EXCEPT !.on = TRUE] PROVE WalkInv
  OBVIOUS
<1>1. PICK on \in BOOLEAN :
         walk = [on |-> on, status |-> [n \in Ids |-> "no"], stack |-> <<>>, order |-> <<>>]
  BY DEF NoWalk
<1>2. /\ walk.stack = <<>> /\ walk.order = <<>> /\ walk.status = [n \in Ids |-> "no"]
      /\ (~walk.on => walk = NoWalk)
  BY <1>1 DEF NoWalk
<1>3. WalkTyped
  BY <1>1 DEF WalkTyped
<1>4. \A n \in nodeMap : walk.status[n] = "no"
  BY <1>2, NodesAreIds DEF GraphInv
<1>5. DOMAIN walk.stack = {} /\ DOMAIN walk.order = {}
  BY <1>2
<1> QED BY <1>2, <1>3, <1>4, <1>5 DEF WalkInv, StatesAreKept, StackIsAPath, DoneAfterPredecessors

LEMMA WalkingKeeps ==
  ASSUME GraphInv, WalkInv, Walking
  PROVE  GraphInv' /\ WalkInv'
<1>1. UNCHANGED digraph
  BY DEF Walking, NextRoot, NextChild, FinishNode
<1>2. GraphInv'
  BY <1>1 DEF digraph, GraphInv, GraphTyped, EdgesAgree, Edges
<1> QED BY <1>2, NextRootKeeps, NextChildKeeps, FinishNodeKeeps DEF Walking

LEMMA DigraphStep ==
  ASSUME GraphInv, WalkInv, [DigraphNext]_digraphVars
  PROVE  GraphInv' /\ WalkInv'
<1>1. ASSUME ~walk.on, UNCHANGED walk, GraphInv' PROVE WalkInv'
  <2>1. (walk = NoWalk)'
    BY <1>1 DEF WalkInv, NoWalk
  <2> QED BY <1>1, <2>1, NothingIsWalked, PTL
<1>2. CASE AddNode
  <2>1. GraphTyped' /\ Edges' = Edges /\ UNCHANGED <<successors, predecessors, edgeCount, edgeData>>
    BY <1>2, DigraphConstants DEF AddNode, GraphInv, GraphTyped, Edges
  <2>2. GraphInv'
    BY <1>2, <2>1 DEF AddNode, GraphInv, EdgesAgree
  <2> QED BY <1>1, <1>2, <2>2 DEF AddNode
<1>3. ASSUME NEW m \in nodeMap, NEW n \in nodeMap, AddEdge(m, n) PROVE GraphInv' /\ WalkInv'
  BY <1>1, <1>3, AddEdgeKeeps DEF AddEdge
<1>4. ASSUME NEW m \in nodeMap, NEW n \in nodeMap, RemoveEdge(m, n) PROVE GraphInv' /\ WalkInv'
  BY <1>1, <1>4, RemoveEdgeKeeps DEF RemoveEdge
<1>5. ASSUME NEW n \in nodeMap, RemoveNode(n) PROVE GraphInv' /\ WalkInv'
  BY <1>1, <1>5, RemoveNodeKeeps DEF RemoveNode
<1>6. ASSUME UNCHANGED digraph PROVE GraphInv'
  BY <1>6 DEF digraph, GraphInv, GraphTyped, EdgesAgree, Edges
<1>7. CASE StartWalk \/ EndWalk
  <2>1. (walk = NoWalk \/ walk = [NoWalk EXCEPT !.on = TRUE])' /\ UNCHANGED digraph
    BY <1>7 DEF StartWalk, EndWalk, NoWalk
  <2> QED BY <1>6, <2>1, NothingIsWalked, PTL
<1>8. CASE Walking
  BY <1>8, WalkingKeeps
<1>9. CASE UNCHANGED digraphVars
  <2>1. UNCHANGED <<digraph, walk>> /\ nodeMap' = nodeMap /\ predecessors' = predecessors /\ Above' = Above
    BY <1>9, AboveStays DEF digraphVars, digraph
  <2>2. WalkInv'
    BY <2>1 DEF WalkInv, WalkTyped, StatesAreKept, StackIsAPath, DoneAfterPredecessors, NoWalk
  <2> QED BY <1>6, <2>1, <2>2
<1> QED BY <1>2, <1>3, <1>4, <1>5, <1>7, <1>8, <1>9 DEF DigraphNext

\* When the walk is over every node is in the order once.
LEMMA OrderIsWhole ==
  ASSUME GraphInv, WalkInv, Sorted
  PROVE  /\ Len(walk.order) = Cardinality(nodeMap) /\ DOMAIN walk.order = 1..Len(walk.order)
         /\ \A i \in DOMAIN walk.order : walk.order[i] \in nodeMap
         /\ \A n \in nodeMap : \E i \in DOMAIN walk.order : walk.order[i] = n
<1>1. walk.order \in Seq(nodeMap) /\ walk.stack = <<>> /\ nodeMap \subseteq Ids
      /\ walk.status \in [Ids -> {"no", "ongoing", "yes"}]
  BY NodesAreIds DEF WalkInv, WalkTyped, Sorted, GraphInv
<1>2. \A n \in nodeMap : walk.status[n] = "yes"
  BY <1>1 DEF Sorted, Roots, WalkInv, StatesAreKept
<1>3. \A n \in nodeMap : \E i \in DOMAIN walk.order : walk.order[i] = n
  BY <1>2 DEF WalkInv, StatesAreKept
<1>4. Len(walk.order) \in Nat /\ DOMAIN walk.order = 1..Len(walk.order)
      /\ walk.order \in [1..Len(walk.order) -> nodeMap]
  BY <1>1
<1>5. walk.order \in Bijection(1..Len(walk.order), nodeMap)
  <2>1. \A i, j \in 1..Len(walk.order) : walk.order[i] = walk.order[j] => i = j
    BY <1>4 DEF WalkInv, StatesAreKept
  <2> QED BY <1>3, <1>4, <2>1, Zenon DEF Bijection, Injection, Surjection, IsInjective
<1>6. Cardinality(nodeMap) = Len(walk.order)
  BY <1>4, <1>5, FS_CountingElements DEF ExistsBijection
<1> QED BY <1>3, <1>4, <1>6

LEMMA GraphIsRight == GraphInv /\ WalkInv => DigraphTypeOK /\ EdgesAgree /\ TopologicallySorted
<1> SUFFICES ASSUME GraphInv, WalkInv PROVE DigraphTypeOK /\ EdgesAgree /\ TopologicallySorted
  OBVIOUS
<1>1. DigraphTypeOK /\ EdgesAgree
  BY DEF DigraphTypeOK, GraphInv, GraphTyped, WalkInv, WalkTyped
<1>2. ASSUME Sorted PROVE TopologicallySorted
  <2> DEFINE Place(n) == CHOOSE i \in DOMAIN walk.order : walk.order[i] = n
  <2>1. \A n \in nodeMap : Place(n) \in DOMAIN walk.order /\ walk.order[Place(n)] = n
    BY <1>2, OrderIsWhole
  <2>2. ASSUME NEW n \in nodeMap, NEW m \in predecessors[n]
        PROVE  Place(m) < Place(n) \/ OnCycle(m, n)
    <3>1. m \in nodeMap
      BY <2>2, NodesAreIds DEF GraphInv, GraphTyped
    <3> HIDE DEF Place
    <3>2. \/ \E j \in DOMAIN walk.order : j < Place(n) /\ walk.order[j] = m
          \/ <<m, n>> \in Above /\ <<n, m>> \in Above
      BY <2>1, <2>2 DEF WalkInv, DoneAfterPredecessors
    <3>3. \A j \in DOMAIN walk.order : walk.order[j] = m => j = Place(m)
      BY <2>1, <3>1 DEF WalkInv, StatesAreKept
    <3>4. <<m, n>> \in Above /\ <<n, m>> \in Above => OnCycle(m, n)
      BY DEF Above, OnCycle
    <3> QED BY <3>2, <3>3, <3>4
  <2> QED BY <1>2, <2>2, OrderIsWhole DEF TopologicallySorted
<1> QED BY <1>1, <1>2 DEF TopologicallySorted

\* Whatever nodes and edges come and go, and however many: the two directions
\* of the graph agree, the edges are counted, and the walk, when it is over,
\* has every node once, after its predecessors but for those of its cycles.
THEOREM GraphsAreSorted == DigraphSpec => [](DigraphTypeOK /\ EdgesAgree /\ TopologicallySorted)
<1>1. DigraphInit => GraphInv /\ WalkInv
  BY GraphInitial, NothingIsWalked DEF DigraphInit
<1>2. GraphInv /\ WalkInv /\ [DigraphNext]_digraphVars => GraphInv' /\ WalkInv'
  BY DigraphStep
<1> QED BY <1>1, <1>2, GraphIsRight, PTL DEF DigraphSpec

-----------------------------------------------------------------------------
(* PrefixRecords *)

NodesUsed == 0..(Cardinality(Listed) - 1)

\* The nodes are the numbers from 0 on, one for each name.
LEMMA NodesAreNumbered ==
  /\ IsFiniteSet(Listed) /\ Cardinality(Listed) \in 0..MaxNodeId
  /\ \A name \in ListedNames : NodeOf(name) \in NodesUsed /\ NameOf(NodeOf(name)) = name
  /\ \A n \in NodesUsed : NameOf(n) \in ListedNames /\ NodeOf(NameOf(n)) = n
  /\ Cardinality(ListedNames) = Cardinality(Listed)
<1> DEFINE Before(i) == {j \in Listed : j < i}
           size == Cardinality(Listed)
           number == [i \in Listed |-> Cardinality(Before(i))]
           naming == [i \in Listed |-> RecordNames[i]]
<1>1. DOMAIN RecordNames = 1..Len(RecordNames) /\ Len(RecordNames) \in 0..MaxNodeId
      /\ \A i, j \in DOMAIN RecordNames : RecordNames[i] = RecordNames[j] => i = j
  BY RecordConstants, DigraphConstants
<1>2. Listed \subseteq 1..Len(RecordNames)
  BY <1>1 DEF Listed
<1>3. IsFiniteSet(Listed) /\ size \in Nat /\ size <= Len(RecordNames)
  <2>1. IsFiniteSet(1..Len(RecordNames)) /\ Cardinality(1..Len(RecordNames)) = Len(RecordNames)
    BY <1>1, FS_Interval
  <2>2. IsFiniteSet(Listed) /\ size <= Cardinality(1..Len(RecordNames))
    BY <1>2, <2>1, FS_Subset
  <2> QED BY <2>1, <2>2, FS_CardinalityType
<1>4. \A i \in Listed : NodeOf(RecordNames[i]) = number[i]
  <2> TAKE i \in Listed
  <2>1. {j \in Listed : \E k \in Listed : RecordNames[k] = RecordNames[i] /\ j < k} = Before(i)
    BY <1>1, <1>2
  <2> QED BY <2>1 DEF NodeOf
<1>5. ASSUME NEW S \in SUBSET Listed, NEW T \in SUBSET S, S # T
      PROVE  Cardinality(T) \in Nat /\ Cardinality(S) \in Nat /\ Cardinality(T) < Cardinality(S)
  <2>1. IsFiniteSet(S) /\ IsFiniteSet(T)
    BY <1>3, FS_Subset
  <2>2. Cardinality(T) \in Nat /\ Cardinality(S) \in Nat
    BY <2>1, FS_CardinalityType
  <2>3. Cardinality(T) <= Cardinality(S) /\ Cardinality(S) # Cardinality(T)
    BY <1>5, <2>1, FS_Subset
  <2> QED BY <2>2, <2>3
<1>6. \A i \in Listed : number[i] \in 0..(size - 1)
  <2> TAKE i \in Listed
  <2>1. Before(i) \in SUBSET Listed /\ Before(i) # Listed
    BY <1>2
  <2> HIDE DEF Before
  <2>2. Cardinality(Before(i)) \in Nat /\ Cardinality(Before(i)) < size
    BY <1>5, <2>1
  <2> QED BY <1>3, <2>2
<1>7. \A i, j \in Listed : i < j => number[i] < number[j]
  <2> SUFFICES ASSUME NEW i \in Listed, NEW j \in Listed, i < j PROVE number[i] < number[j]
    OBVIOUS
  <2>1. \A k \in Listed : k < i => k < j
    BY <1>2
  <2>2. Before(j) \in SUBSET Listed /\ i \in Before(j) /\ i \notin Before(i)
    BY <1>2
  <2>3. Before(i) \in SUBSET Before(j)
    BY <2>1
  <2> HIDE DEF Before
  <2> QED BY <1>5, <2>2, <2>3
<1> HIDE DEF number, size
<1>8. \A i, j \in Listed : number[i] = number[j] => i = j
  BY <1>1, <1>2, <1>3, <1>6, <1>7
<1>9. \A n \in 0..(size - 1) : \E i \in Listed : number[i] = n
  <2>1. number \in Injection(Listed, 0..(size - 1))
    BY <1>6, <1>8, Zenon DEF Injection, IsInjective, number
  <2>2. IsFiniteSet(0..(size - 1)) /\ Cardinality(0..(size - 1)) = size
    BY <1>3, FS_Interval
  <2>3. number \in Surjection(Listed, 0..(size - 1))
    BY <2>1, <2>2, FS_Injection DEF size
  <2> QED BY <2>3 DEF Surjection
<1>10. \A name \in ListedNames : NodeOf(name) \in 0..(size - 1)
  BY <1>4, <1>6 DEF ListedNames
<1>11. \A name, other \in ListedNames : NodeOf(name) = NodeOf(other) => name = other
  BY <1>4, <1>8 DEF ListedNames
<1>12. \A n \in 0..(size - 1) : NameOf(n) \in ListedNames /\ NodeOf(NameOf(n)) = n
  <2> TAKE n \in 0..(size - 1)
  <2>1. \E name \in ListedNames : NodeOf(name) = n
    BY <1>4, <1>9 DEF ListedNames
  <2> QED BY <2>1 DEF NameOf
<1>13. \A name \in ListedNames : NameOf(NodeOf(name)) = name
  BY <1>10, <1>11, <1>12
<1>14. Cardinality(ListedNames) = Cardinality(Listed)
  <2>1. naming \in Bijection(Listed, ListedNames)
    <3>1. naming \in [Listed -> ListedNames] /\ \A name \in ListedNames : \E i \in Listed : naming[i] = name
      BY DEF ListedNames
    <3>2. \A i, j \in Listed : naming[i] = naming[j] => i = j
      BY <1>1, <1>2
    <3> QED BY <3>1, <3>2, Zenon DEF Bijection, Injection, Surjection, IsInjective
  <2> QED BY <1>3, <2>1, FS_Bijection DEF ExistsBijection
<1>15. size \in 0..MaxNodeId
  BY <1>1, <1>3, DigraphConstants
<1> QED BY <1>3, <1>10, <1>12, <1>13, <1>14, <1>15 DEF size, NodesUsed

SortedEdges == Flipped(DependencyEdges)

LEMMA RecordsAreListed ==
  ASSUME packageRecords \subseteq RecordFiles
  PROVE  ListedNames = {r.name : r \in packageRecords}
BY RecordConstants DEF ListedNames, Listed

\* The edges that are made are the needs of the packages.
LEMMA EdgesAreNeeds ==
  ASSUME packageRecords \subseteq RecordFiles
  PROVE  /\ SortedEdges \subseteq NodesUsed \X NodesUsed
         /\ \A name \in ListedNames : NeededFirst(name) \subseteq ListedNames
         /\ \A d, name \in ListedNames :
              <<NodeOf(d), NodeOf(name)>> \in SortedEdges <=> d \in NeededFirst(name)
<1> DEFINE needs(n) == {d \in ListedNames : \E r \in packageRecords : r.name = n /\ d \in r.needs}
           known == <<NodeOf("pip"), NodeOf("python")>>
           flipped == "pip" \in ListedNames /\ "python" \in ListedNames /\ "pip" \in needs("python")
<1>3. \A name, d : d \in needs(name) <=>
        d \in ListedNames /\ \E r \in packageRecords : r.name = name /\ d \in r.needs
  OBVIOUS
<1> HIDE DEF needs
<1>1. \A d, name \in ListedNames :
        <<NodeOf(d), NodeOf(name)>> \in DependencyEdges <=> d \in needs(name)
  <2> SUFFICES ASSUME NEW d \in ListedNames, NEW name \in ListedNames
               PROVE  <<NodeOf(d), NodeOf(name)>> \in DependencyEdges <=> d \in needs(name)
    OBVIOUS
  <2>1. ASSUME d \in needs(name) PROVE <<NodeOf(d), NodeOf(name)>> \in DependencyEdges
    BY <1>3, <2>1 DEF DependencyEdges
  <2>2. ASSUME <<NodeOf(d), NodeOf(name)>> \in DependencyEdges PROVE d \in needs(name)
    <3>1. PICK r \in packageRecords : \E e \in r.needs \cap ListedNames :
             <<NodeOf(d), NodeOf(name)>> = <<NodeOf(e), NodeOf(r.name)>>
      BY <2>2 DEF DependencyEdges
    <3>2. PICK e \in r.needs \cap ListedNames : NodeOf(d) = NodeOf(e) /\ NodeOf(name) = NodeOf(r.name)
      BY <3>1
    <3>3. r.name \in ListedNames
      BY RecordsAreListed
    <3>4. d = e /\ name = r.name
      BY <3>2, <3>3, NodesAreNumbered
    <3> QED BY <1>3, <3>2, <3>4
  <2> QED BY <2>1, <2>2
<1>2. DependencyEdges \subseteq NodesUsed \X NodesUsed
  BY RecordsAreListed, NodesAreNumbered DEF DependencyEdges
<1>4. "pip" \in ListedNames /\ "python" \in ListedNames => (known \in DependencyEdges <=> flipped)
  BY <1>1
<1>5. SortedEdges = IF flipped THEN (DependencyEdges \ {known}) \cup {<<NodeOf("python"), NodeOf("pip")>>}
                    ELSE DependencyEdges
  BY <1>4 DEF SortedEdges, Flipped
<1>6. \A name : NeededFirst(name) =
        IF ~flipped THEN needs(name)
        ELSE CASE name = "python" -> needs(name) \ {"pip"}
               [] name = "pip"    -> needs(name) \cup {"python"}
               [] OTHER           -> needs(name)
  <2>1. "python" \notin ListedNames \/ "pip" \notin needs("python") <=> ~flipped
    BY <1>3
  <2> QED BY <2>1 DEF NeededFirst, needs
<1>7. \A d, name \in ListedNames :
        /\ NodeOf(d) = NodeOf(name) <=> d = name
        /\ NodeOf(d) \in NodesUsed
  BY NodesAreNumbered
<1>8. CASE ~flipped
  BY <1>1, <1>2, <1>3, <1>5, <1>6, <1>8
<1>9. CASE flipped
  <2>1. "pip" \in ListedNames /\ "python" \in ListedNames
    BY <1>9
  <2>2. SortedEdges \subseteq NodesUsed \X NodesUsed
    BY <1>2, <1>5, <1>7, <1>9, <2>1
  <2>3. ASSUME NEW name \in ListedNames PROVE NeededFirst(name) \subseteq ListedNames
    BY <1>3, <1>6, <1>9, <2>1
  <2>4. ASSUME NEW d \in ListedNames, NEW name \in ListedNames
        PROVE  <<NodeOf(d), NodeOf(name)>> \in SortedEdges <=> d \in NeededFirst(name)
    <3>1. <<NodeOf(d), NodeOf(name)>> = known <=> d = "pip" /\ name = "python"
      BY <1>7, <2>1
    <3>2. <<NodeOf(d), NodeOf(name)>> = <<NodeOf("python"), NodeOf("pip")>> <=> d = "python" /\ name = "pip"
      BY <1>7, <2>1
    <3>3. d \in NeededFirst(name) <=> \/ d \in needs(name) /\ ~(d = "pip" /\ name = "python")
                                      \/ d = "python" /\ name = "pip"
      BY <1>6, <1>9
    <3>4. <<NodeOf(d), NodeOf(name)>> \in DependencyEdges <=> d \in needs(name)
      BY <1>1
    <3> HIDE DEF known, flipped
    <3> QED BY <1>5, <1>9, <3>1, <3>2, <3>3, <3>4
  <2> QED BY <2>2, <2>3, <2>4
<1> QED BY <1>8, <1>9

PrefixInv ==
    /\ prefixFiles \subseteq RecordFiles /\ loadedFiles \subseteq prefixFiles
    /\ packageRecords \subseteq loadedFiles /\ sorting \in BOOLEAN
    /\ \A f \in loadedFiles : \E r \in packageRecords : r.name = f.name
    /\ GraphInv /\ WalkInv
    /\ sorting => /\ loadedFiles = prefixFiles /\ nodeMap = NodesUsed
                  /\ \A m, n \in Ids : m \in predecessors[n] <=> <<m, n>> \in SortedEdges

LEMMA SortRecordsKeeps ==
  ASSUME PrefixInv, SortRecords
  PROVE  PrefixInv'
<1>1. /\ nodeMap' = NodesUsed /\ nextId' = Cardinality(Listed)
      /\ successors' = [n \in Ids |-> {m \in Ids : <<n, m>> \in SortedEdges}]
      /\ predecessors' = [n \in Ids |-> {m \in Ids : <<m, n>> \in SortedEdges}]
      /\ edgeCount' = Cardinality(SortedEdges) /\ edgeData' = SortedEdges
      /\ walk' = [NoWalk EXCEPT !.on = TRUE]
      /\ UNCHANGED <<prefixFiles, loadedFiles, packageRecords>> /\ sorting' /\ loadedFiles = prefixFiles
  BY DEF SortRecords, SortedEdges, NodesUsed
<1>2. NodesUsed' = NodesUsed /\ SortedEdges' = SortedEdges
  BY <1>1 DEF NodesUsed, Listed, SortedEdges, Flipped, DependencyEdges, ListedNames, NodeOf
<1>3. SortedEdges \subseteq NodesUsed \X NodesUsed
  BY EdgesAreNeeds DEF PrefixInv
<1>4. NodesUsed \subseteq Ids /\ Cardinality(Listed) \in 0..MaxNodeId
  BY NodesAreNumbered, DigraphConstants DEF NodesUsed, Ids
<1>5. SortedEdges \in SUBSET (Ids \X Ids)
  BY <1>3, <1>4
<1>6. Cardinality(SortedEdges) \in Nat
  BY <1>5, EdgesAreFinite, FS_CardinalityType
<1>7. Edges' = SortedEdges
  BY <1>1, <1>5 DEF Edges
<1> HIDE DEF SortedEdges
<1>8. GraphTyped'
  <2>1. successors' \in [Ids -> SUBSET NodesUsed] /\ predecessors' \in [Ids -> SUBSET NodesUsed]
    BY <1>1, <1>3
  <2>2. nodeMap' \subseteq 0..(nextId' - 1)
    BY <1>1 DEF NodesUsed
  <2> QED BY <1>1, <1>4, <1>5, <1>6, <2>1, <2>2 DEF GraphTyped
<1>9. EdgesAgree'
  BY <1>1, <1>3, <1>7 DEF EdgesAgree
<1>10. GraphInv'
  BY <1>8, <1>9 DEF GraphInv
<1>11. WalkInv'
  <2>1. (walk = [NoWalk EXCEPT !.on = TRUE])'
    BY <1>1 DEF NoWalk
  <2> QED BY <1>10, <2>1, NothingIsWalked, PTL
<1>12. \A m, n \in Ids : m \in predecessors'[n] <=> <<m, n>> \in SortedEdges'
  BY <1>1, <1>2
<1> QED BY <1>1, <1>2, <1>10, <1>11, <1>12 DEF PrefixInv

LEMMA PrefixStep == PrefixInv /\ [PrefixNext]_<<prefixVars, digraphVars>> => PrefixInv'
<1> SUFFICES ASSUME PrefixInv, [PrefixNext]_<<prefixVars, digraphVars>> PROVE PrefixInv'
  OBVIOUS
<1>1. ASSUME UNCHANGED digraphVars PROVE GraphInv' /\ WalkInv' /\ UNCHANGED <<nodeMap, predecessors>>
  BY <1>1, DigraphStep DEF PrefixInv, digraphVars, digraph
<1>2. ASSUME NEW f \in prefixFiles, LoadRecord(f) PROVE PrefixInv'
  <2>1. ~sorting /\ ~sorting'
    BY <1>2 DEF LoadRecord, PrefixInv
  <2>2. loadedFiles' = loadedFiles \cup {f} /\ prefixFiles' = prefixFiles
        /\ packageRecords' = IF \E r \in packageRecords : r.name = f.name THEN packageRecords
                             ELSE packageRecords \cup {f}
    BY <1>2 DEF LoadRecord
  <2>3. packageRecords' \subseteq loadedFiles'
        /\ \A g \in loadedFiles' : \E r \in packageRecords' : r.name = g.name
    BY <2>2 DEF PrefixInv
  <2> QED BY <1>1, <1>2, <2>1, <2>2, <2>3 DEF LoadRecord, PrefixInv
<1>3. CASE SortRecords
  BY <1>3, SortRecordsKeeps
<1>4. ASSUME UNCHANGED prefixVars PROVE NodesUsed' = NodesUsed /\ SortedEdges' = SortedEdges
  BY <1>4 DEF prefixVars, NodesUsed, Listed, SortedEdges, Flipped, DependencyEdges, ListedNames, NodeOf
<1>5. CASE SortStep
  <2>1. GraphInv' /\ WalkInv'
    BY <1>5, WalkingKeeps DEF SortStep, PrefixInv
  <2>2. UNCHANGED <<nodeMap, predecessors>>
    BY <1>5 DEF SortStep, Walking, NextRoot, NextChild, FinishNode, digraph
  <2>3. UNCHANGED prefixVars
    BY <1>5 DEF SortStep
  <2> QED BY <1>4, <2>1, <2>2, <2>3 DEF PrefixInv, prefixVars
<1>6. CASE UNCHANGED <<prefixVars, digraphVars>>
  BY <1>1, <1>4, <1>6 DEF PrefixInv, prefixVars
<1> QED BY <1>2, <1>3, <1>5, <1>6 DEF PrefixNext

LEMMA PrefixInitial == PrefixInit => PrefixInv
BY GraphInitial, NothingIsWalked DEF PrefixInit, PrefixInv, DigraphInit

\* What the predecessors lead to is what the names need.
LEMMA AboveIsNeeded ==
  ASSUME PrefixInv, sorting, NEW m \in nodeMap, NEW n \in nodeMap, <<m, n>> \in Above
  PROVE  NameOf(n) \in AllNeeded(NameOf(m))
<1>1. NameOf(n) \in ListedNames
  BY NodesAreNumbered DEF PrefixInv
<1>2. SUFFICES ASSUME NEW S \in SUBSET ListedNames, NameOf(m) \in S,
                      \A name \in S : NeededFirst(name) \subseteq S
               PROVE  NameOf(n) \in S
  BY <1>1 DEF AllNeeded
<1> DEFINE T == {k \in nodeMap : NameOf(k) \in S}
<1>3. T \in SUBSET Ids /\ m \in T
  BY <1>2, NodesAreIds DEF PrefixInv, GraphInv
<1>4. ASSUME NEW k \in T, NEW p \in predecessors[k] PROVE p \in T
  <2>1. p \in nodeMap /\ p \in Ids /\ k \in Ids /\ k \in nodeMap
    BY <1>4, NodesAreIds DEF PrefixInv, GraphInv, GraphTyped
  <2>2. <<p, k>> \in SortedEdges /\ p \in NodesUsed /\ k \in NodesUsed
    BY <2>1 DEF PrefixInv
  <2>3. /\ NameOf(p) \in ListedNames /\ NodeOf(NameOf(p)) = p
        /\ NameOf(k) \in ListedNames /\ NodeOf(NameOf(k)) = k
    BY <2>2, NodesAreNumbered
  <2>4. NameOf(p) \in NeededFirst(NameOf(k))
    BY <2>2, <2>3, EdgesAreNeeds DEF PrefixInv
  <2> QED BY <1>2, <2>1, <2>4
<1>5. n \in T
  <2>1. n \in Ancestors(m)
    BY DEF Above
  <2> HIDE DEF T
  <2> QED BY <1>3, <1>4, <2>1 DEF Ancestors
<1> QED BY <1>5

LEMMA RecordsAreSorted == PrefixInv => SortedAfterDependencies
<1> SUFFICES ASSUME PrefixInv, sorting, Sorted PROVE SortedAfterDependencies
  BY DEF SortedAfterDependencies
<1> DEFINE sorted == SortedRecords
           Position(name) == CHOOSE i \in DOMAIN sorted : sorted[i] = name
<1>1. /\ Len(walk.order) = Cardinality(nodeMap) /\ DOMAIN walk.order = 1..Len(walk.order)
      /\ \A i \in DOMAIN walk.order : walk.order[i] \in nodeMap
      /\ \A n \in nodeMap : \E i \in DOMAIN walk.order : walk.order[i] = n
  BY OrderIsWhole DEF PrefixInv
<1>2. nodeMap = NodesUsed /\ nodeMap \subseteq Ids
  BY NodesAreIds DEF PrefixInv, GraphInv
<1>3. /\ ListedNames = {r.name : r \in packageRecords} /\ packageRecords \subseteq RecordFiles
      /\ ListedNames = {f.name : f \in prefixFiles}
  BY RecordsAreListed DEF PrefixInv
<1>4. Cardinality(nodeMap) = Cardinality(Listed) /\ Cardinality(Listed) \in Nat
  BY <1>2, NodesAreNumbered, FS_Interval DEF NodesUsed
<1>5. DOMAIN sorted = DOMAIN walk.order /\ Len(sorted) = Len(walk.order)
      /\ \A i \in DOMAIN sorted : sorted[i] = NameOf(walk.order[i])
  BY <1>1, <1>4 DEF SortedRecords
<1>6. Len(sorted) = Cardinality({f.name : f \in prefixFiles})
  BY <1>1, <1>3, <1>4, <1>5, NodesAreNumbered
<1> HIDE DEF sorted
<1>7. ASSUME NEW name \in ListedNames
      PROVE  /\ \E i \in DOMAIN sorted : sorted[i] = name
             /\ Position(name) \in DOMAIN sorted /\ walk.order[Position(name)] = NodeOf(name)
             /\ \A i \in DOMAIN sorted : walk.order[i] = NodeOf(name) => i = Position(name)
  <2>1. NodeOf(name) \in nodeMap /\ NameOf(NodeOf(name)) = name
    BY <1>2, NodesAreNumbered
  <2>2. \E i \in DOMAIN sorted : sorted[i] = name
    BY <1>1, <1>5, <2>1
  <2>3. Position(name) \in DOMAIN sorted /\ sorted[Position(name)] = name
    BY <2>2
  <2> HIDE DEF Position
  <2>4. walk.order[Position(name)] \in nodeMap /\ NameOf(walk.order[Position(name)]) = name
    BY <1>1, <1>5, <2>3
  <2>5. walk.order[Position(name)] = NodeOf(name)
    BY <1>2, <2>4, NodesAreNumbered
  <2> QED BY <1>5, <2>2, <2>3, <2>5 DEF PrefixInv, WalkInv, StatesAreKept
<1> HIDE DEF Position
<1>8. ASSUME NEW r \in packageRecords, NEW d \in NeededFirst(r.name)
      PROVE  Position(d) < Position(r.name) \/ r.name \in AllNeeded(d)
  <2>1. r.name \in ListedNames /\ d \in ListedNames
    BY <1>3, EdgesAreNeeds
  <2>2. NodeOf(d) \in nodeMap /\ NodeOf(r.name) \in nodeMap
        /\ NameOf(NodeOf(d)) = d /\ NameOf(NodeOf(r.name)) = r.name
    BY <1>2, <2>1, NodesAreNumbered
  <2>3. <<NodeOf(d), NodeOf(r.name)>> \in SortedEdges
    BY <1>3, <2>1, EdgesAreNeeds
  <2>4. NodeOf(d) \in predecessors[NodeOf(r.name)]
    BY <1>2, <2>2, <2>3 DEF PrefixInv
  <2>5. \/ \E j \in DOMAIN walk.order : j < Position(r.name) /\ walk.order[j] = NodeOf(d)
        \/ <<NodeOf(d), NodeOf(r.name)>> \in Above
    BY <1>5, <1>7, <2>1, <2>4 DEF PrefixInv, WalkInv, DoneAfterPredecessors
  <2>6. CASE <<NodeOf(d), NodeOf(r.name)>> \in Above
    BY <2>2, <2>6, AboveIsNeeded
  <2>7. ASSUME NEW j \in DOMAIN walk.order, j < Position(r.name), walk.order[j] = NodeOf(d)
        PROVE  Position(d) < Position(r.name)
    BY <1>5, <1>7, <2>1, <2>7
  <2> QED BY <2>5, <2>6, <2>7
<1>9. \A f \in prefixFiles : \E i \in DOMAIN sorted : sorted[i] = f.name
  BY <1>3, <1>7
<1> QED BY <1>6, <1>8, <1>9 DEF SortedAfterDependencies, sorted, Position

\* Whatever records a prefix has, in whatever order they are found: they are
\* sorted once each, after the packages that they need, but for a cycle other
\* than that of python and pip.
THEOREM RecordsSorted == PrefixSpec => []RecordsAreRight
<1>1. PrefixInv => RecordsAreRight
  <2>1. PrefixInv => DigraphTypeOK /\ EdgesAgree /\ TopologicallySorted
    BY GraphIsRight DEF PrefixInv
  <2>2. PrefixInv => PrefixTypeOK
    BY <2>1 DEF PrefixInv, PrefixTypeOK
  <2> QED BY <2>1, <2>2, RecordsAreSorted DEF RecordsAreRight
<1> QED BY <1>1, PrefixInitial, PrefixStep, PTL DEF PrefixSpec

-----------------------------------------------------------------------------
(* Activation: Undone is the invariant for the variables of the levels,     *)
(* PathInv for PATH.  Kept and Stack are recursive functions: what they     *)
(* give is shown by the least place at which it could be wrong.             *)
(*                                                                          *)
(* What is kept of a sequence: Kept, Without and Unique, by their           *)
(* recursion.                                                               *)

\* A set of natural numbers that is not empty has a least member.
LEMMA LeastOf ==
  ASSUME NEW T \in SUBSET Nat, T # {}
  PROVE  \E n \in T : \A m \in T : n <= m
<1>1. PICK n \in T : \A m \in T : <<m, n>> \notin OpToRel(<, Nat)
  BY NatLessThanWellFounded, WFMin
<1>2. \A m \in T : ~(m < n)
  BY <1>1, Zenon DEF OpToRel
<1>3. \A m \in T : n <= m
  BY <1>2
<1> QED BY <1>3

Runs(N, z, g, f) == f[0] = z /\ \A n \in 1..N : f[n] = g[n][f[n - 1]]

\* A step from each value to the next gives a sequence of values.
LEMMA StepsGoOn ==
  ASSUME NEW N \in Nat, NEW S, NEW z \in S, NEW g \in [1..N -> [S -> S]]
  PROVE  \E f \in [0..N -> S] : Runs(N, z, g, f)
<1> DEFINE Up(m) == \E f \in [0..m -> S] : Runs(m, z, g, f)
           Bad == {m \in 0..N : ~Up(m)}
<1>1. Up(0)
  <2>1. [n \in 0..0 |-> z] \in [0..0 -> S] /\ [n \in 0..0 |-> z][0] = z /\ 1..0 = {}
    OBVIOUS
  <2> QED BY <2>1 DEF Runs
<1>2. ASSUME NEW m \in 1..N, Up(m - 1) PROVE Up(m)
  <2>1. PICK f \in [0..(m - 1) -> S] : Runs(m - 1, z, g, f)
    BY <1>2
  <2> DEFINE h == [n \in 0..m |-> IF n = m THEN g[m][f[m - 1]] ELSE f[n]]
  <2>2. h \in [0..m -> S]
    BY <2>1
  <2>3. h[0] = z
    BY <2>1 DEF Runs
  <2>4. ASSUME NEW n \in 1..m PROVE h[n] = g[n][h[n - 1]]
    <3>1. h[n - 1] = f[n - 1]
      OBVIOUS
    <3>2. CASE n = m
      <4>1. h[n] = g[n][f[n - 1]]
        BY <3>2
      <4> QED BY <3>1, <4>1, Zenon
    <3>3. CASE n # m
      <4>1. n \in 1..(m - 1) /\ h[n] = f[n]
        BY <3>3
      <4> QED BY <2>1, <3>1, <4>1 DEF Runs
    <3> QED BY <3>2, <3>3
  <2> HIDE DEF h
  <2> QED BY <2>2, <2>3, <2>4 DEF Runs
<1>3. Bad = {}
  <2> SUFFICES ASSUME Bad # {} PROVE FALSE
    OBVIOUS
  <2>1. Bad \in SUBSET Nat
    OBVIOUS
  <2>2. PICK m \in Bad : \A n \in Bad : m <= n
    <3> HIDE DEF Bad
    <3> QED BY <2>1, LeastOf
  <2>3. m # 0
    BY <1>1
  <2>4. Up(m - 1)
    <3> HIDE DEF Up
    <3> QED BY <2>2, <2>3
  <2>5. m \in 1..N /\ ~Up(m)
    <3> HIDE DEF Up
    <3> QED BY <2>2, <2>3
  <2> HIDE DEF Up
  <2> QED BY <1>2, <2>4, <2>5
<1>4. Up(N)
  <2> HIDE DEF Up
  <2> QED BY <1>3
<1> QED BY <1>4

StepsOf(p, K, f) ==
    f[0] = <<>> /\ \A n \in 1..Len(p) : f[n] = IF n \in K THEN Append(f[n - 1], p[n]) ELSE f[n - 1]

\* The recursion of Kept has a solution, and Kept is its last value.
LEMMA KeptSolves ==
  ASSUME NEW S, NEW p \in Seq(S), NEW K
  PROVE  \E f \in [0..Len(p) -> Seq(S)] : StepsOf(p, K, f) /\ Kept(p, K) = f[Len(p)]
<1> DEFINE N == Len(p)
           Z == Seq(S)
           z == <<>>
           g == [n \in 1..N |-> [q \in Z |-> IF n \in K THEN Append(q, p[n]) ELSE q]]
           Solves(f) == f = [n \in 0..Len(p) |-> IF n = 0 THEN <<>>
                                  ELSE IF n \in K THEN Append(f[n - 1], p[n]) ELSE f[n - 1]]
<1>0. Len(p) \in Nat
  OBVIOUS
<1>1. z \in Z /\ g \in [1..N -> [Z -> Z]]
  <2>1. ASSUME NEW n \in 1..N, NEW q \in Z PROVE Append(q, p[n]) \in Z
    OBVIOUS
  <2> QED BY <2>1
<1>2. PICK f \in [0..Len(p) -> Seq(S)] : Runs(N, z, g, f)
  <2>1. \E f \in [0..N -> Z] : Runs(N, z, g, f)
    <3> HIDE DEF N, Z, z, g
    <3>1. N \in Nat
      BY <1>0 DEF N
    <3> QED BY <1>1, <3>1, StepsGoOn
  <2> QED BY <2>1
<1>3. ASSUME NEW n \in 1..Len(p)
      PROVE f[n] = IF n \in K THEN Append(f[n - 1], p[n]) ELSE f[n - 1]
  <2>0. n - 1 \in 0..Len(p)
    BY <1>0
  <2>1. f[n - 1] \in Z /\ f[n] = g[n][f[n - 1]]
    <3> HIDE DEF g
    <3> QED BY <2>0, <1>2 DEF Runs
  <2> QED BY <2>1
<1>5. f[0] = <<>>
  BY <1>2 DEF Runs
<1>4. Solves(f)
  <2> DEFINE h == [n \in 0..Len(p) |-> IF n = 0 THEN <<>>
                      ELSE IF n \in K THEN Append(f[n - 1], p[n]) ELSE f[n - 1]]
  <2>1. DOMAIN f = DOMAIN h
    BY <1>2
  <2>2. ASSUME NEW n \in 0..Len(p) PROVE f[n] = h[n]
    <3>1. CASE n = 0
      BY <1>5, <3>1
    <3>2. CASE n # 0
      <4>1. n \in 1..Len(p)
        BY <1>0, <3>2
      <4>2. h[n] = IF n \in K THEN Append(f[n - 1], p[n]) ELSE f[n - 1]
        BY <3>2
      <4> HIDE DEF h
      <4> QED BY <1>3, <4>1, <4>2
    <3> QED BY <3>1, <3>2
  <2>3. f = [n \in DOMAIN f |-> f[n]] /\ h = [n \in DOMAIN h |-> h[n]]
    BY <1>2
  <2>4. f = h
    <3>1. DOMAIN f = 0..Len(p)
      BY <1>2
    <3> HIDE DEF h
    <3> QED BY <2>1, <2>2, <2>3, <3>1
  <2> QED BY <2>4
<1> DEFINE c == CHOOSE h : Solves(h)
<1>6. Solves(c)
  BY <1>4
<1>7. Kept(p, K) = c[Len(p)]
  BY DEF Kept
<1>8. c \in [0..Len(p) -> Seq(S)] /\ StepsOf(p, K, c)
  <2> HIDE DEF c
  <2> DEFINE T == {m \in 0..Len(p) : c[m] # f[m]}
  <2>1. c[0] = <<>> /\ DOMAIN c = 0..Len(p)
    BY <1>0, <1>6
  <2>2. ASSUME NEW n \in 1..Len(p)
        PROVE c[n] = IF n \in K THEN Append(c[n - 1], p[n]) ELSE c[n - 1]
    <3>1. n \in 0..Len(p) /\ n # 0
      BY <1>0
    <3>2. \A i \in 0..Len(p) : c[i] = IF i = 0 THEN <<>>
                      ELSE IF i \in K THEN Append(c[i - 1], p[i]) ELSE c[i - 1]
      BY <1>6
    <3> QED BY <3>1, <3>2
  <2>3. T = {}
    <3> SUFFICES ASSUME T # {} PROVE FALSE
      OBVIOUS
    <3>1. PICK m \in T : \A n \in T : m <= n
      <4>1. T \in SUBSET Nat
        OBVIOUS
      <4> HIDE DEF T
      <4> QED BY <4>1, LeastOf
    <3>2. m # 0 /\ m \in 1..Len(p)
      BY <1>5, <2>1
    <3>3. c[m - 1] = f[m - 1]
      BY <3>1, <3>2
    <3> QED BY <1>3, <2>2, <3>1, <3>2, <3>3
  <2>4. c = [n \in 0..Len(p) |-> c[n]]
    BY <1>6
  <2>5. \A n \in 0..Len(p) : c[n] \in Seq(S)
    BY <1>2, <2>3
  <2> QED BY <2>1, <2>2, <2>4, <2>5 DEF StepsOf
<1> HIDE DEF c
<1> QED BY <1>7, <1>8

\* It has no other.
LEMMA KeptIsLast ==
  ASSUME NEW S, NEW p \in Seq(S), NEW K, NEW f, StepsOf(p, K, f)
  PROVE  f[Len(p)] = Kept(p, K)
<1>1. PICK h \in [0..Len(p) -> Seq(S)] : StepsOf(p, K, h) /\ Kept(p, K) = h[Len(p)]
  BY KeptSolves
<1> DEFINE T == {m \in 0..Len(p) : f[m] # h[m]}
<1>2. T = {}
  <2> SUFFICES ASSUME T # {} PROVE FALSE
    OBVIOUS
  <2>1. PICK m \in T : \A n \in T : m <= n
    <3>1. T \in SUBSET Nat
      OBVIOUS
    <3> HIDE DEF T
    <3> QED BY <3>1, LeastOf
  <2>2. m # 0 /\ m \in 1..Len(p)
    BY <1>1 DEF StepsOf
  <2>3. f[m - 1] = h[m - 1]
    BY <2>1, <2>2
  <2> QED BY <1>1, <2>1, <2>2, <2>3 DEF StepsOf
<1> QED BY <1>1, <1>2

\* Kept adds nothing.
LEMMA KeptTyped ==
  ASSUME NEW S, NEW p \in Seq(S), NEW K
  PROVE  Kept(p, K) \in Seq(S)
BY KeptSolves

\* What is kept of a sequence and what of the one behind it.
LEMMA KeptOfBoth ==
  ASSUME NEW S, NEW p \in Seq(S), NEW q \in Seq(S), NEW K, NEW J,
         \A n \in 1..Len(q) : n \in J <=> Len(p) + n \in K
  PROVE  Kept(p \o q, K) = Kept(p, K) \o Kept(q, J)
<1> DEFINE r == p \o q
<1>0. \A x, y \in Seq(S), e \in S : Append(x \o y, e) = x \o Append(y, e)
  <2> TAKE x, y \in Seq(S), e \in S
  <2>1. /\ Append(x \o y, e) \in Seq(S) /\ x \o Append(y, e) \in Seq(S)
        /\ Len(Append(x \o y, e)) = Len(x \o Append(y, e))
    OBVIOUS
  <2>2. \A i \in 1..Len(Append(x \o y, e)) : Append(x \o y, e)[i] = (x \o Append(y, e))[i]
    OBVIOUS
  <2> QED BY <2>1, <2>2, SeqEqual
<1>1. /\ r \in Seq(S) /\ Len(p) \in Nat /\ Len(q) \in Nat /\ Len(r) = Len(p) + Len(q)
      /\ \A n \in 1..Len(p) : r[n] = p[n]
      /\ \A n \in 1..Len(q) : r[Len(p) + n] = q[n]
  OBVIOUS
<1> HIDE DEF r
<1>2. PICK f \in [0..Len(r) -> Seq(S)] : StepsOf(r, K, f) /\ Kept(r, K) = f[Len(r)]
  <2>1. r \in Seq(S)
    BY <1>1
  <2> QED BY <2>1, KeptSolves
<1>3. PICK h \in [0..Len(q) -> Seq(S)] : StepsOf(q, J, h) /\ Kept(q, J) = h[Len(q)]
  BY KeptSolves
<1>4. f[Len(p)] = Kept(p, K)
  <2>1. StepsOf(p, K, f)
    <3>1. ASSUME NEW n \in 1..Len(p) PROVE n \in 1..Len(r) /\ r[n] = p[n]
      BY <1>1
    <3> QED BY <1>2, <3>1 DEF StepsOf
  <2> QED BY <2>1, KeptIsLast
<1> DEFINE k == Len(p)
           T == {m \in 0..Len(q) : f[k + m] # f[k] \o h[m]}
<1>5. k \in Nat /\ f[k] \in Seq(S) /\ f[k + 0] = f[k] \o h[0]
  <2>1. k \in 0..Len(r) /\ k + 0 = k
    BY <1>1
  <2>2. h[0] = <<>>
    BY <1>3 DEF StepsOf
  <2> QED BY <1>2, <2>1, <2>2, <1>1
<1>6. T = {}
  <2> SUFFICES ASSUME T # {} PROVE FALSE
    OBVIOUS
  <2>1. PICK m \in T : \A n \in T : m <= n
    <3>1. T \in SUBSET Nat
      BY <1>1
    <3> HIDE DEF T
    <3> QED BY <3>1, LeastOf
  <2>2. m \in 1..Len(q) /\ m - 1 \in 0..Len(q)
    <3>1. m # 0 /\ m \in 0..Len(q)
      BY <1>5
    <3> HIDE DEF T
    <3> QED BY <1>1, <3>1
  <2>9. m \in Nat /\ ~(m <= m - 1)
    BY <1>1, <2>2
  <2>3. f[k + (m - 1)] = f[k] \o h[m - 1]
    <3>1. m - 1 \notin T
      <4> HIDE DEF T
      <4> QED BY <2>1, <2>9
    <3> QED BY <2>2, <3>1
  <2>4. h[m] = IF k + m \in K THEN Append(h[m - 1], q[m]) ELSE h[m - 1]
    BY <2>2, <1>3 DEF StepsOf
  <2>5. f[k + m] = IF k + m \in K THEN Append(f[k + (m - 1)], q[m]) ELSE f[k + (m - 1)]
    <3>1. k + m \in 1..Len(r) /\ (k + m) - 1 = k + (m - 1) /\ r[k + m] = q[m]
      <4> HIDE DEF T
      <4>1. r[k + m] = q[m]
        BY <1>1, <2>2
      <4>2. k \in Nat /\ m \in Nat /\ m \in 1..Len(q) /\ Len(r) = k + Len(q) /\ Len(q) \in Nat
        BY <1>1, <2>2, <2>9
      <4> HIDE DEF k
      <4>3. k + m \in 1..Len(r) /\ (k + m) - 1 = k + (m - 1)
        BY <4>2
      <4> QED BY <4>1, <4>3
    <3> QED BY <1>2, <3>1 DEF StepsOf
  <2>6. h[m - 1] \in Seq(S) /\ q[m] \in S
    <3> HIDE DEF T
    <3>1. h[m - 1] \in Seq(S)
      BY <1>3, <2>2
    <3>2. q[m] \in S
      BY <2>2
    <3> QED BY <3>1, <3>2
  <2>7. Append(f[k] \o h[m - 1], q[m]) = f[k] \o Append(h[m - 1], q[m])
    <3> DEFINE a == f[k]
               b == h[m - 1]
               c == q[m]
    <3>1. a \in Seq(S) /\ b \in Seq(S) /\ c \in S
      BY <1>5, <2>6
    <3> HIDE DEF a, b, c, T
    <3>2. Append(a \o b, c) = a \o Append(b, c)
      BY <3>1, <1>0
    <3> QED BY <3>2 DEF a, b, c
  <2> QED BY <2>1, <2>3, <2>4, <2>5, <2>7
<1>7. f[k + Len(q)] = f[k] \o h[Len(q)]
  <2>1. Len(q) \in 0..Len(q)
    BY <1>1
  <2> QED BY <2>1, <1>6
<1> QED BY <1>1, <1>2, <1>3, <1>4, <1>7 DEF r

\* All is kept when every place is.
LEMMA KeptAll ==
  ASSUME NEW S, NEW p \in Seq(S), NEW K, 1..Len(p) \subseteq K
  PROVE  Kept(p, K) = p
<1>0. Len(p) \in Nat /\ p \in [1..Len(p) -> S]
  OBVIOUS
<1>1. PICK f \in [0..Len(p) -> Seq(S)] : StepsOf(p, K, f) /\ Kept(p, K) = f[Len(p)]
  BY KeptSolves
<1> DEFINE T == {m \in 0..Len(p) : ~(Len(f[m]) = m /\ \A i \in 1..m : f[m][i] = p[i])}
<1>2. T = {}
  <2> SUFFICES ASSUME T # {} PROVE FALSE
    OBVIOUS
  <2>1. PICK m \in T : \A n \in T : m <= n
    <3>1. T \in SUBSET Nat
      BY <1>0
    <3> HIDE DEF T
    <3> QED BY <3>1, LeastOf
  <2>2. f[0] = <<>>
    BY <1>1 DEF StepsOf
  <2>3. m \in 1..Len(p) /\ m - 1 \in 0..Len(p)
    BY <1>0, <2>2
  <2>9. m \in Nat /\ ~(m <= m - 1)
    BY <1>0, <2>3
  <2>4. Len(f[m - 1]) = m - 1 /\ \A i \in 1..(m - 1) : f[m - 1][i] = p[i]
    <3>1. m - 1 \notin T
      <4> HIDE DEF T
      <4> QED BY <2>1, <2>9
    <3> QED BY <2>3, <3>1
  <2>5. f[m] = Append(f[m - 1], p[m]) /\ f[m - 1] \in Seq(S)
    BY <1>1, <2>3 DEF StepsOf
  <2>6. Len(f[m]) = m /\ \A i \in 1..m : f[m][i] = p[i]
    <3> DEFINE g == f[m - 1]
               x == p[m]
               fm == f[m]
    <3>1. g \in Seq(S) /\ x \in S /\ Len(g) = m - 1 /\ fm = Append(g, x)
      BY <1>0, <2>3, <2>4, <2>5
    <3>2. \A i \in 1..(m - 1) : g[i] = p[i]
      BY <2>4
    <3> HIDE DEF g, x, fm, T
    <3>3. Len(fm) = m /\ fm[m] = x /\ \A i \in 1..(m - 1) : fm[i] = g[i]
      BY <2>9, <3>1
    <3>4. ASSUME NEW i \in 1..m PROVE fm[i] = p[i]
      <4>1. i = m \/ i \in 1..(m - 1)
        BY <2>9
      <4> QED BY <3>2, <3>3, <4>1 DEF x
    <3> QED BY <3>3, <3>4 DEF fm
  <2> QED BY <2>1, <2>6
<1>3. Len(f[Len(p)]) = Len(p) /\ \A i \in 1..Len(p) : f[Len(p)][i] = p[i]
  BY <1>0, <1>2
<1>4. f[Len(p)] \in Seq(S)
  BY <1>0, <1>1
<1>5. f[Len(p)] = p
  BY <1>3, <1>4, SeqEqual
<1> QED BY <1>1, <1>5

\* What is kept has the property that the places have.
LEMMA KeptOf ==
  ASSUME NEW S, NEW p \in Seq(S), NEW K, NEW T, \A n \in 1..Len(p) : n \in K => p[n] \in T
  PROVE  Kept(p, K) \in Seq(T)
<1>0. Len(p) \in Nat
  OBVIOUS
<1>1. PICK f \in [0..Len(p) -> Seq(S)] : StepsOf(p, K, f) /\ Kept(p, K) = f[Len(p)]
  BY KeptSolves
<1> DEFINE B == {m \in 0..Len(p) : f[m] \notin Seq(T)}
<1>2. B = {}
  <2> SUFFICES ASSUME B # {} PROVE FALSE
    OBVIOUS
  <2>1. PICK m \in B : \A n \in B : m <= n
    <3>1. B \in SUBSET Nat
      BY <1>0
    <3> HIDE DEF B
    <3> QED BY <3>1, LeastOf
  <2>2. f[0] \in Seq(T)
    BY <1>1 DEF StepsOf
  <2>3. m \in 1..Len(p) /\ m - 1 \in 0..Len(p)
    BY <1>0, <2>2
  <2>4. f[m - 1] \in Seq(T)
    BY <2>1, <2>3
  <2>5. f[m] = IF m \in K THEN Append(f[m - 1], p[m]) ELSE f[m - 1]
    BY <1>1, <2>3 DEF StepsOf
  <2>6. f[m] \notin Seq(T) /\ p[m] \in S /\ (m \in K => p[m] \in T)
    BY <2>1, <2>3
  <2>7. Append(f[m - 1], p[m]) \in Seq(T) \/ m \notin K
    BY <2>4, <2>6
  <2> QED BY <2>4, <2>5, <2>6, <2>7
<1> QED BY <1>0, <1>1, <1>2

\* Only the places that path has count.
LEMMA KeptSame ==
  ASSUME NEW S, NEW p \in Seq(S), NEW K, NEW J, \A n \in 1..Len(p) : n \in K <=> n \in J
  PROVE  Kept(p, K) = Kept(p, J)
<1>1. PICK f \in [0..Len(p) -> Seq(S)] : StepsOf(p, K, f) /\ Kept(p, K) = f[Len(p)]
  BY KeptSolves
<1>2. StepsOf(p, J, f)
  BY <1>1 DEF StepsOf
<1> QED BY <1>1, <1>2, KeptIsLast

-----------------------------------------------------------------------------
(* Directories of a path *)

Smooth(p) == \A n \in 2..Len(p) : p[n] # p[n - 1]

\* To remove a directory from two paths is to remove it from each.
LEMMA WithoutBoth ==
  ASSUME NEW S, NEW p \in Seq(S), NEW q \in Seq(S), NEW d
  PROVE  Without(p \o q, d) = Without(p, d) \o Without(q, d)
<1> DEFINE r == p \o q
           K == {n \in DOMAIN r : r[n] # d}
           J == {n \in 1..Len(q) : Len(p) + n \in K}
<1>1. /\ r \in Seq(S) /\ Len(p) \in Nat /\ Len(q) \in Nat /\ Len(r) = Len(p) + Len(q)
      /\ \A n \in 1..Len(p) : r[n] = p[n]
      /\ \A n \in 1..Len(q) : r[Len(p) + n] = q[n]
      /\ DOMAIN p = 1..Len(p) /\ DOMAIN q = 1..Len(q) /\ DOMAIN r = 1..Len(r)
  OBVIOUS
<1>2. Kept(r, K) = Kept(p, K) \o Kept(q, J)
  <2>1. \A n \in 1..Len(q) : n \in J <=> Len(p) + n \in K
    <3> HIDE DEF K
    <3> QED OBVIOUS
  <2> HIDE DEF K, J
  <2> QED BY <2>1, KeptOfBoth
<1> HIDE DEF r
<1>3. Kept(p, K) = Without(p, d)
  <2>1. \A n \in 1..Len(p) : n \in K <=> n \in {m \in DOMAIN p : p[m] # d}
    BY <1>1
  <2> HIDE DEF K
  <2> QED BY <2>1, KeptSame DEF Without
<1>4. Kept(q, J) = Without(q, d)
  <2>1. \A n \in 1..Len(q) : n \in J <=> n \in {m \in DOMAIN q : q[m] # d}
    <3> TAKE n \in 1..Len(q)
    <3>1. Len(p) + n \in DOMAIN r /\ r[Len(p) + n] = q[n] /\ n \in DOMAIN q
      BY <1>1
    <3> QED BY <3>1
  <2> HIDE DEF J
  <2> QED BY <2>1, KeptSame DEF Without
<1> QED BY <1>2, <1>3, <1>4 DEF Without, r

\* Nothing is removed when it is not there.
LEMMA WithoutIdle ==
  ASSUME NEW S, NEW p \in Seq(S), NEW d, \A n \in 1..Len(p) : p[n] # d
  PROVE  Without(p, d) = p
<1>1. 1..Len(p) \subseteq {n \in DOMAIN p : p[n] # d}
  OBVIOUS
<1> QED BY <1>1, KeptAll DEF Without

\* What is removed is nowhere.
LEMMA WithoutTyped ==
  ASSUME NEW S, NEW p \in Seq(S), NEW d
  PROVE  Without(p, d) \in Seq(S \ {d})
<1> DEFINE K == {n \in DOMAIN p : p[n] # d}
           T == S \ {d}
<1>1. \A n \in 1..Len(p) : n \in K => p[n] \in T
  OBVIOUS
<1> HIDE DEF K, T
<1>2. Kept(p, K) \in Seq(T)
  BY <1>1, KeptOf
<1> QED BY <1>2 DEF Without, K, T

\* Nothing is dropped when no neighbours are equal.
LEMMA UniqueIdle ==
  ASSUME NEW S, NEW p \in Seq(S), Smooth(p)
  PROVE  Unique(p) = p
<1>1. 1..Len(p) \subseteq {n \in DOMAIN p : n = 1 \/ p[n] # p[n - 1]}
  BY DEF Smooth
<1> QED BY <1>1, KeptAll DEF Unique

\* Unique adds nothing.
LEMMA UniqueTyped ==
  ASSUME NEW S, NEW p \in Seq(S)
  PROVE  Unique(p) \in Seq(S)
BY KeptTyped DEF Unique

\* Directories of one kind in front of those of another.
LEMMA UniqueBoth ==
  ASSUME NEW S, NEW R, S \cap R = {}, NEW p \in Seq(S), NEW q \in Seq(R)
  PROVE  Unique(p \o q) = Unique(p) \o Unique(q)
<1> DEFINE A == S \cup R
           r == p \o q
           K == {n \in DOMAIN r : n = 1 \/ r[n] # r[n - 1]}
           J == {n \in 1..Len(q) : Len(p) + n \in K}
<1>0. p \in Seq(A) /\ q \in Seq(A)
  OBVIOUS
<1>1. /\ Len(p) \in Nat /\ Len(q) \in Nat /\ Len(r) = Len(p) + Len(q)
      /\ \A n \in 1..Len(p) : r[n] = p[n] /\ p[n] \in S
      /\ \A n \in 1..Len(q) : r[Len(p) + n] = q[n] /\ q[n] \in R
      /\ DOMAIN p = 1..Len(p) /\ DOMAIN q = 1..Len(q) /\ DOMAIN r = 1..Len(r)
  OBVIOUS
<1>2. Kept(r, K) = Kept(p, K) \o Kept(q, J)
  <2>1. \A n \in 1..Len(q) : n \in J <=> Len(p) + n \in K
    <3> HIDE DEF K
    <3> QED OBVIOUS
  <2> HIDE DEF A, K, J
  <2> QED BY <1>0, <2>1, KeptOfBoth
<1> HIDE DEF r
<1>3. Kept(p, K) = Unique(p)
  <2>1. \A n \in 1..Len(p) : n \in K <=> n \in {m \in DOMAIN p : m = 1 \/ p[m] # p[m - 1]}
    BY <1>1
  <2> HIDE DEF K
  <2> QED BY <2>1, KeptSame DEF Unique
<1>4. Kept(q, J) = Unique(q)
  <2>1. \A n \in 1..Len(q) : n \in J <=> n \in {m \in DOMAIN q : m = 1 \/ q[m] # q[m - 1]}
    <3> TAKE n \in 1..Len(q)
    <3>1. Len(p) + n \in DOMAIN r /\ r[Len(p) + n] = q[n] /\ n \in DOMAIN q /\ q[n] \in R
      BY <1>1
    <3>2. CASE n = 1 /\ Len(p) = 0
      BY <3>1, <3>2
    <3>3. CASE n = 1 /\ Len(p) # 0
      <4>1. Len(p) \in 1..Len(p) /\ (Len(p) + n) - 1 = Len(p)
        BY <1>1, <3>3
      <4>2. r[(Len(p) + n) - 1] \in S
        BY <1>1, <4>1
      <4>3. r[Len(p) + n] # r[(Len(p) + n) - 1]
        BY <3>1, <4>2
      <4> QED BY <3>1, <3>3, <4>3
    <3>4. CASE n # 1
      <4>1. n - 1 \in 1..Len(q) /\ (Len(p) + n) - 1 = Len(p) + (n - 1) /\ Len(p) + n # 1
        BY <1>1, <3>4
      <4>2. r[(Len(p) + n) - 1] = q[n - 1]
        BY <1>1, <4>1
      <4> QED BY <3>1, <3>4, <4>1, <4>2
    <3> QED BY <3>2, <3>3, <3>4
  <2> HIDE DEF J
  <2> QED BY <2>1, KeptSame DEF Unique
<1> QED BY <1>2, <1>3, <1>4 DEF Unique, r

\* No neighbours are equal afterwards, and none is lost.
LEMMA UniqueIs ==
  ASSUME NEW S, NEW p \in Seq(S)
  PROVE  /\ Smooth(Unique(p))
         /\ \A i \in 1..Len(p) : \E j \in 1..Len(Unique(p)) : Unique(p)[j] = p[i]
<1> DEFINE K == {n \in DOMAIN p : n = 1 \/ p[n] # p[n - 1]}
<1>0. Len(p) \in Nat /\ DOMAIN p = 1..Len(p)
  OBVIOUS
<1>1. PICK f \in [0..Len(p) -> Seq(S)] : StepsOf(p, K, f) /\ Kept(p, K) = f[Len(p)]
  BY KeptSolves
<1> DEFINE Good(m) == /\ Smooth(f[m])
                      /\ m > 0 => Len(f[m]) > 0 /\ f[m][Len(f[m])] = p[m]
                      /\ \A i \in 1..m : \E j \in 1..Len(f[m]) : f[m][j] = p[i]
           T == {m \in 0..Len(p) : ~Good(m)}
<1>2. Good(0)
  <2>1. f[0] = <<>>
    BY <1>1 DEF StepsOf
  <2> QED BY <2>1 DEF Smooth
<1>3. ASSUME NEW m \in 1..Len(p), Good(m - 1) PROVE Good(m)
  <2>1. f[m] = IF m \in K THEN Append(f[m - 1], p[m]) ELSE f[m - 1]
    BY <1>1 DEF StepsOf
  <2>2. f[m - 1] \in Seq(S) /\ p[m] \in S /\ m - 1 \in 0..Len(p)
    <3>1. m - 1 \in 0..Len(p)
      BY <1>0
    <3> QED BY <1>1, <3>1
  <2> DEFINE q == f[m - 1]
             e == p[m]
  <2>3. CASE m \notin K
    <3>1. m # 1 /\ p[m] = p[m - 1] /\ m - 1 > 0
      BY <1>0, <2>3
    <3>2. f[m] = q
      BY <2>1, <2>3
    <3> HIDE DEF K
    <3>3. \A i \in 1..m : i \in 1..(m - 1) \/ p[i] = p[m - 1]
      BY <3>1
    <3>4. m - 1 \in 1..(m - 1)
      BY <1>0, <3>1
    <3>5. Smooth(q) /\ Len(q) > 0 /\ q[Len(q)] = p[m]
      BY <1>3, <3>1
    <3>6. \A i \in 1..m : \E j \in 1..Len(q) : q[j] = p[i]
      BY <1>3, <3>3, <3>4
    <3> QED BY <3>2, <3>5, <3>6
  <2>4. CASE m \in K
    <3>1. m = 1 \/ p[m] # p[m - 1]
      BY <2>4
    <3>2. f[m] = Append(q, e)
      BY <2>1, <2>4
    <3>3. Smooth(q) /\ q \in Seq(S) /\ e \in S /\ (m - 1 > 0 => Len(q) > 0 /\ q[Len(q)] = p[m - 1])
      BY <1>3, <2>2
    <3>4. \A i \in 1..(m - 1) : \E j \in 1..Len(q) : q[j] = p[i]
      BY <1>3
    <3>5. m = 1 => Len(q) = 0
      BY <1>1 DEF StepsOf
    <3> HIDE DEF K, q
    <3>6. Len(Append(q, e)) = Len(q) + 1 /\ Append(q, e)[Len(q) + 1] = e
          /\ \A j \in 1..Len(q) : Append(q, e)[j] = q[j]
      BY <3>3
    <3>7. Len(q) \in Nat
      BY <3>3
    <3>8. Smooth(Append(q, e))
      <4> SUFFICES ASSUME NEW n \in 2..(Len(q) + 1)
                   PROVE  Append(q, e)[n] # Append(q, e)[n - 1]
        BY <3>6 DEF Smooth
      <4>1. CASE n = Len(q) + 1
        <5>1. n - 1 = Len(q) /\ Len(q) \in 1..Len(q) /\ m # 1 /\ m - 1 > 0
          BY <3>5, <3>7, <4>1
        <5> QED BY <3>1, <3>3, <3>6, <4>1, <5>1
      <4>2. CASE n # Len(q) + 1
        <5>1. n \in 2..Len(q) /\ n \in 1..Len(q) /\ n - 1 \in 1..Len(q)
          BY <3>7, <4>2
        <5> QED BY <3>3, <3>6, <5>1 DEF Smooth
      <4> QED BY <4>1, <4>2
    <3>9. \A i \in 1..m : \E j \in 1..Len(Append(q, e)) : Append(q, e)[j] = p[i]
      <4> TAKE i \in 1..m
      <4>1. CASE i = m
        <5>1. Len(q) + 1 \in 1..Len(Append(q, e))
          BY <3>6, <3>7
        <5> QED BY <3>6, <4>1, <5>1
      <4>2. CASE i # m
        <5>1. PICK j \in 1..Len(q) : q[j] = p[i]
          BY <3>4, <4>2
        <5>2. j \in 1..Len(Append(q, e))
          BY <3>6, <3>7
        <5> QED BY <3>6, <5>1, <5>2
      <4> QED BY <4>1, <4>2
    <3> QED BY <3>2, <3>6, <3>7, <3>8, <3>9
  <2> QED BY <2>3, <2>4
<1>4. T = {}
  <2> SUFFICES ASSUME T # {} PROVE FALSE
    OBVIOUS
  <2>1. T \in SUBSET Nat
    BY <1>0
  <2>2. PICK m \in T : \A n \in T : m <= n
    <3> HIDE DEF T
    <3> QED BY <2>1, LeastOf
  <2> HIDE DEF Good
  <2>3. m \in 1..Len(p)
    BY <1>0, <1>2
  <2>4. Good(m - 1)
    BY <2>2, <2>3
  <2> QED BY <1>3, <2>3, <2>4
<1>5. Good(Len(p))
  <2> HIDE DEF Good
  <2> QED BY <1>0, <1>4
<1> QED BY <1>1, <1>5 DEF Unique

-----------------------------------------------------------------------------
(* PATH as the first activation finds it, and the environments in front of it. *)

Dirs == {Condabin} \cup UNION {Range(p) : p \in StartPaths}
Owns == {OwnPath(p) : p \in StartPaths}

\* The start paths and Condabin are no environments.
LEMMA DirsAreOther == Dirs \cap Environments = {}
BY ActivationConstants DEF Dirs

\* PATH without environments, as the first activation finds and leaves it.
LEMMA OwnIs ==
  ASSUME NEW p \in StartPaths \cup Owns
  PROVE  /\ p \in Seq(Dirs) /\ OwnPath(p) \in Seq(Dirs) /\ Smooth(OwnPath(p))
         /\ WithCondabin(p) \in Seq(Dirs) /\ OwnPath(p) \in Owns
<1>1. ASSUME NEW x \in StartPaths
      PROVE  /\ x \in Seq(Dirs) /\ WithCondabin(x) \in Seq(Dirs)
             /\ OwnPath(x) \in Seq(Dirs) /\ Smooth(OwnPath(x)) /\ Condabin \in Range(OwnPath(x))
  <2>1. x \in Seq(Range(x)) /\ Range(x) \subseteq Dirs
    BY ActivationConstants DEF Dirs
  <2>2. x \in Seq(Dirs)
    BY <2>1
  <2>3. Condabin \in Dirs
    BY DEF Dirs
  <2> DEFINE w == WithCondabin(x)
  <2>4. w \in Seq(Dirs)
    BY <2>2, <2>3 DEF WithCondabin
  <2>5. PICK i \in 1..Len(w) : w[i] = Condabin
    <3>1. CASE Condabin \in Range(x)
      BY <2>2, <3>1 DEF WithCondabin, Range
    <3>2. CASE Condabin \notin Range(x)
      <4>1. w = <<Condabin>> \o x
        BY <3>2 DEF WithCondabin
      <4>2. 1 \in 1..Len(w) /\ w[1] = Condabin
        BY <2>2, <2>3, <4>1
      <4> QED BY <4>2
    <3> QED BY <3>1, <3>2
  <2> HIDE DEF w
  <2>6. Unique(w) \in Seq(Dirs) /\ Smooth(Unique(w))
    BY <2>4, UniqueTyped, UniqueIs
  <2>7. \E j \in 1..Len(Unique(w)) : Unique(w)[j] = Condabin
    BY <2>4, <2>5, UniqueIs
  <2>8. Condabin \in Range(Unique(w))
    BY <2>6, <2>7 DEF Range
  <2> QED BY <2>2, <2>4, <2>6, <2>8 DEF w, OwnPath
<1>2. CASE p \in StartPaths
  BY <1>1, <1>2 DEF Owns
<1>3. CASE p \in Owns
  <2>1. PICK x \in StartPaths : p = OwnPath(x)
    BY <1>3 DEF Owns
  <2>2. p \in Seq(Dirs) /\ Smooth(p) /\ Condabin \in Range(p)
    BY <1>1, <2>1
  <2>3. WithCondabin(p) = p
    BY <2>2 DEF WithCondabin
  <2>4. Unique(p) = p
    BY <2>2, UniqueIdle
  <2>5. OwnPath(p) = p
    BY <2>3, <2>4 DEF OwnPath
  <2> QED BY <1>3, <2>2, <2>3, <2>5
<1> QED BY <1>2, <1>3

\* What is done to the environments in front of the rest.
LEMMA InFront ==
  ASSUME NEW envs \in Seq(Environments), NEW own \in Seq(Dirs), Smooth(own), NEW d \in Environments
  PROVE  /\ Without(envs, d) \in Seq(Environments)
         /\ Without(envs \o own, d) = Without(envs, d) \o own
         /\ Unique(envs \o own) = Unique(envs) \o own
         /\ \A e \in Environments : Unique(<<e>> \o (envs \o own)) = Unique(<<e>> \o envs) \o own
<1> DEFINE A == Environments \cup Dirs
<1>1. Without(envs, d) \in Seq(Environments)
  <2>1. Without(envs, d) \in Seq(Environments \ {d})
    BY WithoutTyped
  <2> QED BY <2>1
<1>2. Without(own, d) = own
  <2>1. \A n \in 1..Len(own) : own[n] # d
    BY DirsAreOther
  <2> QED BY <2>1, WithoutIdle
<1>3. Without(envs \o own, d) = Without(envs, d) \o Without(own, d)
  <2>1. envs \in Seq(A) /\ own \in Seq(A)
    OBVIOUS
  <2> HIDE DEF A
  <2> QED BY <2>1, WithoutBoth
<1>4. Unique(own) = own
  BY UniqueIdle
<1>5. ASSUME NEW q \in Seq(Environments) PROVE Unique(q \o own) = Unique(q) \o own
  <2>1. Environments \cap Dirs = {}
    BY DirsAreOther
  <2>2. Unique(q \o own) = Unique(q) \o Unique(own)
    BY <2>1, UniqueBoth
  <2> QED BY <1>4, <2>2
<1>6. ASSUME NEW e \in Environments PROVE Unique(<<e>> \o (envs \o own)) = Unique(<<e>> \o envs) \o own
  <2>1. <<e>> \o envs \in Seq(Environments)
    OBVIOUS
  <2>2. <<e>> \o (envs \o own) = (<<e>> \o envs) \o own
    <3>1. /\ <<e>> \o (envs \o own) \in Seq(A) /\ (<<e>> \o envs) \o own \in Seq(A)
          /\ Len(<<e>> \o (envs \o own)) = Len((<<e>> \o envs) \o own)
      OBVIOUS
    <3>2. \A i \in 1..Len(<<e>> \o (envs \o own)) :
            (<<e>> \o (envs \o own))[i] = ((<<e>> \o envs) \o own)[i]
      OBVIOUS
    <3> QED BY <3>1, <3>2, SeqEqual
  <2>3. Unique((<<e>> \o envs) \o own) = Unique(<<e>> \o envs) \o own
    BY <1>5, <2>1
  <2> QED BY <2>2, <2>3
<1> QED BY <1>1, <1>2, <1>3, <1>5, <1>6

-----------------------------------------------------------------------------
(* Stack, by its recursion: one level on top of those below.                *)

IsStack(A, K, N, f) ==
    f[0] = <<>> /\ \A n \in 1..N :
        f[n] = <<A[n]>> \o IF n = 1 \/ n \in K THEN f[n - 1] ELSE Tail(f[n - 1])

\* One in front of a sequence.
LEMMA OnTop ==
  ASSUME NEW E, NEW e \in E, NEW q \in Seq(E)
  PROVE  /\ <<e>> \o q \in Seq(E) /\ <<e>> \o q # <<>> /\ (<<e>> \o q)[1] = e
         /\ Len(<<e>> \o q) = Len(q) + 1 /\ \A i \in 1..Len(q) : (<<e>> \o q)[i + 1] = q[i]
         /\ Tail(<<e>> \o q) = q
<1>1. /\ <<e>> \o q \in Seq(E) /\ Len(<<e>> \o q) = Len(q) + 1 /\ (<<e>> \o q)[1] = e
      /\ \A i \in 1..Len(q) : (<<e>> \o q)[i + 1] = q[i]
  OBVIOUS
<1>2. <<e>> \o q # <<>>
  BY <1>1
<1>3. Tail(<<e>> \o q) = q
  <2> DEFINE r == <<e>> \o q
  <2>1. r \in Seq(E) /\ Len(r) = Len(q) + 1 /\ \A i \in 1..Len(q) : r[i + 1] = q[i]
    BY <1>1
  <2> HIDE DEF r
  <2>2. Tail(r) \in Seq(E) /\ Len(Tail(r)) = Len(q) /\ \A i \in 1..Len(q) : Tail(r)[i] = q[i]
    BY <2>1
  <2>3. Tail(r) = q
    BY <2>2, SeqEqual
  <2> QED BY <2>3 DEF r
<1> QED BY <1>1, <1>2, <1>3

\* A sequence without its first.
LEMMA TailIs ==
  ASSUME NEW E, NEW q \in Seq(E), q # <<>>
  PROVE  Tail(q) \in Seq(E) /\ Len(Tail(q)) = Len(q) - 1 /\ \A i \in 1..(Len(q) - 1) : Tail(q)[i] = q[i + 1]
OBVIOUS

\* Stack is what the recursion gives at the last level.
LEMMA StackSolves ==
  ASSUME NEW E, NEW s, s.shlvl \in Nat, Actives(s) \in [1..s.shlvl -> E]
  PROVE  \E f \in [0..s.shlvl -> Seq(E)] :
            IsStack(Actives(s), s.stacked, s.shlvl, f) /\ Stack(s) = f[s.shlvl]
<1> DEFINE N == s.shlvl
           A == Actives(s)
           K == s.stacked
           Z == Seq(E)
           z == <<>>
           Less(q) == IF q = <<>> THEN <<>> ELSE Tail(q)
           g == [n \in 1..N |-> [q \in Z |-> <<A[n]>> \o IF n = 1 \/ n \in K THEN q ELSE Less(q)]]
           Body(f) == [n \in 0..s.shlvl |-> IF n = 0 THEN <<>>
                          ELSE <<Actives(s)[n]>> \o
                               IF n = 1 \/ n \in s.stacked THEN f[n - 1] ELSE Tail(f[n - 1])]
           Solves(f) == f = Body(f)
<1>0. s.shlvl \in Nat
  OBVIOUS
<1>1. z \in Z /\ g \in [1..N -> [Z -> Z]]
  <2>1. ASSUME NEW n \in 1..N, NEW q \in Z
        PROVE <<A[n]>> \o (IF n = 1 \/ n \in K THEN q ELSE Less(q)) \in Z
    <3>1. Less(q) \in Z
      BY TailIs
    <3>2. A[n] \in E
      OBVIOUS
    <3> HIDE DEF Less, A
    <3> QED BY <3>1, <3>2, OnTop
  <2> HIDE DEF A, Less
  <2> QED BY <2>1
<1>2. PICK f \in [0..s.shlvl -> Seq(E)] : Runs(N, z, g, f)
  <2>1. \E f \in [0..N -> Z] : Runs(N, z, g, f)
    <3> HIDE DEF Z, z, g
    <3> QED BY <1>1, StepsGoOn
  <2> QED BY <2>1
<1>3. ASSUME NEW n \in 1..N
      PROVE  f[n] # <<>> /\ f[n] = <<A[n]>> \o IF n = 1 \/ n \in K THEN f[n - 1] ELSE Less(f[n - 1])
  <2>1. f[n - 1] \in Z /\ f[n] = g[n][f[n - 1]]
    <3>1. n - 1 \in 0..N
      OBVIOUS
    <3> HIDE DEF g
    <3> QED BY <3>1, <1>2 DEF Runs
  <2>2. f[n] = <<A[n]>> \o IF n = 1 \/ n \in K THEN f[n - 1] ELSE Less(f[n - 1])
    <3> HIDE DEF A, Less
    <3> QED BY <2>1
  <2>3. Less(f[n - 1]) \in Z
    BY <2>1, TailIs
  <2>4. A[n] \in E
    OBVIOUS
  <2> HIDE DEF A, Less
  <2> QED BY <2>1, <2>2, <2>3, <2>4, OnTop
<1>5. f[0] = <<>>
  BY <1>2 DEF Runs
<1>6. ASSUME NEW n \in 1..N
      PROVE  f[n] = <<A[n]>> \o IF n = 1 \/ n \in K THEN f[n - 1] ELSE Tail(f[n - 1])
  <2>1. n = 1 \/ f[n - 1] # <<>>
    <3>1. CASE n # 1
      <4>1. n - 1 \in 1..N
        BY <3>1
      <4> QED BY <1>3, <4>1
    <3> QED BY <3>1
  <2> HIDE DEF A
  <2> QED BY <1>3, <2>1
<1>7. IsStack(A, K, N, f)
  <2> HIDE DEF A, K, N
  <2> QED BY <1>5, <1>6 DEF IsStack
<1>8. Solves(f)
  <2> DEFINE h == Body(f)
  <2>2. ASSUME NEW n \in 0..s.shlvl PROVE f[n] = h[n]
    <3>1. CASE n = 0
      BY <1>5, <3>1
    <3>2. CASE n # 0
      <4>1. n \in 1..N
        BY <3>2
      <4>2. h[n] = <<A[n]>> \o IF n = 1 \/ n \in K THEN f[n - 1] ELSE Tail(f[n - 1])
        BY <3>2
      <4> HIDE DEF h, A, K
      <4> QED BY <1>6, <4>1, <4>2
    <3> QED BY <3>1, <3>2
  <2>3. f = [n \in DOMAIN f |-> f[n]] /\ h = [n \in DOMAIN h |-> h[n]] /\ DOMAIN h = 0..s.shlvl
    BY <1>2
  <2>4. f = h
    <3>1. DOMAIN f = 0..s.shlvl
      BY <1>2
    <3> HIDE DEF h
    <3> QED BY <2>2, <2>3, <3>1
  <2> QED BY <2>4
<1> DEFINE c == CHOOSE h : Solves(h)
<1>9. Solves(c)
  <2> HIDE DEF Body
  <2> QED BY <1>8
<1>10. Stack(s) = c[s.shlvl]
  BY DEF Stack
<1>11. c = f
  <2> HIDE DEF c
  <2> DEFINE T == {m \in 0..s.shlvl : c[m] # f[m]}
  <2>1. c[0] = <<>> /\ DOMAIN c = 0..s.shlvl
    BY <1>0, <1>9
  <2>2. ASSUME NEW n \in 1..N
        PROVE c[n] = <<A[n]>> \o IF n = 1 \/ n \in K THEN c[n - 1] ELSE Tail(c[n - 1])
    <3>1. n \in 0..s.shlvl /\ n # 0
      OBVIOUS
    <3>2. \A i \in 0..s.shlvl : c[i] = Body(c)[i]
      <4> HIDE DEF Body
      <4> QED BY <1>9
    <3>3. c[n] = Body(c)[n]
      <4> HIDE DEF Body
      <4> QED BY <3>1, <3>2
    <3>4. Body(c)[n] = <<Actives(s)[n]>> \o
                               IF n = 1 \/ n \in s.stacked THEN c[n - 1] ELSE Tail(c[n - 1])
      BY <3>1
    <3> HIDE DEF Body
    <3> QED BY <3>3, <3>4
  <2>3. T = {}
    <3> SUFFICES ASSUME T # {} PROVE FALSE
      OBVIOUS
    <3>1. PICK m \in T : \A n \in T : m <= n
      <4>1. T \in SUBSET Nat
        OBVIOUS
      <4> HIDE DEF T
      <4> QED BY <4>1, LeastOf
    <3>2. m # 0 /\ m \in 1..N
      BY <1>5, <2>1
    <3>3. c[m - 1] = f[m - 1]
      BY <3>1, <3>2
    <3>4. c[m] = f[m]
      <4> HIDE DEF A, K
      <4> QED BY <1>6, <2>2, <3>2, <3>3
    <3> QED BY <3>1, <3>4
  <2>4. c = [n \in 0..s.shlvl |-> c[n]]
    <3>1. Body(c) = [n \in DOMAIN Body(c) |-> Body(c)[n]] /\ DOMAIN Body(c) = 0..s.shlvl
      OBVIOUS
    <3> HIDE DEF Body
    <3> QED BY <1>9, <3>1
  <2>5. f = [n \in 0..s.shlvl |-> f[n]]
    OBVIOUS
  <2> HIDE DEF Solves, Body
  <2> QED BY <2>3, <2>4, <2>5
<1> HIDE DEF c, Solves
<1> QED BY <1>7, <1>10, <1>11

Alike(A, B, K, J, M) == \A n \in 1..M : A[n] = B[n] /\ (n \in K <=> n \in J)

\* Levels that are alike give the same stack.
LEMMA SameStack ==
  ASSUME NEW A, NEW B, NEW K, NEW J, NEW N \in Nat, NEW M \in 0..N, NEW f, NEW h,
         IsStack(A, K, N, f), IsStack(B, J, M, h),
         Alike(A, B, K, J, M)
  PROVE  f[M] = h[M]
<1> DEFINE T == {m \in 0..M : f[m] # h[m]}
<1>1. T = {}
  <2> SUFFICES ASSUME T # {} PROVE FALSE
    OBVIOUS
  <2>1. PICK m \in T : \A n \in T : m <= n
    <3>1. T \in SUBSET Nat
      OBVIOUS
    <3> HIDE DEF T
    <3> QED BY <3>1, LeastOf
  <2>2. m # 0 /\ m \in 1..M
    BY DEF IsStack
  <2>3. f[m - 1] = h[m - 1]
    BY <2>1, <2>2
  <2>4. f[m] = h[m]
    <3>1. m \in 1..N
      BY <2>2
    <3>2. f[m] = <<A[m]>> \o IF m = 1 \/ m \in K THEN f[m - 1] ELSE Tail(f[m - 1])
      BY <3>1 DEF IsStack
    <3>3. h[m] = <<B[m]>> \o IF m = 1 \/ m \in J THEN h[m - 1] ELSE Tail(h[m - 1])
      BY <2>2 DEF IsStack
    <3>4. A[m] = B[m] /\ (m \in K <=> m \in J)
      BY <2>2 DEF Alike
    <3>5. CASE m = 1 \/ m \in K
      BY <2>3, <3>2, <3>3, <3>4, <3>5
    <3>6. CASE ~(m = 1 \/ m \in K)
      BY <2>3, <3>2, <3>3, <3>4, <3>6
    <3> QED BY <3>5, <3>6
  <2> QED BY <2>1, <2>4
<1> QED BY <1>1

OnceEach(q) == \A i, j \in 1..Len(q) : q[i] = q[j] => i = j

\* One that was not there leaves each of them once.
LEMMA OnceMore ==
  ASSUME NEW E, NEW e \in E, NEW q \in Seq(E), OnceEach(q), \A i \in 1..Len(q) : q[i] # e
  PROVE  OnceEach(<<e>> \o q)
<1> DEFINE r == <<e>> \o q
<1>1. r[1] = e /\ Len(r) = Len(q) + 1 /\ \A i \in 1..Len(q) : r[i + 1] = q[i]
  BY OnTop
<1>2. Len(q) \in Nat
  OBVIOUS
<1> HIDE DEF r
<1>3. \A i \in 2..Len(r) : i - 1 \in 1..Len(q) /\ r[i] = q[i - 1]
  <2> TAKE i \in 2..Len(r)
  <2>1. i - 1 \in 1..Len(q) /\ (i - 1) + 1 = i
    BY <1>1, <1>2
  <2> QED BY <1>1, <2>1
<1>4. ASSUME NEW i \in 1..Len(r), NEW j \in 1..Len(r), r[i] = r[j] PROVE i = j
  <2>1. CASE i = 1 /\ j = 1
    BY <2>1
  <2>2. CASE i = 1 /\ j # 1
    <3>1. j \in 2..Len(r)
      BY <2>2, <1>1, <1>2
    <3> QED BY <1>1, <1>3, <1>4, <2>2, <3>1
  <2>3. CASE i # 1 /\ j = 1
    <3>1. i \in 2..Len(r)
      BY <2>3, <1>1, <1>2
    <3> QED BY <1>1, <1>3, <1>4, <2>3, <3>1
  <2>4. CASE i # 1 /\ j # 1
    <3>1. i \in 2..Len(r) /\ j \in 2..Len(r)
      BY <2>4, <1>1, <1>2
    <3>2. q[i - 1] = q[j - 1] /\ i - 1 \in 1..Len(q) /\ j - 1 \in 1..Len(q)
      BY <1>3, <1>4, <3>1
    <3>3. i - 1 = j - 1
      BY <3>2 DEF OnceEach
    <3> QED BY <3>1, <3>3
  <2> QED BY <2>1, <2>2, <2>3, <2>4
<1>5. OnceEach(r)
  BY <1>4 DEF OnceEach
<1> QED BY <1>5 DEF r

\* Nothing is dropped where each is once.
LEMMA OnceSmooth ==
  ASSUME NEW E, NEW q \in Seq(E), OnceEach(q)
  PROVE  Smooth(q) /\ Unique(q) = q
<1>1. Smooth(q)
  <2>1. ASSUME NEW n \in 2..Len(q) PROVE q[n] # q[n - 1]
    <3>1. n \in 1..Len(q) /\ n - 1 \in 1..Len(q) /\ n # n - 1
      OBVIOUS
    <3> QED BY <3>1 DEF OnceEach
  <2> QED BY <2>1 DEF Smooth
<1> QED BY <1>1, UniqueIdle

\* The tail is the rest.
LEMMA OnceTail ==
  ASSUME NEW E, NEW q \in Seq(E), q # <<>>
  PROVE  /\ q = <<q[1]>> \o Tail(q) /\ q[1] \in E /\ Tail(q) \in Seq(E)
         /\ Range(q) = {q[1]} \cup Range(Tail(q))
         /\ OnceEach(q) => OnceEach(Tail(q)) /\ Tail(q) \in Seq(E \ {q[1]})
<1> DEFINE t == Tail(q)
<1>1. /\ t \in Seq(E) /\ Len(q) \in Nat \ {0} /\ Len(t) = Len(q) - 1
      /\ \A i \in 1..(Len(q) - 1) : t[i] = q[i + 1]
      /\ q[1] \in E
  BY TailIs
<1> HIDE DEF t
<1>2. q = <<q[1]>> \o t
  <2> DEFINE r == <<q[1]>> \o t
  <2>1. r \in Seq(E) /\ r[1] = q[1] /\ Len(r) = Len(t) + 1 /\ \A i \in 1..Len(t) : r[i + 1] = t[i]
    BY <1>1, OnTop
  <2> HIDE DEF r
  <2>2. ASSUME NEW i \in 1..Len(r) PROVE r[i] = q[i]
    <3>1. CASE i = 1
      BY <2>1, <3>1
    <3>2. CASE i # 1
      <4>1. i - 1 \in 1..Len(t) /\ (i - 1) + 1 = i
        BY <1>1, <2>1, <3>2
      <4>2. r[i] = t[i - 1]
        BY <2>1, <4>1
      <4>3. t[i - 1] = q[i]
        BY <1>1, <4>1
      <4> QED BY <4>2, <4>3
    <3> QED BY <3>1, <3>2
  <2>3. r = q
    BY <1>1, <2>1, <2>2, SeqEqual
  <2> QED BY <2>3 DEF r
<1>3. Range(q) = {q[1]} \cup Range(t)
  <2>1. DOMAIN q = 1..Len(q) /\ DOMAIN t = 1..Len(t)
    BY <1>1
  <2>2. ASSUME NEW i \in 1..Len(q) PROVE q[i] \in {q[1]} \cup Range(t)
    <3>1. CASE i = 1
      BY <3>1
    <3>2. CASE i # 1
      <4>1. i - 1 \in 1..Len(t) /\ (i - 1) + 1 = i
        BY <1>1, <3>2
      <4>2. t[i - 1] = q[i]
        BY <1>1, <4>1
      <4> QED BY <2>1, <4>1, <4>2 DEF Range
    <3> QED BY <3>1, <3>2
  <2>3. ASSUME NEW i \in 1..Len(t) PROVE t[i] \in Range(q)
    <3>1. i + 1 \in 1..Len(q) /\ t[i] = q[i + 1]
      BY <1>1
    <3> QED BY <2>1, <3>1 DEF Range
  <2>4. q[1] \in Range(q)
    <3>1. 1 \in 1..Len(q)
      BY <1>1
    <3> QED BY <2>1, <3>1 DEF Range
  <2> QED BY <2>1, <2>2, <2>3, <2>4 DEF Range
<1>4. ASSUME OnceEach(q) PROVE OnceEach(t) /\ t \in Seq(E \ {q[1]})
  <2>1. ASSUME NEW i \in 1..Len(t), NEW j \in 1..Len(t), t[i] = t[j] PROVE i = j
    <3>1. i + 1 \in 1..Len(q) /\ j + 1 \in 1..Len(q) /\ q[i + 1] = q[j + 1]
      BY <1>1, <2>1
    <3>2. i + 1 = j + 1
      BY <1>4, <3>1 DEF OnceEach
    <3> QED BY <3>2
  <2>2. ASSUME NEW i \in 1..Len(t) PROVE t[i] \in E \ {q[1]}
    <3>1. i + 1 \in 1..Len(q) /\ 1 \in 1..Len(q) /\ t[i] = q[i + 1] /\ i + 1 # 1
      BY <1>1
    <3>2. q[i + 1] # q[1]
      BY <1>4, <3>1 DEF OnceEach
    <3>3. t[i] \in E
      BY <1>1
    <3> QED BY <3>1, <3>2, <3>3
  <2>3. t \in Seq(E \ {q[1]})
    BY <1>1, <2>2
  <2> QED BY <2>1, <2>3 DEF OnceEach
<1> QED BY <1>1, <1>2, <1>3, <1>4 DEF t

\* A stack has the active environment on top and only active ones, each of them
\* once if none is active twice.
LEMMA StackIs ==
  ASSUME NEW E, NEW s, s.shlvl \in Nat, Actives(s) \in [1..s.shlvl -> E]
  PROVE  /\ Stack(s) \in Seq(E)
         /\ Stack(s) \in Seq({Actives(s)[n] : n \in 1..s.shlvl})
         /\ s.shlvl > 0 => Stack(s) # <<>> /\ Stack(s)[1] = Actives(s)[s.shlvl]
         /\ s.shlvl = 0 => Stack(s) = <<>>
         /\ (\A m, n \in 1..s.shlvl : Actives(s)[m] = Actives(s)[n] => m = n) => OnceEach(Stack(s))
<1> DEFINE N == s.shlvl
           A == Actives(s)
           K == s.stacked
           Upto(m) == {A[n] : n \in 1..m}
           Apart == \A m, n \in 1..N : A[m] = A[n] => m = n
<1>1. PICK f \in [0..N -> Seq(E)] : IsStack(A, K, N, f) /\ Stack(s) = f[N]
  BY StackSolves
<1> DEFINE Good(m) == /\ f[m] \in Seq(Upto(m))
                      /\ m > 0 => f[m] # <<>> /\ f[m][1] = A[m]
                      /\ Apart => OnceEach(f[m])
           T == {m \in 0..N : ~Good(m)}
<1>2. Good(0)
  <2>1. f[0] = <<>>
    BY <1>1 DEF IsStack
  <2>2. <<>> \in Seq(Upto(0)) /\ OnceEach(<<>>)
    BY DEF OnceEach
  <2> QED BY <2>1, <2>2
<1>3. ASSUME NEW m \in 1..N, Good(m - 1) PROVE Good(m)
  <2> DEFINE rest == IF m = 1 \/ m \in K THEN f[m - 1] ELSE Tail(f[m - 1])
             U == Upto(m - 1)
  <2>0. U \subseteq Upto(m) /\ A[m] \in Upto(m)
    <3> HIDE DEF A
    <3> QED OBVIOUS
  <2>1. f[m] = <<A[m]>> \o rest
    <3> HIDE DEF A, K, N
    <3> QED BY <1>1 DEF IsStack
  <2>2. rest \in Seq(U) /\ (Apart => OnceEach(rest))
    <3>1. f[m - 1] \in Seq(U)
      BY <1>3
    <3>2. CASE m = 1 \/ m \in K
      BY <1>3, <3>2
    <3>3. CASE ~(m = 1 \/ m \in K)
      <4>1. f[m - 1] # <<>> /\ rest = Tail(f[m - 1])
        BY <1>3, <3>3
      <4> HIDE DEF U, Apart, rest
      <4>2. Tail(f[m - 1]) \in Seq(U) /\ (OnceEach(f[m - 1]) => OnceEach(Tail(f[m - 1])))
        BY <3>1, <4>1, OnceTail
      <4> QED BY <1>3, <4>1, <4>2
    <3> QED BY <3>2, <3>3
  <2>3. Apart => A[m] \notin U
    <3> HIDE DEF A
    <3>1. ASSUME Apart, NEW n \in 1..(m - 1) PROVE A[n] # A[m]
      <4>1. n \in 1..N /\ n # m
        OBVIOUS
      <4> QED BY <3>1, <4>1
    <3> QED BY <3>1
  <2> HIDE DEF rest, U, A, Apart
  <2> DEFINE V == Upto(m)
  <2>4. rest \in Seq(V) /\ A[m] \in V
    <3> HIDE DEF Upto
    <3>1. U \subseteq V
      BY <2>0
    <3> HIDE DEF V
    <3> QED BY <2>0, <2>2, <3>1 DEF V
  <2> HIDE DEF V
  <2>5. /\ <<A[m]>> \o rest \in Seq(V) /\ <<A[m]>> \o rest # <<>> /\ (<<A[m]>> \o rest)[1] = A[m]
    BY <2>4, OnTop
  <2>6. Apart => OnceEach(<<A[m]>> \o rest)
    <3> SUFFICES ASSUME Apart PROVE OnceEach(<<A[m]>> \o rest)
      OBVIOUS
    <3>1. \A i \in 1..Len(rest) : rest[i] # A[m]
      BY <2>2, <2>3
    <3>2. OnceEach(rest)
      BY <2>2
    <3> QED BY <2>4, <3>1, <3>2, OnceMore
  <2> QED BY <2>1, <2>5, <2>6 DEF V
<1>4. T = {}
  <2> SUFFICES ASSUME T # {} PROVE FALSE
    OBVIOUS
  <2>1. PICK m \in T : \A n \in T : m <= n
    <3>1. T \in SUBSET Nat
      OBVIOUS
    <3> HIDE DEF T
    <3> QED BY <3>1, LeastOf
  <2> HIDE DEF Good
  <2>2. m # 0 /\ m \in 1..N
    BY <1>2
  <2>3. Good(m - 1)
    BY <2>1, <2>2
  <2> QED BY <1>3, <2>1, <2>2, <2>3
<1>5. Good(N) /\ f[N] \in Seq(E) /\ f[0] = <<>>
  <2>1. N \in 0..N /\ 0 \in 0..N
    OBVIOUS
  <2>2. f[0] = <<>>
    BY <1>1 DEF IsStack
  <2> HIDE DEF Good
  <2> QED BY <1>4, <2>1, <2>2
<1> HIDE DEF A
<1> QED BY <1>1, <1>5 DEF A

OneAbove(N, M) == N \in Nat \ {0} /\ M = N - 1

Pile(A, K, n, q) == <<A[n]>> \o IF n = 1 \/ n \in K THEN q ELSE Tail(q)

At(f, n) == f[n]

\* The last step of the recursion.
LEMMA OneMore ==
  ASSUME NEW A, NEW B, NEW K, NEW J, NEW f, NEW h, NEW N, NEW M, OneAbove(N, M),
         IsStack(A, K, N, f), IsStack(B, J, M, h), Alike(A, B, K, J, M)
  PROVE  At(f, N) = Pile(A, K, N, At(h, M))
<1>1. N \in 1..N /\ M \in 0..N /\ N \in Nat /\ M = N - 1
  BY DEF OneAbove
<1>2. f[M] = h[M]
  BY <1>1, SameStack
<1>3. f[N] = <<A[N]>> \o IF N = 1 \/ N \in K THEN f[M] ELSE Tail(f[M])
  BY <1>1 DEF IsStack
<1> QED BY <1>2, <1>3 DEF Pile, At

\* One level more is one environment on top of those below.
LEMMA StackStep ==
  ASSUME NEW E, NEW s, NEW b, s.shlvl \in Nat \ {0}, b.shlvl = s.shlvl - 1,
         Actives(s) \in [1..s.shlvl -> E], Actives(b) \in [1..b.shlvl -> E],
         \A n \in 1..b.shlvl : Actives(s)[n] = Actives(b)[n],
         b.stacked = s.stacked \ {s.shlvl}
  PROVE  Stack(s) = <<Actives(s)[s.shlvl]>> \o
                    IF s.shlvl = 1 \/ s.shlvl \in s.stacked THEN Stack(b) ELSE Tail(Stack(b))
<1> DEFINE N == s.shlvl
           M == b.shlvl
           A == Actives(s)
           B == Actives(b)
<1>0. N \in Nat /\ M \in 0..N /\ M = N - 1 /\ N \in 1..N /\ M \in Nat
  OBVIOUS
<1>1. PICK f \in [0..N -> Seq(E)] : IsStack(A, s.stacked, N, f) /\ Stack(s) = f[N]
  BY <1>0, StackSolves
<1>2. PICK h \in [0..M -> Seq(E)] : IsStack(B, b.stacked, M, h) /\ Stack(b) = h[M]
  BY <1>0, StackSolves
<1>3. \A n \in 1..M : A[n] = B[n] /\ (n \in s.stacked <=> n \in b.stacked)
  <2>1. \A n \in 1..M : n # N
    BY <1>0
  <2> HIDE DEF A, B
  <2> QED BY <2>1 DEF A, B
<1>5. f[N] = Pile(A, s.stacked, N, h[M])
  <2> DEFINE K == s.stacked
             J == b.stacked
  <2>1. OneAbove(N, M)
    BY <1>0 DEF OneAbove
  <2>2. IsStack(A, K, N, f) /\ IsStack(B, J, M, h)
    BY <1>1, <1>2
  <2>3. Alike(A, B, K, J, M)
    BY <1>3 DEF Alike
  <2> HIDE DEF N, M, A, B, K, J
  <2>4. At(f, N) = Pile(A, K, N, At(h, M))
    BY <2>1, <2>2, <2>3, OneMore
  <2> QED BY <2>4 DEF K, At
<1> QED BY <1>1, <1>2, <1>5 DEF Pile

-----------------------------------------------------------------------------
(* What an activation keeps of a shell, and a deactivation makes of it.     *)

Shells ==
    [path : Seq(Environments \cup Dirs), prefix : Environments \cup {NoEnv}, shlvl : 0..MaxShlvl,
     prefixes : [Levels -> Environments \cup {NoEnv}], stacked : SUBSET (2..MaxShlvl),
     v : Environments \cup {"user", Unset},
     saved : [0..MaxShlvl -> Environments \cup {"user", Unset}]]

\* A shell has something of each level up to its own and of no other.
ShellOK(s, V) ==
    /\ s \in Shells
    /\ s.prefix = NoEnv <=> s.shlvl = 0
    /\ \A n \in Levels : s.prefixes[n] = NoEnv <=> n >= s.shlvl
    /\ \A n \in s.stacked : n <= s.shlvl
    /\ s.prefix \in V => s.v = s.prefix
    /\ \A n \in 0..MaxShlvl : n >= s.shlvl => s.saved[n] = Unset

Below(s) == IF s.shlvl = 1 THEN NoEnv ELSE s.prefixes[s.shlvl - 1]

\* What deactivation makes of s, but for the path, is b.
Undoes(s, b, V) ==
    /\ b.shlvl = s.shlvl - 1
    /\ b.prefix = Below(s)
    /\ b.prefixes = IF s.shlvl = 1 THEN s.prefixes ELSE [s.prefixes EXCEPT ![s.shlvl - 1] = NoEnv]
    /\ b.stacked = s.stacked \ {s.shlvl}
    /\ b.v = IF s.prefix \in V
             THEN IF s.saved[s.shlvl - 1] # Unset THEN s.saved[s.shlvl - 1]
                  ELSE IF Below(s) \in V THEN Below(s) ELSE Unset
             ELSE IF Below(s) \in V THEN Below(s) ELSE s.v
    /\ b.saved = IF s.prefix \in V THEN [s.saved EXCEPT ![s.shlvl - 1] = Unset] ELSE s.saved

Undone ==
    /\ setsV \subseteq Environments /\ twice \in BOOLEAN
    /\ entered \in Seq(Shells) /\ shell.shlvl = Len(entered)
    /\ ShellOK(shell, setsV)
    /\ \A i \in 1..Len(entered) : ShellOK(entered[i], setsV) /\ entered[i].shlvl = i - 1
    /\ \A i \in 2..Len(entered) : Undoes(entered[i], entered[i - 1], setsV)
    /\ entered # <<>> => Undoes(shell, entered[Len(entered)], setsV)

\* What stands for no environment and for no value is no environment.
LEMMA NoEnvIsNone == NoEnv \notin Environments /\ Unset \notin Environments /\ MaxShlvl \in Nat \ {0}
BY ActivationConstants

\* A new shell has nothing to undo.
LEMMA UndoneStarts == ActivationInit => Undone
<1> SUFFICES ASSUME ActivationInit PROVE Undone
  OBVIOUS
<1>1. PICK path \in StartPaths, v \in {Unset, "user"} : shell = NewShell(path, v)
  BY DEF ActivationInit
<1>2. path \in Seq(Environments \cup Dirs)
  <2>1. path \in Seq(Range(path)) /\ Range(path) \subseteq Environments \cup Dirs
    BY ActivationConstants DEF Dirs
  <2> QED BY <2>1
<1>3. ShellOK(shell, setsV) /\ shell.shlvl = 0
  <2>1. shell \in Shells /\ shell.shlvl = 0 /\ shell.prefix = NoEnv /\ shell.stacked = {}
        /\ shell.prefixes = [n \in Levels |-> NoEnv] /\ shell.saved = [n \in 0..MaxShlvl |-> Unset]
    BY <1>1, <1>2, NoEnvIsNone DEF NewShell, Shells
  <2>2. NoEnv \notin setsV
    BY NoEnvIsNone DEF ActivationInit
  <2> QED BY <2>1, <2>2, NoEnvIsNone DEF ShellOK, Levels
<1>4. entered = <<>> /\ twice = FALSE /\ setsV \subseteq Environments
  BY DEF ActivationInit
<1>5. entered \in Seq(Shells) /\ Len(entered) = 0
  BY <1>4
<1>6. ASSUME NEW i \in 1..Len(entered) PROVE FALSE
  BY <1>5
<1>7. twice \in BOOLEAN
  BY <1>4
<1> QED BY <1>3, <1>4, <1>5, <1>6, <1>7 DEF Undone

\* What an activation keeps for the deactivation.
LEMMA ActivationIsUndone ==
  ASSUME Undone, NEW env \in Environments, NEW path \in Seq(Environments \cup Dirs), NEW v, NEW stacked,
         OneUp(env, path, v, stacked),
         stacked \in {shell.stacked, shell.stacked \cup {shell.shlvl + 1}},
         shell.shlvl = 0 => stacked = shell.stacked,
         v \in {IF env \in setsV THEN env ELSE shell.v}
               \cup (IF shell.shlvl > 0 THEN {ReplacedV(env)} ELSE {})
  PROVE  ShellOK(shell', setsV) /\ Undoes(shell', shell, setsV) /\ shell'.shlvl = shell.shlvl + 1
<1> DEFINE N == shell.shlvl
<1>1. ShellOK(shell, setsV) /\ shell \in Shells /\ setsV \subseteq Environments
  BY DEF Undone, ShellOK
<1>2. /\ N < MaxShlvl
      /\ shell' = [path |-> path, prefix |-> env, shlvl |-> N + 1, prefixes |-> Remembered,
                   stacked |-> stacked, v |-> v, saved |-> KeptV(env)]
  BY DEF OneUp
<1>3. N \in 0..MaxShlvl /\ N + 1 \in 1..MaxShlvl /\ MaxShlvl \in Nat \ {0} /\ (N > 0 => N \in Levels)
  BY <1>1, <1>2, NoEnvIsNone DEF Shells, Levels
<1>4. /\ Remembered \in [Levels -> Environments \cup {NoEnv}]
      /\ \A n \in Levels : Remembered[n] = NoEnv <=> n >= N + 1
      /\ N > 0 => Remembered[N] = shell.prefix
      /\ shell.prefixes = IF N = 0 THEN Remembered ELSE [Remembered EXCEPT ![N] = NoEnv]
  <2>1. shell.prefixes \in [Levels -> Environments \cup {NoEnv}] /\ shell.prefix \in Environments \cup {NoEnv}
    BY <1>1 DEF Shells
  <2>2. \A n \in Levels : shell.prefixes[n] = NoEnv <=> n >= N
    BY <1>1 DEF ShellOK
  <2>3. CASE N = 0
    <3>1. Remembered = shell.prefixes
      BY <2>3 DEF Remembered
    <3>2. \A n \in Levels : n >= N + 1 /\ n >= N
      BY <2>3 DEF Levels
    <3> QED BY <2>1, <2>2, <2>3, <3>1, <3>2
  <2>4. CASE N > 0
    <3>1. Remembered = [shell.prefixes EXCEPT ![N] = shell.prefix] /\ shell.prefix # NoEnv
      BY <1>1, <1>3, <2>4 DEF Remembered, ShellOK
    <3>2. N \in Levels /\ N \in Nat
      BY <1>3, <2>4
    <3>3. Remembered \in [Levels -> Environments \cup {NoEnv}] /\ Remembered[N] = shell.prefix
      BY <2>1, <3>1, <3>2
    <3>4. ASSUME NEW n \in Levels PROVE Remembered[n] = NoEnv <=> n >= N + 1
      <4>1. CASE n = N
        BY <3>1, <3>2, <3>3, <4>1
      <4>2. CASE n # N
        <5>1. Remembered[n] = shell.prefixes[n]
          BY <2>1, <3>1, <4>2
        <5>2. n \in Nat /\ (n >= N <=> n >= N + 1)
          BY <3>2, <4>2 DEF Levels
        <5> QED BY <2>2, <5>1, <5>2
      <4> QED BY <4>1, <4>2
    <3>5. shell.prefixes[N] = NoEnv
      BY <2>2, <3>2
    <3>6. shell.prefixes = [Remembered EXCEPT ![N] = NoEnv]
      BY <2>1, <3>1, <3>2, <3>5
    <3> QED BY <2>4, <3>2, <3>3, <3>4, <3>6
  <2> QED BY <1>3, <2>3, <2>4
<1>5. /\ KeptV(env) \in [0..MaxShlvl -> Environments \cup {"user", Unset}]
      /\ \A n \in 0..MaxShlvl : n >= N + 1 => KeptV(env)[n] = Unset
      /\ env \in setsV => KeptV(env)[N] = shell.v /\ shell.saved = [KeptV(env) EXCEPT ![N] = Unset]
      /\ env \notin setsV => KeptV(env) = shell.saved
  <2>1. /\ shell.saved \in [0..MaxShlvl -> Environments \cup {"user", Unset}]
        /\ shell.v \in Environments \cup {"user", Unset}
    BY <1>1 DEF Shells
  <2>2. \A n \in 0..MaxShlvl : n >= N => shell.saved[n] = Unset
    BY <1>1 DEF ShellOK
  <2>3. \A n \in 0..MaxShlvl : n >= N + 1 => n >= N /\ n # N
    BY <1>3
  <2>4. CASE env \in setsV /\ shell.v # Unset
    <3>1. KeptV(env) = [shell.saved EXCEPT ![N] = shell.v]
      BY <2>4 DEF KeptV
    <3>2. shell.saved[N] = Unset
      BY <1>3, <2>2
    <3>3. shell.saved = [KeptV(env) EXCEPT ![N] = Unset]
      BY <1>3, <2>1, <3>1, <3>2
    <3>4. /\ KeptV(env) \in [0..MaxShlvl -> Environments \cup {"user", Unset}]
          /\ KeptV(env)[N] = shell.v /\ \A n \in 0..MaxShlvl : n # N => KeptV(env)[n] = shell.saved[n]
      BY <1>3, <2>1, <3>1
    <3> QED BY <2>2, <2>3, <2>4, <3>3, <3>4
  <2>5. CASE ~(env \in setsV /\ shell.v # Unset)
    <3>1. KeptV(env) = shell.saved
      BY <2>5 DEF KeptV
    <3>2. shell.saved[N] = Unset
      BY <1>3, <2>2
    <3>3. shell.saved = [shell.saved EXCEPT ![N] = Unset]
      BY <1>3, <2>1, <3>2
    <3> QED BY <2>1, <2>2, <2>3, <2>5, <3>1, <3>2, <3>3
  <2> QED BY <2>4, <2>5
<1>6. shell.stacked \subseteq 2..MaxShlvl /\ \A n \in shell.stacked : n <= N /\ n # N + 1
  <2>1. shell.stacked \subseteq 2..MaxShlvl /\ \A n \in shell.stacked : n <= N
    BY <1>1 DEF Shells, ShellOK
  <2>2. \A n \in 2..MaxShlvl : n <= N => n # N + 1
    BY <1>3
  <2> QED BY <2>1, <2>2
<1>7. /\ stacked \subseteq 2..MaxShlvl /\ \A n \in stacked : n <= N + 1
      /\ shell.stacked = stacked \ {N + 1}
  <2>1. \A n \in 2..MaxShlvl : n <= N => n <= N + 1
    BY <1>3
  <2>2. N # 0 => N + 1 \in 2..MaxShlvl
    BY <1>3
  <2>3. N + 1 <= N + 1
    BY <1>3
  <2>4. CASE stacked = shell.stacked
    BY <1>6, <2>1, <2>4
  <2>5. CASE stacked = shell.stacked \cup {N + 1} /\ N # 0
    <3>1. stacked \subseteq 2..MaxShlvl
      BY <1>6, <2>2, <2>5
    <3>2. \A n \in stacked : n <= N + 1
      BY <1>6, <2>1, <2>3, <2>5
    <3>3. shell.stacked = stacked \ {N + 1}
      BY <1>6, <2>5
    <3> QED BY <3>1, <3>2, <3>3
  <2> QED BY <2>4, <2>5
<1>8. /\ v \in Environments \cup {"user", Unset} /\ (env \in setsV => v = env)
      /\ env \notin setsV => shell.v = IF shell.prefix \in setsV THEN shell.prefix ELSE v
  <2>1. shell.v \in Environments \cup {"user", Unset} /\ (shell.prefix \in setsV => shell.v = shell.prefix)
    BY <1>1 DEF Shells, ShellOK
  <2>2. CASE v = IF env \in setsV THEN env ELSE shell.v
    BY <2>1, <2>2
  <2>3. CASE N > 0 /\ v = ReplacedV(env)
    <3>1. N - 1 \in 0..MaxShlvl
      BY <1>3, <2>3
    <3>2. shell.saved[N - 1] \in Environments \cup {"user", Unset}
      <4>1. shell.saved \in [0..MaxShlvl -> Environments \cup {"user", Unset}]
        BY <1>1 DEF Shells
      <4> QED BY <3>1, <4>1
    <3>3. CASE env \in setsV
      BY <2>3, <3>3 DEF ReplacedV
    <3>4. CASE env \notin setsV /\ shell.prefix \in setsV
      BY <2>1, <2>3, <3>2, <3>4 DEF ReplacedV
    <3>5. CASE env \notin setsV /\ shell.prefix \notin setsV
      BY <2>1, <2>3, <3>5 DEF ReplacedV
    <3> QED BY <3>3, <3>4, <3>5
  <2> QED BY <2>2, <2>3
<1>9. ShellOK(shell', setsV)
  <2> DEFINE s == shell'
  <2>1. s \in Shells
    BY <1>2, <1>3, <1>4, <1>5, <1>7, <1>8 DEF Shells
  <2>2. /\ s.prefix = env /\ s.shlvl = N + 1 /\ s.prefixes = Remembered /\ s.stacked = stacked
        /\ s.v = v /\ s.saved = KeptV(env)
    BY <1>2
  <2>3. env # NoEnv /\ N + 1 # 0
    BY <1>3, NoEnvIsNone
  <2>4. \A n \in Levels : s.prefixes[n] = NoEnv <=> n >= s.shlvl
    BY <1>4, <2>2
  <2>5. \A n \in 0..MaxShlvl : n >= s.shlvl => s.saved[n] = Unset
    BY <1>5, <2>2
  <2>6. /\ s.prefix = NoEnv <=> s.shlvl = 0
        /\ \A n \in s.stacked : n <= s.shlvl
        /\ s.prefix \in setsV => s.v = s.prefix
    BY <1>7, <1>8, <2>2, <2>3
  <2> HIDE DEF s
  <2>7. ShellOK(s, setsV)
    BY <2>1, <2>4, <2>5, <2>6 DEF ShellOK
  <2> QED BY <2>7 DEF s
<1>10. Undoes(shell', shell, setsV)
  <2> DEFINE s == shell'
  <2>1. /\ s.prefix = env /\ s.shlvl = N + 1 /\ s.prefixes = Remembered /\ s.stacked = stacked
        /\ s.v = v /\ s.saved = KeptV(env)
    BY <1>2
  <2> HIDE DEF s
  <2>2. s.shlvl - 1 = N /\ (s.shlvl = 1 <=> N = 0)
    BY <1>3, <2>1
  <2>3. Below(s) = shell.prefix
    <3>1. N = 0 => shell.prefix = NoEnv
      BY <1>1 DEF ShellOK
    <3>2. N > 0 => s.prefixes[N] = shell.prefix
      BY <1>4, <2>1
    <3> QED BY <1>3, <2>2, <3>1, <3>2 DEF Below
  <2>4. shell.prefixes = IF s.shlvl = 1 THEN s.prefixes ELSE [s.prefixes EXCEPT ![s.shlvl - 1] = NoEnv]
    BY <1>4, <2>1, <2>2
  <2>5. shell.stacked = s.stacked \ {s.shlvl}
    BY <1>7, <2>1
  <2>6. shell.saved = IF s.prefix \in setsV THEN [s.saved EXCEPT ![s.shlvl - 1] = Unset] ELSE s.saved
    BY <1>5, <2>1, <2>2
  <2>7. shell.v = IF s.prefix \in setsV
             THEN IF s.saved[s.shlvl - 1] # Unset THEN s.saved[s.shlvl - 1]
                  ELSE IF Below(s) \in setsV THEN Below(s) ELSE Unset
             ELSE IF Below(s) \in setsV THEN Below(s) ELSE s.v
    <3>1. CASE env \in setsV
      <4>1. s.saved[s.shlvl - 1] = shell.v
        BY <1>5, <2>1, <2>2, <3>1
      <4>2. shell.v = Unset => shell.prefix \notin setsV
        BY <1>1, NoEnvIsNone DEF ShellOK
      <4> QED BY <2>1, <2>3, <3>1, <4>1, <4>2
    <3>2. CASE env \notin setsV
      BY <1>8, <2>1, <2>3, <3>2
    <3> QED BY <3>1, <3>2
  <2>8. Undoes(s, shell, setsV)
    BY <2>2, <2>1, <2>3, <2>4, <2>5, <2>6, <2>7 DEF Undoes
  <2> QED BY <2>8 DEF s
<1> QED BY <1>2, <1>9, <1>10

\* The paths of all three operations.
LEMMA PathsTyped ==
  ASSUME ShellOK(shell, setsV), NEW env \in Environments
  PROVE  /\ AddPrefixToPath(env) \in Seq(Environments \cup Dirs)
         /\ \A d : ReplacePrefixInPath(d, env) \in Seq(Environments \cup Dirs)
         /\ \A d : RemovePrefixFromPath(d) \in Seq(Environments \cup Dirs)
<1> DEFINE A == Environments \cup Dirs
<1>1. shell.path \in Seq(A) /\ env \in A /\ Condabin \in A
  BY DEF ShellOK, Shells, Dirs
<1> HIDE DEF A
<1>2. WithCondabin(shell.path) \in Seq(A)
  BY <1>1 DEF WithCondabin
<1>3. ASSUME NEW q \in Seq(A) PROVE Unique(<<env>> \o q) \in Seq(A) /\ Unique(q) \in Seq(A)
  <2>1. <<env>> \o q \in Seq(A)
    BY <1>1
  <2> QED BY <2>1, UniqueTyped
<1>4. ASSUME NEW d PROVE Without(shell.path, d) \in Seq(A)
  <2>1. Without(shell.path, d) \in Seq(A \ {d})
    BY <1>1, WithoutTyped
  <2> QED BY <2>1
<1>5. AddPrefixToPath(env) \in Seq(A)
  <2>1. CASE shell.shlvl = 0
    BY <1>2, <1>3, <2>1 DEF AddPrefixToPath
  <2>2. CASE shell.shlvl # 0
    BY <1>1, <1>3, <2>2 DEF AddPrefixToPath
  <2> QED BY <2>1, <2>2
<1>6. ASSUME NEW d PROVE ReplacePrefixInPath(d, env) \in Seq(A) /\ RemovePrefixFromPath(d) \in Seq(A)
  BY <1>3, <1>4 DEF ReplacePrefixInPath, RemovePrefixFromPath
<1> QED BY <1>5, <1>6 DEF A

\* A sequence without its last.
LEMMA FrontIs ==
  ASSUME NEW E, NEW q \in Seq(E), q # <<>>
  PROVE  /\ Front(q) \in Seq(E) /\ Len(Front(q)) = Len(q) - 1 /\ Last(q) = q[Len(q)]
         /\ \A i \in 1..(Len(q) - 1) : Front(q)[i] = q[i]
         /\ Len(q) \in Nat \ {0}
<1>1. Len(q) \in Nat \ {0} /\ Last(q) = q[Len(q)] /\ Front(q) = SubSeq(q, 1, Len(q) - 1)
  BY DEF Front, Last
<1>2. /\ SubSeq(q, 1, Len(q) - 1) \in Seq(E) /\ Len(SubSeq(q, 1, Len(q) - 1)) = Len(q) - 1
      /\ \A i \in 1..(Len(q) - 1) : SubSeq(q, 1, Len(q) - 1)[i] = q[i]
  <2> DEFINE m == Len(q) - 1
  <2>1. m \in Int /\ 1 \in Int /\ m \in Nat /\ \A i \in 1..m : q[i] \in E
    BY <1>1
  <2> HIDE DEF m
  <2>2. /\ SubSeq(q, 1, m) \in Seq(E)
        /\ Len(SubSeq(q, 1, m)) = IF 1 <= m THEN m - 1 + 1 ELSE 0
        /\ \A i \in 1..(m - 1 + 1) : SubSeq(q, 1, m)[i] = q[1 + i - 1]
    BY <2>1, SubSeqProperties
  <2>3. Len(SubSeq(q, 1, m)) = m /\ \A i \in 1..m : SubSeq(q, 1, m)[i] = q[i]
    BY <2>1, <2>2
  <2> QED BY <2>2, <2>3 DEF m
<1> QED BY <1>1, <1>2

\* To deactivate gives the shell from before, but for the path.
LEMMA DeactivationUndoes ==
  ASSUME Undone, Deactivate
  PROVE  /\ entered # <<>> /\ entered' = Front(entered)
         /\ LeftPath(Below(shell)) \in Seq(Environments \cup Dirs)
         /\ shell' = [Last(entered) EXCEPT !.path = LeftPath(Below(shell))]
<1> DEFINE b == entered[Len(entered)]
           N == shell.shlvl
<1>1. ShellOK(shell, setsV) /\ shell \in Shells /\ setsV \subseteq Environments
  BY DEF Undone, ShellOK
<1>2. N > 0 /\ N \in 1..MaxShlvl /\ MaxShlvl \in Nat
  BY <1>1, NoEnvIsNone DEF Deactivate, Shells
<1>3. entered # <<>> /\ entered \in Seq(Shells) /\ b \in Shells /\ Last(entered) = b
  <2>1. entered \in Seq(Shells) /\ Len(entered) > 0
    BY <1>2 DEF Undone
  <2> QED BY <2>1 DEF Last
<1>4. Undoes(shell, b, setsV)
  BY <1>3 DEF Undone
<1>5. shell' = [path |-> LeftPath(Below(shell)), prefix |-> Below(shell), shlvl |-> N - 1,
                prefixes |-> IF N = 1 THEN shell.prefixes ELSE [shell.prefixes EXCEPT ![N - 1] = NoEnv],
                stacked |-> shell.stacked \ {N}, v |-> RestoredV(Below(shell)), saved |-> SavedUsed]
  BY DEF Deactivate, Below
<1>6. RestoredV(Below(shell)) = b.v
  BY <1>4 DEF Undoes, RestoredV, ValueOf
<1>7. SavedUsed = b.saved
  BY <1>4 DEF Undoes, SavedUsed
<1>8. /\ b.prefix = Below(shell) /\ b.shlvl = N - 1 /\ b.stacked = shell.stacked \ {N}
      /\ b.prefixes = IF N = 1 THEN shell.prefixes ELSE [shell.prefixes EXCEPT ![N - 1] = NoEnv]
  BY <1>4 DEF Undoes
<1>9. shell' = [b EXCEPT !.path = LeftPath(Below(shell))]
  <2> DEFINE p == LeftPath(Below(shell))
  <2>1. b = [path |-> b.path, prefix |-> b.prefix, shlvl |-> b.shlvl, prefixes |-> b.prefixes,
             stacked |-> b.stacked, v |-> b.v, saved |-> b.saved]
    BY <1>3 DEF Shells
  <2>2. shell' = [path |-> p, prefix |-> b.prefix, shlvl |-> b.shlvl, prefixes |-> b.prefixes,
                  stacked |-> b.stacked, v |-> b.v, saved |-> b.saved]
    <3> HIDE DEF b
    <3> QED BY <1>5, <1>6, <1>7, <1>8
  <2> HIDE DEF b, p
  <2>3. shell' = [b EXCEPT !.path = p]
    BY <2>1, <2>2
  <2> QED BY <2>3 DEF p
<1>10. LeftPath(Below(shell)) \in Seq(Environments \cup Dirs)
  <2>1. CASE Below(shell) = NoEnv \/ shell.shlvl \in shell.stacked
    <3>1. PICK e : e \in Environments
      <4>1. shell.prefix \in Environments \cup {NoEnv} /\ shell.prefix # NoEnv
        BY <1>1, <1>2 DEF ShellOK, Shells
      <4> QED BY <4>1
    <3> QED BY <1>1, <2>1, <3>1, PathsTyped DEF LeftPath
  <2>2. CASE ~(Below(shell) = NoEnv \/ shell.shlvl \in shell.stacked)
    <3>1. Below(shell) \in Environments
      <4>1. b.prefix \in Environments \cup {NoEnv}
        BY <1>3 DEF Shells
      <4> QED BY <1>8, <2>2, <4>1
    <3> QED BY <1>1, <2>2, <3>1, PathsTyped DEF LeftPath
  <2> QED BY <2>1, <2>2
<1>11. entered' = Front(entered)
  BY DEF Deactivate
<1> QED BY <1>3, <1>9, <1>10, <1>11

\* Only the path is different.
OtherPathOf(s, t) == t.path \in Seq(Environments \cup Dirs) /\ t = [s EXCEPT !.path = t.path]

\* To assign the path changes nothing else.
LEMMA OtherPathIs ==
  ASSUME NEW s \in Shells, NEW p \in Seq(Environments \cup Dirs)
  PROVE  OtherPathOf(s, [s EXCEPT !.path = p]) /\ [s EXCEPT !.path = p].path = p
BY DEF OtherPathOf, Shells

\* The path is nothing that Stack, ShellOK or Undoes looks at.
LEMMA OtherPath ==
  ASSUME NEW s \in Shells, NEW V, NEW t, OtherPathOf(s, t)
  PROVE  /\ t \in Shells /\ t.shlvl = s.shlvl /\ t.stacked = s.stacked
         /\ Actives(t) = Actives(s) /\ Below(t) = Below(s)
         /\ ShellOK(s, V) => ShellOK(t, V)
         /\ \A b : Undoes(s, b, V) => Undoes(t, b, V)
<1>1. /\ t \in Shells /\ t.shlvl = s.shlvl /\ t.stacked = s.stacked /\ t.prefix = s.prefix
      /\ t.prefixes = s.prefixes /\ t.v = s.v /\ t.saved = s.saved
  BY DEF Shells, OtherPathOf
<1>2. Actives(t) = Actives(s) /\ Below(t) = Below(s)
  BY <1>1 DEF Actives, Below
<1>3. ShellOK(s, V) => ShellOK(t, V)
  BY <1>1 DEF ShellOK
<1>4. ASSUME NEW b, Undoes(s, b, V) PROVE Undoes(t, b, V)
  BY <1>1, <1>2, <1>4 DEF Undoes
<1> QED BY <1>1, <1>2, <1>3, <1>4

\* Each of the three activations.
LEMMA AnActivationIsUndone ==
  ASSUME Undone, NEW env \in Environments,
         ActivateFirst(env) \/ ActivateStacked(env) \/ ActivateInstead(env)
  PROVE  ShellOK(shell', setsV) /\ Undoes(shell', shell, setsV) /\ shell'.shlvl = shell.shlvl + 1
<1>0. ShellOK(shell, setsV) /\ shell.shlvl = Len(entered) /\ Len(entered) \in Nat
  BY DEF Undone
<1>1. CASE ActivateFirst(env)
  BY <1>0, <1>1, PathsTyped, ActivationIsUndone DEF ActivateFirst
<1>2. CASE ActivateStacked(env)
  <2> DEFINE p == AddPrefixToPath(env)
             v == IF env \in setsV THEN env ELSE shell.v
             K == shell.stacked \cup {shell.shlvl + 1}
  <2>1. /\ OneUp(env, p, v, K) /\ shell.shlvl > 0 /\ p \in Seq(Environments \cup Dirs)
        /\ K \in {shell.stacked, shell.stacked \cup {shell.shlvl + 1}}
        /\ v \in {IF env \in setsV THEN env ELSE shell.v}
                 \cup (IF shell.shlvl > 0 THEN {ReplacedV(env)} ELSE {})
    BY <1>0, <1>2, PathsTyped DEF ActivateStacked
  <2>2. shell.shlvl = 0 => K = shell.stacked
    BY <1>0, <2>1
  <2> HIDE DEF p, v, K
  <2> QED BY <2>1, <2>2, ActivationIsUndone
<1>3. CASE ActivateInstead(env)
  BY <1>0, <1>3, PathsTyped, ActivationIsUndone DEF ActivateInstead
<1> QED BY <1>1, <1>2, <1>3

\* Every step leaves the shells from before to be had again.
LEMMA UndoneStep ==
  ASSUME Undone, [ActivationNext]_activationVars
  PROVE  Undone'
<1>0. /\ setsV \subseteq Environments /\ twice \in BOOLEAN /\ ShellOK(shell, setsV) /\ shell \in Shells
      /\ entered \in Seq(Shells) /\ shell.shlvl = Len(entered) /\ Len(entered) \in Nat
  BY DEF Undone, ShellOK
<1>1. CASE UNCHANGED activationVars
  BY <1>1 DEF Undone, activationVars
<1>2. ASSUME NEW env \in Environments, setsV' = setsV,
             ActivateFirst(env) \/ ActivateStacked(env) \/ ActivateInstead(env)
      PROVE  Undone'
  <2>1. entered' = Append(entered, shell) /\ twice' \in BOOLEAN
    BY <1>2 DEF ActivateFirst, ActivateStacked, ActivateInstead, OneUp
  <2>2. ShellOK(shell', setsV) /\ Undoes(shell', shell, setsV) /\ shell'.shlvl = shell.shlvl + 1
    BY <1>2, AnActivationIsUndone
  <2> DEFINE q == Append(entered, shell)
  <2>3. /\ q \in Seq(Shells) /\ Len(q) = Len(entered) + 1 /\ q[Len(q)] = shell /\ q # <<>>
        /\ \A i \in 1..Len(entered) : q[i] = entered[i]
    BY <1>0
  <2> HIDE DEF q
  <2>4. \A i \in 1..Len(q) : ShellOK(q[i], setsV) /\ q[i].shlvl = i - 1
    <3> TAKE i \in 1..Len(q)
    <3>1. CASE i = Len(q)
      BY <1>0, <2>3, <3>1
    <3>2. CASE i # Len(q)
      <4>1. i \in 1..Len(entered)
        BY <1>0, <2>3, <3>2
      <4> QED BY <2>3, <4>1 DEF Undone
    <3> QED BY <3>1, <3>2
  <2>5. \A i \in 2..Len(q) : Undoes(q[i], q[i - 1], setsV)
    <3> TAKE i \in 2..Len(q)
    <3>1. i - 1 \in 1..Len(entered) /\ q[i - 1] = entered[i - 1]
      BY <1>0, <2>3
    <3>2. CASE i = Len(q)
      <4>1. i - 1 = Len(entered) /\ entered # <<>> /\ q[i] = shell
        BY <1>0, <2>3, <3>1, <3>2
      <4> QED BY <3>1, <4>1 DEF Undone
    <3>3. CASE i # Len(q)
      <4>1. i \in 2..Len(entered) /\ q[i] = entered[i]
        BY <1>0, <2>3, <3>3
      <4> QED BY <3>1, <4>1 DEF Undone
    <3> QED BY <3>2, <3>3
  <2>6. entered' = q
    BY <2>1 DEF q
  <2>7. shell'.shlvl = Len(q)
    BY <1>0, <2>2, <2>3
  <2> QED BY <1>0, <1>2, <2>1, <2>2, <2>3, <2>4, <2>5, <2>6, <2>7 DEF Undone
<1>3. ASSUME Reactivate, setsV' = setsV PROVE Undone'
  <2> DEFINE p == ReplacePrefixInPath(shell.prefix, shell.prefix)
  <2>1. shell.prefix \in Environments
    BY <1>0, <1>3, NoEnvIsNone DEF Reactivate, ShellOK, Shells
  <2>2. p \in Seq(Environments \cup Dirs)
    BY <1>0, <2>1, PathsTyped
  <2>3. shell' = [shell EXCEPT !.path = p] /\ entered' = entered /\ twice' = twice
    BY <1>3 DEF Reactivate
  <2> HIDE DEF p
  <2>4. /\ shell'.shlvl = shell.shlvl /\ ShellOK(shell', setsV)
        /\ \A b : Undoes(shell, b, setsV) => Undoes(shell', b, setsV)
    <3>1. OtherPathOf(shell, shell')
      BY <1>0, <2>2, <2>3, OtherPathIs
    <3> QED BY <1>0, <3>1, OtherPath
  <2> QED BY <1>0, <1>3, <2>3, <2>4 DEF Undone
<1>4. ASSUME Deactivate, setsV' = setsV PROVE Undone'
  <2> DEFINE b == entered[Len(entered)]
             p == LeftPath(Below(shell))
             q == Front(entered)
  <2>1. entered # <<>> /\ entered' = q /\ p \in Seq(Environments \cup Dirs) /\ shell' = [Last(entered) EXCEPT !.path = p]
    BY <1>4, DeactivationUndoes
  <2>2. /\ q \in Seq(Shells) /\ Len(q) = Len(entered) - 1 /\ Last(entered) = b /\ Len(entered) \in Nat \ {0}
        /\ \A i \in 1..(Len(entered) - 1) : q[i] = entered[i]
    BY <1>0, <2>1, FrontIs
  <2> HIDE DEF p, q
  <2>3. ShellOK(b, setsV) /\ b.shlvl = Len(entered) - 1 /\ b \in Shells
    BY <2>2 DEF Undone, ShellOK
  <2>4. Len(entered) > 1 => Undoes(b, q[Len(q)], setsV)
    <3> SUFFICES ASSUME Len(entered) > 1 PROVE Undoes(b, q[Len(q)], setsV)
      OBVIOUS
    <3>1. Len(entered) \in 2..Len(entered) /\ Len(q) \in 1..(Len(entered) - 1)
      BY <2>2
    <3>2. q[Len(q)] = entered[Len(entered) - 1]
      BY <2>2, <3>1
    <3> QED BY <3>1, <3>2 DEF Undone
  <2> HIDE DEF b
  <2>5. /\ shell'.shlvl = b.shlvl /\ ShellOK(shell', setsV)
        /\ \A c : Undoes(b, c, setsV) => Undoes(shell', c, setsV)
    <3>1. OtherPathOf(b, shell')
      BY <2>1, <2>2, <2>3, OtherPathIs
    <3> QED BY <2>3, <3>1, OtherPath
  <2>6. twice' \in BOOLEAN
    BY <1>0, <1>4 DEF Deactivate
  <2>7. \A i \in 1..Len(q) : ShellOK(q[i], setsV) /\ q[i].shlvl = i - 1
    BY <2>2 DEF Undone
  <2>8. \A i \in 2..Len(q) : Undoes(q[i], q[i - 1], setsV)
    <3> TAKE i \in 2..Len(q)
    <3>1. i \in 2..Len(entered) /\ i \in 1..(Len(entered) - 1) /\ i - 1 \in 1..(Len(entered) - 1)
      BY <2>2
    <3> QED BY <2>2, <3>1 DEF Undone
  <2>9. q # <<>> => Undoes(shell', q[Len(q)], setsV)
    BY <2>2, <2>4, <2>5
  <2> QED BY <1>0, <1>4, <2>1, <2>2, <2>3, <2>5, <2>6, <2>7, <2>8, <2>9 DEF Undone
<1> QED BY <1>1, <1>2, <1>3, <1>4 DEF ActivationNext

-----------------------------------------------------------------------------
(* What the three changes make of a path that has environments of a stack   *)
(* in front of what the first activation left.                              *)

Joined(q, own) == q \o own
InFrontOf(p, S, own) == \E q \in Seq(S) : p = Joined(q, own)
Added(p, e) == Unique(<<e>> \o p)
PathReplaced(p, d, e) == Unique(<<e>> \o Without(p, d))
Removed(p, d) == Unique(Without(p, d))

\* A sequence of those it has.
LEMMA OnlyOf ==
  ASSUME NEW E, NEW S, NEW q \in Seq(E), \A i \in 1..Len(q) : q[i] \in S
  PROVE  q \in Seq(S)
OBVIOUS

\* What a sequence has.
LEMMA RangeOf ==
  ASSUME NEW E, NEW q \in Seq(E)
  PROVE  /\ Range(q) \subseteq E /\ q \in Seq(Range(q))
         /\ \A x : x \in Range(q) <=> \E i \in 1..Len(q) : q[i] = x
<1>1. \A x : x \in Range(q) <=> \E i \in 1..Len(q) : q[i] = x
  BY DEF Range
<1>2. Range(q) \subseteq E
  BY <1>1
<1>3. q \in Seq(Range(q))
  <2>1. \A i \in 1..Len(q) : q[i] \in Range(q)
    BY <1>1
  <2> QED BY <2>1, OnlyOf
<1> QED BY <1>1, <1>2, <1>3

\* An environment in front of all.
LEMMA Adding ==
  ASSUME NEW own \in Seq(Dirs), Smooth(own), NEW E \in SUBSET Environments, NEW e \in Environments,
         NEW p, InFrontOf(p, E, own)
  PROVE  /\ InFrontOf(Added(p, e), {e} \cup E, own)
         /\ \A q \in Seq(E) : p = Joined(q, own) /\ OnceEach(q) /\ e \notin E
                                  => Added(p, e) = Joined(<<e>> \o q, own)
<1>1. ASSUME NEW q \in Seq(E), p = Joined(q, own)
      PROVE  /\ Added(p, e) = Joined(Unique(<<e>> \o q), own) /\ Unique(<<e>> \o q) \in Seq({e} \cup E)
             /\ OnceEach(q) /\ e \notin E => Unique(<<e>> \o q) = <<e>> \o q
  <2>1. q \in Seq(Environments)
    OBVIOUS
  <2>2. Unique(<<e>> \o (q \o own)) = Unique(<<e>> \o q) \o own
    BY <2>1, InFront
  <2>3. <<e>> \o q \in Seq({e} \cup E)
    <3>1. e \in {e} \cup E /\ q \in Seq({e} \cup E)
      OBVIOUS
    <3> QED BY <3>1, OnTop
  <2>4. Unique(<<e>> \o q) \in Seq({e} \cup E)
    BY <2>3, UniqueTyped
  <2>5. ASSUME OnceEach(q), e \notin E PROVE Unique(<<e>> \o q) = <<e>> \o q
    <3>1. \A i \in 1..Len(q) : q[i] # e
      BY <2>5
    <3>2. OnceEach(<<e>> \o q)
      BY <2>1, <2>5, <3>1, OnceMore
    <3> QED BY <2>3, <3>2, OnceSmooth
  <2> QED BY <1>1, <2>2, <2>4, <2>5 DEF Added, Joined
<1>2. InFrontOf(Added(p, e), {e} \cup E, own)
  <2>1. PICK q \in Seq(E) : p = Joined(q, own)
    BY DEF InFrontOf
  <2>2. Added(p, e) = Joined(Unique(<<e>> \o q), own) /\ Unique(<<e>> \o q) \in Seq({e} \cup E)
    BY <1>1, <2>1
  <2> QED BY <2>2 DEF InFrontOf
<1>3. ASSUME NEW q \in Seq(E), p = Joined(q, own), OnceEach(q), e \notin E
      PROVE  Added(p, e) = Joined(<<e>> \o q, own)
  <2>1. Added(p, e) = Joined(Unique(<<e>> \o q), own) /\ Unique(<<e>> \o q) = <<e>> \o q
    BY <1>1, <1>3
  <2> QED BY <2>1
<1> QED BY <1>2, <1>3

\* What is left of a path when the environment on top of the stack is removed.
LEMMA Removing ==
  ASSUME NEW own \in Seq(Dirs), Smooth(own), NEW q \in Seq(Environments), q # <<>>,
         NEW p, InFrontOf(p, Range(q), own)
  PROVE  /\ InFrontOf(Without(p, q[1]), Range(Tail(q)), own)
         /\ p = Joined(q, own) /\ OnceEach(q) => Without(p, q[1]) = Joined(Tail(q), own)
<1> DEFINE d == q[1]
           t == Tail(q)
<1>1. /\ q = <<d>> \o t /\ d \in Environments /\ t \in Seq(Environments)
      /\ Range(q) = {d} \cup Range(t)
      /\ OnceEach(q) => OnceEach(t) /\ t \in Seq(Environments \ {d})
  BY OnceTail
<1> HIDE DEF d, t
<1>2. ASSUME NEW r \in Seq(Range(q)), p = Joined(r, own)
      PROVE  Without(p, d) = Joined(Without(r, d), own) /\ Without(r, d) \in Seq(Range(t))
  <2>1. r \in Seq(Environments)
    <3>1. Range(q) \subseteq Environments
      BY RangeOf
    <3> QED BY <3>1
  <2>2. Without(r \o own, d) = Without(r, d) \o own
    BY <1>1, <2>1, InFront
  <2>3. Without(r, d) \in Seq(Range(q) \ {d})
    BY WithoutTyped
  <2>4. Range(q) \ {d} \subseteq Range(t)
    BY <1>1
  <2>5. Without(r, d) \in Seq(Range(t))
    BY <2>3, <2>4
  <2> QED BY <1>2, <2>2, <2>5 DEF Joined
<1>3. InFrontOf(Without(p, d), Range(t), own)
  <2>1. PICK r \in Seq(Range(q)) : p = Joined(r, own)
    BY DEF InFrontOf
  <2>2. Without(p, d) = Joined(Without(r, d), own) /\ Without(r, d) \in Seq(Range(t))
    BY <1>2, <2>1
  <2> QED BY <2>2 DEF InFrontOf
<1>4. ASSUME p = Joined(q, own), OnceEach(q) PROVE Without(p, d) = Joined(t, own)
  <2>1. q \in Seq(Range(q))
    BY RangeOf
  <2>2. Without(p, d) = Joined(Without(q, d), own)
    BY <1>2, <1>4, <2>1
  <2>3. Without(q, d) = t
    <3>1. t \in Seq(Environments \ {d})
      BY <1>1, <1>4
    <3>2. Without(t, d) = t
      <4>1. \A i \in 1..Len(t) : t[i] # d
        BY <3>1
      <4> QED BY <1>1, <4>1, WithoutIdle
    <3>3. <<d>> \in Seq(Environments)
      BY <1>1
    <3>4. Without(<<d>> \o t, d) = Without(<<d>>, d) \o Without(t, d)
      <4> DEFINE x == <<d>>
                 E == Environments
      <4>1. x \in Seq(E) /\ t \in Seq(E)
        BY <1>1, <3>3
      <4> HIDE DEF x, E
      <4>2. Without(x \o t, d) = Without(x, d) \o Without(t, d)
        BY <4>1, WithoutBoth
      <4> QED BY <4>2 DEF x
    <3>5. Without(<<d>>, d) = <<>>
      <4>1. <<d>> \in Seq({d})
        OBVIOUS
      <4>2. Without(<<d>>, d) \in Seq({d} \ {d})
        BY <4>1, WithoutTyped
      <4>3. {d} \ {d} = {}
        OBVIOUS
      <4>4. Without(<<d>>, d) \in Seq({})
        BY <4>2, <4>3
      <4> QED BY <4>4
    <3>6. <<>> \o t = t
      BY <1>1
    <3> QED BY <1>1, <3>2, <3>4, <3>5, <3>6
  <2> QED BY <2>2, <2>3
<1> QED BY <1>3, <1>4 DEF d, t

\* Nothing is repeated in what is left.
LEMMA RemovedPath ==
  ASSUME NEW own \in Seq(Dirs), Smooth(own), NEW q \in Seq(Environments), q # <<>>,
         NEW p, InFrontOf(p, Range(q), own)
  PROVE  /\ InFrontOf(Removed(p, q[1]), Range(Tail(q)), own)
         /\ p = Joined(q, own) /\ OnceEach(q) => Removed(p, q[1]) = Joined(Tail(q), own)
<1> DEFINE d == q[1]
           t == Tail(q)
           w == Without(p, d)
<1>1. /\ d \in Environments /\ t \in Seq(Environments)
      /\ OnceEach(q) => OnceEach(t)
  BY OnceTail
<1>2. /\ InFrontOf(w, Range(t), own)
      /\ p = Joined(q, own) /\ OnceEach(q) => w = Joined(t, own)
  BY Removing
<1>3. Removed(p, d) = Unique(w)
  BY DEF Removed
<1> HIDE DEF d, t, w
<1>4. ASSUME NEW r \in Seq(Range(t)), w = Joined(r, own)
      PROVE  Unique(w) = Joined(Unique(r), own) /\ Unique(r) \in Seq(Range(t))
  <2>1. r \in Seq(Environments)
    <3>1. Range(t) \subseteq Environments
      BY <1>1, RangeOf
    <3> QED BY <3>1
  <2>2. Unique(r \o own) = Unique(r) \o own
    BY <1>1, <2>1, InFront
  <2>3. Unique(r) \in Seq(Range(t))
    BY UniqueTyped
  <2> QED BY <1>4, <2>2, <2>3 DEF Joined
<1>5. InFrontOf(Unique(w), Range(t), own)
  <2>1. PICK r \in Seq(Range(t)) : w = Joined(r, own)
    BY <1>2 DEF InFrontOf
  <2>2. Unique(w) = Joined(Unique(r), own) /\ Unique(r) \in Seq(Range(t))
    BY <1>4, <2>1
  <2> QED BY <2>2 DEF InFrontOf
<1>6. ASSUME p = Joined(q, own), OnceEach(q) PROVE Unique(w) = Joined(t, own)
  <2>1. t \in Seq(Range(t))
    BY <1>1, RangeOf
  <2>2. w = Joined(t, own) /\ OnceEach(t)
    BY <1>1, <1>2, <1>6
  <2>3. Unique(w) = Joined(Unique(t), own)
    BY <1>4, <2>1, <2>2
  <2>4. Unique(t) = t
    BY <1>1, <2>2, OnceSmooth
  <2> QED BY <2>3, <2>4
<1> QED BY <1>3, <1>5, <1>6 DEF d, t

\* Another environment in place of the one on top of the stack.
LEMMA ReplacedPath ==
  ASSUME NEW own \in Seq(Dirs), Smooth(own), NEW q \in Seq(Environments), q # <<>>,
         NEW e \in Environments, NEW p, InFrontOf(p, Range(q), own)
  PROVE  /\ InFrontOf(PathReplaced(p, q[1], e), {e} \cup Range(Tail(q)), own)
         /\ p = Joined(q, own) /\ OnceEach(q) /\ e \notin Range(Tail(q)) =>
               PathReplaced(p, q[1], e) = Joined(<<e>> \o Tail(q), own)
<1> DEFINE d == q[1]
           t == Tail(q)
           w == Without(p, d)
<1>1. /\ d \in Environments /\ t \in Seq(Environments)
      /\ OnceEach(q) => OnceEach(t)
  BY OnceTail
<1>2. /\ InFrontOf(w, Range(t), own)
      /\ p = Joined(q, own) /\ OnceEach(q) => w = Joined(t, own)
  BY Removing
<1>3. PathReplaced(p, d, e) = Added(w, e)
  BY DEF PathReplaced, Added
<1> HIDE DEF d, t, w
<1>4. Range(t) \in SUBSET Environments /\ t \in Seq(Range(t))
  BY <1>1, RangeOf
<1>5. /\ InFrontOf(Added(w, e), {e} \cup Range(t), own)
      /\ w = Joined(t, own) /\ OnceEach(t) /\ e \notin Range(t) => Added(w, e) = Joined(<<e>> \o t, own)
  BY <1>2, <1>4, Adding
<1> QED BY <1>1, <1>2, <1>3, <1>5 DEF d, t

-----------------------------------------------------------------------------
(* The stack of a shell and of the one before it.                           *)

\* No environment is active twice.
Apart(s) == \A m, n \in 1..s.shlvl : Actives(s)[m] = Actives(s)[n] => m = n

\* The active environments are environments, the last of them the prefix.
LEMMA ActivesAre ==
  ASSUME NEW s, NEW V, ShellOK(s, V)
  PROVE  /\ Actives(s) \in [1..s.shlvl -> Environments] /\ s.shlvl \in Nat
         /\ s.shlvl > 0 => s.prefix \in Environments /\ Actives(s)[s.shlvl] = s.prefix
<1>1. /\ s.shlvl \in 0..MaxShlvl /\ MaxShlvl \in Nat /\ s.prefix \in Environments \cup {NoEnv}
      /\ s.prefixes \in [Levels -> Environments \cup {NoEnv}]
  BY NoEnvIsNone DEF ShellOK, Shells
<1>2. s.shlvl > 0 => s.prefix \in Environments
  BY <1>1 DEF ShellOK
<1>3. ASSUME NEW n \in 1..s.shlvl, n # s.shlvl PROVE s.prefixes[n] \in Environments
  <2>1. n \in Levels /\ ~(n >= s.shlvl)
    BY <1>1, <1>3 DEF Levels
  <2>2. s.prefixes[n] # NoEnv
    BY <2>1 DEF ShellOK
  <2> QED BY <1>1, <2>1, <2>2
<1>4. ASSUME NEW n \in 1..s.shlvl
      PROVE (IF n = s.shlvl THEN s.prefix ELSE s.prefixes[n]) \in Environments
  <2>1. s.shlvl > 0
    BY <1>1
  <2> QED BY <1>2, <1>3, <2>1
<1> QED BY <1>1, <1>2, <1>4 DEF Actives

\* The stack of a shell in which an environment is active.
LEMMA ShellStack ==
  ASSUME NEW s, NEW V, ShellOK(s, V), s.shlvl > 0
  PROVE  /\ Stack(s) \in Seq(Environments) /\ Stack(s) # <<>> /\ Stack(s)[1] = s.prefix
         /\ s.prefix \in Environments /\ s.shlvl \in Nat \ {0}
         /\ Range(Stack(s)) \subseteq Range(Actives(s))
         /\ Apart(s) => OnceEach(Stack(s))
<1>1. /\ Actives(s) \in [1..s.shlvl -> Environments] /\ s.shlvl \in Nat
      /\ s.prefix \in Environments /\ Actives(s)[s.shlvl] = s.prefix
  BY ActivesAre
<1> DEFINE R == {Actives(s)[n] : n \in 1..s.shlvl}
<1>2. /\ Stack(s) \in Seq(Environments) /\ Stack(s) \in Seq(R)
      /\ Stack(s) # <<>> /\ Stack(s)[1] = s.prefix
      /\ Apart(s) => OnceEach(Stack(s))
  BY <1>1, StackIs DEF Apart
<1>3. R = Range(Actives(s))
  BY <1>1 DEF Range
<1> HIDE DEF R
<1>4. Range(Stack(s)) \subseteq R
  BY <1>2, RangeOf
<1> QED BY <1>1, <1>2, <1>3, <1>4

\* An activation adds one to the active environments.
LEMMA ActivesOver ==
  ASSUME NEW s, NEW b, NEW V, ShellOK(s, V), ShellOK(b, V), Undoes(s, b, V), s.shlvl > 0
  PROVE  /\ b.shlvl = s.shlvl - 1 /\ s.shlvl \in Nat \ {0} /\ b.shlvl \in Nat
         /\ \A n \in 1..b.shlvl : Actives(s)[n] = Actives(b)[n]
         /\ Apart(s) => Apart(b)
         /\ Apart(b) /\ s.prefix \notin Range(Actives(b)) => Apart(s)
<1>1. /\ Actives(s) \in [1..s.shlvl -> Environments] /\ s.shlvl \in Nat
      /\ Actives(s)[s.shlvl] = s.prefix
      /\ Actives(b) \in [1..b.shlvl -> Environments]
      /\ s.shlvl \in 0..MaxShlvl /\ MaxShlvl \in Nat
      /\ s.prefixes \in [Levels -> Environments \cup {NoEnv}]
  BY ActivesAre, NoEnvIsNone DEF ShellOK, Shells
<1>2. b.shlvl = s.shlvl - 1 /\ b.prefix = Below(s)
  BY DEF Undoes
<1>3. ASSUME NEW n \in 1..b.shlvl PROVE Actives(s)[n] = Actives(b)[n]
  <2>1. n \in 1..s.shlvl /\ n # s.shlvl /\ s.shlvl # 1 /\ n \in Levels
    BY <1>1, <1>2 DEF Levels
  <2>2. Actives(s)[n] = s.prefixes[n]
    BY <2>1 DEF Actives
  <2>3. CASE n = b.shlvl
    <3>1. Actives(b)[n] = b.prefix
      BY <2>3 DEF Actives
    <3>2. b.prefix = s.prefixes[n]
      BY <1>2, <2>1, <2>3 DEF Below
    <3> QED BY <2>2, <3>1, <3>2
  <2>4. CASE n # b.shlvl
    <3>1. Actives(b)[n] = b.prefixes[n]
      BY <2>4 DEF Actives
    <3>2. b.prefixes = [s.prefixes EXCEPT ![s.shlvl - 1] = NoEnv]
      BY <2>1 DEF Undoes
    <3>3. b.prefixes[n] = s.prefixes[n]
      BY <1>1, <1>2, <2>1, <2>4, <3>2
    <3> QED BY <2>2, <3>1, <3>3
  <2> QED BY <2>3, <2>4
<1>4. ASSUME Apart(s) PROVE Apart(b)
  <2>1. ASSUME NEW m \in 1..b.shlvl, NEW n \in 1..b.shlvl, Actives(b)[m] = Actives(b)[n] PROVE m = n
    <3>1. m \in 1..s.shlvl /\ n \in 1..s.shlvl
      BY <1>1, <1>2
    <3>2. Actives(s)[m] = Actives(s)[n]
      BY <1>3, <2>1
    <3> QED BY <1>4, <3>1, <3>2 DEF Apart
  <2> QED BY <2>1 DEF Apart
<1>5. ASSUME Apart(b), s.prefix \notin Range(Actives(b)) PROVE Apart(s)
  <2>1. ASSUME NEW m \in 1..b.shlvl PROVE Actives(s)[m] # s.prefix
    <3>1. Actives(b)[m] \in Range(Actives(b))
      BY <1>1 DEF Range
    <3> QED BY <1>3, <1>5, <3>1
  <2>2. \A m \in 1..s.shlvl : m # s.shlvl => m \in 1..b.shlvl
    BY <1>1, <1>2
  <2>3. ASSUME NEW m \in 1..s.shlvl, NEW n \in 1..s.shlvl, Actives(s)[m] = Actives(s)[n] PROVE m = n
    <3>1. CASE m # s.shlvl /\ n # s.shlvl
      <4>1. m \in 1..b.shlvl /\ n \in 1..b.shlvl
        BY <2>2, <3>1
      <4>2. Actives(b)[m] = Actives(b)[n]
        BY <1>3, <2>3, <4>1
      <4> QED BY <1>5, <4>1, <4>2 DEF Apart
    <3>2. CASE m = s.shlvl /\ n # s.shlvl
      BY <1>1, <2>1, <2>2, <2>3, <3>2
    <3>3. CASE m # s.shlvl /\ n = s.shlvl
      BY <1>1, <2>1, <2>2, <2>3, <3>3
    <3> QED BY <3>1, <3>2, <3>3
  <2> QED BY <2>3 DEF Apart
<1> QED BY <1>1, <1>2, <1>3, <1>4, <1>5

\* The stack over the one below.
LEMMA StackOver ==
  ASSUME NEW s, NEW b, NEW V, ShellOK(s, V), ShellOK(b, V), Undoes(s, b, V), s.shlvl > 0
  PROVE  /\ s.shlvl = 1 => Stack(s) = <<s.prefix>> /\ Stack(b) = <<>> /\ Tail(Stack(s)) = <<>>
         /\ s.shlvl # 1 /\ s.shlvl \in s.stacked =>
               Stack(s) = <<s.prefix>> \o Stack(b) /\ Tail(Stack(s)) = Stack(b)
         /\ s.shlvl # 1 /\ s.shlvl \notin s.stacked =>
               Stack(s) = <<s.prefix>> \o Tail(Stack(b)) /\ Tail(Stack(s)) = Tail(Stack(b))
               /\ Stack(b) = <<b.prefix>> \o Tail(Stack(b))
<1>1. /\ Actives(s) \in [1..s.shlvl -> Environments] /\ Actives(b) \in [1..b.shlvl -> Environments]
      /\ s.prefix \in Environments /\ Actives(s)[s.shlvl] = s.prefix
  BY ActivesAre
<1>2. /\ b.shlvl = s.shlvl - 1 /\ s.shlvl \in Nat \ {0} /\ b.shlvl \in Nat
      /\ \A n \in 1..b.shlvl : Actives(s)[n] = Actives(b)[n]
  BY ActivesOver
<1>3. b.stacked = s.stacked \ {s.shlvl}
  BY DEF Undoes
<1>4. Stack(s) = <<s.prefix>> \o IF s.shlvl = 1 \/ s.shlvl \in s.stacked THEN Stack(b) ELSE Tail(Stack(b))
  BY <1>1, <1>2, <1>3, StackStep
<1>5. Stack(b) \in Seq(Environments) /\ (b.shlvl = 0 => Stack(b) = <<>>)
  BY <1>1, <1>2, StackIs
<1>6. CASE s.shlvl = 1
  <2>1. Stack(b) = <<>>
    BY <1>2, <1>5, <1>6
  <2>2. Stack(s) = <<s.prefix>> \o <<>>
    BY <1>4, <1>6, <2>1
  <2>3. <<s.prefix>> \o <<>> = <<s.prefix>> /\ Tail(<<s.prefix>>) = <<>>
    BY <1>1
  <2> QED BY <1>6, <2>1, <2>2, <2>3
<1>7. CASE s.shlvl # 1 /\ s.shlvl \in s.stacked
  <2>1. Stack(s) = <<s.prefix>> \o Stack(b)
    BY <1>4, <1>7
  <2>2. Tail(<<s.prefix>> \o Stack(b)) = Stack(b)
    BY <1>1, <1>5, OnTop
  <2> QED BY <1>7, <2>1, <2>2
<1>8. CASE s.shlvl # 1 /\ s.shlvl \notin s.stacked
  <2>1. Stack(s) = <<s.prefix>> \o Tail(Stack(b))
    BY <1>4, <1>8
  <2>2. Stack(b) # <<>> /\ Stack(b)[1] = b.prefix
    BY <1>2, <1>8, ShellStack
  <2>3. Tail(Stack(b)) \in Seq(Environments) /\ Stack(b) = <<Stack(b)[1]>> \o Tail(Stack(b))
    BY <1>5, <2>2, OnceTail
  <2>4. Tail(<<s.prefix>> \o Tail(Stack(b))) = Tail(Stack(b))
    <3> DEFINE x == s.prefix
               t == Tail(Stack(b))
               E == Environments
    <3>1. x \in E /\ t \in Seq(E)
      BY <1>1, <2>3
    <3> HIDE DEF x, t, E
    <3>2. Tail(<<x>> \o t) = t
      BY <3>1, OnTop
    <3> QED BY <3>2 DEF x, t
  <2> QED BY <1>8, <2>1, <2>2, <2>3, <2>4
<1> QED BY <1>6, <1>7, <1>8

-----------------------------------------------------------------------------
(* PATH, from the first activation on.                                      *)

Own == OwnPath(entered[1].path)

\* The path is what the first activation found, behind environments of the stack,
\* and exactly the stack as long as no environment was active twice.
PathInv ==
    /\ entered = <<>> => shell.path \in StartPaths \cup Owns /\ ~twice
    /\ entered # <<>> =>
          /\ entered[1].path \in StartPaths \cup Owns
          /\ InFrontOf(shell.path, Range(Stack(shell)), Own)
          /\ ~twice =>
                /\ shell.path = Joined(Stack(shell), Own) /\ Apart(shell)
                /\ \A i \in 2..Len(entered) : entered[i].path = Joined(Stack(entered[i]), Own)

\* The stack is made of the levels only.
LEMMA SameStackOf ==
  ASSUME NEW s, NEW t, t.shlvl = s.shlvl, t.stacked = s.stacked, Actives(t) = Actives(s)
  PROVE  Stack(t) = Stack(s)
BY DEF Stack

\* The path of a new shell is a start path.
LEMMA PathStarts == ActivationInit => PathInv
<1> SUFFICES ASSUME ActivationInit PROVE PathInv
  OBVIOUS
<1>1. PICK path \in StartPaths, v \in {Unset, "user"} : shell = NewShell(path, v)
  BY DEF ActivationInit
<1>2. shell.path = path
  BY <1>1 DEF NewShell
<1> QED BY <1>2 DEF ActivationInit, PathInv

\* What an activation makes of PATH.
LEMMA ActivatedPath ==
  ASSUME Undone, PathInv, NEW env \in Environments, NEW path, NEW v, NEW stacked,
         OneUp(env, path, v, stacked), ShellOK(shell', setsV), Undoes(shell', shell, setsV),
         \/ shell.shlvl = 0 /\ path = AddPrefixToPath(env)
         \/ /\ shell.shlvl > 0 /\ stacked = shell.stacked \cup {shell.shlvl + 1}
            /\ path = AddPrefixToPath(env)
         \/ /\ shell.shlvl > 0 /\ stacked = shell.stacked
            /\ path = ReplacePrefixInPath(shell.prefix, env)
  PROVE  PathInv'
<1> DEFINE s == shell'
           b == shell
           N == shell.shlvl
<1>1. /\ ShellOK(b, setsV) /\ b \in Shells /\ N = Len(entered) /\ entered \in Seq(Shells) /\ N \in Nat
  BY DEF Undone, ShellOK
<1>2. /\ entered' = Append(entered, shell) /\ twice' = (twice \/ env \in Range(Actives(shell)))
      /\ s.prefix = env /\ s.shlvl = N + 1 /\ s.stacked = stacked /\ s.path = path
  BY DEF OneUp
<1>3. /\ ShellOK(s, setsV) /\ Undoes(s, b, setsV) /\ s.shlvl > 0 /\ (s.shlvl = 1 <=> N = 0)
  BY <1>1, <1>2
<1> HIDE DEF s
<1>4. Apart(b) /\ env \notin Range(Actives(b)) => Apart(s)
  BY <1>1, <1>2, <1>3, ActivesOver
<1>5. CASE N = 0
  <2>1. entered = <<>> /\ b.path \in StartPaths \cup Owns /\ entered' = <<shell>>
    <3>1. entered = <<>>
      <4>1. entered \in Seq(Shells) /\ Len(entered) = 0
        BY <1>1, <1>5
      <4> QED BY <4>1, EmptySeq
    <3>2. b.path \in StartPaths \cup Owns
      BY <3>1 DEF PathInv
    <3>3. Append(<<>>, shell) = <<shell>>
      OBVIOUS
    <3> QED BY <1>2, <3>1, <3>2, <3>3
  <2> DEFINE w == WithCondabin(b.path)
             own == OwnPath(b.path)
             e == <<env>>
  <2>2. w \in Seq(Dirs) /\ own = Unique(w) /\ e \in Seq(Environments)
    BY <2>1, OwnIs DEF OwnPath
  <2>3. Unique(e \o w) = Unique(e) \o Unique(w)
    <3> HIDE DEF w, e
    <3> QED BY <2>2, DirsAreOther, UniqueBoth
  <2>4. Unique(e) = e
    <3>1. OnceEach(e)
      BY DEF OnceEach
    <3> QED BY <2>2, <3>1, OnceSmooth
  <2>5. path = Unique(e \o w)
    BY <1>5 DEF AddPrefixToPath
  <2>6. s.path = Joined(e, own)
    BY <1>2, <2>2, <2>3, <2>4, <2>5 DEF Joined
  <2>7. Stack(s) = e
    BY <1>1, <1>2, <1>3, <1>5, StackOver
  <2>8. Apart(s)
    <3>1. Apart(b) /\ Range(Actives(b)) = {}
      BY <1>5 DEF Apart, Actives, Range
    <3> QED BY <1>4, <3>1
  <2>9. InFrontOf(s.path, Range(Stack(s)), own)
    <3>1. e \in Seq(Range(e))
      BY <2>2, RangeOf
    <3> QED BY <2>6, <2>7, <3>1 DEF InFrontOf
  <2>10. entered' # <<>> /\ entered'[1] = b /\ Len(entered') = 1
    BY <2>1
  <2> HIDE DEF own, e, w
  <2>11. Own' = own
    BY <2>10 DEF Own, own
  <2>12. \A i \in 2..Len(entered') : FALSE
    BY <2>10
  <2> QED BY <2>1, <2>6, <2>7, <2>8, <2>9, <2>10, <2>11, <2>12 DEF PathInv, s
<1>6. CASE N > 0
  <2> DEFINE own == Own
             q == Stack(b)
  <2>1. /\ entered # <<>> /\ entered[1].path \in StartPaths \cup Owns
        /\ InFrontOf(b.path, Range(q), own)
        /\ ~twice => b.path = Joined(q, own) /\ Apart(b)
                     /\ \A i \in 2..Len(entered) : entered[i].path = Joined(Stack(entered[i]), own)
    BY <1>1, <1>6 DEF PathInv
  <2>2. own \in Seq(Dirs) /\ Smooth(own)
    BY <2>1, OwnIs DEF Own
  <2>3. /\ q \in Seq(Environments) /\ q # <<>> /\ q[1] = b.prefix
        /\ Range(q) \subseteq Range(Actives(b)) /\ (Apart(b) => OnceEach(q))
    BY <1>1, <1>6, ShellStack
  <2>4. Stack(s) \in Seq(Environments) /\ Stack(s) # <<>> /\ Stack(s)[1] = env
    BY <1>2, <1>3, ShellStack
  <2>5. Range(Stack(s)) = {env} \cup Range(Tail(Stack(s)))
    BY <2>4, OnceTail
  <2>6. Range(q) \in SUBSET Environments /\ q \in Seq(Range(q))
    BY <2>3, RangeOf
  <2> HIDE DEF q, own
  <2>7. /\ InFrontOf(s.path, Range(Stack(s)), own)
        /\ ~twice' => s.path = Joined(Stack(s), own)
    <3>1. CASE stacked = shell.stacked \cup {N + 1} /\ path = AddPrefixToPath(env)
      <4>1. Stack(s) = <<env>> \o q /\ Tail(Stack(s)) = q
        <5>1. s.shlvl # 1 /\ s.shlvl \in s.stacked
          BY <1>1, <1>2, <1>6, <3>1
        <5>2. Stack(s) = <<s.prefix>> \o Stack(b) /\ Tail(Stack(s)) = Stack(b)
          BY <1>1, <1>3, <5>1, StackOver
        <5> QED BY <1>2, <5>2 DEF q
      <4>2. path = Added(b.path, env)
        BY <1>6, <3>1 DEF AddPrefixToPath, Added
      <4>3. InFrontOf(Added(b.path, env), {env} \cup Range(q), own)
        BY <2>1, <2>2, <2>6, Adding
      <4>4. ASSUME ~twice' PROVE Added(b.path, env) = Joined(<<env>> \o q, own)
        <5>1. ~twice /\ env \notin Range(q)
          BY <1>2, <2>3, <4>4
        <5>2. b.path = Joined(q, own) /\ OnceEach(q)
          BY <2>1, <2>3, <5>1
        <5> QED BY <2>1, <2>2, <2>6, <5>1, <5>2, Adding
      <4> QED BY <1>2, <2>5, <4>1, <4>2, <4>3, <4>4
    <3>2. CASE stacked = shell.stacked /\ path = ReplacePrefixInPath(shell.prefix, env)
      <4>1. s.shlvl \notin s.stacked /\ s.shlvl # 1
        <5>1. \A n \in b.stacked : n <= N
          BY <1>1 DEF ShellOK
        <5>2. ~(N + 1 <= N)
          BY <1>1
        <5> QED BY <1>2, <1>3, <1>6, <3>2, <5>1, <5>2
      <4>2. Stack(s) = <<env>> \o Tail(q) /\ Tail(Stack(s)) = Tail(q)
        BY <1>1, <1>2, <1>3, <4>1, StackOver DEF q
      <4>3. path = PathReplaced(b.path, q[1], env)
        BY <2>3, <3>2 DEF ReplacePrefixInPath, PathReplaced
      <4>4. InFrontOf(PathReplaced(b.path, q[1], env), {env} \cup Range(Tail(q)), own)
        BY <2>1, <2>2, <2>3, ReplacedPath
      <4>5. ASSUME ~twice' PROVE PathReplaced(b.path, q[1], env) = Joined(<<env>> \o Tail(q), own)
        <5>1. ~twice /\ env \notin Range(q)
          BY <1>2, <2>3, <4>5
        <5>2. b.path = Joined(q, own) /\ OnceEach(q)
          BY <2>1, <2>3, <5>1
        <5>3. env \notin Range(Tail(q))
          <6>1. Range(q) = {q[1]} \cup Range(Tail(q))
            BY <2>3, OnceTail
          <6> QED BY <5>1, <6>1
        <5> QED BY <2>1, <2>2, <2>3, <5>2, <5>3, ReplacedPath
      <4> QED BY <1>2, <2>5, <4>2, <4>3, <4>4, <4>5
    <3> QED BY <1>6, <3>1, <3>2
  <2>8. entered' # <<>> /\ entered'[1] = entered[1] /\ Len(entered') = Len(entered) + 1
        /\ entered'[Len(entered) + 1] = b /\ \A i \in 1..Len(entered) : entered'[i] = entered[i]
    BY <1>1, <1>2, <1>6
  <2>9. Own' = own
    BY <2>8 DEF Own, own
  <2>10. ASSUME ~twice'
         PROVE  Apart(s) /\ \A i \in 2..Len(entered') : entered'[i].path = Joined(Stack(entered'[i]), own)
    <3>1. ~twice /\ env \notin Range(Actives(b))
      BY <1>2, <2>10
    <3>2. ASSUME NEW i \in 2..Len(entered') PROVE entered'[i].path = Joined(Stack(entered'[i]), own)
      <4>1. CASE i = Len(entered) + 1
        BY <2>1, <2>8, <3>1, <4>1 DEF q
      <4>2. CASE i # Len(entered) + 1
        <5>1. i \in 2..Len(entered) /\ i \in 1..Len(entered)
          BY <1>1, <2>8, <4>2
        <5> QED BY <2>1, <2>8, <3>1, <5>1
      <4> QED BY <4>1, <4>2
    <3> QED BY <1>4, <2>1, <3>1, <3>2
  <2>11. entered'[1].path \in StartPaths \cup Owns
    BY <2>1, <2>8
  <2> QED BY <2>7, <2>8, <2>9, <2>10, <2>11 DEF PathInv, s
<1> QED BY <1>1, <1>5, <1>6

\* To reactivate puts the active environment where it was.
LEMMA ReactivatedPath ==
  ASSUME Undone, PathInv, Reactivate
  PROVE  PathInv'
<1> DEFINE own == Own
           q == Stack(shell)
           e == shell.prefix
           p == ReplacePrefixInPath(e, e)
<1>1. /\ ShellOK(shell, setsV) /\ shell \in Shells /\ shell.shlvl = Len(entered) /\ shell.shlvl > 0
      /\ entered \in Seq(Shells) /\ entered # <<>>
  BY DEF Undone, ShellOK, Reactivate
<1>2. /\ shell' = [shell EXCEPT !.path = p] /\ entered' = entered /\ twice' = twice
  BY DEF Reactivate
<1>3. /\ entered[1].path \in StartPaths \cup Owns
      /\ InFrontOf(shell.path, Range(q), own)
      /\ ~twice => shell.path = Joined(q, own) /\ Apart(shell)
                   /\ \A i \in 2..Len(entered) : entered[i].path = Joined(Stack(entered[i]), own)
  BY <1>1 DEF PathInv
<1>4. own \in Seq(Dirs) /\ Smooth(own)
  BY <1>3, OwnIs DEF Own
<1>5. /\ q \in Seq(Environments) /\ q # <<>> /\ q[1] = e /\ e \in Environments
      /\ (Apart(shell) => OnceEach(q))
  BY <1>1, ShellStack
<1>6. /\ Range(q) = {e} \cup Range(Tail(q)) /\ q = <<e>> \o Tail(q)
      /\ OnceEach(q) => Tail(q) \in Seq(Environments \ {e})
  BY <1>5, OnceTail
<1>7. p \in Seq(Environments \cup Dirs) /\ p = PathReplaced(shell.path, q[1], e)
  <2>1. p \in Seq(Environments \cup Dirs)
    BY <1>1, <1>5, PathsTyped
  <2> QED BY <1>5, <2>1 DEF ReplacePrefixInPath, PathReplaced
<1> HIDE DEF own, q, e, p
<1>8. InFrontOf(p, Range(q), own)
  <2>1. InFrontOf(PathReplaced(shell.path, q[1], e), {e} \cup Range(Tail(q)), own)
    BY <1>3, <1>4, <1>5, ReplacedPath
  <2> QED BY <1>6, <1>7, <2>1
<1>9. ASSUME ~twice PROVE p = Joined(q, own)
  <2>1. shell.path = Joined(q, own) /\ OnceEach(q)
    BY <1>3, <1>5, <1>9
  <2>2. e \notin Range(Tail(q))
    <3>1. Range(Tail(q)) \subseteq Environments \ {e}
      BY <1>6, <2>1, RangeOf
    <3> QED BY <3>1
  <2>3. PathReplaced(shell.path, q[1], e) = Joined(<<e>> \o Tail(q), own)
    BY <1>3, <1>4, <1>5, <2>1, <2>2, ReplacedPath
  <2> QED BY <1>6, <1>7, <2>3
<1>10. /\ shell'.path = p /\ shell'.shlvl = shell.shlvl /\ shell'.stacked = shell.stacked
       /\ Actives(shell') = Actives(shell)
  <2>1. OtherPathOf(shell, shell') /\ shell'.path = p
    BY <1>1, <1>2, <1>7, OtherPathIs
  <2> QED BY <1>1, <2>1, OtherPath
<1>11. Stack(shell') = q /\ (Apart(shell) => Apart(shell'))
  BY <1>10, SameStackOf DEF q, Apart
<1>12. Own' = own
  BY <1>2 DEF Own, own
<1> QED BY <1>1, <1>2, <1>3, <1>8, <1>9, <1>10, <1>11, <1>12 DEF PathInv

\* What a deactivation leaves of PATH.
LEMMA DeactivatedPath ==
  ASSUME Undone, PathInv, Deactivate
  PROVE  LET b == entered[Len(entered)]
             p == LeftPath(Below(shell))
         IN  /\ Len(entered) = 1 => p = Own
             /\ Len(entered) > 1 =>
                   /\ InFrontOf(p, Range(Stack(b)), Own)
                   /\ ~twice => p = Joined(Stack(b), Own) /\ Apart(b)
<1> DEFINE b == entered[Len(entered)]
           p == LeftPath(Below(shell))
           own == Own
           q == Stack(shell)
           d == shell.prefix
<1>1. /\ ShellOK(shell, setsV) /\ shell \in Shells /\ shell.shlvl = Len(entered) /\ shell.shlvl > 0
      /\ entered \in Seq(Shells) /\ entered # <<>>
  BY DEF Undone, ShellOK, Deactivate
<1>0. Len(entered) \in Nat \ {0}
  BY <1>1, EmptySeq
<1>2. ShellOK(b, setsV) /\ Undoes(shell, b, setsV) /\ b.prefix = Below(shell) /\ b.shlvl = shell.shlvl - 1
  <2>1. Len(entered) \in 1..Len(entered)
    BY <1>1
  <2>2. ShellOK(b, setsV) /\ Undoes(shell, b, setsV)
    BY <1>1, <2>1 DEF Undone
  <2> QED BY <2>2 DEF Undoes
<1>3. /\ entered[1].path \in StartPaths \cup Owns
      /\ InFrontOf(shell.path, Range(q), own)
      /\ ~twice => shell.path = Joined(q, own) /\ Apart(shell)
  BY <1>1 DEF PathInv
<1>4. own \in Seq(Dirs) /\ Smooth(own)
  BY <1>3, OwnIs DEF Own
<1>5. /\ q \in Seq(Environments) /\ q # <<>> /\ q[1] = d
      /\ (Apart(shell) => OnceEach(q))
  BY <1>1, ShellStack
<1> HIDE DEF b, own, q
<1>6. /\ InFrontOf(Removed(shell.path, d), Range(Tail(q)), own)
      /\ shell.path = Joined(q, own) /\ OnceEach(q) => Removed(shell.path, d) = Joined(Tail(q), own)
  BY <1>3, <1>4, <1>5, RemovedPath
<1>7. CASE Len(entered) = 1
  <2>1. Tail(q) = <<>> /\ Below(shell) = NoEnv
    BY <1>1, <1>2, <1>7, StackOver DEF q, Below
  <2>2. p = Removed(shell.path, d)
    BY <2>1 DEF LeftPath, RemovePrefixFromPath, Removed
  <2>3. PICK r \in Seq(Range(<<>>)) : p = Joined(r, own)
    BY <1>6, <2>1, <2>2 DEF InFrontOf
  <2>4. r = <<>>
    <3>1. Range(<<>>) = {}
      BY DEF Range
    <3> QED BY <2>3, <3>1
  <2>5. p = own
    BY <1>4, <2>3, <2>4 DEF Joined
  <2> QED BY <1>7, <2>5 DEF own
<1>8. CASE Len(entered) > 1
  <2>1. shell.shlvl # 1 /\ b.shlvl > 0
    <3>1. shell.shlvl = Len(entered) /\ b.shlvl = shell.shlvl - 1
      BY <1>1, <1>2
    <3> DEFINE n == shell.shlvl
               m == b.shlvl
    <3>2. n = Len(entered) /\ m = n - 1
      BY <3>1
    <3> HIDE DEF n, m
    <3>3. n # 1 /\ m > 0
      BY <1>0, <1>8, <3>2
    <3> QED BY <3>3 DEF n, m
  <2>2. /\ Stack(b) \in Seq(Environments) /\ Stack(b) # <<>> /\ Stack(b)[1] = b.prefix
        /\ b.prefix \in Environments /\ (Apart(b) => OnceEach(Stack(b)))
    BY <1>2, <2>1, ShellStack
  <2>3. ~twice => Apart(b)
    BY <1>1, <1>2, <1>3, ActivesOver
  <2>4. b.prefix # NoEnv
    BY <2>2, NoEnvIsNone
  <2>5. CASE shell.shlvl \in shell.stacked
    <3>1. Tail(q) = Stack(b)
      BY <1>1, <1>2, <2>1, <2>5, StackOver DEF q
    <3>2. p = Removed(shell.path, d)
      BY <2>5 DEF LeftPath, RemovePrefixFromPath, Removed
    <3>3. InFrontOf(p, Range(Stack(b)), own)
      BY <1>6, <3>1, <3>2
    <3>4. ~twice => p = Joined(Stack(b), own)
      BY <1>3, <1>5, <1>6, <3>1, <3>2
    <3> HIDE DEF p
    <3> QED BY <1>8, <2>3, <3>3, <3>4 DEF b, own, p
  <2>6. CASE shell.shlvl \notin shell.stacked
    <3> DEFINE e == b.prefix
               t == Tail(Stack(b))
    <3>1. Tail(q) = t /\ Stack(b) = <<e>> \o t
      BY <1>1, <1>2, <2>1, <2>6, StackOver DEF q
    <3>2. p = PathReplaced(shell.path, q[1], e)
      BY <1>2, <1>5, <2>4, <2>6 DEF LeftPath, ReplacePrefixInPath, PathReplaced
    <3>3. Range(Stack(b)) = {e} \cup Range(t) /\ (OnceEach(Stack(b)) => t \in Seq(Environments \ {e}))
      BY <2>2, OnceTail
    <3> HIDE DEF e, t, p
    <3>4. e \in Environments
      BY <2>2 DEF e
    <3>5. InFrontOf(p, Range(Stack(b)), own)
      <4>1. InFrontOf(PathReplaced(shell.path, q[1], e), {e} \cup Range(Tail(q)), own)
        BY <1>3, <1>4, <1>5, <3>4, ReplacedPath
      <4> QED BY <3>1, <3>2, <3>3, <4>1
    <3>6. ASSUME ~twice PROVE p = Joined(Stack(b), own)
      <4>1. shell.path = Joined(q, own) /\ OnceEach(q)
        BY <1>3, <1>5, <3>6
      <4>2. e \notin Range(Tail(q))
        <5>1. t \in Seq(Environments \ {e})
          BY <2>2, <2>3, <3>3, <3>6
        <5>2. Range(t) \subseteq Environments \ {e}
          BY <5>1, RangeOf
        <5> QED BY <3>1, <5>2
      <4>3. PathReplaced(shell.path, q[1], e) = Joined(<<e>> \o Tail(q), own)
        BY <1>3, <1>4, <1>5, <3>4, <4>1, <4>2, ReplacedPath
      <4> QED BY <3>1, <3>2, <4>3
    <3> QED BY <1>8, <2>3, <3>5, <3>6 DEF p, b, own
  <2> QED BY <2>5, <2>6
<1>9. Len(entered) = 1 \/ Len(entered) > 1
  BY <1>0
<1> QED BY <1>7, <1>8, <1>9

\* Every step keeps PathInv.
LEMMA PathStep ==
  ASSUME Undone, PathInv, [ActivationNext]_activationVars
  PROVE  PathInv'
<1>1. CASE UNCHANGED activationVars
  <2>1. Own' = Own
    BY <1>1 DEF activationVars, Own
  <2> QED BY <1>1, <2>1 DEF PathInv, activationVars
<1>2. ASSUME NEW env \in Environments, ActivateFirst(env) \/ ActivateStacked(env) \/ ActivateInstead(env)
      PROVE  PathInv'
  <2>1. ShellOK(shell', setsV) /\ Undoes(shell', shell, setsV)
    BY <1>2, AnActivationIsUndone
  <2>2. CASE ActivateFirst(env)
    BY <2>1, <2>2, ActivatedPath DEF ActivateFirst
  <2>3. CASE ActivateStacked(env)
    <3> DEFINE p == AddPrefixToPath(env)
               v == IF env \in setsV THEN env ELSE shell.v
               K == shell.stacked \cup {shell.shlvl + 1}
    <3>1. OneUp(env, p, v, K) /\ shell.shlvl > 0
      BY <2>3 DEF ActivateStacked
    <3>2. K = shell.stacked \cup {shell.shlvl + 1} /\ p = AddPrefixToPath(env)
      OBVIOUS
    <3> HIDE DEF p, v, K
    <3> QED BY <2>1, <3>1, <3>2, ActivatedPath
  <2>4. CASE ActivateInstead(env)
    BY <2>1, <2>4, ActivatedPath DEF ActivateInstead
  <2> QED BY <1>2, <2>2, <2>3, <2>4
<1>3. CASE Reactivate
  BY <1>3, ReactivatedPath
<1>4. ASSUME Deactivate PROVE PathInv'
  <2> DEFINE b == entered[Len(entered)]
             p == LeftPath(Below(shell))
             own == Own
  <2>1. /\ entered # <<>> /\ entered' = Front(entered) /\ p \in Seq(Environments \cup Dirs)
        /\ shell' = [Last(entered) EXCEPT !.path = p]
    BY <1>4, DeactivationUndoes
  <2>2. /\ entered \in Seq(Shells) /\ Last(entered) = b /\ Len(entered) \in Nat \ {0}
        /\ Len(entered') = Len(entered) - 1 /\ entered' \in Seq(Shells)
        /\ \A i \in 1..(Len(entered) - 1) : entered'[i] = entered[i]
    BY <2>1, FrontIs DEF Undone
  <2>3. /\ Len(entered) = 1 => p = own
        /\ Len(entered) > 1 => InFrontOf(p, Range(Stack(b)), own) /\ (~twice => p = Joined(Stack(b), own) /\ Apart(b))
    BY <1>4, DeactivatedPath
  <2>4. /\ entered[1].path \in StartPaths \cup Owns
        /\ ~twice => \A i \in 2..Len(entered) : entered[i].path = Joined(Stack(entered[i]), own)
    BY <2>1 DEF PathInv
  <2>5. b \in Shells
    BY <2>2
  <2>6. twice' = (twice /\ shell.shlvl > 1) /\ shell.shlvl = Len(entered)
    BY <1>4 DEF Deactivate, Undone
  <2> HIDE DEF b, p, own
  <2>7. shell'.path = p /\ Stack(shell') = Stack(b) /\ (Apart(b) => Apart(shell'))
    <3>1. OtherPathOf(b, shell') /\ shell'.path = p
      BY <2>1, <2>2, <2>5, OtherPathIs
    <3>2. /\ shell'.shlvl = b.shlvl /\ shell'.stacked = b.stacked /\ Actives(shell') = Actives(b)
      BY <2>5, <3>1, OtherPath
    <3>3. Stack(shell') = Stack(b)
      BY <3>2, SameStackOf
    <3> QED BY <3>1, <3>2, <3>3 DEF Apart
  <2>8. CASE Len(entered) = 1
    <3>1. entered' = <<>> /\ ~twice'
      <4>1. Len(entered') = 0 /\ entered' \in Seq(Shells)
        BY <2>2, <2>8
      <4>2. ~twice'
        <5>1. ~(shell.shlvl > 1)
          BY <2>6, <2>8
        <5> QED BY <2>6, <5>1
      <4> QED BY <4>1, <4>2, EmptySeq
    <3>2. p \in Owns
      BY <2>3, <2>4, <2>8, OwnIs DEF own, Own
    <3> QED BY <2>7, <3>1, <3>2 DEF PathInv
  <2>9. CASE Len(entered) > 1
    <3>1. entered' # <<>> /\ entered'[1] = entered[1] /\ twice' = twice
      <4>1. 1 \in 1..(Len(entered) - 1) /\ Len(entered') # 0
        BY <2>2, <2>9
      <4>2. entered' # <<>>
        BY <4>1
      <4>3. twice' = twice
        BY <2>6, <2>9, Zenon DEF Undone
      <4> QED BY <2>2, <4>1, <4>2, <4>3
    <3>2. Own' = own
      BY <3>1 DEF Own, own
    <3>3. ~twice => \A i \in 2..Len(entered') : entered'[i].path = Joined(Stack(entered'[i]), own)
      <4> SUFFICES ASSUME ~twice, NEW i \in 2..Len(entered')
                   PROVE  entered'[i].path = Joined(Stack(entered'[i]), own)
        OBVIOUS
      <4>1. i \in 2..Len(entered) /\ i \in 1..(Len(entered) - 1)
        BY <2>2
      <4> QED BY <2>2, <2>4, <4>1
    <3> QED BY <2>3, <2>4, <2>7, <2>9, <3>1, <3>2, <3>3 DEF PathInv
  <2> QED BY <2>2, <2>8, <2>9
<1> QED BY <1>1, <1>2, <1>3, <1>4 DEF ActivationNext

\* PATH is the environments that were activated, and to deactivate one undoes
\* its activation.
THEOREM ShellsAreAlwaysRight == ActivationSpec => ShellsAreRight
<1> DEFINE Inv == Undone /\ PathInv
           A == [ActivationNext]_activationVars
<1>1. ActivationInit => Inv
  BY UndoneStarts, PathStarts
<1>2. Inv /\ A => Inv'
  BY UndoneStep, PathStep
<1>3. Inv => ActivationTypeOK
  <2> SUFFICES ASSUME Undone PROVE ActivationTypeOK
    OBVIOUS
  <2>1. ShellOK(shell, setsV) /\ shell \in Shells /\ shell.shlvl = Len(entered) /\ twice \in BOOLEAN
    BY DEF Undone, ShellOK
  <2>2. Environments \cup {Condabin} \cup UNION {Range(p) : p \in StartPaths} = Environments \cup Dirs
    BY DEF Dirs
  <2>3. shell.stacked \subseteq 2..shell.shlvl
    <3>1. shell.stacked \subseteq 2..MaxShlvl /\ \A n \in shell.stacked : n <= shell.shlvl
      BY <2>1 DEF Shells, ShellOK
    <3> QED BY <2>1, <3>1, NoEnvIsNone DEF Shells
  <2>4. /\ shell.path \in Seq(Environments \cup Dirs) /\ shell.prefix \in Environments \cup {NoEnv}
        /\ shell.shlvl \in 0..MaxShlvl /\ shell.prefixes \in [Levels -> Environments \cup {NoEnv}]
        /\ shell.v \in Environments \cup {"user", Unset}
        /\ shell.saved \in [0..MaxShlvl -> Environments \cup {"user", Unset}]
    BY <2>1 DEF Shells
  <2> QED BY <2>1, <2>2, <2>3, <2>4 DEF ActivationTypeOK
<1>4. Inv => PathIsTheStack
  <2> SUFFICES ASSUME Undone, PathInv, ~twice, shell.shlvl > 0
               PROVE  \E path \in StartPaths : shell.path = Stack(shell) \o OwnPath(path)
    BY DEF PathIsTheStack
  <2>1. entered # <<>>
    BY DEF Undone
  <2>2. entered[1].path \in StartPaths \cup Owns /\ shell.path = Stack(shell) \o Own
    BY <2>1 DEF PathInv, Joined
  <2>3. Own \in Owns
    BY <2>2, OwnIs DEF Own
  <2>4. PICK path \in StartPaths : Own = OwnPath(path)
    BY <2>3 DEF Owns
  <2> QED BY <2>2, <2>4
<1>5. Inv /\ A => [DeactivationRestores]_activationVars
  <2> SUFFICES ASSUME Undone, PathInv, ActivationNext, Len(entered') < Len(entered)
               PROVE  SameButCondabin(shell', Last(entered))
    BY DEF DeactivationRestores
  <2>1. entered \in Seq(Shells) /\ Len(entered) \in Nat
    BY DEF Undone
  <2>2. Deactivate
    <3>1. ASSUME NEW env \in Environments, ActivateFirst(env) \/ ActivateStacked(env) \/ ActivateInstead(env)
          PROVE  FALSE
      <4>1. entered' = Append(entered, shell)
        BY <3>1 DEF ActivateFirst, ActivateStacked, ActivateInstead, OneUp
      <4>2. Len(Append(entered, shell)) = Len(entered) + 1
        <5>1. shell \in Shells
          BY DEF Undone, ShellOK
        <5> QED BY <2>1, <5>1
      <4> QED BY <2>1, <4>1, <4>2
    <3>2. CASE Reactivate
      BY <2>1, <3>2 DEF Reactivate
    <3> QED BY <3>1, <3>2 DEF ActivationNext
  <2> DEFINE b == entered[Len(entered)]
             p == LeftPath(Below(shell))
  <2>3. entered # <<>> /\ shell' = [Last(entered) EXCEPT !.path = p]
    BY <2>2, DeactivationUndoes
  <2>4. Last(entered) = b /\ b \in Shells /\ Len(entered) \in Nat \ {0}
    <3>1. Last(entered) = entered[Len(entered)] /\ Len(entered) \in Nat \ {0}
      BY <2>1, <2>3, FrontIs
    <3>2. entered[Len(entered)] \in Shells
      BY <2>1, <3>1
    <3> QED BY <3>1, <3>2
  <2>5. /\ Len(entered) = 1 => p = Own
        /\ Len(entered) > 1 => (~twice => p = Joined(Stack(b), Own))
    BY <2>2, DeactivatedPath
  <2>6. b.shlvl = Len(entered) - 1
    BY <2>4 DEF Undone
  <2>7. /\ Len(entered) = 1 => Own = OwnPath(b.path)
        /\ Len(entered) > 1 => (~twice => b.path = Joined(Stack(b), Own))
    <3>1. Len(entered) > 1 => Len(entered) \in 2..Len(entered)
      BY <2>4
    <3> QED BY <2>3, <3>1 DEF PathInv, Own
  <2> HIDE DEF b, p
  <2>8. ~twice => p = IF b.shlvl = 0 THEN OwnPath(b.path) ELSE b.path
    <3>1. CASE Len(entered) = 1
      BY <2>5, <2>6, <2>7, <3>1
    <3>2. CASE Len(entered) > 1
      BY <2>4, <2>5, <2>6, <2>7, <3>2
    <3> QED BY <2>4, <3>1, <3>2
  <2>9. shell'.path = p /\ [shell' EXCEPT !.path = <<>>] = [b EXCEPT !.path = <<>>]
    BY <2>3, <2>4 DEF Shells
  <2> QED BY <2>4, <2>8, <2>9 DEF SameButCondabin
<1>6. Inv => ActivationTypeOK /\ PathIsTheStack
  BY <1>3, <1>4
<1> QED BY <1>1, <1>2, <1>5, <1>6, PTL DEF ActivationSpec, ShellsAreRight

-----------------------------------------------------------------------------
(* History: what is read back.  The values of a recursive function are those *)
(* of the steps it is made of.                                              *)

Follows(N, S, z, g, h) == h[0] = z /\ \A n \in 1..N : h[n - 1] \in S => h[n] = g[n][h[n - 1]]

SameTo(N, h, f) == \A n \in 0..N : h[n] = f[n]

\* Steps have one outcome.
LEMMA RunIs ==
  ASSUME NEW N \in Nat, NEW S, NEW z \in S, NEW g \in [1..N -> [S -> S]],
         NEW f \in [0..N -> S], Runs(N, z, g, f),
         NEW h, Follows(N, S, z, g, h)
  PROVE  SameTo(N, h, f)
<1> SUFFICES \A n \in 0..N : h[n] = f[n]
  BY DEF SameTo
<1> DEFINE T == {m \in 0..N : h[m] # f[m]}
<1> SUFFICES ASSUME T # {} PROVE FALSE
  OBVIOUS
<1>1. PICK m \in T : \A n \in T : m <= n
  <2>1. T \in SUBSET Nat
    OBVIOUS
  <2> HIDE DEF T
  <2> QED BY <2>1, LeastOf
<1>2. m # 0 /\ m \in 1..N
  BY DEF Runs, Follows
<1>3. h[m - 1] = f[m - 1] /\ m - 1 \in 0..N
  BY <1>1, <1>2
<1>4. h[m] = g[m][f[m - 1]]
  BY <1>2, <1>3 DEF Follows
<1> QED BY <1>1, <1>2, <1>4 DEF Runs

Kinds == {"head", "cmd", "version", "-", "+", "update", "remove"}
DistNames == Dists \cup {""}
Lines == [kind : Kinds, dist : DistNames, specs : Seq(Asked)]
Entries == [update : Seq(Asked), remove : Seq(Asked),
            unlinked : SUBSET DistNames, linked : SUBSET DistNames]

LEMMA NoRequestTyped == NoRequest \in Entries
BY DEF NoRequest, Entries

\* An entry with one part changed.
LEMMA EntryWith ==
  ASSUME NEW e \in Entries, NEW x
  PROVE  /\ [e EXCEPT !.unlinked = @ \cup {x.dist}] =
              [update |-> e.update, remove |-> e.remove, unlinked |-> e.unlinked \cup {x.dist}, linked |-> e.linked]
         /\ [e EXCEPT !.linked = @ \cup {x.dist}] =
              [update |-> e.update, remove |-> e.remove, unlinked |-> e.unlinked, linked |-> e.linked \cup {x.dist}]
         /\ [e EXCEPT !.update = x.specs] =
              [update |-> x.specs, remove |-> e.remove, unlinked |-> e.unlinked, linked |-> e.linked]
         /\ [e EXCEPT !.remove = x.specs] =
              [update |-> e.update, remove |-> x.specs, unlinked |-> e.unlinked, linked |-> e.linked]
<1>1. e = [update |-> e.update, remove |-> e.remove, unlinked |-> e.unlinked, linked |-> e.linked]
  BY DEF Entries
<1>2. PICK u, r, n, l : e = [update |-> u, remove |-> r, unlinked |-> n, linked |-> l]
  BY <1>1
<1>3. e.update = u /\ e.remove = r /\ e.unlinked = n /\ e.linked = l
  BY <1>2
<1>4. \A y : /\ [e EXCEPT !.unlinked = y] = [update |-> u, remove |-> r, unlinked |-> y, linked |-> l]
            /\ [e EXCEPT !.linked = y] = [update |-> u, remove |-> r, unlinked |-> n, linked |-> y]
            /\ [e EXCEPT !.update = y] = [update |-> y, remove |-> r, unlinked |-> n, linked |-> l]
            /\ [e EXCEPT !.remove = y] = [update |-> u, remove |-> y, unlinked |-> n, linked |-> l]
  BY <1>2
<1> QED BY <1>3, <1>4

\* The entry that a line is added to.
LEMMA OnEntryIs ==
  ASSUME NEW entries \in Seq(Entries), entries # <<>>, NEW line \in Lines
  PROVE  /\ OnEntry(entries, line) \in Seq(Entries) /\ Len(OnEntry(entries, line)) = Len(entries)
         /\ \A i \in 1..(Len(entries) - 1) : OnEntry(entries, line)[i] = entries[i]
         /\ OnEntry(entries, line)[Len(entries)] =
              [update   |-> IF line.kind = "update" THEN line.specs ELSE entries[Len(entries)].update,
               remove   |-> IF line.kind = "remove" THEN line.specs ELSE entries[Len(entries)].remove,
               unlinked |-> entries[Len(entries)].unlinked \cup DistIn(line, "-"),
               linked   |-> entries[Len(entries)].linked \cup DistIn(line, "+")]
<1> DEFINE n == Len(entries)
           e == entries[n]
           With(x) == [entries EXCEPT ![n] = x]
<1>1. n \in 1..Len(entries) /\ n \in Nat \ {0} /\ e \in Entries
  BY EmptySeq
<1>2. ASSUME NEW x \in Entries
      PROVE  /\ With(x) \in Seq(Entries) /\ Len(With(x)) = n /\ With(x)[n] = x
             /\ \A i \in 1..(n - 1) : With(x)[i] = entries[i]
  BY <1>1, <1>2
<1>3. e = [update |-> e.update, remove |-> e.remove, unlinked |-> e.unlinked, linked |-> e.linked]
  BY <1>1 DEF Entries
<1>4. /\ [e EXCEPT !.unlinked = @ \cup {line.dist}] =
           [update |-> e.update, remove |-> e.remove, unlinked |-> e.unlinked \cup {line.dist}, linked |-> e.linked]
      /\ [e EXCEPT !.linked = @ \cup {line.dist}] =
           [update |-> e.update, remove |-> e.remove, unlinked |-> e.unlinked, linked |-> e.linked \cup {line.dist}]
      /\ [e EXCEPT !.update = line.specs] =
           [update |-> line.specs, remove |-> e.remove, unlinked |-> e.unlinked, linked |-> e.linked]
      /\ [e EXCEPT !.remove = line.specs] =
           [update |-> e.update, remove |-> line.specs, unlinked |-> e.unlinked, linked |-> e.linked]
  <2>1. e \in Entries
    BY <1>1
  <2> HIDE DEF e
  <2> QED BY <2>1, EntryWith
<1>5. entries = With(e)
  BY <1>1
<1>6. /\ e.update \in Seq(Asked) /\ e.remove \in Seq(Asked) /\ line.specs \in Seq(Asked) /\ line.dist \in DistNames
      /\ e.unlinked \in SUBSET DistNames /\ e.linked \in SUBSET DistNames /\ line.kind \in Kinds
  BY <1>1 DEF Entries, Lines
<1> DEFINE x == [update   |-> IF line.kind = "update" THEN line.specs ELSE e.update,
                 remove   |-> IF line.kind = "remove" THEN line.specs ELSE e.remove,
                 unlinked |-> e.unlinked \cup DistIn(line, "-"),
                 linked   |-> e.linked \cup DistIn(line, "+")]
<1>7. x \in Entries
  BY <1>6 DEF Entries, DistIn
<1>8. OnEntry(entries, line) = With(x)
  <2>1. CASE line.kind = "-"
    <3>1. OnEntry(entries, line) = With([e EXCEPT !.unlinked = @ \cup {line.dist}])
      BY <2>1 DEF OnEntry, LastEntry
    <3>2. x = [update |-> e.update, remove |-> e.remove, unlinked |-> e.unlinked \cup {line.dist}, linked |-> e.linked]
      BY <2>1 DEF DistIn
    <3> HIDE DEF x, e, With
    <3> QED BY <3>1, <3>2, <1>4
  <2>2. CASE line.kind = "+"
    <3>1. OnEntry(entries, line) = With([e EXCEPT !.linked = @ \cup {line.dist}])
      BY <2>2 DEF OnEntry, LastEntry
    <3>2. x = [update |-> e.update, remove |-> e.remove, unlinked |-> e.unlinked, linked |-> e.linked \cup {line.dist}]
      BY <2>2 DEF DistIn
    <3> HIDE DEF x, e, With
    <3> QED BY <3>1, <3>2, <1>4
  <2>3. CASE line.kind = "update"
    <3>1. OnEntry(entries, line) = With([e EXCEPT !.update = line.specs])
      BY <2>3 DEF OnEntry, LastEntry
    <3>2. x = [update |-> line.specs, remove |-> e.remove, unlinked |-> e.unlinked, linked |-> e.linked]
      BY <2>3 DEF DistIn
    <3> HIDE DEF x, e, With
    <3> QED BY <3>1, <3>2, <1>4
  <2>4. CASE line.kind = "remove"
    <3>1. OnEntry(entries, line) = With([e EXCEPT !.remove = line.specs])
      BY <2>4 DEF OnEntry, LastEntry
    <3>2. x = [update |-> e.update, remove |-> line.specs, unlinked |-> e.unlinked, linked |-> e.linked]
      BY <2>4 DEF DistIn
    <3> HIDE DEF x, e, With
    <3> QED BY <3>1, <3>2, <1>4
  <2>5. CASE line.kind \in {"head", "cmd", "version"}
    <3>1. OnEntry(entries, line) = entries
      BY <2>5 DEF OnEntry, LastEntry
    <3>2. x = [update |-> e.update, remove |-> e.remove, unlinked |-> e.unlinked, linked |-> e.linked]
      BY <2>5 DEF DistIn
    <3> HIDE DEF x, e, With
    <3> QED BY <3>1, <3>2, <1>3, <1>5
  <2> QED BY <1>6, <2>1, <2>2, <2>3, <2>4, <2>5 DEF Kinds
<1>9. /\ OnEntry(entries, line) \in Seq(Entries) /\ Len(OnEntry(entries, line)) = n
      /\ OnEntry(entries, line)[n] = x /\ \A i \in 1..(n - 1) : OnEntry(entries, line)[i] = entries[i]
  <2> HIDE DEF With, x
  <2> QED BY <1>2, <1>7, <1>8
<1> QED BY <1>9

\* A line leaves a sequence of entries.
LEMMA ParsedTyped ==
  ASSUME NEW entries \in Seq(Entries), NEW line \in Lines
  PROVE  ParsedLine(entries, line) \in Seq(Entries)
<1>1. CASE line.kind = "head"
  BY <1>1, NoRequestTyped DEF ParsedLine
<1>2. CASE line.kind # "head" /\ entries = <<>>
  <2>1. <<NoRequest>> \in Seq(Entries) /\ <<NoRequest>> # <<>>
    BY NoRequestTyped
  <2> QED BY <1>2, <2>1, OnEntryIs DEF ParsedLine
<1>3. CASE line.kind # "head" /\ entries # <<>>
  BY <1>3, OnEntryIs DEF ParsedLine
<1> QED BY <1>1, <1>2, <1>3

ReadBy(lines, f) == f[0] = <<>> /\ \A n \in 1..Len(lines) : f[n] = ParsedLine(f[n - 1], lines[n])

\* The recursion of EntriesOf has a solution, of which it is the last value.
LEMMA EntriesAre ==
  ASSUME NEW lines \in Seq(Lines)
  PROVE  \E f \in [0..Len(lines) -> Seq(Entries)] : ReadBy(lines, f) /\ EntriesOf(lines) = f[Len(lines)]
<1> DEFINE N == Len(lines)
           S == Seq(Entries)
           z == <<>>
           g == [n \in 1..N |-> [q \in S |-> ParsedLine(q, lines[n])]]
           Solves(f) == f = [n \in 0..Len(lines) |-> IF n = 0 THEN <<>> ELSE ParsedLine(f[n - 1], lines[n])]
<1>0. N \in Nat /\ Len(lines) \in Nat
  OBVIOUS
<1>1. z \in S /\ g \in [1..N -> [S -> S]]
  <2>1. ASSUME NEW n \in 1..N, NEW q \in S PROVE ParsedLine(q, lines[n]) \in S
    BY ParsedTyped
  <2> QED BY <2>1
<1>2. PICK f \in [0..N -> S] : Runs(N, z, g, f)
  <2> HIDE DEF N, S, z, g
  <2> QED BY <1>0, <1>1, StepsGoOn
<1>3. ASSUME NEW n \in 1..N PROVE f[n] = ParsedLine(f[n - 1], lines[n])
  <2>0. n - 1 \in 0..N
    BY <1>0
  <2>1. f[n - 1] \in S /\ f[n] = g[n][f[n - 1]]
    <3> HIDE DEF g
    <3> QED BY <2>0, <1>2 DEF Runs
  <2> QED BY <2>1
<1>4. f[0] = <<>>
  BY <1>2 DEF Runs
<1>5. Solves(f)
  <2> DEFINE h == [n \in 0..Len(lines) |-> IF n = 0 THEN <<>> ELSE ParsedLine(f[n - 1], lines[n])]
  <2>1. ASSUME NEW n \in 0..Len(lines) PROVE f[n] = h[n]
    <3>1. CASE n = 0
      BY <1>4, <3>1
    <3>2. CASE n # 0
      <4>1. n \in 1..N /\ h[n] = ParsedLine(f[n - 1], lines[n])
        BY <1>0, <3>2
      <4> HIDE DEF h
      <4> QED BY <1>3, <4>1
    <3> QED BY <3>1, <3>2
  <2>2. f = [n \in 0..Len(lines) |-> f[n]] /\ h = [n \in 0..Len(lines) |-> h[n]]
    BY <1>2
  <2>3. f = h
    <3> HIDE DEF h
    <3> QED BY <2>1, <2>2
  <2> QED BY <2>3
<1> DEFINE c == CHOOSE h : Solves(h)
<1>6. Solves(c)
  BY <1>5
<1>7. EntriesOf(lines) = c[Len(lines)]
  BY DEF EntriesOf
<1> HIDE DEF c
<1>8. Follows(N, S, z, g, c)
  <2>1. c[0] = <<>>
    BY <1>0, <1>6
  <2>2. ASSUME NEW n \in 1..N, c[n - 1] \in S PROVE c[n] = g[n][c[n - 1]]
    <3>1. n \in 0..Len(lines) /\ n # 0
      BY <1>0
    <3>2. \A i \in 0..Len(lines) : c[i] = IF i = 0 THEN <<>> ELSE ParsedLine(c[i - 1], lines[i])
      BY <1>6
    <3>3. c[n] = ParsedLine(c[n - 1], lines[n])
      BY <3>1, <3>2
    <3> QED BY <2>2, <3>3
  <2> QED BY <2>1, <2>2 DEF Follows
<1>9. SameTo(N, c, f)
  <2> HIDE DEF N, S, z, g, Solves
  <2> QED BY <1>0, <1>1, <1>2, <1>8, RunIs
<1> QED BY <1>2, <1>3, <1>4, <1>7, <1>9 DEF ReadBy, SameTo

\* One line more.
LEMMA EntriesGoOn ==
  ASSUME NEW lines \in Seq(Lines), NEW line \in Lines
  PROVE  /\ EntriesOf(Append(lines, line)) = ParsedLine(EntriesOf(lines), line)
         /\ EntriesOf(lines) \in Seq(Entries)
<1> DEFINE more == Append(lines, line)
           N == Len(lines)
<1>0. /\ more \in Seq(Lines) /\ Len(more) = N + 1 /\ N \in Nat /\ more[N + 1] = line
      /\ \A n \in 1..N : more[n] = lines[n]
  OBVIOUS
<1>1. PICK f \in [0..N -> Seq(Entries)] : ReadBy(lines, f) /\ EntriesOf(lines) = f[N]
  BY EntriesAre
<1>2. PICK h \in [0..Len(more) -> Seq(Entries)] : ReadBy(more, h) /\ EntriesOf(more) = h[Len(more)]
  BY <1>0, EntriesAre
<1> HIDE DEF more
<1> DEFINE T == {m \in 0..N : h[m] # f[m]}
<1>3. T = {}
  <2> SUFFICES ASSUME T # {} PROVE FALSE
    OBVIOUS
  <2>1. PICK m \in T : \A n \in T : m <= n
    <3>1. T \in SUBSET Nat
      OBVIOUS
    <3> HIDE DEF T
    <3> QED BY <3>1, LeastOf
  <2>2. m # 0 /\ m \in 1..N /\ m \in 1..Len(more)
    BY <1>0, <1>1, <1>2 DEF ReadBy
  <2>3. h[m - 1] = f[m - 1]
    BY <2>1, <2>2
  <2> QED BY <1>0, <1>1, <1>2, <2>1, <2>2, <2>3 DEF ReadBy
<1>4. h[N] = f[N] /\ h[N + 1] = ParsedLine(h[N], line)
  <2>1. N + 1 \in 1..Len(more) /\ (N + 1) - 1 = N /\ N \in 0..N
    BY <1>0
  <2>2. h[N + 1] = ParsedLine(h[(N + 1) - 1], more[N + 1])
    BY <1>2, <2>1 DEF ReadBy
  <2> QED BY <1>0, <1>3, <2>1, <2>2
<1>5. EntriesOf(more) = ParsedLine(EntriesOf(lines), line) /\ f[N] \in Seq(Entries)
  BY <1>0, <1>1, <1>2, <1>4
<1> QED BY <1>1, <1>5 DEF more

LEMMA NoEntries == EntriesOf(<<>>) = <<>>
<1>1. <<>> \in Seq(Lines) /\ Len(<<>>) = 0
  OBVIOUS
<1> QED BY <1>1, EntriesAre DEF ReadBy
-----------------------------------------------------------------------------
(* History: an entry is read back *)

IsLine(l, k, d, q) == l.kind = k /\ l.dist = d /\ l.specs = q /\ l \in Lines

\* One sequence after another.
IsJoin(p, q, r) ==
    /\ Len(r) = Len(p) + Len(q) /\ Len(p) \in Nat /\ Len(q) \in Nat
    /\ \A i \in 1..Len(p) : r[i] = p[i]
    /\ \A i \in 1..Len(q) : r[Len(p) + i] = q[i]

LEMMA JoinIs ==
  ASSUME NEW S, NEW p \in Seq(S), NEW q \in Seq(S), NEW r, r = p \o q
  PROVE  r \in Seq(S) /\ IsJoin(p, q, r)
BY DEF IsJoin

LEMMA LineTyped ==
  ASSUME NEW k \in Kinds, NEW d \in DistNames, NEW q \in Seq(Asked)
  PROVE  IsLine(LineOf(k, d, q), k, d, q)
BY DEF LineOf, Lines, IsLine

\* The lines for distributions have each of them.
LEMMA DistLinesAre ==
  ASSUME NEW S \in SUBSET DistNames, IsFiniteSet(S), NEW sign \in {"-", "+"}
  PROVE  /\ DistLines(sign, S) \in Seq(Lines)
         /\ \A i \in 1..Len(DistLines(sign, S)) : /\ DistLines(sign, S)[i].kind = sign
                                                  /\ DistLines(sign, S)[i].dist \in S
         /\ \A d \in S : \E i \in 1..Len(DistLines(sign, S)) : DistLines(sign, S)[i].dist = d
<1> DEFINE n == Cardinality(S)
           q == SetToSeq(S)
           D == DistLines(sign, S)
<1>1. n \in Nat /\ ExistsBijection(1..n, S)
  BY FS_CardinalityType
<1>2. \E f \in [1..n -> S] : IsInjective(f)
  BY <1>1, Zenon DEF ExistsBijection, Bijection, Injection, IsInjective
<1>3. q \in [1..n -> S] /\ IsInjective(q)
  BY <1>2, Zenon DEF SetToSeq
<1>4. q \in Surjection(1..n, S)
  <2>1. q \in Injection(1..n, S)
    BY <1>3, Zenon DEF Injection, IsInjective
  <2>2. Cardinality(1..n) = n
    BY <1>1, FS_Interval
  <2> QED BY <2>1, <2>2, FS_Injection
<1>5. \A d \in S : \E i \in 1..n : q[i] = d
  BY <1>4, Zenon DEF Surjection
<1>6. \A d \in DistNames : /\ DistLine(sign, d).kind = sign /\ DistLine(sign, d).dist = d
                            /\ DistLine(sign, d) \in Lines
  <2> TAKE d \in DistNames
  <2>1. DistLine(sign, d) = LineOf(sign, d, <<>>)
    BY DEF DistLine
  <2>2. <<>> \in Seq(Asked) /\ sign \in Kinds
    BY DEF Kinds
  <2>3. LineOf(sign, d, <<>>).kind = sign /\ LineOf(sign, d, <<>>).dist = d /\ LineOf(sign, d, <<>>) \in Lines
    <3>1. IsLine(LineOf(sign, d, <<>>), sign, d, <<>>)
      BY <2>2, LineTyped
    <3> QED BY <3>1 DEF IsLine
  <2> QED BY <2>1, <2>3
<1>7. D = [i \in 1..n |-> DistLine(sign, q[i])]
  BY Zenon DEF DistLines
<1> HIDE DEF n, q, D
<1>8. \A i \in 1..n : q[i] \in S /\ D[i].kind = sign /\ D[i].dist = q[i] /\ D[i] \in Lines
  BY <1>3, <1>6, <1>7
<1>9. \A i \in 1..n : D[i] \in Lines
  BY <1>8
<1>10. D \in Seq(Lines) /\ Len(D) = n
  BY <1>1, <1>7, <1>9
<1>11. \A d \in S : \E i \in 1..Len(D) : D[i].dist = d
  BY <1>5, <1>8, <1>10
<1> QED BY <1>8, <1>10, <1>11 DEF D

Named(F, k, sign) == {F[i].dist : i \in {j \in 1..k : F[j].kind = sign}}

\* The lines that are flushed: a head, nothing else that begins an entry, and
\* every distribution.
Whole(F, r) ==
    /\ F \in Seq(Lines) /\ Len(F) \in Nat \ {0} /\ F[1] = HeadLine
    /\ \A i \in 2..Len(F) : F[i].kind \in {"cmd", "version", "-", "+"}
    /\ Named(F, Len(F), "-") = r.unlinked /\ Named(F, Len(F), "+") = r.linked

\* What add_entry flushes: a head, two comments and the distributions.
LEMMA FlushedAre ==
  ASSUME NEW r \in Requests
  PROVE  Whole(FlushedLines(r), r)
<1> DEFINE H == <<HeadLine, Cmd, CondaVersion>>
           A == DistLines("-", r.unlinked)
           B == DistLines("+", r.linked)
           a == Len(A)
           b == Len(B)
           F == (H \o A) \o B
<1>1. /\ r.unlinked \in SUBSET DistNames /\ IsFiniteSet(r.unlinked)
      /\ r.linked \in SUBSET DistNames /\ IsFiniteSet(r.linked)
  BY HistoryConstants DEF DistNames
<1>2. /\ A \in Seq(Lines) /\ \A i \in 1..a : A[i].kind = "-" /\ A[i].dist \in r.unlinked
      /\ \A d \in r.unlinked : \E i \in 1..a : A[i].dist = d
  BY <1>1, DistLinesAre
<1>3. /\ B \in Seq(Lines) /\ \A i \in 1..b : B[i].kind = "+" /\ B[i].dist \in r.linked
      /\ \A d \in r.linked : \E i \in 1..b : B[i].dist = d
  BY <1>1, DistLinesAre
<1>4. HeadLine.kind = "head" /\ Cmd.kind = "cmd" /\ CondaVersion.kind = "version"
  BY DEF HeadLine, Cmd, CondaVersion, LineOf
<1>5. HeadLine \in Lines /\ Cmd \in Lines /\ CondaVersion \in Lines
  <2>1. "" \in DistNames /\ <<>> \in Seq(Asked) /\ "head" \in Kinds /\ "cmd" \in Kinds /\ "version" \in Kinds
    BY DEF DistNames, Kinds
  <2>2. \A kind \in Kinds : LineOf(kind, "", <<>>) \in Lines
    BY <2>1, LineTyped DEF IsLine
  <2> QED BY <2>1, <2>2 DEF HeadLine, Cmd, CondaVersion
<1>6. H \in Seq(Lines) /\ Len(H) = 3 /\ H[1] = HeadLine /\ H[2] = Cmd /\ H[3] = CondaVersion
  BY <1>5
<1>7. FlushedLines(r) = F
  BY Zenon DEF FlushedLines
<1> HIDE DEF H, A, B
<1>8. /\ F \in Seq(Lines) /\ Len(F) = 3 + a + b /\ a \in Nat /\ b \in Nat
      /\ \A i \in 1..3 : F[i] = H[i]
      /\ \A i \in 1..a : F[3 + i] = A[i]
      /\ \A i \in 1..b : F[3 + a + i] = B[i]
  <2> DEFINE X == H \o A
  <2>1. /\ X \in Seq(Lines) /\ Len(X) = 3 + a /\ a \in Nat /\ \A i \in 1..3 : X[i] = H[i]
        /\ \A i \in 1..a : X[3 + i] = A[i]
    <3>1. X = H \o A
      OBVIOUS
    <3> HIDE DEF X
    <3>2. X \in Seq(Lines) /\ IsJoin(H, A, X)
      BY <1>2, <1>6, <3>1, JoinIs
    <3> QED BY <1>6, <3>2 DEF IsJoin
  <2>2. F = X \o B
    OBVIOUS
  <2> HIDE DEF X, F
  <2>3. /\ F \in Seq(Lines) /\ Len(F) = 3 + a + b /\ b \in Nat
        /\ \A i \in 1..(3 + a) : F[i] = X[i] /\ \A j \in 1..b : F[3 + a + j] = B[j]
    <3>1. F \in Seq(Lines) /\ IsJoin(X, B, F)
      BY <1>3, <2>1, <2>2, JoinIs
    <3> QED BY <2>1, <3>1 DEF IsJoin
  <2>4. \A i \in 1..3 : i \in 1..(3 + a)
    BY <2>1
  <2>5. \A i \in 1..a : 3 + i \in 1..(3 + a)
    BY <2>1
  <2>6. \A i \in 1..b : F[3 + a + i] = B[i]
    <3>1. 1 \in 1..(3 + a)
      BY <2>1
    <3> QED BY <2>3, <3>1
  <2> QED BY <2>1, <2>3, <2>4, <2>5, <2>6
<1> HIDE DEF F, a, b
<1>9. F[1] = HeadLine /\ F[2] = Cmd /\ F[3] = CondaVersion
  BY <1>6, <1>8
<1>10. /\ \A i \in 4..(3 + a) : i - 3 \in 1..a /\ F[i] = A[i - 3]
       /\ \A i \in (4 + a)..(3 + a + b) : i - 3 - a \in 1..b /\ F[i] = B[i - 3 - a]
  <2>1. ASSUME NEW i \in 4..(3 + a) PROVE i - 3 \in 1..a /\ F[i] = A[i - 3]
    <3>1. i - 3 \in 1..a /\ 3 + (i - 3) = i
      BY <1>8
    <3> QED BY <1>8, <3>1
  <2>2. ASSUME NEW i \in (4 + a)..(3 + a + b) PROVE i - 3 - a \in 1..b /\ F[i] = B[i - 3 - a]
    <3>1. i - 3 - a \in 1..b /\ 3 + a + (i - 3 - a) = i
      BY <1>8
    <3> QED BY <1>8, <3>1
  <2> QED BY <2>1, <2>2
<1>11. \A i \in 1..Len(F) : i \in 1..3 \/ i \in 4..(3 + a) \/ i \in (4 + a)..(3 + a + b)
  BY <1>8
<1>12. /\ \A i \in 1..3 : F[i].kind \in {"head", "cmd", "version"}
       /\ \A i \in 2..3 : F[i].kind \in {"cmd", "version"}
       /\ \A i \in 4..(3 + a) : F[i].kind = "-" /\ F[i].dist \in r.unlinked
       /\ \A i \in (4 + a)..(3 + a + b) : F[i].kind = "+" /\ F[i].dist \in r.linked
  <2>1. \A i \in 1..3 : i = 1 \/ i = 2 \/ i = 3
    OBVIOUS
  <2>2. \A i \in 2..3 : i = 2 \/ i = 3
    OBVIOUS
  <2>3. \A i \in 4..(3 + a) : F[i].kind = "-" /\ F[i].dist \in r.unlinked
    <3> TAKE i \in 4..(3 + a)
    <3>1. i - 3 \in 1..a /\ F[i] = A[i - 3]
      BY <1>10
    <3> QED BY <1>2, <3>1
  <2>4. \A i \in (4 + a)..(3 + a + b) : F[i].kind = "+" /\ F[i].dist \in r.linked
    <3> TAKE i \in (4 + a)..(3 + a + b)
    <3>1. i - 3 - a \in 1..b /\ F[i] = B[i - 3 - a]
      BY <1>10
    <3> QED BY <1>3, <3>1
  <2> QED BY <1>4, <1>9, <2>1, <2>2, <2>3, <2>4
<1>13. \A i \in 2..Len(F) : F[i].kind \in {"cmd", "version", "-", "+"}
  BY <1>8, <1>12
<1>14. Named(F, Len(F), "-") = r.unlinked
  <2>1. ASSUME NEW i \in 1..Len(F), F[i].kind = "-" PROVE F[i].dist \in r.unlinked
    BY <1>11, <1>12, <2>1
  <2>2. ASSUME NEW d \in r.unlinked PROVE \E i \in 1..Len(F) : F[i].kind = "-" /\ F[i].dist = d
    <3>1. PICK i \in 1..a : A[i].dist = d
      BY <1>2
    <3>2. 3 + i \in 1..Len(F) /\ F[3 + i].kind = "-" /\ F[3 + i].dist = d
      BY <1>2, <1>8, <3>1
    <3> QED BY <3>2
  <2> QED BY <2>1, <2>2 DEF Named
<1>15. Named(F, Len(F), "+") = r.linked
  <2>1. ASSUME NEW i \in 1..Len(F), F[i].kind = "+" PROVE F[i].dist \in r.linked
    BY <1>11, <1>12, <2>1
  <2>2. ASSUME NEW d \in r.linked PROVE \E i \in 1..Len(F) : F[i].kind = "+" /\ F[i].dist = d
    <3>1. PICK i \in 1..b : B[i].dist = d
      BY <1>3
    <3>2. 3 + a + i \in 1..Len(F) /\ F[3 + a + i].kind = "+" /\ F[3 + a + i].dist = d
      BY <1>3, <1>8, <3>1
    <3> QED BY <3>2
  <2> QED BY <2>1, <2>2 DEF Named
<1> QED BY <1>7, <1>8, <1>9, <1>13, <1>14, <1>15 DEF Whole

\* What the entry has after k lines of it.
RequestAt(F, k) == [update |-> <<>>, remove |-> <<>>, unlinked |-> Named(F, k, "-"), linked |-> Named(F, k, "+")]

WrittenSoFar(F, left, log, k) ==
    /\ left = SubSeq(F, k + 1, Len(F))
    /\ log[Len(log)] = RequestAt(F, k)
    /\ UserRequests = IF k = 0 THEN Front(log) ELSE log

HistoryInv ==
    /\ historyLines \in Seq(Lines) /\ entryLog \in Seq(Entries) /\ Len(entryLog) <= MaxEntries
    /\ IF Writing
       THEN /\ userRequest = [request |-> userRequest.request, left |-> userRequest.left]
            /\ userRequest.request \in Requests /\ entryLog # <<>>
            /\ \E k \in 0..Len(FlushedLines(userRequest.request)) :
                 WrittenSoFar(FlushedLines(userRequest.request), userRequest.left, entryLog, k)
       ELSE UserRequests = entryLog

\* Nothing is left of the lines when all are written, and all of them before the first.
LEMMA LeftIs ==
  ASSUME NEW S, NEW F \in Seq(S), NEW k \in 0..Len(F)
  PROVE  /\ SubSeq(F, k + 1, Len(F)) = <<>> <=> k = Len(F)
         /\ SubSeq(F, k + 1, Len(F)) = F <=> k = 0 
         /\ k < Len(F) => /\ SubSeq(F, k + 1, Len(F))[1] = F[k + 1]
                          /\ Tail(SubSeq(F, k + 1, Len(F))) = SubSeq(F, (k + 1) + 1, Len(F))
<1> DEFINE s == SubSeq(F, k + 1, Len(F))
<1>1. s \in Seq(S) /\ Len(s) = Len(F) - k /\ \A i \in 1..Len(s) : s[i] = F[k + i]
  <2>1. k + 1 \in 1..(Len(F) + 1) /\ Len(F) \in Nat
    OBVIOUS
  <2> QED BY <2>1, SubSeqProperties
<1>2. s = <<>> <=> k = Len(F)
  <2> HIDE DEF s
  <2>1. Len(F) \in Nat /\ (s # <<>> => Len(s) # 0) /\ (s = <<>> => Len(s) = 0)
    BY <1>1, EmptySeq
  <2> QED BY <1>1, <2>1
<1>3. s = F <=> k = 0
  <2>1. k = 0 => s = F
    <3>1. ASSUME k = 0 PROVE \A i \in 1..Len(F) : s[i] = F[i]
      BY <1>1, <3>1
    <3> HIDE DEF s
    <3> QED BY <1>1, <3>1, SeqEqual
  <2>2. s = F => k = 0
    BY <1>1
  <2> QED BY <2>1, <2>2
<1>4. ASSUME k < Len(F) PROVE s[1] = F[k + 1] /\ Tail(s) = SubSeq(F, (k + 1) + 1, Len(F))
  <2> DEFINE t == SubSeq(F, (k + 1) + 1, Len(F))
  <2>1. t \in Seq(S) /\ Len(t) = Len(F) - (k + 1) /\ \A i \in 1..Len(t) : t[i] = F[k + 1 + i]
    <3>1. (k + 1) + 1 \in 1..(Len(F) + 1) /\ Len(F) \in Nat
      BY <1>4
    <3> QED BY <3>1, SubSeqProperties
  <2>2. s # <<>> /\ 1 \in 1..Len(s)
    BY <1>1, <1>2, <1>4
  <2> HIDE DEF s, t
  <2>3. Tail(s) \in Seq(S) /\ Len(Tail(s)) = Len(s) - 1 /\ \A i \in 1..Len(Tail(s)) : Tail(s)[i] = s[i + 1]
    BY <1>1, <2>2
  <2>4. Len(Tail(s)) = Len(t) /\ \A i \in 1..Len(Tail(s)) : Tail(s)[i] = t[i]
    <3>1. Len(Tail(s)) = Len(t) /\ Len(F) \in Nat
      BY <1>1, <1>4, <2>1, <2>3
    <3>2. ASSUME NEW i \in 1..Len(t) PROVE Tail(s)[i] = t[i]
      <4>1. i + 1 \in 1..Len(s) /\ k + (i + 1) = k + 1 + i
        BY <1>1, <1>4, <2>1, <3>1
      <4> QED BY <1>1, <2>1, <2>3, <3>1, <4>1
    <3> QED BY <3>1, <3>2
  <2>5. Tail(s) = t
    BY <2>1, <2>3, <2>4, SeqEqual
  <2> QED BY <1>1, <2>2, <2>5 DEF t
<1> QED BY <1>2, <1>3, <1>4
-----------------------------------------------------------------------------
(* History: the steps *)

\* The last entry of a log, and what is before it.
LEMMA FrontAndLast ==
  ASSUME NEW S, NEW log \in Seq(S), log # <<>>, NEW x \in S
  PROVE  /\ Len(log) \in Nat \ {0} /\ Front(log) \in Seq(S)
         /\ log[Len(log)] = x => Append(Front(log), x) = log
<1>1. /\ Front(log) \in Seq(S) /\ Len(Front(log)) = Len(log) - 1 /\ Len(log) \in Nat \ {0}
      /\ \A i \in 1..(Len(log) - 1) : Front(log)[i] = log[i]
  BY FrontIs
<1>2. ASSUME log[Len(log)] = x PROVE Append(Front(log), x) = log
  <2> DEFINE a == Append(Front(log), x)
  <2>1. /\ a \in Seq(S) /\ Len(a) = Len(log) /\ a[Len(log)] = x
        /\ \A i \in 1..(Len(log) - 1) : a[i] = log[i]
    BY <1>1
  <2> HIDE DEF a
  <2>2. \A i \in 1..Len(a) : i \in 1..(Len(log) - 1) \/ i = Len(log)
    BY <1>1, <2>1
  <2>3. \A i \in 1..Len(a) : a[i] = log[i]
    BY <1>2, <2>1, <2>2
  <2>4. a = log
    BY <2>1, <2>3, SeqEqual
  <2> QED BY <2>4 DEF a
<1> QED BY <1>1, <1>2

LEMMA FrontOfOne ==
  ASSUME NEW S, NEW log \in Seq(S), NEW x \in S
  PROVE  Front(Append(log, x)) = log
<1> DEFINE a == Append(log, x)
<1>1. a \in Seq(S) /\ Len(a) = Len(log) + 1 /\ Len(log) \in Nat /\ \A i \in 1..Len(log) : a[i] = log[i]
  OBVIOUS
<1> HIDE DEF a
<1>2. a # <<>>
  BY <1>1
<1>3. /\ Front(a) \in Seq(S) /\ Len(Front(a)) = Len(a) - 1
      /\ \A i \in 1..(Len(a) - 1) : Front(a)[i] = a[i]
  BY <1>1, <1>2, FrontIs
<1>4. Len(Front(a)) = Len(log) /\ \A i \in 1..Len(Front(a)) : Front(a)[i] = log[i]
  BY <1>1, <1>3
<1>5. Front(a) = log
  BY <1>3, <1>4, SeqEqual
<1> QED BY <1>5 DEF a

LEMMA FirstIsNothing ==
  ASSUME NEW F
  PROVE  RequestAt(F, 0) = NoRequest
<1>1. \A sign : Named(F, 0, sign) = {}
  BY DEF Named
<1> QED BY <1>1 DEF RequestAt, NoRequest

LEMMA OneMoreNamed ==
  ASSUME NEW F \in Seq(Lines), NEW k \in Nat, k < Len(F), NEW sign
  PROVE  Named(F, k + 1, sign) = Named(F, k, sign) \cup DistIn(F[k + 1], sign)
<1>1. \A j : j \in 1..(k + 1) <=> j \in 1..k \/ j = k + 1
  OBVIOUS
<1> QED BY <1>1 DEF Named, DistIn

\* What a line adds to the log is what it adds to the entries that are read.
LEMMA LoggedIs ==
  ASSUME NEW log \in Seq(Entries), log # <<>>, NEW u, NEW v
  PROVE  [log EXCEPT ![Len(log)].unlinked = @ \cup u, ![Len(log)].linked = @ \cup v] =
         [log EXCEPT ![Len(log)] = [update |-> log[Len(log)].update, remove |-> log[Len(log)].remove,
                                    unlinked |-> log[Len(log)].unlinked \cup u,
                                    linked |-> log[Len(log)].linked \cup v]]
<1> DEFINE n == Len(log)
           With(x) == [log EXCEPT ![n] = x]
<1>1. n \in 1..Len(log) /\ log[n] \in Entries
  BY EmptySeq
<1>2. PICK e : e = log[n]
  OBVIOUS
<1>3. e \in Entries
  BY <1>1, <1>2
<1>4. PICK a, b, c, d : e = [update |-> a, remove |-> b, unlinked |-> c, linked |-> d]
  BY <1>3 DEF Entries
<1> DEFINE e1 == [update |-> a, remove |-> b, unlinked |-> c \cup u, linked |-> d]
           e2 == [update |-> a, remove |-> b, unlinked |-> c \cup u, linked |-> d \cup v]
<1>5. [log EXCEPT ![n].unlinked = @ \cup u] = With(e1)
  <2>0. e.unlinked = c /\ \A y : [e EXCEPT !.unlinked = y] = [update |-> a, remove |-> b, unlinked |-> y, linked |-> d]
    BY <1>4
  <2>1. [e EXCEPT !.unlinked = e.unlinked \cup u] = e1
    BY <2>0
  <2>2. [log EXCEPT ![n].unlinked = @ \cup u] = With([e EXCEPT !.unlinked = e.unlinked \cup u])
    BY <1>1, <1>2
  <2> QED BY <2>1, <2>2
<1>6. [With(e1) EXCEPT ![n].linked = @ \cup v] = With(e2)
  <2> DEFINE w == With(e1)
  <2>0. w[n] = e1
    BY <1>1
  <2>4. \A z, y : [[update |-> a, remove |-> b, unlinked |-> z, linked |-> d] EXCEPT !.linked = y] =
                    [update |-> a, remove |-> b, unlinked |-> z, linked |-> y]
    OBVIOUS
  <2>5. e1.linked = d
    OBVIOUS
  <2>1. [e1 EXCEPT !.linked = e1.linked \cup v] = e2
    BY <2>4, <2>5
  <2>2. [w EXCEPT ![n].linked = @ \cup v] = [w EXCEPT ![n] = [e1 EXCEPT !.linked = e1.linked \cup v]]
    <3> HIDE DEF w, e1
    <3> QED BY <2>0
  <2>3. [w EXCEPT ![n] = e2] = With(e2)
    <3> HIDE DEF e1, e2
    <3> QED OBVIOUS
  <2> HIDE DEF w, e1, e2
  <2> QED BY <2>1, <2>2, <2>3 DEF w
<1>7. [log EXCEPT ![n].unlinked = @ \cup u, ![n].linked = @ \cup v] = [[log EXCEPT ![n].unlinked = @ \cup u] EXCEPT ![n].linked = @ \cup v]
  OBVIOUS
<1>8. [log EXCEPT ![n].unlinked = @ \cup u, ![n].linked = @ \cup v] = With(e2)
  <2> HIDE DEF With, e1, e2
  <2> QED BY <1>5, <1>6, <1>7
<1>9. e2 = [update |-> e.update, remove |-> e.remove, unlinked |-> e.unlinked \cup u, linked |-> e.linked \cup v]
  BY <1>4
<1> QED BY <1>2, <1>8, <1>9

LEMMA HistoryStarts == HistoryInit => HistoryInv
<1> SUFFICES ASSUME HistoryInit PROVE HistoryInv
  OBVIOUS
<1>1. historyLines = <<>> /\ ~Writing /\ entryLog = <<>>
  BY DEF HistoryInit, Writing
<1>2. UserRequests = entryLog
  BY <1>1, NoEntries DEF UserRequests
<1>3. <<>> \in Seq(Lines) /\ <<>> \in Seq(Entries) /\ Len(<<>>) <= MaxEntries
  BY HistoryConstants
<1> QED BY <1>1, <1>2, <1>3 DEF HistoryInv

\* Before its head is written, an entry is the last of the log and of no line.
LEMMA AddEntryKeeps ==
  ASSUME HistoryInv, AddEntry
  PROVE  HistoryInv'
<1>1. PICK r \in Requests : userRequest' = [request |-> r, left |-> FlushedLines(r)]
  BY DEF AddEntry
<1> DEFINE F == FlushedLines(r)
<1>2. Whole(F, r)
  BY FlushedAre
<1>3. /\ userRequest'.request = r /\ userRequest'.left = F
      /\ userRequest' = [request |-> userRequest'.request, left |-> userRequest'.left]
  BY <1>1
<1>4. F # <<>>
  BY <1>2 DEF Whole
<1>5. Writing'
  BY <1>3, <1>4 DEF Writing, NotWriting
<1>6. entryLog' = Append(entryLog, NoRequest) /\ historyLines' = historyLines /\ UserRequests = entryLog
      /\ Len(entryLog) < MaxEntries /\ entryLog \in Seq(Entries)
  BY DEF HistoryInv, AddEntry
<1>7. /\ entryLog' \in Seq(Entries) /\ entryLog' # <<>> /\ Len(entryLog') <= MaxEntries
      /\ entryLog'[Len(entryLog')] = NoRequest
  BY <1>6, NoRequestTyped, HistoryConstants
<1>8. UserRequests' = Front(entryLog')
  BY <1>6, NoRequestTyped, FrontOfOne DEF UserRequests
<1>9. WrittenSoFar(F, userRequest.left, entryLog, 0)'
  <2>1. F = SubSeq(F, 0 + 1, Len(F))
    <3>1. F \in Seq(Lines) /\ 0 \in 0..Len(F)
      BY <1>2 DEF Whole
    <3> HIDE DEF F
    <3> QED BY <3>1, LeftIs
  <2> HIDE DEF F
  <2> QED BY <1>3, <1>7, <1>8, <2>1, FirstIsNothing DEF WrittenSoFar
<1>10. 0 \in 0..Len(F)
  BY <1>2 DEF Whole
<1>11. historyLines' \in Seq(Lines)
  BY <1>6 DEF HistoryInv
<1> QED BY <1>3, <1>5, <1>7, <1>9, <1>10, <1>11 DEF HistoryInv

\* What the invariant says while an entry is written.
LEMMA WhileWriting ==
  ASSUME HistoryInv, Writing
  PROVE  \E r, F, k :
           /\ r \in Requests /\ k \in 0..Len(F)
           /\ userRequest = [request |-> r, left |-> userRequest.left]
           /\ userRequest.request = r /\ F = FlushedLines(r) /\ Whole(F, r)
           /\ WrittenSoFar(F, userRequest.left, entryLog, k)
           /\ entryLog \in Seq(Entries) /\ Len(entryLog) \in Nat \ {0} /\ Len(entryLog) <= MaxEntries
<1>1. userRequest.request \in Requests /\ Whole(FlushedLines(userRequest.request), userRequest.request)
  BY FlushedAre DEF HistoryInv
<1>2. Len(entryLog) \in Nat \ {0}
  BY EmptySeq DEF HistoryInv
<1> QED BY <1>1, <1>2 DEF HistoryInv

\* Each line written is read for what the log has of it.
LEMMA WriteLineKeeps ==
  ASSUME HistoryInv, WriteLine
  PROVE  HistoryInv'
<1>1. Writing
  BY DEF WriteLine
<1>2. PICK r, F, k :
           /\ r \in Requests /\ k \in 0..Len(F)
           /\ userRequest = [request |-> r, left |-> userRequest.left]
           /\ userRequest.request = r /\ F = FlushedLines(r) /\ Whole(F, r)
           /\ WrittenSoFar(F, userRequest.left, entryLog, k)
           /\ entryLog \in Seq(Entries) /\ Len(entryLog) \in Nat \ {0} /\ Len(entryLog) <= MaxEntries
  BY <1>1, WhileWriting
<1> DEFINE line == F[k + 1]
           n == Len(entryLog)
           e == entryLog[n]
<1>3. /\ F \in Seq(Lines) /\ Len(F) \in Nat \ {0} /\ userRequest.left = SubSeq(F, k + 1, Len(F))
      /\ k \in 0..Len(F) /\ k \in Nat
  BY <1>2 DEF Whole, WrittenSoFar
<1>4. k < Len(F) /\ userRequest.left[1] = line /\ Tail(userRequest.left) = SubSeq(F, (k + 1) + 1, Len(F))
  <2>1. k # Len(F)
    BY <1>3, LeftIs DEF WriteLine
  <2>2. k < Len(F)
    BY <1>3, <2>1
  <2> QED BY <1>3, <2>2, LeftIs
<1>5. line \in Lines
  BY <1>3, <1>4
<1>6. /\ userRequest' = [request |-> r, left |-> SubSeq(F, (k + 1) + 1, Len(F))]
      /\ historyLines' = Append(historyLines, line) /\ entryLog' = Logged(line)
  BY <1>2, <1>4 DEF WriteLine
<1>7. /\ userRequest'.request = r /\ userRequest'.left = SubSeq(F, (k + 1) + 1, Len(F))
      /\ userRequest' = [request |-> userRequest'.request, left |-> userRequest'.left]
  BY <1>6
<1>8. e = RequestAt(F, k)
  BY <1>2 DEF WrittenSoFar
<1>9. RequestAt(F, k + 1) = [update |-> <<>>, remove |-> <<>>,
                             unlinked |-> e.unlinked \cup DistIn(line, "-"),
                             linked |-> e.linked \cup DistIn(line, "+")]
  <2>1. e.unlinked = Named(F, k, "-") /\ e.linked = Named(F, k, "+")
    BY <1>8 DEF RequestAt
  <2> HIDE DEF e
  <2>2. Named(F, k + 1, "-") = e.unlinked \cup DistIn(line, "-")
    BY <1>3, <1>4, <2>1, OneMoreNamed
  <2>3. Named(F, k + 1, "+") = e.linked \cup DistIn(line, "+")
    BY <1>3, <1>4, <2>1, OneMoreNamed
  <2> QED BY <2>2, <2>3 DEF RequestAt
<1>10. /\ entryLog' \in Seq(Entries) /\ Len(entryLog') = n /\ entryLog'[n] = RequestAt(F, k + 1)
       /\ \A i \in 1..(n - 1) : entryLog'[i] = entryLog[i]
  <2>1. PICK x : x = RequestAt(F, k + 1)
    OBVIOUS
  <2>2. e.update = <<>> /\ e.remove = <<>>
    BY <1>8 DEF RequestAt
  <2>3. entryLog' = [entryLog EXCEPT ![n] = [update |-> e.update, remove |-> e.remove,
                                            unlinked |-> e.unlinked \cup DistIn(line, "-"),
                                            linked |-> e.linked \cup DistIn(line, "+")]]
    <3>1. entryLog # <<>>
      BY <1>2
    <3> HIDE DEF line
    <3> QED BY <1>2, <1>6, <3>1, LoggedIs DEF Logged
  <2>4. [update |-> e.update, remove |-> e.remove, unlinked |-> e.unlinked \cup DistIn(line, "-"),
         linked |-> e.linked \cup DistIn(line, "+")] = x
    <3> HIDE DEF e, line
    <3> QED BY <1>9, <2>1, <2>2
  <2>5. e \in Entries /\ line.dist \in DistNames
    BY <1>2, <1>5 DEF Lines
  <2>6. x \in Entries
    <3>1. e.unlinked \in SUBSET DistNames /\ e.linked \in SUBSET DistNames /\ <<>> \in Seq(Asked)
          /\ DistIn(line, "-") \in SUBSET DistNames /\ DistIn(line, "+") \in SUBSET DistNames
      BY <2>5 DEF Entries, DistIn
    <3> HIDE DEF e, line
    <3>2. /\ e.unlinked \cup DistIn(line, "-") \in SUBSET DistNames
          /\ e.linked \cup DistIn(line, "+") \in SUBSET DistNames
      BY <2>5, <3>1
    <3>3. [update |-> <<>>, remove |-> <<>>, unlinked |-> e.unlinked \cup DistIn(line, "-"),
           linked |-> e.linked \cup DistIn(line, "+")] \in Entries
      BY <3>1, <3>2 DEF Entries
    <3> QED BY <1>9, <2>1, <3>3
  <2>7. entryLog' = [entryLog EXCEPT ![n] = x]
    BY <2>3, <2>4
  <2> HIDE DEF e, line
  <2> QED BY <1>2, <2>1, <2>6, <2>7
<1>11. UserRequests' = ParsedLine(UserRequests, line)
  <2>1. historyLines \in Seq(Lines)
    BY DEF HistoryInv
  <2> HIDE DEF line
  <2>2. EntriesOf(Append(historyLines, line)) = ParsedLine(EntriesOf(historyLines), line)
    BY <1>5, <2>1, EntriesGoOn
  <2> QED BY <1>6, <2>2 DEF UserRequests
<1>12. UserRequests' = entryLog'
  <2>1. CASE k = 0
    <3>0. k + 1 = 1
      BY <2>1
    <3>1. line = HeadLine /\ line.kind = "head"
      <4>1. F[1] = HeadLine
        BY <1>2 DEF Whole
      <4>2. HeadLine.kind = "head"
        BY DEF HeadLine, Cmd, CondaVersion, LineOf
      <4> QED BY <3>0, <4>1, <4>2
    <3>2. UserRequests = Front(entryLog)
      BY <1>2, <2>1 DEF WrittenSoFar
    <3>3. e = NoRequest /\ RequestAt(F, k + 1) = NoRequest
      <4>1. e = NoRequest
        BY <1>8, <2>1, FirstIsNothing
      <4>2. e.unlinked = {} /\ e.linked = {}
        BY <4>1 DEF NoRequest
      <4>3. line.kind # "-" /\ line.kind # "+"
        BY <3>1
      <4> HIDE DEF e, line
      <4>4. RequestAt(F, k + 1) = [update |-> <<>>, remove |-> <<>>, unlinked |-> {}, linked |-> {}]
        BY <1>9, <4>2, <4>3 DEF DistIn
      <4> QED BY <4>1, <4>4 DEF NoRequest
    <3>4. UserRequests' = Append(Front(entryLog), NoRequest)
      BY <1>11, <3>1, <3>2 DEF ParsedLine
    <3>5. Append(Front(entryLog), NoRequest) = entryLog
      <4>1. entryLog # <<>> /\ entryLog[Len(entryLog)] = NoRequest
        BY <1>2, <3>3
      <4> QED BY <1>2, <4>1, NoRequestTyped, FrontAndLast
    <3>6. entryLog' = entryLog
      <4>1. Len(entryLog') = Len(entryLog) /\ \A i \in 1..Len(entryLog') : entryLog'[i] = entryLog[i]
        <5>1. \A i \in 1..n : i \in 1..(n - 1) \/ i = n
          BY <1>2
        <5> QED BY <1>10, <3>3, <5>1
      <4> QED BY <1>2, <1>10, <4>1, SeqEqual
    <3> QED BY <3>4, <3>5, <3>6
  <2>2. CASE k # 0
    <3>1. UserRequests = entryLog /\ entryLog # <<>>
      BY <1>2, <2>2 DEF WrittenSoFar
    <3>2. line.kind \in {"cmd", "version", "-", "+"}
      <4>1. k + 1 \in 2..Len(F)
        BY <1>3, <1>4, <2>2
      <4> QED BY <1>2, <4>1 DEF Whole
    <3>3. UserRequests' = OnEntry(entryLog, line)
      BY <1>11, <3>1, <3>2 DEF ParsedLine
    <3> DEFINE o == OnEntry(entryLog, line)
    <3>4. /\ o \in Seq(Entries) /\ Len(o) = n /\ \A i \in 1..(n - 1) : o[i] = entryLog[i]
          /\ o[n] = [update   |-> IF line.kind = "update" THEN line.specs ELSE entryLog[n].update,
                     remove   |-> IF line.kind = "remove" THEN line.specs ELSE entryLog[n].remove,
                     unlinked |-> entryLog[n].unlinked \cup DistIn(line, "-"),
                     linked   |-> entryLog[n].linked \cup DistIn(line, "+")]
      BY <1>2, <1>5, <3>1, OnEntryIs
    <3>5. e.update = <<>> /\ e.remove = <<>> /\ line.kind # "update" /\ line.kind # "remove"
      BY <1>8, <3>2 DEF RequestAt
    <3> HIDE DEF o, e, line
    <3>6. o[n] = RequestAt(F, k + 1)
      BY <1>9, <3>4, <3>5 DEF e
    <3>7. \A i \in 1..n : i \in 1..(n - 1) \/ i = n
      BY <1>2
    <3>8. o = entryLog'
      <4>1. Len(o) = Len(entryLog') /\ \A i \in 1..Len(o) : o[i] = entryLog'[i]
        BY <1>10, <3>4, <3>6, <3>7
      <4> QED BY <1>10, <3>4, <4>1, SeqEqual
    <3> QED BY <3>3, <3>8 DEF o
  <2> QED BY <2>1, <2>2
<1>13. historyLines' \in Seq(Lines) /\ entryLog' \in Seq(Entries) /\ Len(entryLog') <= MaxEntries /\ entryLog' # <<>>
  <2>1. historyLines \in Seq(Lines)
    BY DEF HistoryInv
  <2> HIDE DEF line, e
  <2> QED BY <1>2, <1>5, <1>6, <1>10, <2>1
<1>14. WrittenSoFar(F, userRequest.left, entryLog, k + 1)' /\ k + 1 \in 0..Len(F)
  <2>1. k + 1 \in 0..Len(F) /\ k + 1 # 0
    BY <1>3, <1>4
  <2> QED BY <1>7, <1>10, <1>12, <2>1 DEF WrittenSoFar
<1>15. F = FlushedLines(userRequest'.request) /\ userRequest'.request \in Requests
  BY <1>2, <1>7
<1> HIDE DEF line, e, n
<1> QED BY <1>7, <1>12, <1>13, <1>14, <1>15 DEF HistoryInv
\* What the entry is when all of its lines are written.
LEMMA WrittenWhole ==
  ASSUME NEW r \in Requests, NEW F, Whole(F, r)
  PROVE  RequestAt(F, Len(F)) = [update |-> <<>>, remove |-> <<>>, unlinked |-> r.unlinked, linked |-> r.linked]
BY DEF Whole, RequestAt

LacksSpecs(log, action) ==
    IF action = "update" THEN log[Len(log)].update = <<>> ELSE log[Len(log)].remove = <<>>

SpecsRead(lines, log, action, q) ==
         \E more \in Seq(Lines) : \E new \in Seq(Entries) :
           /\ more = lines \o SpecsLine(action, q) /\ EntriesOf(more) = new
           /\ Len(new) = Len(log) /\ Len(new) \in Nat \ {0} /\ \A i \in 1..(Len(log) - 1) : new[i] = log[i]
           /\ new[Len(log)] = [update |-> IF action = "update" THEN q ELSE log[Len(log)].update,
                               remove |-> IF action = "remove" THEN q ELSE log[Len(log)].remove,
                               unlinked |-> log[Len(log)].unlinked, linked |-> log[Len(log)].linked]

\* The lines of specs put the specs in the entry.
LEMMA SpecsAreRead ==
  ASSUME NEW lines \in Seq(Lines), NEW log, EntriesOf(lines) = log, log # <<>>, NEW q \in Seq(Asked),
         NEW action \in {"update", "remove"}, LacksSpecs(log, action)
  PROVE  SpecsRead(lines, log, action, q)
<1> DEFINE n == Len(log)
<1>0. log \in Seq(Entries)
  BY EntriesAre
<1>1. n \in Nat \ {0} /\ log[n] \in Entries
  BY <1>0, EmptySeq
<1>2. CASE q = <<>>
  <2>1. lines \o SpecsLine(action, q) = lines
    <3>1. SpecsLine(action, q) = <<>>
      BY <1>2 DEF SpecsLine
    <3> QED BY <3>1
  <2>2. log[n] = [update |-> log[n].update, remove |-> log[n].remove, unlinked |-> log[n].unlinked,
                  linked |-> log[n].linked]
    BY <1>1 DEF Entries
  <2> HIDE DEF n
  <2>3. log[n] = [update |-> IF action = "update" THEN q ELSE log[n].update,
                  remove |-> IF action = "remove" THEN q ELSE log[n].remove,
                  unlinked |-> log[n].unlinked, linked |-> log[n].linked]
    <3>1. CASE action = "update"
      BY <1>2, <2>2, <3>1 DEF n, LacksSpecs
    <3>2. CASE action = "remove"
      BY <1>2, <2>2, <3>2 DEF n, LacksSpecs
    <3> QED BY <3>1, <3>2
  <2> QED BY <1>0, <1>1, <2>1, <2>3 DEF n, SpecsRead
<1>3. CASE q # <<>>
  <2> DEFINE line == LineOf(action, "", q)
             new == OnEntry(log, line)
  <2>1. line = LineOf(action, "", q)
    OBVIOUS
  <2>2. line.kind = action /\ line.specs = q /\ line \in Lines
    <3>1. action \in Kinds /\ "" \in DistNames
      BY DEF Kinds, DistNames
    <3>2. IsLine(LineOf(action, "", q), action, "", q)
      BY <3>1, LineTyped
    <3> HIDE DEF line
    <3> QED BY <2>1, <3>2 DEF IsLine
  <2>3. lines \o SpecsLine(action, q) = Append(lines, line)
    <3>1. SpecsLine(action, q) = <<line>>
      BY <1>3 DEF SpecsLine
    <3> HIDE DEF line
    <3> QED BY <2>2, <3>1
  <2> HIDE DEF line
  <2>4. EntriesOf(Append(lines, line)) = new
    <3>1. EntriesOf(Append(lines, line)) = ParsedLine(log, line)
      BY <2>2, EntriesGoOn
    <3> QED BY <2>2, <3>1 DEF ParsedLine
  <2>5. /\ new \in Seq(Entries) /\ Len(new) = n /\ \A i \in 1..(n - 1) : new[i] = log[i]
        /\ new[n] = [update   |-> IF line.kind = "update" THEN line.specs ELSE log[n].update,
                     remove   |-> IF line.kind = "remove" THEN line.specs ELSE log[n].remove,
                     unlinked |-> log[n].unlinked \cup DistIn(line, "-"),
                     linked   |-> log[n].linked \cup DistIn(line, "+")]
    BY <1>0, <2>2, OnEntryIs
  <2>6. DistIn(line, "-") = {} /\ DistIn(line, "+") = {}
    BY <2>2 DEF DistIn
  <2>7. new[n] = [update |-> IF action = "update" THEN q ELSE log[n].update,
                  remove |-> IF action = "remove" THEN q ELSE log[n].remove,
                  unlinked |-> log[n].unlinked, linked |-> log[n].linked]
    <3> HIDE DEF new
    <3> QED BY <2>2, <2>5, <2>6
  <2>8. Append(lines, line) \in Seq(Lines)
    BY <2>2
  <2> HIDE DEF new
  <2> QED BY <1>1, <2>3, <2>4, <2>5, <2>7, <2>8 DEF SpecsRead
<1> QED BY <1>2, <1>3

\* The lists of specs, which come last, complete the entry.
LEMMA CloseHistoryKeeps ==
  ASSUME HistoryInv, CloseHistory
  PROVE  HistoryInv'
<1>1. Writing /\ userRequest.left = <<>>
  BY DEF CloseHistory
<1>2. PICK r, F, k :
           /\ r \in Requests /\ k \in 0..Len(F)
           /\ userRequest = [request |-> r, left |-> userRequest.left]
           /\ userRequest.request = r /\ F = FlushedLines(r) /\ Whole(F, r)
           /\ WrittenSoFar(F, userRequest.left, entryLog, k)
           /\ entryLog \in Seq(Entries) /\ Len(entryLog) \in Nat \ {0} /\ Len(entryLog) <= MaxEntries
  BY <1>1, WhileWriting
<1> DEFINE n == Len(entryLog)
<1>3. F \in Seq(Lines) /\ Len(F) \in Nat \ {0} /\ <<>> = SubSeq(F, k + 1, Len(F))
  BY <1>1, <1>2 DEF Whole, WrittenSoFar
<1>4. k = Len(F)
  BY <1>2, <1>3, LeftIs
<1>5. UserRequests = entryLog
      /\ entryLog[n] = [update |-> <<>>, remove |-> <<>>, unlinked |-> r.unlinked, linked |-> r.linked]
  BY <1>2, <1>3, <1>4, WrittenWhole DEF WrittenSoFar
<1>6. /\ historyLines \in Seq(Lines) /\ r.update \in Seq(Asked) /\ r.remove \in Seq(Asked)
      /\ r \in [update : Seq(Asked), remove : Seq(Asked), unlinked : SUBSET Dists, linked : SUBSET Dists]
  BY <1>2, HistoryConstants DEF HistoryInv
<1>7. PICK more \in Seq(Lines), new \in Seq(Entries) :
           /\ more = historyLines \o SpecsLine("update", r.update) /\ EntriesOf(more) = new
           /\ Len(new) = n /\ Len(new) \in Nat \ {0} /\ \A i \in 1..(n - 1) : new[i] = entryLog[i]
           /\ new[n] = [update |-> r.update, remove |-> <<>>, unlinked |-> r.unlinked, linked |-> r.linked]
  <2>1. entryLog # <<>> /\ EntriesOf(historyLines) = entryLog /\ entryLog[n].update = <<>>
    BY <1>2, <1>5 DEF UserRequests
  <2>2. LacksSpecs(entryLog, "update")
    BY <2>1 DEF LacksSpecs
  <2>3. SpecsRead(historyLines, entryLog, "update", r.update)
    BY <1>6, <2>1, <2>2, SpecsAreRead
  <2>4. PICK more \in Seq(Lines), new \in Seq(Entries) :
           /\ more = historyLines \o SpecsLine("update", r.update) /\ EntriesOf(more) = new
           /\ Len(new) = n /\ Len(new) \in Nat \ {0} /\ \A i \in 1..(n - 1) : new[i] = entryLog[i]
           /\ new[n] = [update |-> r.update, remove |-> entryLog[n].remove,
                        unlinked |-> entryLog[n].unlinked, linked |-> entryLog[n].linked]
    BY <2>3 DEF SpecsRead
  <2>5. entryLog[n].remove = <<>> /\ entryLog[n].unlinked = r.unlinked /\ entryLog[n].linked = r.linked
    BY <1>5
  <2>6. new[n] = [update |-> r.update, remove |-> <<>>, unlinked |-> r.unlinked, linked |-> r.linked]
    BY <2>4, <2>5
  <2> QED BY <2>4, <2>6
<1>8. PICK last \in Seq(Lines), log \in Seq(Entries) :
           /\ last = more \o SpecsLine("remove", r.remove) /\ EntriesOf(last) = log
           /\ Len(log) = n /\ Len(log) \in Nat \ {0} /\ \A i \in 1..(n - 1) : log[i] = new[i]
           /\ log[n] = [update |-> r.update, remove |-> r.remove, unlinked |-> r.unlinked, linked |-> r.linked]
  <2>1. new # <<>> /\ new[n].remove = <<>>
    BY <1>7
  <2>2. LacksSpecs(new, "remove")
    BY <1>7, <2>1 DEF LacksSpecs
  <2>3. SpecsRead(more, new, "remove", r.remove)
    BY <1>6, <1>7, <2>1, <2>2, SpecsAreRead
  <2>4. PICK last \in Seq(Lines), log \in Seq(Entries) :
           /\ last = more \o SpecsLine("remove", r.remove) /\ EntriesOf(last) = log
           /\ Len(log) = Len(new) /\ Len(log) \in Nat \ {0} /\ \A i \in 1..(Len(new) - 1) : log[i] = new[i]
           /\ log[Len(new)] = [update |-> new[Len(new)].update, remove |-> r.remove,
                        unlinked |-> new[Len(new)].unlinked, linked |-> new[Len(new)].linked]
    BY <2>3 DEF SpecsRead
  <2>5. new[n].update = r.update /\ new[n].unlinked = r.unlinked /\ new[n].linked = r.linked
    BY <1>7
  <2>6. log[n] = [update |-> r.update, remove |-> r.remove, unlinked |-> r.unlinked, linked |-> r.linked]
    BY <1>7, <2>4, <2>5
  <2>7. \A i \in 1..(n - 1) : log[i] = new[i]
    BY <1>7, <2>4
  <2>8. Len(log) = n /\ Len(log) \in Nat \ {0}
    BY <1>7, <2>4
  <2>9. last = more \o SpecsLine("remove", r.remove) /\ EntriesOf(last) = log
    BY <2>4
  <2> QED BY <2>6, <2>7, <2>8, <2>9, Zenon
<1>9. historyLines' = last
  <2>1. SpecsLine("update", r.update) \in Seq(Lines) /\ SpecsLine("remove", r.remove) \in Seq(Lines)
    <3>1. ASSUME NEW action \in {"update", "remove"}, NEW q \in Seq(Asked)
          PROVE  SpecsLine(action, q) \in Seq(Lines)
      <4> DEFINE line == LineOf(action, "", q)
      <4>2. line = LineOf(action, "", q)
        OBVIOUS
      <4>3. action \in Kinds /\ "" \in DistNames
        BY DEF Kinds, DistNames
      <4>4. IsLine(LineOf(action, "", q), action, "", q)
        BY <4>3, LineTyped
      <4> HIDE DEF line
      <4>5. line \in Lines
        BY <4>2, <4>4 DEF IsLine
      <4>6. <<>> \in Seq(Lines) /\ <<line>> \in Seq(Lines)
        BY <4>5
      <4> QED BY <4>6 DEF SpecsLine, line
    <3> QED BY <1>6, <3>1
  <2>2. historyLines' = historyLines \o (SpecsLine("update", r.update) \o SpecsLine("remove", r.remove))
    BY <1>2 DEF CloseHistory, BufferedLines
  <2> DEFINE u == SpecsLine("update", r.update)
             v == SpecsLine("remove", r.remove)
  <2>3. u \in Seq(Lines) /\ v \in Seq(Lines) /\ historyLines' = historyLines \o (u \o v)
        /\ last = (historyLines \o u) \o v
    BY <1>7, <1>8, <2>1, <2>2
  <2> HIDE DEF u, v
  <2>4. historyLines \o (u \o v) = (historyLines \o u) \o v
    <3>1. /\ historyLines \o (u \o v) \in Seq(Lines) /\ (historyLines \o u) \o v \in Seq(Lines)
          /\ Len(historyLines \o (u \o v)) = Len((historyLines \o u) \o v)
      BY <1>6, <2>3
    <3>2. \A i \in 1..Len(historyLines \o (u \o v)) :
            (historyLines \o (u \o v))[i] = ((historyLines \o u) \o v)[i]
      BY <1>6, <2>3
    <3> QED BY <3>1, <3>2, SeqEqual
  <2> QED BY <2>3, <2>4
<1>10. /\ entryLog' = [entryLog EXCEPT ![n] = r] /\ ~Writing'
  BY <1>2 DEF CloseHistory, Writing
<1>11. r \in Entries /\ r = [update |-> r.update, remove |-> r.remove, unlinked |-> r.unlinked, linked |-> r.linked]
  BY <1>6 DEF Entries, DistNames
<1>12. /\ entryLog' \in Seq(Entries) /\ Len(entryLog') = n /\ entryLog'[n] = r
       /\ \A i \in 1..(n - 1) : entryLog'[i] = entryLog[i]
  BY <1>2, <1>10, <1>11
<1>13. log = entryLog'
  <2>1. \A i \in 1..n : i \in 1..(n - 1) \/ i = n
    BY <1>2
  <2>2. log[n] = r
    BY <1>8, <1>11
  <2>3. Len(log) = Len(entryLog') /\ \A i \in 1..Len(log) : log[i] = entryLog'[i]
    BY <1>7, <1>8, <1>12, <2>1, <2>2
  <2> QED BY <1>8, <1>12, <2>3, SeqEqual
<1>14. UserRequests' = entryLog'
  BY <1>8, <1>9, <1>13 DEF UserRequests
<1> QED BY <1>2, <1>8, <1>9, <1>10, <1>12, <1>14 DEF HistoryInv

\* An entry that is cut short is what its lines say, or nothing without its head.
LEMMA HistoryInterruptedKeeps ==
  ASSUME HistoryInv, HistoryInterrupted
  PROVE  HistoryInv'
<1>1. Writing /\ ~Writing' /\ historyLines' = historyLines
  BY DEF HistoryInterrupted, Writing
<1>2. PICK r, F, k :
           /\ r \in Requests /\ k \in 0..Len(F)
           /\ userRequest = [request |-> r, left |-> userRequest.left]
           /\ userRequest.request = r /\ F = FlushedLines(r) /\ Whole(F, r)
           /\ WrittenSoFar(F, userRequest.left, entryLog, k)
           /\ entryLog \in Seq(Entries) /\ Len(entryLog) \in Nat \ {0} /\ Len(entryLog) <= MaxEntries
  BY <1>1, WhileWriting
<1>3. userRequest.left = F <=> k = 0
  <2>1. F \in Seq(Lines) /\ userRequest.left = SubSeq(F, k + 1, Len(F))
    BY <1>2 DEF Whole, WrittenSoFar
  <2> QED BY <1>2, <2>1, LeftIs
<1>4. entryLog' = (IF k = 0 THEN Front(entryLog) ELSE entryLog) /\ UserRequests' = UserRequests
  BY <1>1, <1>2, <1>3 DEF HistoryInterrupted, UserRequests
<1>5. UserRequests' = entryLog'
  BY <1>2, <1>4 DEF WrittenSoFar
<1>6. entryLog' \in Seq(Entries) /\ Len(entryLog') <= MaxEntries
  <2>1. entryLog # <<>>
    BY <1>2
  <2>2. Front(entryLog) \in Seq(Entries) /\ Len(Front(entryLog)) = Len(entryLog) - 1
    BY <1>2, <2>1, FrontIs
  <2>3. Len(Front(entryLog)) <= MaxEntries
    BY <1>2, <2>2, HistoryConstants
  <2> QED BY <1>2, <1>4, <2>2, <2>3
<1>7. historyLines' \in Seq(Lines)
  BY <1>1 DEF HistoryInv
<1> QED BY <1>1, <1>5, <1>6, <1>7 DEF HistoryInv

LEMMA HistoryStep == HistoryInv /\ [HistoryNext]_historyVars => HistoryInv'
<1> SUFFICES ASSUME HistoryInv, [HistoryNext]_historyVars PROVE HistoryInv'
  OBVIOUS
<1>1. CASE UNCHANGED historyVars
  BY <1>1 DEF historyVars, HistoryInv, Writing, WrittenSoFar, UserRequests
<1> QED BY <1>1, AddEntryKeeps, WriteLineKeeps, CloseHistoryKeeps, HistoryInterruptedKeeps DEF HistoryNext

\* The invariant gives the property.
LEMMA EntriesAreRead == HistoryInv => HistoryTypeOK /\ EntriesAreReadBack
<1> SUFFICES ASSUME HistoryInv PROVE HistoryTypeOK /\ EntriesAreReadBack
  OBVIOUS
<1>1. HistoryTypeOK
  <2>1. \A i \in DOMAIN historyLines : historyLines[i] \in Lines
    BY DEF HistoryInv
  <2>2. \A l \in Lines : l.kind \in Kinds
    BY DEF Lines
  <2>3. Len(entryLog) <= MaxEntries /\ (Writing => entryLog # <<>>)
    BY DEF HistoryInv
  <2> QED BY <2>1, <2>2, <2>3, Zenon DEF HistoryTypeOK, Kinds
<1>2. CASE ~Writing
  <2>1. UserRequests = entryLog
    BY <1>2 DEF HistoryInv
  <2> QED BY <1>1, <1>2, <2>1 DEF EntriesAreReadBack
<1>3. CASE Writing
  <2>1. PICK r, F, k :
           /\ r \in Requests /\ k \in 0..Len(F)
           /\ userRequest = [request |-> r, left |-> userRequest.left]
           /\ userRequest.request = r /\ F = FlushedLines(r) /\ Whole(F, r)
           /\ WrittenSoFar(F, userRequest.left, entryLog, k)
           /\ entryLog \in Seq(Entries) /\ Len(entryLog) \in Nat \ {0} /\ Len(entryLog) <= MaxEntries
    BY <1>3, WhileWriting
  <2>2. F \in Seq(Lines) /\ userRequest.left = SubSeq(F, k + 1, Len(F))
    BY <2>1 DEF Whole, WrittenSoFar
  <2>3. userRequest.left = F <=> k = 0
    BY <2>1, <2>2, LeftIs
  <2>4. Writing /\ userRequest.left = FlushedLines(userRequest.request) <=> k = 0
    BY <1>3, <2>1, <2>3
  <2>5. UserRequests = IF k = 0 THEN Front(entryLog) ELSE entryLog
    BY <2>1 DEF WrittenSoFar
  <2> QED BY <1>1, <2>4, <2>5 DEF EntriesAreReadBack
<1> QED BY <1>1, <1>2, <1>3
-----------------------------------------------------------------------------
(* History: the last request for a name *)

Values == {0} \cup {s.of : s \in Asked}
Maps == [SpecNames -> Values]

LEMMA AskedAre == \A s \in Asked : s.name \in SpecNames /\ s.of \in Values
BY DEF SpecNames, Values

\* A set of natural numbers with a bound has a greatest member.
LEMMA GreatestOf ==
  ASSUME NEW n \in Nat, NEW T \in SUBSET (1..n), T # {}
  PROVE  \E g \in T : \A m \in T : m <= g
<1> DEFINE U == {n - m : m \in T}
<1>1. U \in SUBSET Nat /\ U # {}
  <2>1. \A m \in T : m \in 1..n /\ n - m \in Nat
    OBVIOUS
  <2>2. \E m \in T : n - m \in U
    OBVIOUS
  <2>3. \A u \in U : u \in Nat
    BY <2>1
  <2> HIDE DEF U
  <2> QED BY <2>2, <2>3
<1>2. PICK u \in U : \A m \in U : u <= m
  <2> HIDE DEF U
  <2> QED BY <1>1, LeastOf
<1>3. PICK g \in T : u = n - g
  OBVIOUS
<1>4. ASSUME NEW m \in T PROVE m <= g
  <2>1. u <= n - m
    BY <1>2
  <2> QED BY <1>3, <2>1
<1> QED BY <1>4

SetOneByOne(map, specs, of, f) ==
    f[0] = map /\ \A n \in 1..Len(specs) : f[n] = [f[n - 1] EXCEPT ![specs[n].name] = of[n]]

\* The recursion of Overwritten has a solution, of which it is the last value.
LEMMA OverwrittenAre ==
  ASSUME NEW specs \in Seq(Asked), NEW map \in Maps, NEW of \in [1..Len(specs) -> Values]
  PROVE  \E f \in [0..Len(specs) -> Maps] : SetOneByOne(map, specs, of, f) /\ Overwritten(map, specs, of) = f[Len(specs)]
<1> DEFINE N == Len(specs)
           S == Maps
           z == map
           g == [n \in 1..N |-> [q \in S |-> [q EXCEPT ![specs[n].name] = of[n]]]]
           Solves(f) == f = [n \in 0..Len(specs) |-> IF n = 0 THEN map ELSE [f[n - 1] EXCEPT ![specs[n].name] = of[n]]]
<1>0. N \in Nat /\ Len(specs) \in Nat
  OBVIOUS
<1>1. z \in S /\ g \in [1..N -> [S -> S]]
  <2>1. ASSUME NEW n \in 1..N, NEW q \in S PROVE [q EXCEPT ![specs[n].name] = of[n]] \in S
    <3>1. specs[n] \in Asked /\ of[n] \in Values
      OBVIOUS
    <3> QED BY <2>1, <3>1, AskedAre DEF Maps
  <2> QED BY <2>1
<1>2. PICK f \in [0..N -> S] : Runs(N, z, g, f)
  <2> HIDE DEF N, S, z, g
  <2> QED BY <1>0, <1>1, StepsGoOn
<1>3. ASSUME NEW n \in 1..N PROVE f[n] = [f[n - 1] EXCEPT ![specs[n].name] = of[n]]
  <2>0. n - 1 \in 0..N
    BY <1>0
  <2>1. f[n - 1] \in S /\ f[n] = g[n][f[n - 1]]
    <3> HIDE DEF g
    <3> QED BY <2>0, <1>2 DEF Runs
  <2> QED BY <2>1
<1>4. f[0] = map
  BY <1>2 DEF Runs
<1>5. Solves(f)
  <2> DEFINE h == [n \in 0..Len(specs) |-> IF n = 0 THEN map ELSE [f[n - 1] EXCEPT ![specs[n].name] = of[n]]]
  <2>1. ASSUME NEW n \in 0..Len(specs) PROVE f[n] = h[n]
    <3>1. CASE n = 0
      BY <1>4, <3>1
    <3>2. CASE n # 0
      <4>1. n \in 1..N /\ h[n] = [f[n - 1] EXCEPT ![specs[n].name] = of[n]]
        BY <1>0, <3>2
      <4> HIDE DEF h
      <4> QED BY <1>3, <4>1
    <3> QED BY <3>1, <3>2
  <2>2. f = [n \in 0..Len(specs) |-> f[n]] /\ h = [n \in 0..Len(specs) |-> h[n]]
    BY <1>2
  <2>3. f = h
    <3> HIDE DEF h
    <3> QED BY <2>1, <2>2
  <2> QED BY <2>3
<1> DEFINE c == CHOOSE h : Solves(h)
<1>6. Solves(c)
  BY <1>5
<1>7. Overwritten(map, specs, of) = c[Len(specs)]
  BY DEF Overwritten
<1> HIDE DEF c
<1>8. Follows(N, S, z, g, c)
  <2>1. c[0] = map
    BY <1>0, <1>6
  <2>2. ASSUME NEW n \in 1..N, c[n - 1] \in S PROVE c[n] = g[n][c[n - 1]]
    <3>1. n \in 0..Len(specs) /\ n # 0
      BY <1>0
    <3>2. \A i \in 0..Len(specs) : c[i] = IF i = 0 THEN map ELSE [c[i - 1] EXCEPT ![specs[i].name] = of[i]]
      BY <1>6
    <3>3. c[n] = [c[n - 1] EXCEPT ![specs[n].name] = of[n]]
      BY <3>1, <3>2
    <3> QED BY <2>2, <3>3
  <2> QED BY <2>1, <2>2 DEF Follows
<1>9. SameTo(N, c, f)
  <2> HIDE DEF N, S, z, g, Solves
  <2> QED BY <1>0, <1>1, <1>2, <1>8, RunIs
<1>10. SetOneByOne(map, specs, of, f)
  <2> HIDE DEF Solves, S, z, g
  <2> QED BY <1>3, <1>4 DEF SetOneByOne
<1>11. c[Len(specs)] = f[Len(specs)]
  <2>1. Len(specs) \in 0..N
    BY <1>0
  <2> HIDE DEF Solves, S, z, g
  <2> QED BY <2>1, <1>9 DEF SameTo
<1> HIDE DEF Solves, z, g
<1>12. Overwritten(map, specs, of) = f[Len(specs)]
  BY <1>7, <1>11
<1>13. f \in [0..Len(specs) -> Maps]
  BY <1>2
<1> HIDE DEF S, N
<1> QED BY <1>10, <1>12, <1>13

LastOf(specs, i) == \A j \in 1..Len(specs) : specs[j].name = specs[i].name => j <= i

\* What the map has for a name is what the last spec of that name has set.
SetBy(map, specs, of, new) ==
    /\ new \in Maps
    /\ \A name \in SpecNames : (\A i \in 1..Len(specs) : specs[i].name # name) => new[name] = map[name]
    /\ \A i \in 1..Len(specs) : LastOf(specs, i) => new[specs[i].name] = of[i]

\* By the least place at which it could be wrong.
LEMMA OverwrittenIs ==
  ASSUME NEW specs \in Seq(Asked), NEW map \in Maps, NEW of \in [1..Len(specs) -> Values]
  PROVE  SetBy(map, specs, of, Overwritten(map, specs, of))
<1> DEFINE N == Len(specs)
<1>1. PICK f \in [0..N -> Maps] : SetOneByOne(map, specs, of, f) /\ Overwritten(map, specs, of) = f[N]
  BY OverwrittenAre
<1> DEFINE Kept1(n) == \A name \in SpecNames : (\A i \in 1..n : specs[i].name # name) => f[n][name] = map[name]
           Set1(n) == \A i \in 1..n : (\A j \in 1..n : specs[j].name = specs[i].name => j <= i)
                                        => f[n][specs[i].name] = of[i]
           Good(n) == Kept1(n) /\ Set1(n)
           T == {m \in 0..N : ~Good(m)}
<1>2. Good(0)
  BY <1>1 DEF SetOneByOne
<1>3. ASSUME NEW m \in 1..N, Good(m - 1) PROVE Good(m)
  <2>0. m - 1 \in 0..N /\ f[m - 1] \in Maps /\ specs[m] \in Asked
    BY <1>1
  <2>1. /\ specs[m].name \in SpecNames /\ f[m][specs[m].name] = of[m]
        /\ \A name \in SpecNames : name # specs[m].name => f[m][name] = f[m - 1][name]
    <3>1. f[m] = [f[m - 1] EXCEPT ![specs[m].name] = of[m]]
      BY <1>1 DEF SetOneByOne
    <3> QED BY <2>0, <3>1, AskedAre DEF Maps
  <2>2. \A i : i \in 1..m <=> i \in 1..(m - 1) \/ i = m
    OBVIOUS
  <2>3. Kept1(m)
    <3> SUFFICES ASSUME NEW name \in SpecNames, \A i \in 1..m : specs[i].name # name
                 PROVE  f[m][name] = map[name]
      OBVIOUS
    <3>1. name # specs[m].name /\ \A i \in 1..(m - 1) : specs[i].name # name
      BY <2>2
    <3> QED BY <1>3, <2>1, <3>1
  <2>4. Set1(m)
    <3> SUFFICES ASSUME NEW i \in 1..m, \A j \in 1..m : specs[j].name = specs[i].name => j <= i
                 PROVE  f[m][specs[i].name] = of[i]
      OBVIOUS
    <3>1. CASE i = m
      BY <2>1, <3>1
    <3>2. CASE i # m
      <4>1. i \in 1..(m - 1) /\ specs[m].name # specs[i].name /\ i \in 1..N
        BY <3>2
      <4>2. \A j \in 1..(m - 1) : specs[j].name = specs[i].name => j <= i
        BY <2>2
      <4>3. f[m - 1][specs[i].name] = of[i]
        BY <1>3, <4>1, <4>2
      <4>4. specs[i].name \in SpecNames
        BY <4>1, AskedAre
      <4> QED BY <2>1, <4>1, <4>3, <4>4
    <3> QED BY <3>1, <3>2
  <2> QED BY <2>3, <2>4
<1>4. T = {}
  <2> HIDE DEF Good
  <2> SUFFICES ASSUME T # {} PROVE FALSE
    OBVIOUS
  <2>1. PICK m \in T : \A n \in T : m <= n
    <3>1. T \in SUBSET Nat
      OBVIOUS
    <3> HIDE DEF T
    <3> QED BY <3>1, LeastOf
  <2>2. m \in 1..N /\ ~Good(m)
    BY <1>2, <2>1
  <2>3. Good(m - 1)
    BY <2>1, <2>2
  <2> QED BY <1>3, <2>2, <2>3
<1>5. Good(N)
  <2> HIDE DEF Good
  <2> QED BY <1>4
<1> HIDE DEF N
<1>6. f[N] \in Maps
  BY <1>1 DEF N
<1> QED BY <1>1, <1>5, <1>6 DEF SetBy, LastOf, N

\* What the map has for a name after a request: what it had if the request does
\* not mention it, the last spec asked for if there is one, and none otherwise.
Outcome(r, name, v) ==
    /\ Asks(r, name) = {} => v = 0
    /\ \A a \in Asks(r, name) : (\A b \in Asks(r, name) : b <= a) => v = r.update[a].of
SetByRequest(map, r, new) ==
    /\ new \in Maps
    /\ \A name \in SpecNames : ~Mentions(r, name) => new[name] = map[name]
    /\ \A name \in SpecNames : Mentions(r, name) => Outcome(r, name, new[name])

\* What is removed is erased first, so that an update of the same request counts.
LEMMA AppliedIs ==
  ASSUME NEW r \in Entries, NEW map \in Maps
  PROVE  SetByRequest(map, r, Applied(map, r))
<1>1. r.update \in Seq(Asked) /\ r.remove \in Seq(Asked)
  BY DEF Entries
<1> DEFINE u == r.update
           v == r.remove
           zeros == [i \in DOMAIN v |-> 0]
           ofs == [i \in DOMAIN u |-> u[i].of]
           e == Erased(map, v)
           new == Assigned(e, u)
<1>2. zeros \in [1..Len(v) -> Values] /\ ofs \in [1..Len(u) -> Values]
  <2>1. \A i \in 1..Len(u) : u[i].of \in Values
    BY <1>1, AskedAre
  <2>2. 0 \in Values
    BY DEF Values
  <2> QED BY <1>1, <2>1, <2>2
<1>3. SetBy(map, v, zeros, e)
  <2>1. SetBy(map, v, zeros, Overwritten(map, v, zeros))
    <3> HIDE DEF zeros, v
    <3> QED BY <1>1, <1>2, OverwrittenIs DEF v
  <2>2. e = Overwritten(map, v, zeros)
    BY DEF Erased
  <2> HIDE DEF e, zeros, v
  <2> QED BY <2>1, <2>2
<1>4. e \in Maps
  <2> HIDE DEF e, zeros, v
  <2> QED BY <1>3 DEF SetBy
<1>5. SetBy(e, u, ofs, new)
  <2>1. SetBy(e, u, ofs, Overwritten(e, u, ofs))
    <3> HIDE DEF e, ofs, u
    <3> QED BY <1>1, <1>2, <1>4, OverwrittenIs DEF u
  <2>2. new = Overwritten(e, u, ofs)
    BY DEF Assigned
  <2> HIDE DEF new, e, ofs, u
  <2> QED BY <2>1, <2>2
<1>6. Applied(map, r) = new
  BY DEF Applied
<1>7. \A i \in 1..Len(u) : ofs[i] = u[i].of
  BY <1>1
<1>8. \A i \in 1..Len(v) : zeros[i] = 0
  BY <1>1
<1>9. ASSUME NEW name
      PROVE  /\ Mentions(r, name) <=> (\E i \in 1..Len(u) : u[i].name = name) \/ (\E i \in 1..Len(v) : v[i].name = name)
             /\ Asks(r, name) = {i \in 1..Len(u) : u[i].name = name}
  <2>1. Range(u) = {u[i] : i \in 1..Len(u)} /\ Range(v) = {v[i] : i \in 1..Len(v)}
    BY <1>1 DEF Range
  <2> QED BY <1>1, <2>1 DEF Mentions, Asks
<1> HIDE DEF new, e, zeros, ofs
<1>10. ASSUME NEW name \in SpecNames, ~Mentions(r, name) PROVE new[name] = map[name]
  <2>1. (\A i \in 1..Len(u) : u[i].name # name) /\ (\A i \in 1..Len(v) : v[i].name # name)
    BY <1>9, <1>10
  <2> HIDE DEF u, v
  <2> QED BY <2>1, <1>3, <1>5 DEF SetBy
<1>11. ASSUME NEW name \in SpecNames, Mentions(r, name) PROVE Outcome(r, name, new[name])
  <2>1. ASSUME Asks(r, name) = {} PROVE new[name] = 0
    <3>1. (\A i \in 1..Len(u) : u[i].name # name) /\ \E i \in 1..Len(v) : v[i].name = name
      BY <1>9, <1>11, <2>1
    <3>2. Len(v) \in Nat
      BY <1>1
    <3> HIDE DEF u, v
    <3> DEFINE T == {i \in 1..Len(v) : v[i].name = name}
    <3>3. PICK g \in T : \A m \in T : m <= g
      <4>1. T \in SUBSET (1..Len(v)) /\ T # {}
        BY <3>1
      <4> HIDE DEF T
      <4> QED BY <3>2, <4>1, GreatestOf
    <3>4. g \in 1..Len(v) /\ v[g].name = name /\ LastOf(v, g)
      BY <3>3 DEF LastOf
    <3>5. e[name] = 0
      BY <1>3, <1>8, <3>4 DEF SetBy
    <3> QED BY <1>5, <3>1, <3>5 DEF SetBy
  <2>2. ASSUME NEW a \in Asks(r, name), \A b \in Asks(r, name) : b <= a PROVE new[name] = r.update[a].of
    <3>1. a \in 1..Len(u) /\ u[a].name = name /\ LastOf(u, a)
      BY <1>9, <2>2 DEF LastOf
    <3>2. new[name] = u[a].of
      <4> HIDE DEF u, v
      <4> QED BY <1>5, <1>7, <3>1 DEF SetBy
    <3> QED BY <3>2
  <2> QED BY <2>1, <2>2 DEF Outcome
<1>12. new \in Maps
  <2> HIDE DEF u, v
  <2> QED BY <1>5 DEF SetBy
<1> QED BY <1>6, <1>10, <1>11, <1>12 DEF SetByRequest

MapsInTurn(requests, f) ==
    f[0] = NoSpecs /\ \A n \in 1..Len(requests) : f[n] = Applied(f[n - 1], requests[n])

\* The recursion of SpecsMap has a solution, of which it is the last value.
LEMMA SpecsMapsAre ==
  ASSUME NEW requests \in Seq(Entries)
  PROVE  \E f \in [0..Len(requests) -> Maps] : MapsInTurn(requests, f) /\ SpecsMap(requests) = f[Len(requests)]
<1> DEFINE N == Len(requests)
           S == Maps
           z == NoSpecs
           g == [n \in 1..N |-> [q \in S |-> Applied(q, requests[n])]]
           Solves(f) == f = [n \in 0..Len(requests) |-> IF n = 0 THEN NoSpecs ELSE Applied(f[n - 1], requests[n])]
<1>0. N \in Nat /\ Len(requests) \in Nat
  OBVIOUS
<1>1. z \in S /\ g \in [1..N -> [S -> S]]
  <2>1. ASSUME NEW n \in 1..N, NEW q \in S PROVE Applied(q, requests[n]) \in S
    <3>1. requests[n] \in Entries /\ q \in Maps
      OBVIOUS
    <3>2. SetByRequest(q, requests[n], Applied(q, requests[n]))
      BY <3>1, AppliedIs
    <3> QED BY <3>2 DEF SetByRequest
  <2>2. z \in S
    BY DEF NoSpecs, Maps, Values
  <2> HIDE DEF z, S
  <2> QED BY <2>1, <2>2
<1>2. PICK f \in [0..N -> S] : Runs(N, z, g, f)
  <2> HIDE DEF N, S, z, g
  <2> QED BY <1>0, <1>1, StepsGoOn
<1>3. ASSUME NEW n \in 1..N PROVE f[n] = Applied(f[n - 1], requests[n])
  <2>0. n - 1 \in 0..N
    BY <1>0
  <2>1. f[n - 1] \in S /\ f[n] = g[n][f[n - 1]]
    <3> HIDE DEF g
    <3> QED BY <2>0, <1>2 DEF Runs
  <2> QED BY <2>1
<1>4. f[0] = NoSpecs
  BY <1>2 DEF Runs
<1>5. Solves(f)
  <2> DEFINE h == [n \in 0..Len(requests) |-> IF n = 0 THEN NoSpecs ELSE Applied(f[n - 1], requests[n])]
  <2>1. ASSUME NEW n \in 0..Len(requests) PROVE f[n] = h[n]
    <3>1. CASE n = 0
      BY <1>4, <3>1
    <3>2. CASE n # 0
      <4>1. n \in 1..N /\ h[n] = Applied(f[n - 1], requests[n])
        BY <1>0, <3>2
      <4> HIDE DEF h
      <4> QED BY <1>3, <4>1
    <3> QED BY <3>1, <3>2
  <2>2. f = [n \in 0..Len(requests) |-> f[n]] /\ h = [n \in 0..Len(requests) |-> h[n]]
    BY <1>2
  <2>3. f = h
    <3> HIDE DEF h
    <3> QED BY <2>1, <2>2
  <2> QED BY <2>3
<1> DEFINE c == CHOOSE h : Solves(h)
<1>6. Solves(c)
  BY <1>5
<1>7. SpecsMap(requests) = c[Len(requests)]
  BY DEF SpecsMap
<1> HIDE DEF c
<1>8. Follows(N, S, z, g, c)
  <2>1. c[0] = NoSpecs
    BY <1>0, <1>6
  <2>2. ASSUME NEW n \in 1..N, c[n - 1] \in S PROVE c[n] = g[n][c[n - 1]]
    <3>1. n \in 0..Len(requests) /\ n # 0
      BY <1>0
    <3>2. \A i \in 0..Len(requests) : c[i] = IF i = 0 THEN NoSpecs ELSE Applied(c[i - 1], requests[i])
      BY <1>6
    <3>3. c[n] = Applied(c[n - 1], requests[n])
      BY <3>1, <3>2
    <3> QED BY <2>2, <3>3
  <2> QED BY <2>1, <2>2 DEF Follows
<1>9. SameTo(N, c, f)
  <2> HIDE DEF N, S, z, g, Solves
  <2> QED BY <1>0, <1>1, <1>2, <1>8, RunIs
<1>10. MapsInTurn(requests, f)
  <2> HIDE DEF Solves, S, z, g
  <2> QED BY <1>3, <1>4 DEF MapsInTurn
<1>11. c[Len(requests)] = f[Len(requests)]
  <2>1. Len(requests) \in 0..N
    BY <1>0
  <2> HIDE DEF Solves, S, z, g
  <2> QED BY <2>1, <1>9 DEF SameTo
<1> HIDE DEF Solves, z, g
<1>12. SpecsMap(requests) = f[Len(requests)]
  BY <1>7, <1>11
<1>13. f \in [0..Len(requests) -> Maps]
  BY <1>2
<1> HIDE DEF S, N
<1> QED BY <1>10, <1>12, <1>13

\* Of the requests that mention a name the last one counts.
LastMention(requests, n, i, name) ==
    Mentions(requests[i], name) /\ \A j \in 1..n : Mentions(requests[j], name) => j <= i
SetByRequests(requests, n, map) ==
    \A name \in SpecNames :
        /\ (\A i \in 1..n : ~Mentions(requests[i], name)) => map[name] = 0
        /\ \A i \in 1..n : LastMention(requests, n, i, name) => Outcome(requests[i], name, map[name])

\* By the least number of requests for which it could be wrong.
LEMMA SpecsMapIs ==
  ASSUME NEW requests \in Seq(Entries)
  PROVE  SetByRequests(requests, Len(requests), SpecsMap(requests))
<1> DEFINE N == Len(requests)
<1>0. N \in Nat
  OBVIOUS
<1>1. PICK f \in [0..N -> Maps] : MapsInTurn(requests, f) /\ SpecsMap(requests) = f[N]
  BY SpecsMapsAre
<1> DEFINE Good(n) == SetByRequests(requests, n, f[n])
           T == {m \in 0..N : ~Good(m)}
<1>2. Good(0)
  <2>1. \A name \in SpecNames : f[0][name] = 0
    BY <1>1 DEF MapsInTurn, NoSpecs
  <2> QED BY <2>1 DEF SetByRequests
<1>3. ASSUME NEW m \in 1..N, Good(m - 1) PROVE Good(m)
  <2>0. m - 1 \in 0..N /\ m - 1 \in Nat /\ f[m - 1] \in Maps /\ requests[m] \in Entries
    BY <1>0, <1>1
  <2>1. SetByRequest(f[m - 1], requests[m], f[m])
    <3>1. f[m] = Applied(f[m - 1], requests[m])
      BY <1>1 DEF MapsInTurn
    <3> QED BY <2>0, <3>1, AppliedIs
  <2>2. \A i : i \in 1..m <=> i \in 1..(m - 1) \/ i = m
    BY <2>0
  <2>3. ASSUME NEW name \in SpecNames, \A i \in 1..m : ~Mentions(requests[i], name)
        PROVE  f[m][name] = 0
    <3>1. ~Mentions(requests[m], name) /\ \A i \in 1..(m - 1) : ~Mentions(requests[i], name)
      BY <2>2, <2>3
    <3>2. f[m][name] = f[m - 1][name]
      BY <2>1, <3>1 DEF SetByRequest
    <3> QED BY <1>3, <3>1, <3>2 DEF SetByRequests
  <2>4. ASSUME NEW name \in SpecNames, NEW i \in 1..m, LastMention(requests, m, i, name)
        PROVE  Outcome(requests[i], name, f[m][name])
    <3>1. CASE i = m
      <4>1. Mentions(requests[m], name)
        BY <2>4, <3>1 DEF LastMention
      <4> QED BY <2>1, <3>1, <4>1 DEF SetByRequest
    <3>2. CASE i # m
      <4>1. i \in 1..(m - 1) /\ ~Mentions(requests[m], name)
        BY <2>0, <2>2, <2>4, <3>2 DEF LastMention
      <4>2. LastMention(requests, m - 1, i, name)
        BY <2>2, <2>4 DEF LastMention
      <4>3. f[m][name] = f[m - 1][name]
        BY <2>1, <4>1 DEF SetByRequest
      <4>4. Outcome(requests[i], name, f[m - 1][name])
        BY <1>3, <4>1, <4>2 DEF SetByRequests
      <4> QED BY <4>3, <4>4
    <3> QED BY <3>1, <3>2
  <2> QED BY <2>3, <2>4 DEF SetByRequests
<1>4. T = {}
  <2> HIDE DEF Good
  <2> SUFFICES ASSUME T # {} PROVE FALSE
    OBVIOUS
  <2>1. PICK m \in T : \A n \in T : m <= n
    <3>1. T \in SUBSET Nat
      BY <1>0
    <3> HIDE DEF T
    <3> QED BY <3>1, LeastOf
  <2>2. m \in 1..N /\ ~Good(m)
    BY <1>0, <1>2, <2>1
  <2>3. Good(m - 1)
    BY <1>0, <2>1, <2>2
  <2> QED BY <1>3, <2>2, <2>3
<1>5. Good(N)
  <2> HIDE DEF Good
  <2> QED BY <1>0, <1>4
<1> QED BY <1>1, <1>5

\* The greatest member of a set of numbers with a bound, as the property picks it.
LEMMA GreatestIs ==
  ASSUME NEW n \in Nat, NEW T \in SUBSET (1..n), T # {}
  PROVE  /\ (CHOOSE i \in T : \A j \in T : j <= i) \in T
         /\ \A j \in T : j <= (CHOOSE i \in T : \A j2 \in T : j2 <= i)
BY GreatestOf, Zenon

LEMMA UserRequestsTyped ==
  ASSUME HistoryInv
  PROVE  UserRequests \in Seq(Entries)
<1>1. historyLines \in Seq(Lines)
  BY DEF HistoryInv
<1>2. PICK f \in [0..Len(historyLines) -> Seq(Entries)] : EntriesOf(historyLines) = f[Len(historyLines)]
  BY <1>1, EntriesAre
<1>3. Len(historyLines) \in 0..Len(historyLines)
  BY <1>1
<1> QED BY <1>2, <1>3 DEF UserRequests

\* The property, from what the map is for any requests.
LEMMA LastCounts == HistoryInv => LastRequestCounts
<1> SUFFICES ASSUME HistoryInv PROVE LastRequestCounts
  OBVIOUS
<1> DEFINE R == UserRequests
<1>1. R \in Seq(Entries)
  BY UserRequestsTyped
<1>2. SetByRequests(R, Len(R), RequestedSpecsMap)
  <2> HIDE DEF R
  <2>1. SetByRequests(R, Len(R), SpecsMap(R))
    BY <1>1, SpecsMapIs
  <2> QED BY <2>1 DEF RequestedSpecsMap, R
<1> DEFINE entries(name) == {i \in DOMAIN R : Mentions(R[i], name)}
           at(name) == CHOOSE i \in entries(name) : \A j \in entries(name) : j <= i
           asked(name) == Asks(R[at(name)], name)
           ask(name) == CHOOSE i \in asked(name) : \A j \in asked(name) : j <= i
<1> SUFFICES ASSUME NEW name \in SpecNames
             PROVE  RequestedSpecsMap[name] =
                      IF entries(name) = {} \/ asked(name) = {} THEN 0 ELSE R[at(name)].update[ask(name)].of
  BY DEF LastRequestCounts
<1> HIDE DEF R
<1>3. DOMAIN R = 1..Len(R) /\ Len(R) \in Nat
  BY <1>1
<1>4. CASE entries(name) = {}
  <2>1. \A i \in 1..Len(R) : ~Mentions(R[i], name)
    BY <1>3, <1>4
  <2>2. RequestedSpecsMap[name] = 0
    BY <1>2, <2>1 DEF SetByRequests
  <2> QED BY <1>4, <2>2
<1>5. CASE entries(name) # {}
  <2>1. at(name) \in entries(name) /\ \A j \in entries(name) : j <= at(name)
    <3> DEFINE T == entries(name)
    <3>1. T \in SUBSET (1..Len(R)) /\ T # {}
      BY <1>3, <1>5
    <3> HIDE DEF T
    <3>2. /\ (CHOOSE i \in T : \A j \in T : j <= i) \in T
          /\ \A j \in T : j <= (CHOOSE i \in T : \A j2 \in T : j2 <= i)
      BY <1>3, <3>1, GreatestIs
    <3> QED BY <3>2 DEF T
  <2> HIDE DEF at
  <2>2. at(name) \in 1..Len(R) /\ LastMention(R, Len(R), at(name), name) /\ R[at(name)] \in Entries
    BY <1>1, <1>3, <2>1 DEF LastMention
  <2>3. Outcome(R[at(name)], name, RequestedSpecsMap[name])
    BY <1>2, <2>2 DEF SetByRequests
  <2>4. CASE asked(name) = {}
    <3>1. RequestedSpecsMap[name] = 0
      BY <2>3, <2>4 DEF Outcome
    <3> QED BY <2>4, <3>1
  <2>5. CASE asked(name) # {}
    <3>1. ask(name) \in asked(name) /\ \A j \in asked(name) : j <= ask(name)
      <4> DEFINE T == asked(name)
                 r == R[at(name)]
      <4>1. r.update \in Seq(Asked)
        BY <2>2 DEF Entries
      <4>2. Len(r.update) \in Nat /\ T \in SUBSET (1..Len(r.update)) /\ T # {}
        BY <2>5, <4>1 DEF Asks
      <4> HIDE DEF T, r
      <4>3. /\ (CHOOSE i \in T : \A j \in T : j <= i) \in T
            /\ \A j \in T : j <= (CHOOSE i \in T : \A j2 \in T : j2 <= i)
        BY <4>2, GreatestIs
      <4> QED BY <4>3 DEF T
    <3> HIDE DEF ask
    <3>2. RequestedSpecsMap[name] = R[at(name)].update[ask(name)].of
      BY <2>3, <3>1 DEF Outcome
    <3> QED BY <1>5, <2>5, <3>2
  <2> QED BY <2>4, <2>5
<1> QED BY <1>4, <1>5
-----------------------------------------------------------------------------
(* PythonicList: sequences one after another *)

JoinedOneByOne(seqs, f) ==
    f[1] = seqs[1] /\ \A n \in 2..Len(seqs) : f[n] = f[n - 1] \o seqs[n]

\* The recursion of FlattenSeq has a solution, of which it is the last value.
LEMMA FlattenAre ==
  ASSUME NEW C, NEW seqs \in Seq(Seq(C)), seqs # <<>>
  PROVE  \E f \in [1..Len(seqs) -> Seq(C)] : JoinedOneByOne(seqs, f) /\ FlattenSeq(seqs) = f[Len(seqs)]
<1> DEFINE N == Len(seqs) - 1
           S == Seq(C)
           z == seqs[1]
           g == [n \in 1..N |-> [q \in S |-> q \o seqs[n + 1]]]
           Solves(f) == f = [i \in 1..Len(seqs) |-> IF i = 1 THEN seqs[i] ELSE f[i - 1] \o seqs[i]]
<1>0. N \in Nat /\ Len(seqs) \in Nat \ {0} /\ Len(seqs) = N + 1 /\ \A i \in 1..Len(seqs) : seqs[i] \in S
  BY EmptySeq
<1>1. z \in S /\ g \in [1..N -> [S -> S]]
  <2>1. ASSUME NEW n \in 1..N, NEW q \in S PROVE q \o seqs[n + 1] \in S
    <3>1. seqs[n + 1] \in S
      BY <1>0
    <3> QED BY <3>1
  <2>2. z \in S
    BY <1>0
  <2> HIDE DEF S, z
  <2> QED BY <2>1, <2>2
<1>2. PICK h \in [0..N -> S] : Runs(N, z, g, h)
  <2> HIDE DEF N, S, z, g
  <2> QED BY <1>0, <1>1, StepsGoOn
<1> DEFINE f == [i \in 1..Len(seqs) |-> h[i - 1]]
<1>3. ASSUME NEW n \in 2..Len(seqs) PROVE f[n] = f[n - 1] \o seqs[n]
  <2>0. n - 1 \in 1..N /\ n - 2 \in 0..N /\ (n - 1) - 1 = n - 2 /\ (n - 1) + 1 = n
        /\ n - 1 \in 1..Len(seqs) /\ n \in 1..Len(seqs)
    BY <1>0
  <2>1. h[n - 2] \in S /\ h[n - 1] = g[n - 1][h[n - 2]]
    <3> HIDE DEF g, N, S, z
    <3> QED BY <2>0, <1>2 DEF Runs
  <2>2. g[n - 1][h[n - 2]] = h[n - 2] \o seqs[n]
    BY <2>0, <2>1
  <2>3. f[n] = h[n - 1] /\ f[n - 1] = h[n - 2]
    BY <2>0
  <2> QED BY <2>1, <2>2, <2>3
<1>4. f[1] = seqs[1]
  BY <1>0, <1>2 DEF Runs
<1>5. f \in [1..Len(seqs) -> S]
  <2>1. \A i \in 1..Len(seqs) : i - 1 \in 0..N
    BY <1>0
  <2> HIDE DEF S
  <2> QED BY <2>1, <1>2
<1> HIDE DEF f
<1>6. Solves(f)
  <2> DEFINE d == [i \in 1..Len(seqs) |-> IF i = 1 THEN seqs[i] ELSE f[i - 1] \o seqs[i]]
  <2>1. ASSUME NEW n \in 1..Len(seqs) PROVE f[n] = d[n]
    <3>1. CASE n = 1
      BY <1>4, <3>1
    <3>2. CASE n # 1
      <4>1. n \in 2..Len(seqs) /\ d[n] = f[n - 1] \o seqs[n]
        BY <1>0, <3>2
      <4> HIDE DEF d
      <4> QED BY <1>3, <4>1
    <3> QED BY <3>1, <3>2
  <2>2. f = [n \in 1..Len(seqs) |-> f[n]] /\ d = [n \in 1..Len(seqs) |-> d[n]]
    BY <1>5
  <2>3. f = d
    <3> HIDE DEF d
    <3> QED BY <2>1, <2>2
  <2> QED BY <2>3
<1> DEFINE c == CHOOSE q : Solves(q)
<1>7. Solves(c)
  BY <1>6
<1>8. FlattenSeq(seqs) = c[Len(seqs)]
  BY <1>0 DEF FlattenSeq
<1> HIDE DEF c
<1> DEFINE e == [n \in 0..N |-> c[n + 1]]
<1>9. c[1] = seqs[1] /\ \A n \in 1..N : c[n + 1] = c[n] \o seqs[n + 1]
  <2>1. \A i \in 1..Len(seqs) : c[i] = IF i = 1 THEN seqs[i] ELSE c[i - 1] \o seqs[i]
    BY <1>7
  <2>2. c[1] = seqs[1]
    BY <1>0, <2>1
  <2>3. ASSUME NEW n \in 1..N PROVE c[n + 1] = c[n] \o seqs[n + 1]
    <3>1. n + 1 \in 1..Len(seqs) /\ n + 1 # 1 /\ (n + 1) - 1 = n
      BY <1>0
    <3>2. c[n + 1] = c[(n + 1) - 1] \o seqs[n + 1]
      BY <2>1, <3>1
    <3> QED BY <3>1, <3>2
  <2> QED BY <2>2, <2>3
<1>10. Follows(N, S, z, g, e)
  <2>1. e[0] = z
    BY <1>0, <1>9
  <2>2. ASSUME NEW n \in 1..N, e[n - 1] \in S PROVE e[n] = g[n][e[n - 1]]
    <3>1. n \in 0..N /\ n - 1 \in 0..N /\ (n - 1) + 1 = n
      BY <1>0
    <3>2. e[n] = c[n + 1] /\ e[n - 1] = c[n]
      BY <3>1
    <3>3. g[n][e[n - 1]] = e[n - 1] \o seqs[n + 1]
      <4> HIDE DEF e
      <4> QED BY <2>2
    <3> QED BY <3>2, <3>3, <1>9
  <2> HIDE DEF e, g
  <2> QED BY <2>1, <2>2 DEF Follows
<1>11. SameTo(N, e, h)
  <2> HIDE DEF N, S, z, g, e
  <2> QED BY <1>0, <1>1, <1>2, <1>10, RunIs
<1>12. FlattenSeq(seqs) = f[Len(seqs)]
  <2>1. N \in 0..N /\ e[N] = c[Len(seqs)] /\ f[Len(seqs)] = h[N]
    BY <1>0 DEF f
  <2> HIDE DEF e
  <2> QED BY <1>8, <1>11, <2>1 DEF SameTo
<1>13. JoinedOneByOne(seqs, f)
  BY <1>3, <1>4 DEF JoinedOneByOne
<1> HIDE DEF S, Solves
<1>14. f \in [1..Len(seqs) -> Seq(C)]
  BY <1>5 DEF S
<1> QED BY <1>12, <1>13, <1>14

\* Each sequence begins in the whole where the one before it ends.
PiecesAt(seqs, whole, L) ==
    /\ L[0] = 0 /\ Len(whole) = L[Len(seqs)]
    /\ \A k \in 1..Len(seqs) :
         /\ L[k] = L[k - 1] + Len(seqs[k]) /\ L[k] <= Len(whole)
         /\ \A i \in 1..Len(seqs[k]) : whole[L[k - 1] + i] = seqs[k][i]

\* By the least number of sequences for which it could be wrong.
LEMMA FlattenIs ==
  ASSUME NEW C, NEW seqs \in Seq(Seq(C)), seqs # <<>>
  PROVE  /\ FlattenSeq(seqs) \in Seq(C)
         /\ \E L \in [0..Len(seqs) -> Nat] : PiecesAt(seqs, FlattenSeq(seqs), L)
<1> DEFINE N == Len(seqs)
<1>0. N \in Nat \ {0} /\ \A i \in 1..N : seqs[i] \in Seq(C) /\ Len(seqs[i]) \in Nat
  BY EmptySeq
<1>1. PICK f \in [1..N -> Seq(C)] : JoinedOneByOne(seqs, f) /\ FlattenSeq(seqs) = f[N]
  BY FlattenAre
<1> DEFINE L == [k \in 0..N |-> IF k = 0 THEN 0 ELSE Len(f[k])]
<1>2. ASSUME NEW n \in 1..N PROVE f[n] \in Seq(C) /\ Len(f[n]) \in Nat
  <2>1. f[n] \in Seq(C)
    BY <1>1
  <2> QED BY <2>1
<1>3. L \in [0..N -> Nat] /\ L[0] = 0 /\ \A k \in 1..N : L[k] = Len(f[k])
  BY <1>0, <1>2
<1> HIDE DEF L
<1>4. ASSUME NEW n \in 2..N PROVE IsJoin(f[n - 1], seqs[n], f[n])
  <2>1. f[n] = f[n - 1] \o seqs[n]
    BY <1>1 DEF JoinedOneByOne
  <2>2. f[n - 1] \in Seq(C) /\ seqs[n] \in Seq(C)
    BY <1>0, <1>2
  <2> QED BY <2>1, <2>2, JoinIs
<1> DEFINE Whole1(m) == \A k \in 1..m :
                 /\ L[k] = L[k - 1] + Len(seqs[k]) /\ L[k] <= Len(f[m])
                 /\ \A i \in 1..Len(seqs[k]) : f[m][L[k - 1] + i] = seqs[k][i]
           T == {m \in 1..N : ~Whole1(m)}
<1>5. Whole1(1)
  <2>1. f[1] = seqs[1] /\ 1 \in 1..N
    BY <1>0, <1>1 DEF JoinedOneByOne
  <2>2. L[1] = Len(seqs[1]) /\ L[1 - 1] = 0 /\ Len(seqs[1]) \in Nat
    BY <1>0, <1>3, <2>1
  <2>3. \A k \in 1..1 : k = 1
    OBVIOUS
  <2>4. \A i \in 1..Len(seqs[1]) : 0 + i = i
    BY <2>2
  <2> QED BY <2>1, <2>2, <2>3, <2>4
<1>6. ASSUME NEW m \in 2..N, Whole1(m - 1) PROVE Whole1(m)
  <2>0. m - 1 \in 1..N /\ m \in 1..N /\ m - 1 \in Nat /\ \A k \in 1..m : k \in 1..(m - 1) \/ k = m
    BY <1>0
  <2>1. /\ Len(f[m]) = Len(f[m - 1]) + Len(seqs[m]) /\ Len(f[m - 1]) \in Nat /\ Len(seqs[m]) \in Nat
        /\ \A i \in 1..Len(f[m - 1]) : f[m][i] = f[m - 1][i]
        /\ \A i \in 1..Len(seqs[m]) : f[m][Len(f[m - 1]) + i] = seqs[m][i]
    BY <1>4 DEF IsJoin
  <2>2. L[m] = Len(f[m]) /\ L[m - 1] = Len(f[m - 1])
    BY <1>3, <2>0
  <2> DEFINE p == Len(f[m - 1])
             q == Len(f[m])
             s == Len(seqs[m])
  <2>5. p \in Nat /\ q \in Nat /\ s \in Nat /\ q = p + s /\ p <= q /\ L[m] = q /\ L[m - 1] = p
    <3>1. p \in Nat /\ s \in Nat /\ q = p + s
      BY <2>1
    <3>2. L[m] = q /\ L[m - 1] = p
      BY <2>2
    <3> HIDE DEF p, q, s
    <3> QED BY <3>1, <3>2
  <2> HIDE DEF p, q, s
  <2> SUFFICES ASSUME NEW k \in 1..m
               PROVE  /\ L[k] = L[k - 1] + Len(seqs[k]) /\ L[k] <= Len(f[m])
                      /\ \A i \in 1..Len(seqs[k]) : f[m][L[k - 1] + i] = seqs[k][i]
    OBVIOUS
  <2>3. CASE k = m
    <3>1. L[k] = L[k - 1] + Len(seqs[k]) /\ L[k] <= Len(f[m])
      BY <2>5, <2>3 DEF q, s
    <3>2. \A i \in 1..Len(seqs[k]) : f[m][L[k - 1] + i] = seqs[k][i]
      BY <2>1, <2>2, <2>3
    <3> QED BY <3>1, <3>2
  <2>4. CASE k # m
    <3>1. k \in 1..(m - 1) /\ k \in 1..N /\ k - 1 \in 0..N /\ k \in 0..N
      BY <1>0, <2>0, <2>4
    <3>2. L[k] \in Nat /\ L[k - 1] \in Nat
      BY <1>3, <3>1
    <3>3. L[k] = L[k - 1] + Len(seqs[k]) /\ L[k] <= Len(f[m - 1])
      BY <1>6, <3>1
    <3>4. ASSUME NEW i \in 1..Len(seqs[k]) PROVE f[m][L[k - 1] + i] = seqs[k][i]
      <4>1. f[m - 1][L[k - 1] + i] = seqs[k][i]
        BY <1>6, <3>1
      <4>2. L[k - 1] + i \in 1..Len(f[m - 1])
        <5>1. Len(seqs[k]) \in Nat /\ i \in Nat /\ i >= 1 /\ i <= Len(seqs[k])
          BY <1>0, <3>1
        <5>2. L[k] <= p
          BY <3>3 DEF p
        <5>3. L[k - 1] + i \in 1..p
          <6> DEFINE c == Len(seqs[k])
                     a == L[k - 1]
                     b == L[k]
          <6>1. c \in Nat /\ i \in Nat /\ i >= 1 /\ i <= c /\ a \in Nat /\ b = a + c /\ b <= p
            BY <5>1, <5>2, <3>2, <3>3
          <6> HIDE DEF a, b, c
          <6>2. a + i \in 1..p
            BY <6>1, <2>5
          <6> QED BY <6>2 DEF a
        <5> QED BY <5>3 DEF p
      <4> QED BY <2>1, <4>1, <4>2
    <3>5. L[k] <= Len(f[m])
      <4>1. L[k] <= p
        BY <3>3 DEF p
      <4> DEFINE a == L[k]
      <4>2. a \in Nat /\ a <= p
        BY <4>1, <3>2
      <4> HIDE DEF a
      <4>3. a <= q
        BY <4>2, <2>5
      <4> QED BY <4>3 DEF a, q
    <3> QED BY <3>3, <3>4, <3>5
  <2> QED BY <2>3, <2>4
<1>7. T = {}
  <2> HIDE DEF Whole1
  <2> SUFFICES ASSUME T # {} PROVE FALSE
    OBVIOUS
  <2>1. PICK m \in T : \A n \in T : m <= n
    <3>1. T \in SUBSET Nat
      BY <1>0
    <3> HIDE DEF T
    <3> QED BY <3>1, LeastOf
  <2>2. m \in 2..N /\ ~Whole1(m)
    BY <1>0, <1>5, <2>1
  <2>3. Whole1(m - 1)
    BY <1>0, <2>1, <2>2
  <2> QED BY <1>6, <2>2, <2>3
<1>8. Whole1(N)
  <2>1. N \in 1..N
    BY <1>0
  <2> HIDE DEF Whole1, N
  <2> QED BY <2>1, <1>7
<1>9. PiecesAt(seqs, f[N], L)
  <2>1. Len(f[N]) = L[N] /\ L[0] = 0
    BY <1>0, <1>3
  <2> QED BY <1>8, <2>1 DEF PiecesAt
<1>10. FlattenSeq(seqs) \in Seq(C) /\ L \in [0..Len(seqs) -> Nat] /\ PiecesAt(seqs, FlattenSeq(seqs), L)
  <2> HIDE DEF Whole1
  <2> QED BY <1>0, <1>1, <1>2, <1>3, <1>9
<1> HIDE DEF N
<1> QED BY <1>10
-----------------------------------------------------------------------------
(* PythonicList: what is written is read *)

Characters == {Quote, Backslash, Other}

\* Specs with neither a quote nor a backslash in them.
PlainSpecs == {s \in Seq(Characters) : \A i \in 1..Len(s) : s[i] = Other}

LEMMA SpecsTyped ==
  ASSUME NEW s \in Specs
  PROVE  s \in Seq(Characters)
<1>1. PICK m \in 0..MaxSpec : s \in [1..m -> Alphabet]
  BY DEF Specs, BoundedSeq, SeqOf
<1>2. m \in Nat
  BY <1>1, ListConstants
<1>3. \A i \in 1..m : s[i] \in Characters
  BY <1>1, ListConstants DEF Characters
<1>4. s \in [1..m -> Characters]
  BY <1>1, <1>3
<1> QED BY <1>2, <1>4

LEMMA PlainTyped ==
  ASSUME NEW s \in Seq(Characters), Range(s) \subseteq {Other}
  PROVE  s \in PlainSpecs
<1>1. \A i \in 1..Len(s) : s[i] \in Range(s)
  BY DEF Range
<1> QED BY <1>1 DEF PlainSpecs

\* std::quoted puts quotes around such a spec and changes nothing else.
LEMMA PlainFlat ==
  ASSUME NEW s \in PlainSpecs
  PROVE  EscapedSpec(s) = s
<1> DEFINE q == [i \in DOMAIN s |-> Escaped(s[i])]
           N == Len(s)
<1>9. SUFFICES FlattenSeq(q) = s
  BY DEF EscapedSpec
<1>0. s \in Seq(Characters) /\ N \in Nat /\ DOMAIN s = 1..N /\ \A i \in 1..N : s[i] = Other
  BY DEF PlainSpecs
<1>1. q = [i \in 1..N |-> <<Other>>]
  BY <1>0 DEF Escaped, Quote, Backslash, Other
<1>2. q \in Seq(Seq(Characters)) /\ Len(q) = N
  <2>1. <<Other>> \in Seq(Characters)
    BY DEF Characters
  <2> HIDE DEF q, N
  <2> QED BY <1>0, <1>1, <2>1
<1>3. CASE N = 0
  <2>1. q = <<>> /\ s = <<>>
    <3> HIDE DEF q
    <3> QED BY <1>0, <1>2, <1>3, EmptySeq
  <2>2. Len(<<>>) = 0
    OBVIOUS
  <2>3. FlattenSeq(<<>>) = <<>>
    BY <2>2 DEF FlattenSeq
  <2> HIDE DEF q
  <2> QED BY <2>1, <2>3
<1>4. CASE N # 0
  <2>1. q # <<>>
    <3> HIDE DEF q
    <3> QED BY <1>0, <1>2, <1>4, EmptySeq
  <2> DEFINE F == FlattenSeq(q)
  <2>2. F \in Seq(Characters) /\ \E L \in [0..Len(q) -> Nat] : PiecesAt(q, F, L)
    <3> HIDE DEF q
    <3> QED BY <1>2, <2>1, FlattenIs
  <2> HIDE DEF F
  <2>3. PICK L \in [0..N -> Nat] : PiecesAt(q, F, L)
    BY <1>2, <2>2
  <2>4. ASSUME NEW k \in 1..N PROVE L[k] = L[k - 1] + 1 /\ F[L[k - 1] + 1] = Other
    <3>1. q[k] = <<Other>> /\ Len(q[k]) = 1 /\ q[k][1] = Other
      BY <1>1
    <3>2. L[k] = L[k - 1] + Len(q[k]) /\ \A i \in 1..Len(q[k]) : F[L[k - 1] + i] = q[k][i]
      <4> HIDE DEF q
      <4> QED BY <1>2, <2>3 DEF PiecesAt
    <3> HIDE DEF q
    <3> QED BY <3>1, <3>2
  <2>5. L[0] = 0 /\ Len(F) = L[N]
    <3> HIDE DEF q
    <3> QED BY <1>2, <2>3 DEF PiecesAt
  <2> DEFINE T == {m \in 0..N : L[m] # m}
  <2>6. T = {}
    <3> SUFFICES ASSUME T # {} PROVE FALSE
      OBVIOUS
    <3>1. PICK m \in T : \A n \in T : m <= n
      <4>1. T \in SUBSET Nat
        BY <1>0
      <4> HIDE DEF T
      <4> QED BY <4>1, LeastOf
    <3>2. m \in 1..N /\ L[m] # m /\ m - 1 \in 0..N
      BY <1>0, <2>5, <3>1
    <3>3. L[m - 1] = m - 1
      BY <1>0, <3>1, <3>2
    <3>4. L[m] = L[m - 1] + 1
      BY <2>4, <3>2
    <3> HIDE DEF T, N, q
    <3> QED BY <3>2, <3>3, <3>4
  <2>7. \A m \in 0..N : L[m] = m
    BY <2>6
  <2>8. Len(F) = N
    BY <1>0, <2>5, <2>7
  <2>9. ASSUME NEW i \in 1..N PROVE F[i] = s[i]
    <3>1. L[i - 1] = i - 1 /\ (i - 1) + 1 = i
      BY <1>0, <2>7
    <3>2. F[i] = Other
      BY <2>4, <3>1
    <3> QED BY <1>0, <3>2
  <2>10. F = s
    <3> HIDE DEF N
    <3> QED BY <1>0, <2>2, <2>8, <2>9, SeqEqual DEF N
  <2> QED BY <2>10 DEF F
<1> QED BY <1>0, <1>3, <1>4

\* What std::quoted makes of a character.
IsEscape(e, c) ==
    \/ c = Other /\ Len(e) = 1 /\ e[1] = Other
    \/ c \in {Quote, Backslash} /\ Len(e) = 2 /\ e[1] = Backslash /\ e[2] = c

LEMMA EscapeIs ==
  ASSUME NEW c \in Characters
  PROVE  Escaped(c) \in Seq(Characters) /\ IsEscape(Escaped(c), c)
<1>1. CASE c = Other
  <2>1. Escaped(c) = <<Other>>
    BY <1>1 DEF Escaped, Quote, Backslash, Other
  <2> QED BY <1>1, <2>1 DEF IsEscape, Characters
<1>2. CASE c \in {Quote, Backslash}
  <2>1. Escaped(c) = <<Backslash, c>>
    BY <1>2 DEF Escaped
  <2>2. Len(<<Backslash, c>>) = 2 /\ <<Backslash, c>>[1] = Backslash /\ <<Backslash, c>>[2] = c
    OBVIOUS
  <2>3. Backslash \in Characters
    BY DEF Characters
  <2>4. <<Backslash, c>> \in Seq(Characters)
    BY <2>3
  <2> QED BY <1>2, <2>1, <2>2, <2>4 DEF IsEscape
<1> QED BY <1>1, <1>2 DEF Characters

\* A quote in what std::quoted puts between the quotes is after a backslash.
QuotesEscaped(e) == \A i \in 1..Len(e) : e[i] = Quote => i # 1 /\ e[i - 1] = Backslash
NoQuoteIn(e) == \A i \in 1..Len(e) : e[i] # Quote
ClosedPlainly(e) == Len(e) # 0 => e[Len(e)] # Backslash
IsEscapedSpec(e, s) ==
    /\ e \in Seq(Characters) /\ QuotesEscaped(e)
    /\ Readable(s) => NoQuoteIn(e) /\ ClosedPlainly(e)

\* Each character of it is one of what is made of a character of the spec.
LEMMA EscapedSpecIs ==
  ASSUME NEW s \in Seq(Characters)
  PROVE  IsEscapedSpec(EscapedSpec(s), s)
<1> DEFINE q == [i \in DOMAIN s |-> Escaped(s[i])]
           N == Len(s)
           F == FlattenSeq(q)
<1>0. N \in Nat /\ DOMAIN s = 1..N /\ \A i \in 1..N : s[i] \in Characters
  OBVIOUS
<1>1. \A i \in 1..N : q[i] \in Seq(Characters) /\ IsEscape(q[i], s[i])
  BY <1>0, EscapeIs
<1>2. q \in Seq(Seq(Characters)) /\ Len(q) = N
  <2>1. q \in [1..N -> Seq(Characters)]
    BY <1>0, <1>1
  <2> HIDE DEF q, N
  <2> QED BY <1>0, <2>1
<1>3. EscapedSpec(s) = F
  BY DEF EscapedSpec
<1> HIDE DEF q
<1>4. CASE N = 0
  <2>1. q = <<>>
    BY <1>2, <1>4, EmptySeq
  <2>2. Len(<<>>) = 0
    OBVIOUS
  <2>3. F = <<>>
    BY <2>1, <2>2 DEF FlattenSeq
  <2>4. <<>> \in Seq(Characters) /\ ~(\E i \in 1..0 : TRUE)
    OBVIOUS
  <2> HIDE DEF F
  <2> QED BY <1>3, <2>2, <2>3, <2>4 DEF IsEscapedSpec, QuotesEscaped, NoQuoteIn, ClosedPlainly
<1>5. CASE N # 0
  <2>1. q # <<>>
    BY <1>0, <1>2, <1>5, EmptySeq
  <2>2. F \in Seq(Characters) /\ \E L \in [0..Len(q) -> Nat] : PiecesAt(q, F, L)
    BY <1>2, <2>1, FlattenIs
  <2> HIDE DEF F
  <2>3. PICK L \in [0..N -> Nat] : PiecesAt(q, F, L)
    BY <1>2, <2>2
  <2>4. L[0] = 0 /\ Len(F) = L[N] /\ Len(F) \in Nat
    BY <1>2, <2>2, <2>3 DEF PiecesAt
  <2>5. ASSUME NEW k \in 1..N
        PROVE  /\ L[k] = L[k - 1] + Len(q[k]) /\ L[k - 1] \in Nat /\ L[k] \in Nat
               /\ \A j \in 1..Len(q[k]) : F[L[k - 1] + j] = q[k][j]
    <3>1. k - 1 \in 0..N /\ k \in 0..N
      BY <1>0
    <3>2. L[k - 1] \in Nat /\ L[k] \in Nat
      BY <2>3, <3>1
    <3> QED BY <1>2, <2>3, <3>2 DEF PiecesAt
  \* The character at i is the jth of what is made of the kth one.
  <2>6. ASSUME NEW i \in 1..Len(F)
        PROVE  \E k \in 1..N, j \in 1..2 :
                 i = L[k - 1] + j /\ j <= Len(q[k]) /\ L[k - 1] \in Nat
    <3> DEFINE T == {k \in 0..N : i <= L[k]}
    <3>1. N \in T /\ T \in SUBSET Nat
      BY <1>0, <2>4
    <3>2. PICK k \in T : \A n \in T : k <= n
      <4> HIDE DEF T
      <4> QED BY <3>1, LeastOf
    <3>3. k \in 1..N
      BY <1>0, <2>4, <3>2
    <3>4. ~(i <= L[k - 1])
      <4>1. k - 1 \in 0..N /\ ~(k <= k - 1)
        BY <1>0, <3>3
      <4>2. k - 1 \notin T
        BY <3>2, <4>1
      <4> QED BY <4>1, <4>2
    <3>5. i <= L[k] /\ L[k] = L[k - 1] + Len(q[k]) /\ L[k - 1] \in Nat
      BY <2>5, <3>2, <3>3
    <3>6. Len(q[k]) \in {1, 2}
      BY <1>1, <3>3 DEF IsEscape
    <3> HIDE DEF T
    <3> DEFINE a == L[k - 1]
               c == Len(q[k])
               j == i - a
    <3>7. a \in Nat /\ c \in {1, 2} /\ i \in Nat /\ i <= a + c /\ ~(i <= a)
      BY <2>4, <3>4, <3>5, <3>6
    <3> HIDE DEF a, c
    <3>8. j \in 1..2 /\ i = a + j /\ j <= c
      BY <3>7
    <3> HIDE DEF j
    <3> QED BY <3>3, <3>5, <3>8 DEF a, c
  <2>7. ASSUME NEW i \in 1..Len(F), F[i] = Quote
        PROVE  i # 1 /\ F[i - 1] = Backslash /\ \E k \in 1..N : s[k] = Quote
    <3>1. PICK k \in 1..N, j \in 1..2 : i = L[k - 1] + j /\ j <= Len(q[k]) /\ L[k - 1] \in Nat
      BY <2>6
    <3>2. IsEscape(q[k], s[k]) /\ Len(q[k]) \in Nat
      BY <1>1
    <3>3. F[i] = q[k][j]
      <4>1. j \in 1..Len(q[k])
        BY <3>1, <3>2
      <4> QED BY <2>5, <3>1, <4>1
    <3>4. q[k][1] # Quote
      BY <3>2 DEF IsEscape, Quote, Backslash, Other
    <3>5. j = 2
      BY <2>7, <3>1, <3>3, <3>4
    <3>6. Len(q[k]) = 2 /\ q[k][1] = Backslash /\ q[k][2] = s[k]
      <4>1. Len(q[k]) # 1
        BY <3>1, <3>5
      <4> QED BY <3>2, <4>1 DEF IsEscape
    <3>7. F[L[k - 1] + 1] = q[k][1]
      <4>1. 1 \in 1..Len(q[k])
        BY <3>6
      <4> QED BY <2>5, <4>1
    <3>8. i - 1 = L[k - 1] + 1 /\ i # 1
      BY <3>1, <3>5
    <3> QED BY <2>7, <3>3, <3>5, <3>6, <3>7, <3>8
  <2>8. QuotesEscaped(F)
    BY <2>7 DEF QuotesEscaped
  <2>9. ASSUME Readable(s) PROVE NoQuoteIn(F) /\ ClosedPlainly(F)
    <3>1. \A k \in 1..N : s[k] # Quote
      <4>1. \A k \in 1..N : s[k] \in Range(s)
        BY <1>0 DEF Range
      <4> QED BY <2>9, <4>1 DEF Readable
    <3>2. NoQuoteIn(F)
      BY <2>7, <3>1 DEF NoQuoteIn
    <3>3. s[N] # Backslash
      <4>1. s # <<>>
        BY <1>5
      <4> QED BY <2>9, <4>1 DEF Readable, Last
    <3>4. N \in 1..N
      BY <1>0, <1>5
    <3>5. IsEscape(q[N], s[N])
      BY <1>1, <3>4
    <3>6. Len(q[N]) \in Nat \ {0} /\ q[N][Len(q[N])] = s[N]
      BY <3>5 DEF IsEscape
    <3>7. F[L[N - 1] + Len(q[N])] = q[N][Len(q[N])] /\ L[N] = L[N - 1] + Len(q[N])
      <4>1. Len(q[N]) \in 1..Len(q[N])
        BY <3>6
      <4> QED BY <2>5, <3>4, <4>1
    <3>8. F[Len(F)] = s[N]
      BY <2>4, <3>6, <3>7
    <3> QED BY <3>2, <3>3, <3>8 DEF ClosedPlainly
  <2> QED BY <1>3, <2>2, <2>8, <2>9 DEF IsEscapedSpec
<1> QED BY <1>4, <1>5

\* What is between the quotes of each spec of a list.
Bodies(w) == [i \in DOMAIN w |-> EscapedSpec(w[i])]

LEMMA BodiesAre ==
  ASSUME NEW w \in Seq(Specs)
  PROVE  /\ Bodies(w) \in Seq(Seq(Characters)) /\ Len(Bodies(w)) = Len(w) /\ Len(w) \in Nat
         /\ \A i \in 1..Len(w) : Bodies(w)[i] = EscapedSpec(w[i]) /\ IsEscapedSpec(Bodies(w)[i], w[i])
<1> DEFINE B == Bodies(w)
           N == Len(w)
<1>1. N \in Nat /\ DOMAIN w = 1..N /\ \A i \in 1..N : w[i] \in Specs
  OBVIOUS
<1>2. DOMAIN B = 1..N /\ \A i \in 1..N : B[i] = EscapedSpec(w[i])
  BY <1>1 DEF Bodies
<1>3. \A i \in 1..N : IsEscapedSpec(B[i], w[i])
  BY <1>1, <1>2, SpecsTyped, EscapedSpecIs
<1>4. \A i \in 1..N : B[i] \in Seq(Characters)
  BY <1>3 DEF IsEscapedSpec
<1>5. B = [i \in 1..N |-> B[i]]
  BY <1>1 DEF Bodies
<1> HIDE DEF B, N
<1>6. B \in [1..N -> Seq(Characters)]
  BY <1>4, <1>5
<1>7. B \in Seq(Seq(Characters)) /\ Len(B) = N
  BY <1>1, <1>6
<1> QED BY <1>1, <1>2, <1>3, <1>7 DEF B, N

\* A quoted spec and what follows it.
PieceFor(s, last) == (<<Quote>> \o s \o <<Quote>>) \o IF last THEN <<Other>> ELSE <<Other, Other>>
IsPiece(p, s, last) ==
    /\ p \in Seq(Characters) /\ Len(p) = Len(s) + (IF last THEN 3 ELSE 4)
    /\ p[1] = Quote /\ p[Len(s) + 2] = Quote /\ p[Len(s) + 3] = Other
    /\ ~last => p[Len(s) + 4] = Other
    /\ \A i \in 1..Len(s) : p[1 + i] = s[i]

\* Where the quotes of a spec are, and what separates it from the next.
LEMMA PieceIs ==
  ASSUME NEW s \in Seq(Characters), NEW last \in BOOLEAN
  PROVE  IsPiece(PieceFor(s, last), s, last)
<1>0. s \in Seq(Characters) /\ Len(s) \in Nat
  OBVIOUS
<1> DEFINE a == <<Quote>> \o s
           b == a \o <<Quote>>
           e == IF last THEN <<Other>> ELSE <<Other, Other>>
           p == b \o e
<1>2. PieceFor(s, last) = p
  BY DEF PieceFor
<1>3. <<Quote>> \in Seq(Characters) /\ Len(<<Quote>>) = 1 /\ <<Quote>>[1] = Quote
  BY DEF Characters
<1>4. e \in Seq(Characters) /\ Len(e) = (IF last THEN 1 ELSE 2) /\ e[1] = Other /\ (~last => e[2] = Other)
  <2>1. CASE last
    <3>1. e = <<Other>>
      BY <2>1
    <3> HIDE DEF e
    <3> QED BY <2>1, <3>1 DEF Characters
  <2>2. CASE ~last
    <3>1. e = <<Other, Other>>
      BY <2>2
    <3> HIDE DEF e
    <3> QED BY <2>2, <3>1 DEF Characters
  <2> QED BY <2>1, <2>2
<1>5. a \in Seq(Characters) /\ IsJoin(<<Quote>>, s, a)
  BY <1>0, <1>3, JoinIs
<1> HIDE DEF a, e
<1>6. b \in Seq(Characters) /\ IsJoin(a, <<Quote>>, b)
  BY <1>3, <1>5, JoinIs
<1> HIDE DEF b
<1>7. p \in Seq(Characters) /\ IsJoin(b, e, p)
  BY <1>4, <1>6, JoinIs
<1> HIDE DEF p
<1> DEFINE m == Len(s)
<1>8. /\ Len(a) = m + 1 /\ a[1] = Quote /\ \A i \in 1..m : a[1 + i] = s[i]
  BY <1>0, <1>3, <1>5 DEF IsJoin
<1>9. /\ Len(b) = m + 2 /\ b[1] = Quote /\ b[m + 2] = Quote /\ \A i \in 1..m : b[1 + i] = s[i]
  <2>1. /\ Len(b) = Len(a) + 1 /\ \A i \in 1..Len(a) : b[i] = a[i]
        /\ \A i \in 1..1 : b[Len(a) + i] = <<Quote>>[i]
    BY <1>3, <1>6 DEF IsJoin
  <2>2. 1 \in 1..1 /\ 1 \in 1..Len(a) /\ \A i \in 1..m : 1 + i \in 1..Len(a)
    BY <1>0, <1>8
  <2>3. b[Len(a) + 1] = Quote
    BY <1>3, <2>1, <2>2
  <2>4. Len(a) + 1 = m + 2
    BY <1>0, <1>8
  <2> QED BY <1>8, <2>1, <2>2, <2>3, <2>4
<1>10. IsPiece(p, s, last)
  <2>1. /\ Len(p) = Len(b) + Len(e) /\ \A i \in 1..Len(b) : p[i] = b[i]
        /\ \A i \in 1..Len(e) : p[Len(b) + i] = e[i]
    BY <1>7 DEF IsJoin
  <2>2. /\ 1 \in 1..Len(b) /\ m + 2 \in 1..Len(b) /\ \A i \in 1..m : 1 + i \in 1..Len(b)
        /\ 1 \in 1..Len(e) /\ (~last => 2 \in 1..Len(e))
    BY <1>0, <1>4, <1>9
  <2>3. Len(b) + 1 = m + 3 /\ Len(b) + 2 = m + 4 /\ Len(b) + Len(e) = m + (IF last THEN 3 ELSE 4)
    BY <1>0, <1>4, <1>9
  <2>4. p[m + 3] = Other /\ (~last => p[m + 4] = Other)
    BY <1>4, <2>1, <2>2, <2>3
  <2>5. p[1] = Quote /\ p[m + 2] = Quote /\ \A i \in 1..m : p[1 + i] = s[i]
    BY <1>9, <2>1, <2>2
  <2>6. Len(p) = m + (IF last THEN 3 ELSE 4)
    BY <2>1, <2>3
  <2> QED BY <1>7, <2>4, <2>5, <2>6 DEF IsPiece
<1> QED BY <1>2, <1>10

\* Where the specs are in what follows the colon: L[k] + 1 characters are before
\* the quote that begins spec k + 1.
LaidOut(w, v, L) ==
    /\ v \in Seq(Characters) /\ L \in [0..Len(w) -> Nat] /\ L[0] = 0 /\ Len(v) = L[Len(w)] + 1
    /\ v[1] = Other
    /\ \A k \in 1..Len(w) :
         /\ L[k] = L[k - 1] + Len(w[k]) + (IF k = Len(w) THEN 3 ELSE 4) /\ L[k] + 1 <= Len(v)
         /\ v[L[k - 1] + 2] = Quote /\ v[L[k - 1] + Len(w[k]) + 3] = Quote
         /\ v[L[k - 1] + Len(w[k]) + 4] = Other
         /\ k # Len(w) => v[L[k - 1] + Len(w[k]) + 5] = Other
         /\ \A i \in 1..Len(w[k]) : v[L[k - 1] + 2 + i] = w[k][i]

\* What add_entry writes is laid out so.
LEMMA OutputLaidOut ==
  ASSUME NEW x \in Seq(Specs), x # <<>>, NEW w, w = Bodies(x)
  PROVE  \E L : LaidOut(w, SpecsOutput(x), L)
<1> DEFINE q == [i \in DOMAIN x |-> Quoted(x[i]) \o IF i = Len(x) THEN <<Other>> ELSE <<Other, Other>>]
           N == Len(w)
           F == FlattenSeq(q)
           v == <<Other>> \o F
<1>0. /\ N \in Nat \ {0} /\ DOMAIN w = 1..N /\ \A i \in 1..N : w[i] \in Seq(Characters)
      /\ Len(x) = N /\ DOMAIN x = 1..N /\ \A i \in 1..N : w[i] = EscapedSpec(x[i])
  <2>1. /\ w \in Seq(Seq(Characters)) /\ Len(w) = Len(x) /\ Len(x) \in Nat
        /\ \A i \in 1..Len(x) : w[i] = EscapedSpec(x[i])
    BY BodiesAre
  <2>2. Len(x) # 0 /\ DOMAIN x = 1..Len(x)
    BY EmptySeq
  <2> QED BY <2>1, <2>2
<1>1. \A i \in 1..N : q[i] = PieceFor(w[i], i = N)
  BY <1>0 DEF PieceFor, Quoted
<1>2. SpecsOutput(x) = v
  BY DEF SpecsOutput
<1>3. DOMAIN q = 1..N /\ q = [i \in 1..N |-> q[i]]
  BY <1>0
<1> HIDE DEF q
<1>4. ASSUME NEW i \in 1..N PROVE IsPiece(q[i], w[i], i = N)
  <2>1. w[i] \in Seq(Characters) /\ (i = N) \in BOOLEAN /\ q[i] = PieceFor(w[i], i = N)
    BY <1>0, <1>1
  <2> DEFINE last == (i = N)
  <2>2. last \in BOOLEAN /\ q[i] = PieceFor(w[i], last)
    BY <2>1
  <2> HIDE DEF last
  <2>3. IsPiece(PieceFor(w[i], last), w[i], last)
    BY <2>1, <2>2, PieceIs
  <2>4. IsPiece(q[i], w[i], last)
    BY <2>2, <2>3
  <2> QED BY <2>4 DEF last
<1>5. q \in Seq(Seq(Characters)) /\ Len(q) = N /\ q # <<>>
  <2>1. \A i \in 1..N : q[i] \in Seq(Characters)
    BY <1>4 DEF IsPiece
  <2>2. q \in [1..N -> Seq(Characters)]
    BY <1>3, <2>1
  <2> HIDE DEF N
  <2>3. q \in Seq(Seq(Characters)) /\ Len(q) = N
    BY <1>0, <2>2
  <2> QED BY <1>0, <2>3, EmptySeq
<1>6. F \in Seq(Characters) /\ \E L \in [0..Len(q) -> Nat] : PiecesAt(q, F, L)
  BY <1>5, FlattenIs
<1> HIDE DEF F
<1>7. PICK L \in [0..N -> Nat] : PiecesAt(q, F, L)
  BY <1>5, <1>6
<1>8. v \in Seq(Characters) /\ Len(v) = Len(F) + 1 /\ v[1] = Other /\ Len(F) \in Nat
      /\ \A i \in 1..Len(F) : v[i + 1] = F[i]
  <2>1. <<Other>> \in Seq(Characters) /\ Len(<<Other>>) = 1 /\ <<Other>>[1] = Other
    BY DEF Characters
  <2>2. v \in Seq(Characters) /\ IsJoin(<<Other>>, F, v)
    BY <1>6, <2>1, JoinIs
  <2> HIDE DEF v
  <2>3. Len(v) = 1 + Len(F) /\ Len(F) \in Nat /\ \A i \in 1..Len(F) : v[1 + i] = F[i]
    BY <2>1, <2>2 DEF IsJoin
  <2>4. v[1] = Other
    BY <2>1, <2>2 DEF IsJoin
  <2>5. \A i \in 1..Len(F) : v[i + 1] = F[i]
    <3>1. \A i \in 1..Len(F) : i + 1 = 1 + i
      BY <2>3
    <3> QED BY <2>3, <3>1
  <2>6. Len(v) = Len(F) + 1
    BY <2>3
  <2> QED BY <2>2, <2>3, <2>4, <2>5, <2>6
<1> HIDE DEF v
<1>9. ASSUME NEW k \in 1..N
      PROVE  /\ L[k] = L[k - 1] + Len(w[k]) + (IF k = N THEN 3 ELSE 4) /\ L[k] + 1 <= Len(v)
             /\ v[L[k - 1] + 2] = Quote /\ v[L[k - 1] + Len(w[k]) + 3] = Quote
             /\ v[L[k - 1] + Len(w[k]) + 4] = Other
             /\ k # N => v[L[k - 1] + Len(w[k]) + 5] = Other
             /\ \A i \in 1..Len(w[k]) : v[L[k - 1] + 2 + i] = w[k][i]
  <2> DEFINE m == Len(w[k])
             a == L[k - 1]
             b == L[k]
             n == Len(F)
             t == IF k = N THEN 3 ELSE 4
  <2>1. m \in Nat /\ a \in Nat /\ b \in Nat /\ n \in Nat /\ t \in Nat
    <3>1. w[k] \in Seq(Characters)
      BY <1>0
    <3>2. k \in 0..N /\ k - 1 \in 0..N
      BY <1>0
    <3>3. L[k] \in Nat /\ L[k - 1] \in Nat
      BY <1>7, <3>2
    <3> QED BY <1>8, <3>1, <3>3
  <2>2. IsPiece(q[k], w[k], k = N)
    BY <1>4
  <2>3. Len(q[k]) = m + t
    BY <2>2 DEF IsPiece
  <2>4. b = a + Len(q[k]) /\ b <= n /\ \A i \in 1..Len(q[k]) : F[a + i] = q[k][i]
    BY <1>5, <1>7 DEF PiecesAt
  <2>5. /\ q[k][1] = Quote /\ q[k][m + 2] = Quote /\ q[k][m + 3] = Other
        /\ (k # N => q[k][m + 4] = Other) /\ \A i \in 1..m : q[k][1 + i] = w[k][i]
    BY <2>2 DEF IsPiece
  <2>6. t \in {3, 4} /\ (k # N => t = 4)
    OBVIOUS
  <2> HIDE DEF m, a, b, n, t
  <2>7. b = a + m + t /\ b + 1 <= n + 1
    BY <2>1, <2>3, <2>4
  <2>8. ASSUME NEW i \in 1..(m + t) PROVE v[a + i + 1] = q[k][i]
    <3>1. a + i \in 1..n
      BY <2>1, <2>6, <2>7
    <3>2. v[a + i + 1] = F[a + i]
      BY <1>8, <3>1 DEF n
    <3> QED BY <2>3, <2>4, <3>2
  <2>9. /\ 1 \in 1..(m + t) /\ m + 2 \in 1..(m + t) /\ m + 3 \in 1..(m + t) /\ (t = 4 => m + 4 \in 1..(m + t))
        /\ a + 1 + 1 = a + 2 /\ a + (m + 2) + 1 = a + m + 3 /\ a + (m + 3) + 1 = a + m + 4
        /\ a + (m + 4) + 1 = a + m + 5
    BY <2>1, <2>6
  <2>10. v[a + 2] = Quote /\ v[a + m + 3] = Quote /\ v[a + m + 4] = Other
    BY <2>5, <2>8, <2>9
  <2>11. k # N => v[a + m + 5] = Other
    BY <2>5, <2>6, <2>8, <2>9
  <2>12. ASSUME NEW i \in 1..m PROVE v[a + 2 + i] = w[k][i]
    <3>1. 1 + i \in 1..(m + t) /\ a + (1 + i) + 1 = a + 2 + i
      BY <2>1, <2>6
    <3> QED BY <2>5, <2>8, <3>1
  <2>13. b + 1 <= Len(v)
    BY <1>8, <2>7 DEF n
  <2> QED BY <2>7, <2>10, <2>11, <2>12, <2>13 DEF a, b, m, t
<1>10. LaidOut(w, v, L)
  <2>1. L[0] = 0 /\ Len(F) = L[N]
    BY <1>5, <1>7 DEF PiecesAt
  <2>2. Len(v) = L[N] + 1
    BY <1>8, <2>1
  <2> QED BY <1>7, <1>8, <1>9, <2>1, <2>2 DEF LaidOut
<1> QED BY <1>2, <1>10

\* A spec, its quotes and what follows them are within the value.
LEMMA SpecBounds ==
  ASSUME NEW w \in Seq(Seq(Characters)), NEW v, NEW L, LaidOut(w, v, L), NEW k \in 1..Len(w)
  PROVE  /\ L[k - 1] \in Nat /\ L[k] \in Nat /\ Len(w[k]) \in Nat /\ Len(v) \in Nat
         /\ L[k - 1] + Len(w[k]) + 4 <= Len(v) /\ w[k] \in Seq(Characters)
<1>1. Len(w) \in Nat /\ k \in 0..Len(w) /\ k - 1 \in 0..Len(w)
  OBVIOUS
<1>2. w[k] \in Seq(Characters)
  OBVIOUS
<1>3. L[k] \in Nat /\ L[k - 1] \in Nat /\ Len(w[k]) \in Nat /\ Len(v) \in Nat
  <2>1. L \in [0..Len(w) -> Nat] /\ v \in Seq(Characters)
    BY DEF LaidOut
  <2>2. L[k] \in Nat /\ L[k - 1] \in Nat
    BY <1>1, <2>1
  <2>3. Len(w[k]) \in Nat
    BY <1>2
  <2>4. Len(v) \in Nat
    BY <2>1
  <2> QED BY <2>2, <2>3, <2>4
<1>4. L[k] = L[k - 1] + Len(w[k]) + (IF k = Len(w) THEN 3 ELSE 4) /\ L[k] + 1 <= Len(v)
  BY DEF LaidOut
<1> DEFINE a == L[k - 1]
           b == L[k]
           m == Len(w[k])
           n == Len(v)
           t == IF k = Len(w) THEN 3 ELSE 4
<1>5. a \in Nat /\ b \in Nat /\ m \in Nat /\ n \in Nat /\ t \in {3, 4} /\ b = a + m + t /\ b + 1 <= n
  BY <1>3, <1>4
<1> HIDE DEF a, b, m, n, t
<1>6. a + m + 4 <= n
  BY <1>5
<1> QED BY <1>2, <1>3, <1>6 DEF a, m, n

\* Where find_first_of stops.
LEMMA QuoteIs ==
  ASSUME value \in Seq(Characters), NEW from \in Nat \ {0}, NEW p \in 1..Len(value), from <= p,
         value[p] = Quote, \A i \in 1..Len(value) : i >= from /\ i < p => value[i] # Quote
  PROVE  FindQuote(from) = p
<1> DEFINE found == {i \in DOMAIN value : i >= from /\ value[i] = Quote}
<1>1. DOMAIN value = 1..Len(value) /\ Len(value) \in Nat
  OBVIOUS
<1>2. p \in found /\ from # npos /\ found # {}
  BY <1>1 DEF npos
<1>3. ASSUME NEW i \in found PROVE i \in Nat /\ p <= i
  <2>1. i \in 1..Len(value) /\ i >= from /\ ~(i < p)
    BY <1>1
  <2> QED BY <1>1, <2>1
<1>4. FindQuote(from) = CHOOSE i \in found : \A j \in found : i <= j
  BY <1>2 DEF FindQuote
<1> HIDE DEF found
<1>5. \A i \in found : (\A j \in found : i <= j) => i = p
  <2> SUFFICES ASSUME NEW i \in found, \A j \in found : i <= j PROVE i = p
    OBVIOUS
  <2>1. i <= p /\ p <= i /\ i \in Nat
    BY <1>2, <1>3
  <2> QED BY <2>1, <1>1
<1> QED BY <1>2, <1>3, <1>4, <1>5, Zenon

LEMMA NoQuoteIs ==
  ASSUME NEW from \in Nat, \A i \in DOMAIN value : i >= from => value[i] # Quote
  PROVE  FindQuote(from) = npos
BY DEF FindQuote

\* The search is at a quote that is after a backslash, and stays there.
AtEscaped(i) == i \in 2..Len(value) /\ value[i] = Quote /\ value[i - 1] = Backslash
StuckAt(k) == AtEscaped(idxSearch) /\ ~Readable(written[k])

\* After the first k specs the parser is at the quote that begins the next one, or
\* searches for its end for ever.
AfterSpecs(L, k) ==
    /\ pkgSpecs \in Seq(Seq(Characters)) /\ Len(pkgSpecs) = k
    /\ \A i \in 1..k : pkgSpecs[i] = EscapedSpec(written[i])
    /\ k < Len(written) => /\ pc = "loop" /\ idxStart = L[k] + 2
                           /\ idxSearch = L[k] + 3 \/ StuckAt(k + 1)
    /\ k = Len(written) => pc = "done" /\ idxStart = npos /\ idxSearch = 1

ListInv ==
    /\ written \in Seq(Specs) /\ written # <<>>
    /\ \E L, k : k \in 0..Len(written) /\ LaidOut(Bodies(written), value, L) /\ AfterSpecs(L, k)

\* The first quote begins the first spec.
LEMMA ListStarts == ListInit => ListInv
<1> SUFFICES ASSUME ListInit PROVE ListInv
  OBVIOUS
<1>1. PICK n \in 1..MaxSpecs : written \in [1..n -> Specs]
  BY DEF ListInit
<1>2. n \in Nat \ {0}
  BY <1>1, ListConstants
<1>3. written \in Seq(Specs) /\ Len(written) = n
  BY <1>1, <1>2
<1>4. written # <<>>
  BY <1>2, <1>3
<1> DEFINE B == Bodies(written)
<1>5. B \in Seq(Seq(Characters)) /\ Len(B) = n
  BY <1>3, BodiesAre
<1>6. value = SpecsOutput(written)
  BY DEF ListInit
<1>7. PICK L : LaidOut(B, value, L)
  BY <1>3, <1>4, <1>6, OutputLaidOut
<1> HIDE DEF B
<1>8. /\ value \in Seq(Characters) /\ L[0] = 0 /\ value[1] = Other
      /\ value[L[0] + 2] = Quote
  <2>1. 1 \in 1..Len(B) /\ 1 - 1 = 0
    BY <1>2, <1>5
  <2> QED BY <1>7, <2>1 DEF LaidOut
<1>9. 2 \in 1..Len(value)
  <2>1. 1 \in 1..Len(B) /\ 1 - 1 = 0
    BY <1>2, <1>5
  <2>2. Len(B[1]) \in Nat /\ Len(value) \in Nat /\ L[1 - 1] + Len(B[1]) + 4 <= Len(value)
    BY <1>5, <1>7, <2>1, SpecBounds
  <2> QED BY <1>8, <2>1, <2>2
<1>10. FindQuote(1) = 2
  <2>1. \A i \in 1..Len(value) : i >= 1 /\ i < 2 => value[i] # Quote
    <3>1. \A i \in 1..Len(value) : i < 2 => i = 1
      BY <1>8
    <3> QED BY <1>8, <3>1 DEF Quote, Other
  <2>2. value[2] = Quote
    BY <1>8
  <2> QED BY <1>8, <1>9, <2>1, <2>2, QuoteIs
<1>11. AfterSpecs(L, 0)
  <2>1. pkgSpecs = <<>> /\ pc = "loop" /\ idxStart = 2 /\ idxSearch = 3
    BY <1>10 DEF ListInit
  <2>2. pkgSpecs \in Seq(Seq(Characters)) /\ Len(pkgSpecs) = 0
    BY <2>1
  <2>3. \A i \in 1..0 : pkgSpecs[i] = EscapedSpec(written[i])
    OBVIOUS
  <2> QED BY <1>2, <1>3, <1>8, <2>1, <2>2, <2>3 DEF AfterSpecs
<1>12. 0 \in 0..Len(written)
  BY <1>3, <1>2
<1> QED BY <1>3, <1>4, <1>7, <1>11, <1>12 DEF ListInv, B

\* A quote of spec k + 1 that is not found for its end, and is found again.
NeverEnds == ~EndsSpec /\ AtEscaped(FindQuote(idxSearch))

\* In the loop the next quote ends the next spec, or is one that std::quoted has
\* put a backslash before, or that a backslash of the spec's is before.
SpecEnds(L, k) ==
    LET body == EscapedSpec(written[k])
    IN  /\ idxStart = L[k - 1] + 2 /\ FindQuote(idxSearch) = L[k - 1] + Len(body) + 3
        /\ SubSeq(value, idxStart + 1, L[k - 1] + Len(body) + 2) = body

LEMMA NextQuote ==
  ASSUME ListInv, pc = "loop"
  PROVE  \E L, k :
           /\ k \in 1..Len(written) /\ LaidOut(Bodies(written), value, L) /\ AfterSpecs(L, k - 1)
           /\ idxStart = L[k - 1] + 2 /\ L[k - 1] \in Nat
           /\ (EndsSpec /\ SpecEnds(L, k)) \/ (NeverEnds /\ ~Readable(written[k]))
<1>1. PICK L, j : j \in 0..Len(written) /\ LaidOut(Bodies(written), value, L) /\ AfterSpecs(L, j)
  BY DEF ListInv
<1> DEFINE B == Bodies(written)
<1>2. /\ B \in Seq(Seq(Characters)) /\ Len(written) \in Nat /\ Len(B) = Len(written)
      /\ \A i \in 1..Len(written) : B[i] = EscapedSpec(written[i]) /\ IsEscapedSpec(B[i], written[i])
  BY BodiesAre DEF ListInv
<1> HIDE DEF B
<1>3. j # Len(written)
  BY <1>1 DEF AfterSpecs
<1> DEFINE k == j + 1
<1>4. k \in 1..Len(written) /\ k - 1 = j /\ j < Len(written)
  BY <1>1, <1>2, <1>3
<1>5. idxStart = L[k - 1] + 2 /\ (idxSearch = L[k - 1] + 3 \/ StuckAt(k))
  BY <1>1, <1>4 DEF AfterSpecs
<1> HIDE DEF k
<1> DEFINE a == L[k - 1]
           m == Len(B[k])
           n == Len(value)
           s == B[k]
<1>6. a \in Nat /\ m \in Nat /\ n \in Nat /\ a + m + 4 <= n /\ s \in Seq(Characters)
  BY <1>1, <1>2, <1>4, SpecBounds DEF B
<1>7. /\ value \in Seq(Characters) /\ value[a + 2] = Quote /\ value[a + m + 3] = Quote
      /\ \A i \in 1..m : value[a + 2 + i] = s[i]
  BY <1>1, <1>2, <1>4 DEF LaidOut, B
<1>8. Len(s) = m /\ s = EscapedSpec(written[k]) /\ IsEscapedSpec(s, written[k])
  BY <1>2, <1>4
<1>9. idxStart = a + 2 /\ (idxSearch = a + 3 \/ StuckAt(k))
  BY <1>5
<1>10. DOMAIN value = 1..n
  BY <1>7
<1>11. AfterSpecs(L, k - 1) /\ L[k - 1] = a
  BY <1>1, <1>4
<1> HIDE DEF a, m, s
<1>13. SubSeq(value, a + 3, a + m + 2) = s
  <2> DEFINE q == SubSeq(value, a + 3, a + m + 2)
  <2>1. q \in Seq(Characters) /\ Len(q) = m /\ \A i \in 1..m : q[i] = value[a + 2 + i]
    <3>1. a + 3 \in Nat /\ a + m + 2 \in Nat /\ a + 3 >= 1 /\ a + m + 2 <= n
      BY <1>6
    <3>2. (a + m + 2) - (a + 3) + 1 = m /\ \A i \in 1..m : (a + 3) + i - 1 = a + 2 + i
      BY <1>6
    <3>3. \A x, y \in Nat : x >= 1 /\ y <= Len(value) /\ x <= y + 1 =>
            /\ SubSeq(value, x, y) \in Seq(Characters) /\ Len(SubSeq(value, x, y)) = y - x + 1
            /\ \A i \in 1..(y - x + 1) : SubSeq(value, x, y)[i] = value[x + i - 1]
      BY <1>7
    <3>4. a + 3 <= (a + m + 2) + 1
      BY <1>6
    <3>5. /\ q \in Seq(Characters) /\ Len(q) = (a + m + 2) - (a + 3) + 1
          /\ \A i \in 1..((a + m + 2) - (a + 3) + 1) : q[i] = value[(a + 3) + i - 1]
      BY <3>1, <3>3, <3>4
    <3> HIDE DEF q
    <3>6. \A i \in 1..m : q[i] = value[a + 2 + i]
      BY <3>2, <3>5
    <3> QED BY <3>2, <3>5, <3>6
  <2> HIDE DEF q
  <2>2. q = s
    <3>1. \A i \in 1..m : q[i] = s[i]
      BY <1>7, <2>1
    <3> QED BY <1>6, <1>8, <2>1, <3>1, SeqEqual
  <2> QED BY <2>2 DEF q
<1>14. \A i \in 1..m : (a + 2 + i) - 1 = a + 2 + (i - 1) /\ a + 2 + i \in 2..n
  BY <1>6
\* A quote within the spec.
<1>15. CASE idxSearch = a + 3 /\ ~NoQuoteIn(s)
  <2> DEFINE T == {i \in 1..m : s[i] = Quote}
  <2>1. T # {} /\ T \in SUBSET Nat
    BY <1>8, <1>15 DEF NoQuoteIn
  <2>2. PICK i \in T : \A i2 \in T : i <= i2
    <3> HIDE DEF T
    <3> QED BY <2>1, LeastOf
  <2>3. i \in 1..m /\ s[i] = Quote
    BY <2>2
  <2>4. i # 1 /\ s[i - 1] = Backslash
    BY <1>8, <2>3 DEF IsEscapedSpec, QuotesEscaped
  <2>5. i - 1 \in 1..m
    BY <1>6, <2>3, <2>4
  <2> DEFINE p == a + 2 + i
  <2>6. p \in 2..n /\ p - 1 = a + 2 + (i - 1) /\ a + 3 <= p
    BY <1>6, <1>14, <2>3
  <2>7. value[p] = Quote /\ value[p - 1] = Backslash
    BY <1>7, <2>3, <2>4, <2>5, <2>6
  <2>8. ASSUME NEW x \in 1..n, x >= a + 3, x < p PROVE value[x] # Quote
    <3>1. x - a - 2 \in 1..m /\ a + 2 + (x - a - 2) = x /\ ~(i <= x - a - 2)
      BY <1>6, <2>3, <2>8
    <3>2. x - a - 2 \notin T
      BY <2>2, <3>1
    <3> QED BY <1>7, <3>1, <3>2
  <2> HIDE DEF T, p
  <2>9. FindQuote(idxSearch) = p
    <3>1. a + 3 \in Nat \ {0} /\ p \in 1..n
      BY <1>6, <2>6
    <3> QED BY <1>7, <1>15, <2>6, <2>7, <2>8, <3>1, QuoteIs DEF n
  <2>10. NeverEnds
    BY <2>6, <2>7, <2>9 DEF NeverEnds, EndsSpec, BeyondQuote, AtEscaped, n
  <2>11. ~Readable(written[k])
    BY <1>8, <1>15 DEF IsEscapedSpec
  <2> QED BY <1>1, <1>4, <1>6, <1>9, <1>11, <2>10, <2>11
\* No quote within the spec: the closing one, after a backslash or not.
<1>16. CASE idxSearch = a + 3 /\ NoQuoteIn(s)
  <2>1. FindQuote(idxSearch) = a + m + 3
    <3>1. a + 3 \in Nat \ {0} /\ a + m + 3 \in 1..n /\ a + 3 <= a + m + 3
      BY <1>6
    <3>2. ASSUME NEW i \in 1..n, i >= a + 3, i < a + m + 3 PROVE value[i] # Quote
      <4>1. i - a - 2 \in 1..m /\ a + 2 + (i - a - 2) = i
        BY <1>6, <3>2
      <4> QED BY <1>7, <1>8, <1>16, <4>1 DEF NoQuoteIn
    <3> QED BY <1>7, <1>16, <3>1, <3>2, QuoteIs DEF n
  <2>2. a + m + 3 # npos /\ (a + m + 3) - 1 = a + m + 2 /\ a + m + 3 \in 2..n
    BY <1>6 DEF npos
  <2>3. CASE value[a + m + 2] = Backslash
    <3>1. NeverEnds
      BY <1>7, <2>1, <2>2, <2>3 DEF NeverEnds, EndsSpec, BeyondQuote, AtEscaped, n
    <3>2. m # 0 /\ s[m] = Backslash
      <4>1. m # 0
        <5>1. m = 0 => a + m + 2 = a + 2
          BY <1>6
        <5> QED BY <1>7, <2>3, <5>1 DEF Quote, Backslash
      <4>2. m \in 1..m /\ a + 2 + m = a + m + 2
        BY <1>6, <4>1
      <4> QED BY <1>7, <2>3, <4>1, <4>2
    <3>3. ~Readable(written[k])
      BY <1>8, <3>2 DEF IsEscapedSpec, ClosedPlainly
    <3> QED BY <1>1, <1>4, <1>6, <1>9, <1>11, <3>1, <3>3
  <2>4. CASE value[a + m + 2] # Backslash
    <3>1. EndsSpec
      BY <2>1, <2>2, <2>4 DEF EndsSpec, BeyondQuote
    <3>2. idxStart + 1 = a + 3
      BY <1>6, <1>9
    <3>3. SpecEnds(L, k)
      BY <1>8, <1>9, <1>11, <1>13, <2>1, <3>2 DEF SpecEnds
    <3> QED BY <1>1, <1>4, <1>6, <1>9, <1>11, <3>1, <3>3
  <2> QED BY <2>3, <2>4
\* The search was at an escaped quote already.
<1>17. CASE StuckAt(k)
  <2>1. AtEscaped(idxSearch) /\ ~Readable(written[k])
    BY <1>17 DEF StuckAt
  <2>2. FindQuote(idxSearch) = idxSearch
    <3>1. /\ idxSearch \in Nat \ {0} /\ idxSearch \in 1..n /\ idxSearch <= idxSearch /\ value[idxSearch] = Quote
          /\ \A i \in 1..n : ~(i >= idxSearch /\ i < idxSearch)
      BY <1>6, <2>1 DEF AtEscaped, n
    <3> QED BY <1>7, <3>1, QuoteIs DEF n
  <2>3. NeverEnds
    BY <2>1, <2>2 DEF NeverEnds, EndsSpec, BeyondQuote, AtEscaped
  <2> QED BY <1>1, <1>4, <1>6, <1>9, <1>11, <2>1, <2>3
<1> QED BY <1>9, <1>15, <1>16, <1>17

\* After a spec comes the quote that begins the next one, or the end.
LEMMA SpecFoundKeeps ==
  ASSUME ListInv, SpecFound
  PROVE  ListInv'
<1>1. pc = "loop" /\ written' = written /\ value' = value
  BY DEF SpecFound
<1>2. PICK L, k :
           /\ k \in 1..Len(written) /\ LaidOut(Bodies(written), value, L) /\ AfterSpecs(L, k - 1)
           /\ idxStart = L[k - 1] + 2 /\ L[k - 1] \in Nat
           /\ (EndsSpec /\ SpecEnds(L, k)) \/ (NeverEnds /\ ~Readable(written[k]))
  BY <1>1, NextQuote
<1> DEFINE B == Bodies(written)
<1>3. /\ written \in Seq(Specs) /\ written # <<>> /\ Len(written) \in Nat
      /\ B \in Seq(Seq(Characters)) /\ Len(B) = Len(written)
      /\ \A i \in 1..Len(written) : B[i] = EscapedSpec(written[i])
  BY BodiesAre DEF ListInv
<1>0. SpecEnds(L, k) /\ LaidOut(B, value, L) /\ B[k] = EscapedSpec(written[k]) /\ B[k] \in Seq(Characters)
  <2>1. ~NeverEnds
    BY DEF SpecFound, NeverEnds
  <2>2. SpecEnds(L, k) /\ LaidOut(B, value, L)
    BY <1>2, <2>1
  <2> HIDE DEF B
  <2> QED BY <1>2, <1>3, <2>2
<1> HIDE DEF B
<1> DEFINE a == L[k - 1]
           m == Len(B[k])
           n == Len(value)
           N == Len(written)
           end == FindQuote(idxSearch)
           start == NextStart(end)
<1>4. a \in Nat /\ m \in Nat /\ n \in Nat /\ a + m + 4 <= n /\ L[k] \in Nat
  BY <1>0, <1>2, <1>3, SpecBounds
<1>5. end = a + m + 3
  BY <1>0 DEF SpecEnds
<1>6. /\ pkgSpecs' = Append(pkgSpecs, SubSeq(value, idxStart + 1, end - 1))
      /\ idxStart' = start /\ idxSearch' = idxStart' + 1 /\ pc' = After(idxStart', idxSearch')
  BY DEF SpecFound
<1> HIDE DEF end
<1>7. end - 1 = a + m + 2 /\ end + 1 = a + m + 4
  BY <1>4, <1>5
<1>8. pkgSpecs' = Append(pkgSpecs, B[k])
  BY <1>0, <1>6, <1>7 DEF SpecEnds
<1>9. start = FindQuote(a + m + 4)
  BY <1>7 DEF NextStart
<1>10. /\ pkgSpecs' \in Seq(Seq(Characters)) /\ Len(pkgSpecs') = k
       /\ \A i \in 1..k : pkgSpecs'[i] = EscapedSpec(written[i])
  <2>1. /\ pkgSpecs \in Seq(Seq(Characters)) /\ Len(pkgSpecs) = k - 1
        /\ \A i \in 1..(k - 1) : pkgSpecs[i] = EscapedSpec(written[i])
    BY <1>2 DEF AfterSpecs
  <2>2. B[k] \in Seq(Characters) /\ B[k] = EscapedSpec(written[k]) /\ k \in Nat \ {0}
    BY <1>0, <1>2, <1>3
  <2>3. \A i \in 1..k : i \in 1..(k - 1) \/ i = k
    BY <2>2
  <2> QED BY <1>8, <2>1, <2>2, <2>3
<1>11. /\ value \in Seq(Characters) /\ DOMAIN value = 1..n /\ n = L[N] + 1
       /\ L[k] = a + m + (IF k = N THEN 3 ELSE 4)
       /\ value[a + m + 4] = Other /\ (k # N => value[a + m + 5] = Other)
  <2>1. value \in Seq(Characters) /\ n = L[Len(B)] + 1 /\ k \in 1..Len(B)
    BY <1>0, <1>2, <1>3 DEF LaidOut
  <2>2. /\ L[k] = a + m + (IF k = Len(B) THEN 3 ELSE 4)
        /\ value[a + m + 4] = Other /\ (k # Len(B) => value[a + m + 5] = Other)
    BY <1>0, <2>1 DEF LaidOut
  <2> QED BY <1>3, <2>1, <2>2
<1>12. CASE k = N
  <2>1. n = a + m + 4
    <3>1. L[k] = a + m + 3 /\ n = L[k] + 1
      BY <1>11, <1>12
    <3> HIDE DEF a, m, n
    <3> QED BY <1>4, <3>1
  <2>2. \A i \in DOMAIN value : i >= a + m + 4 => i = a + m + 4
    <3> HIDE DEF a, m, n
    <3> QED BY <1>4, <1>11, <2>1
  <2>3. start = npos
    <3>1. \A i \in DOMAIN value : i >= a + m + 4 => value[i] # Quote
      BY <1>11, <2>2 DEF Quote, Other
    <3>2. a + m + 4 \in Nat
      BY <1>4
    <3> HIDE DEF a, m, n
    <3> QED BY <1>9, <3>1, <3>2, NoQuoteIs
  <2>4. idxStart' = npos /\ idxSearch' = 1 /\ pc' = "done"
    BY <1>6, <2>3 DEF After, npos
  <2>5. AfterSpecs(L, k)'
    BY <1>1, <1>10, <1>12, <2>4 DEF AfterSpecs
  <2>6. k \in 0..Len(written)
    BY <1>2, <1>3
  <2>7. LaidOut(Bodies(written)', value', L)
    BY <1>0, <1>1 DEF B
  <2> QED BY <1>1, <1>3, <2>5, <2>6, <2>7 DEF ListInv, AfterSpecs
<1>13. CASE k # N
  <2>1. k + 1 \in 1..Len(written) /\ (k + 1) - 1 = k
    BY <1>2, <1>3, <1>13
  <2>2. L[k] = a + m + 4
    BY <1>11, <1>13
  <2>3. value[L[k] + 2] = Quote
    BY <1>0, <1>3, <2>1 DEF LaidOut
  <2>4. L[k] + 4 <= n
    <3> DEFINE b == L[k]
               c == Len(B[k + 1])
    <3>1. b + c + 4 <= n /\ c \in Nat /\ b \in Nat
      BY <1>0, <1>3, <2>1, SpecBounds
    <3> HIDE DEF b, c, n
    <3>2. b + 4 <= n
      BY <1>4, <3>1
    <3> QED BY <3>2 DEF b
  <2>5. FindQuote(L[k]) = L[k] + 2
    <3> DEFINE b == L[k]
    <3>1. b = a + m + 4 /\ b + 4 <= n /\ b \in Nat /\ value[b + 2] = Quote
      BY <1>4, <2>2, <2>3, <2>4
    <3>2. value[b] = Other /\ value[b + 1] = Other
      <4>1. a + m + 5 = b + 1
        BY <1>4, <3>1
      <4> QED BY <1>11, <1>13, <3>1, <4>1
    <3> HIDE DEF b, a, m
    <3>3. b \in Nat \ {0} /\ b + 2 \in 1..n /\ b <= b + 2
      BY <1>4, <3>1
    <3>4. \A i \in 1..n : i >= b /\ i < b + 2 => value[i] # Quote
      <4>1. \A i \in 1..n : i >= b /\ i < b + 2 => i = b \/ i = b + 1
        BY <3>1, <1>4
      <4> QED BY <3>2, <4>1 DEF Quote, Other
    <3>5. FindQuote(b) = b + 2
      BY <1>11, <3>1, <3>3, <3>4, QuoteIs
    <3> QED BY <3>5 DEF b
  <2>6. start = L[k] + 2
    BY <1>9, <2>2, <2>5
  <2>7. idxStart' = L[k] + 2 /\ idxSearch' = L[k] + 3 /\ pc' = "loop"
    <3> DEFINE b == L[k]
    <3>1. idxStart' = b + 2 /\ b \in Nat /\ b + 4 <= n /\ n \in Nat
      BY <1>4, <1>6, <2>4, <2>6
    <3> HIDE DEF b, start, n
    <3>2. idxSearch' = b + 3
      BY <1>6, <3>1
    <3>3. b + 2 # npos /\ b + 3 # npos /\ ~(b + 3 > n)
      BY <1>4, <3>1 DEF npos
    <3>4. pc' = "loop"
      BY <1>6, <3>1, <3>2, <3>3 DEF After, n
    <3> QED BY <3>1, <3>2, <3>4 DEF b
  <2>8. AfterSpecs(L, k)'
    BY <1>1, <1>10, <1>13, <2>7 DEF AfterSpecs
  <2>9. k \in 0..Len(written)
    BY <1>2, <1>3
  <2>10. LaidOut(Bodies(written)', value', L)
    BY <1>0, <1>1 DEF B
  <2> QED BY <1>1, <1>3, <2>8, <2>9, <2>10 DEF ListInv, AfterSpecs
<1> QED BY <1>12, <1>13

\* A round that finds no spec leaves the search at the quote for ever.
LEMMA QuoteEscapedKeeps ==
  ASSUME ListInv, QuoteEscaped
  PROVE  ListInv'
<1>1. /\ pc = "loop" /\ ~EndsSpec /\ written' = written /\ value' = value /\ idxStart' = idxStart
      /\ pkgSpecs' = pkgSpecs /\ idxSearch' = FindQuote(idxSearch) /\ pc' = After(idxStart, idxSearch')
  BY DEF QuoteEscaped
<1>2. PICK L, k :
           /\ k \in 1..Len(written) /\ LaidOut(Bodies(written), value, L) /\ AfterSpecs(L, k - 1)
           /\ idxStart = L[k - 1] + 2 /\ L[k - 1] \in Nat
           /\ NeverEnds /\ ~Readable(written[k])
  BY <1>1, NextQuote
<1>3. written \in Seq(Specs) /\ written # <<>> /\ Len(written) \in Nat
  BY DEF ListInv
<1>4. AtEscaped(idxSearch')
  BY <1>1, <1>2 DEF NeverEnds
<1>5. pc' = "loop"
  <2>1. idxSearch' # npos /\ ~(idxSearch' > Len(value)) /\ idxStart # npos
    <3>1. idxSearch' \in 2..Len(value) /\ Len(value) \in Nat
      <4>1. value \in Seq(Characters)
        BY <1>2 DEF LaidOut
      <4> QED BY <1>4, <4>1 DEF AtEscaped
    <3> QED BY <1>2, <3>1 DEF npos
  <2> QED BY <1>1, <2>1 DEF After
<1> DEFINE j == k - 1
<1>6. j \in 0..Len(written) /\ j < Len(written) /\ j + 1 = k
  BY <1>2, <1>3
<1>7. StuckAt(k)'
  BY <1>1, <1>2, <1>4 DEF StuckAt, AtEscaped
<1>8. LaidOut(Bodies(written), value, L)' /\ AfterSpecs(L, j)
  BY <1>1, <1>2
<1>9. idxStart' = L[j] + 2
  BY <1>1, <1>2
<1> HIDE DEF j
<1>10. AfterSpecs(L, j)'
  BY <1>1, <1>5, <1>6, <1>7, <1>8, <1>9 DEF AfterSpecs
<1> QED BY <1>1, <1>3, <1>6, <1>8, <1>10 DEF ListInv

LEMMA ListStep == ListInv /\ [ListNext]_listVars => ListInv'
<1> SUFFICES ASSUME ListInv, [ListNext]_listVars PROVE ListInv'
  OBVIOUS
<1>1. CASE SpecFound
  BY <1>1, SpecFoundKeeps
<1>2. CASE QuoteEscaped
  BY <1>2, QuoteEscapedKeeps
<1>3. CASE UNCHANGED listVars
  BY <1>3 DEF listVars, ListInv, AfterSpecs, StuckAt, AtEscaped
<1> QED BY <1>1, <1>2, <1>3 DEF ListNext, ListOver

\* The invariant gives the property.
LEMMA ListIsRead == ListInv => ListTypeOK /\ ReadsWhatWasWritten
<1> SUFFICES ASSUME ListInv PROVE ListTypeOK /\ ReadsWhatWasWritten
  OBVIOUS
<1>1. PICK L, k : k \in 0..Len(written) /\ LaidOut(Bodies(written), value, L) /\ AfterSpecs(L, k)
  BY DEF ListInv
<1>2. /\ written \in Seq(Specs) /\ Len(written) \in Nat
      /\ Bodies(written) \in Seq(Seq(Characters)) /\ Len(Bodies(written)) = Len(written)
  BY BodiesAre DEF ListInv
<1>3. /\ pkgSpecs \in Seq(Seq(Characters)) /\ Len(pkgSpecs) = k
      /\ \A i \in 1..k : pkgSpecs[i] = EscapedSpec(written[i])
      /\ k < Len(written) => /\ pc = "loop" /\ idxStart = L[k] + 2
                             /\ idxSearch = L[k] + 3 \/ StuckAt(k + 1)
      /\ k = Len(written) => pc = "done" /\ idxStart = npos /\ idxSearch = 1
  BY <1>1 DEF AfterSpecs
<1>4. k \in Nat /\ (k < Len(written) \/ k = Len(written))
  BY <1>1, <1>2
<1>5. value \in Seq(Characters) /\ Len(value) \in Nat /\ L[k] \in Nat
  <2>1. value \in Seq(Characters) /\ L \in [0..Len(Bodies(written)) -> Nat]
    BY <1>1 DEF LaidOut
  <2>2. k \in 0..Len(Bodies(written))
    BY <1>1, <1>2
  <2> QED BY <2>1, <2>2
<1>6. ReadsWhatWasWritten
  <2>1. pc # "threw" /\ Len(pkgSpecs) <= Len(written) /\ (pc = "done" => Len(pkgSpecs) = Len(written))
    BY <1>2, <1>3, <1>4
  <2>2. ASSUME NEW i \in DOMAIN pkgSpecs
        PROVE  /\ pkgSpecs[i] = EscapedSpec(written[i])
               /\ Range(written[i]) \subseteq {Other} => pkgSpecs[i] = written[i]
    <3>1. i \in 1..k /\ i \in 1..Len(written)
      BY <1>2, <1>3, <1>4
    <3>2. pkgSpecs[i] = EscapedSpec(written[i])
      BY <1>3, <3>1
    <3>3. written[i] \in Seq(Characters)
      <4>1. written[i] \in Specs
        BY <1>2, <3>1
      <4> QED BY <4>1, SpecsTyped
    <3>4. ASSUME Range(written[i]) \subseteq {Other} PROVE pkgSpecs[i] = written[i]
      <4>1. EscapedSpec(written[i]) = written[i]
        BY <3>3, <3>4, PlainTyped, PlainFlat
      <4> QED BY <3>2, <4>1
    <3> QED BY <3>2, <3>4
  <2>3. ASSUME pc = "loop"
        PROVE  Len(pkgSpecs) < Len(written) /\ (Readable(written[Len(pkgSpecs) + 1]) => EndsSpec)
    <3>1. k < Len(written)
      BY <1>3, <1>4, <2>3
    <3>2. PICK M, j :
             /\ j \in 1..Len(written) /\ AfterSpecs(M, j - 1)
             /\ (EndsSpec /\ SpecEnds(M, j)) \/ (NeverEnds /\ ~Readable(written[j]))
      BY <2>3, NextQuote
    <3>3. Len(pkgSpecs) = j - 1
      BY <3>2 DEF AfterSpecs
    <3>4. Len(pkgSpecs) + 1 = j
      BY <1>2, <3>2, <3>3
    <3> QED BY <1>3, <3>1, <3>2, <3>4
  <2> QED BY <2>1, <2>2, <2>3 DEF ReadsWhatWasWritten
<1>7. ListTypeOK
  <2>1. pkgSpecs \in Seq(Seq({Quote, Backslash, Other}))
    BY <1>3 DEF Characters
  <2>2. value \in Seq({Quote, Backslash, Other})
    BY <1>5 DEF Characters
  <2>3. pc \in {"loop", "done", "threw"}
    BY <1>3, <1>4
  <2>4. idxStart \in Nat /\ idxSearch \in Nat
    BY <1>3, <1>4, <1>5 DEF npos, StuckAt, AtEscaped
  <2> QED BY <1>2, <2>1, <2>2, <2>3, <2>4 DEF ListTypeOK
<1> QED BY <1>6, <1>7

\* The entries of the history, whatever entries were cut short, are read for what
\* was written, and the last request for a name counts.  Of any list of specs the
\* parser finds the first ones, as std::quoted wrote them, and nothing else, all of
\* them when it is done; only a spec with a quote in it or a backslash at its end
\* can keep it from the next one (history.cpp: parse, parse_comment_line, add_entry,
\* get_requested_specs_map).
THEOREM HistoryReadsWhatWasWritten == HistorySpec /\ ListSpec => []HistoryIsRight
<1>1. HistoryInv /\ ListInv => HistoryIsRight
  BY EntriesAreRead, LastCounts, ListIsRead DEF HistoryIsRight
<1> QED BY <1>1, ListStarts, HistoryStarts, HistoryStep, ListStep, PTL DEF HistorySpec, ListSpec
=============================================================================
