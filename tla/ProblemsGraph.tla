---------------------------- MODULE ProblemsGraph ----------------------------
(***************************************************************************)
(* How an unsolvable request is explained: the graph made of the rules that  *)
(* libsolv gives (solver/libsolv/unsolvable.cpp), its conflicts simplified,  *)
(* nodes that tell the same merged, and the depth first walk that becomes    *)
(* the message (solver/problems_graph.cpp).                                  *)
(* Solvables and dependencies are numbers, their ids in the pool of libsolv;  *)
(* dependencies are in the alphabetic order of their strings.                *)
(***************************************************************************)
EXTENDS Naturals, Sequences, SequencesExt, FiniteSets

CONSTANTS
    SolvableName,    \* the name of each solvable
    DepName,         \* the name that each dependency is about
    DepProviders,    \* the solvables that match each
    NameDep,         \* the dependency that is a name alone, for each name
    Problems         \* the sets of rules that libsolv gives for one request

Rule(type, source, target, dep) == [type |-> type, source |-> source, target |-> target, dep |-> dep]

\* What a rule says of the set of solvables that are installed.
Allows(rule, set) ==
    CASE rule.type = "job"              -> DepProviders[rule.dep] \cap set # {}
      [] rule.type = "job_unknown"      -> FALSE
      [] rule.type = "requires"         -> rule.source \in set => DepProviders[rule.dep] \cap set # {}
      [] rule.type = "nothing_provides" -> rule.source \notin set
      [] rule.type = "update"           -> \E s \in set : SolvableName[s] = SolvableName[rule.source]
      [] OTHER                          -> ~({rule.source, rule.target} \subseteq set)

\* No set of solvables will do, and every rule counts.
IsProblem(rules) ==
    LET contradict(some) ==
          \A set \in SUBSET DOMAIN SolvableName : \E rule \in some : ~Allows(rule, set)
    IN  contradict(rules) /\ \A rule \in rules : ~contradict(rules \ {rule})

ASSUME ProblemsAreUnsolvable == \A rules \in Problems : IsProblem(rules)

VARIABLES
    problemStage,    \* "parsing", "parsed", "simplified", "compressed" or "explained"
    rulesLeft,       \* the rules that are not in the graph yet
    graph,           \* nodes by their ids, edges with a dependency each, conflicts
    compressed,      \* the same for groups of nodes
    explanation      \* the walk

problemVars == <<problemStage, rulesLeft, graph, compressed, explanation>>

Root == 1
\* m_solv2node has one map for the ids of solvables and of dependencies.
Node(type, key, name) == [type |-> type, key |-> key, name |-> name]
PackageNode(s) == Node("package", s, SolvableName[s])
UnresolvedNode(d) == Node("unresolved", d, DepName[d])
ConstraintNode(d) == Node("constraint", d, DepName[d])

\* A graph is a record: nodes, a sequence by id, some of them removed; edges, a
\* function of pairs; conflicts, a set of pairs, or single nodes.
NewGraph == [nodes |-> <<Node("root", 0, "")>>, removed |-> {},
             edges |-> [pair \in {} |-> 0], conflicts |-> {}]

NodeIds(g) == DOMAIN g.nodes \ g.removed
Successors(g, n) == {m \in NodeIds(g) : <<n, m>> \in DOMAIN g.edges}
Predecessors(g, n) == {m \in NodeIds(g) : <<m, n>> \in DOMAIN g.edges}
ConflictsOf(g, n) == {m \in DOMAIN g.nodes : {n, m} \in g.conflicts}
HasConflict(g, n) == ConflictsOf(g, n) # {}

\* What the walk knows: its path, the statuses found, the leaves told to be
\* installable, the nodes it is in, and how far the path was ever written.
NewWalk == [path |-> <<>>, visited |-> [n \in {} |-> TRUE], installables |-> {}, under |-> {},
            high |-> 0, endless |-> FALSE]

ProblemInit ==
    /\ problemStage = "parsing"
    /\ rulesLeft \in Problems
    /\ graph = NewGraph /\ compressed = NewGraph
    /\ explanation = NewWalk

-----------------------------------------------------------------------------
(* parse_problems *)

IdOf(g, key) == CHOOSE n \in DOMAIN g.nodes : g.nodes[n].key = key
Known(g, key) == \E n \in DOMAIN g.nodes : g.nodes[n].key = key

\* add_solvable: a node that is there takes the new value.
AddSolvable(g, node) ==
    IF Known(g, node.key) THEN [g EXCEPT !.nodes[IdOf(g, node.key)] = node]
    ELSE [g EXCEPT !.nodes = Append(@, node)]

\* An edge that is there keeps its dependency.
AddDepEdge(g, from, to, dep) ==
    IF <<from, to>> \in DOMAIN g.edges THEN g
    ELSE [g EXCEPT !.edges = [pair \in DOMAIN @ \cup {<<from, to>>} |->
                                IF pair = <<from, to>> THEN dep ELSE @[pair]]]

AddEdgeTo(g, from, node, dep) ==
    LET with == AddSolvable(g, node) IN AddDepEdge(with, from, IdOf(with, node.key), dep)

\* add_expanded_deps_edges
AddExpandedDeps(g, from, dep) ==
    FoldLeft(LAMBDA h, s : AddEdgeTo(h, from, PackageNode(s), dep), g,
             SetToSortSeq(DepProviders[dep], <))

AddConflict(g, node1, node2) ==
    LET with == AddSolvable(AddSolvable(g, node1), node2)
    IN  [with EXCEPT !.conflicts = @ \cup {{IdOf(with, node1.key), IdOf(with, node2.key)}}]

ParseRule(g, rule) ==
    LET source == PackageNode(rule.source)
        target == PackageNode(rule.target)
        with == AddSolvable(g, source)
        sourceId == IdOf(with, source.key)
    IN  CASE rule.type = "job"         -> AddExpandedDeps(g, Root, rule.dep)
          [] rule.type = "job_unknown" -> AddEdgeTo(g, Root, UnresolvedNode(rule.dep), rule.dep)
          [] rule.type = "requires"    -> AddExpandedDeps(with, sourceId, rule.dep)
          [] rule.type = "nothing_provides" ->
               AddEdgeTo(with, sourceId, UnresolvedNode(rule.dep), rule.dep)
          [] rule.type = "conflicts"   -> AddConflict(g, source, target)
          [] rule.type = "update"      -> AddExpandedDeps(g, Root, NameDep[SolvableName[rule.source]])
          [] rule.type = "constrains"  ->
               LET all == AddSolvable(AddSolvable(with, target), ConstraintNode(rule.dep))
               IN  AddConflict(AddEdgeTo(all, sourceId, ConstraintNode(rule.dep), rule.dep),
                               ConstraintNode(rule.dep), target)

ParseProblem ==
    /\ problemStage = "parsing"
    /\ \E rule \in rulesLeft :
         /\ graph' = ParseRule(graph, rule)
         /\ rulesLeft' = rulesLeft \ {rule}
    /\ problemStage' = IF rulesLeft' = {} THEN "parsed" ELSE "parsing"
    /\ UNCHANGED <<compressed, explanation>>

-----------------------------------------------------------------------------
(* simplify_conflicts *)

IsConstraint(g, n) == g.nodes[n].type = "constraint"
OnlyChild(g, n) == CHOOSE m \in Successors(g, n) : TRUE
HasConstraintChild(g, n) ==
    Cardinality(Successors(g, n)) = 1 /\ IsConstraint(g, OnlyChild(g, n))

RemoveNodeOf(g, n) ==
    [g EXCEPT !.removed = @ \cup {n},
              !.edges = [pair \in {p \in DOMAIN @ : n \notin {p[1], p[2]}} |-> @[pair]]]

\* The conflict of n and the constraint c becomes one of the child of n and the
\* packages that have the constraint; c goes when it has no other conflict.
MoveConflict(old, g, n, c) ==
    LET child == OnlyChild(old, n)
        moved == [g EXCEPT !.conflicts =
                    (@ \cup {{child, parent} : parent \in Predecessors(old, c)}) \ {{n, c}}]
    IN  IF child \in g.removed \/ ~IsConstraint(old, c) THEN g
        ELSE IF HasConflict(moved, c) THEN moved ELSE RemoveNodeOf(moved, c)

\* All conflicts of n, in the order of the ids.
SimplifyNode(old, g, n) ==
    FoldLeft(LAMBDA h, c : MoveConflict(old, h, n, c), g, SetToSortSeq(ConflictsOf(old, n), <))

\* The map of the conflicts is unordered: its nodes come in any order.
SimplifyConflicts(old, order) == FoldLeft(LAMBDA g, n : SimplifyNode(old, g, n), old, order)

Simplify ==
    /\ problemStage = "parsed"
    /\ \E order \in SetToSeqs({n \in NodeIds(graph) : HasConflict(graph, n) /\ HasConstraintChild(graph, n)}) :
         graph' = SimplifyConflicts(graph, order)
    /\ problemStage' = "simplified"
    /\ UNCHANGED <<rulesLeft, compressed, explanation>>

-----------------------------------------------------------------------------
(* CompressedProblemsGraph::from_problems_graph *)

RECURSIVE ReachableFrom(_, _)
ReachableFrom(g, set) ==
    LET more == set \cup UNION {Successors(g, n) : n \in set}
    IN  IF more = set THEN set ELSE ReachableFrom(g, more)

IsLeaf(g, n) == Successors(g, n) = {}
LeavesFrom(g, n) == {m \in ReachableFrom(g, {n}) : IsLeaf(g, m)}

\* default_merge_criteria
Merges(g, n, m) ==
    /\ g.nodes[n].name = g.nodes[m].name
    /\ {n, m} \notin g.conflicts
    /\ IF IsLeaf(g, n) /\ IsLeaf(g, m) THEN Predecessors(g, n) = Predecessors(g, m)
       ELSE ~IsLeaf(g, n) /\ ~IsLeaf(g, m) /\ LeavesFrom(g, n) = LeavesFrom(g, m)

\* A node joins the first group with whose first node it merges.
JoinGroup(g, groups, n) ==
    LET fits == {i \in DOMAIN groups : Merges(g, Min(groups[i]), n)}
    IN  IF fits = {} THEN Append(groups, {n}) ELSE [groups EXCEPT ![Min(fits)] = @ \cup {n}]

GroupsOf(g, type) ==
    FoldLeft(LAMBDA groups, n : JoinGroup(g, groups, n), <<>>,
             SetToSortSeq({n \in NodeIds(g) : g.nodes[n].type = type}, <))

CompressedOf(g) ==
    LET groups == <<{Root}>> \o GroupsOf(g, "package") \o GroupsOf(g, "unresolved")
                             \o GroupsOf(g, "constraint")
        newId == [n \in NodeIds(g) |-> CHOOSE i \in DOMAIN groups : n \in groups[i]]
        newPair(pair) == <<newId[pair[1]], newId[pair[2]]>>
        oldPairs(pair) == {old \in DOMAIN g.edges : newPair(old) = pair}
    IN  [nodes |-> [i \in DOMAIN groups |-> g.nodes[Min(groups[i])]],
         removed |-> {},
         edges |-> [pair \in {newPair(old) : old \in DOMAIN g.edges} |->
                      {g.edges[old] : old \in oldPairs(pair)}],
         conflicts |-> {{newId[n] : n \in conflict} : conflict \in g.conflicts}]

\* merge_conflicts throws at a node that is not there any more.
Compress ==
    /\ problemStage = "simplified"
    /\ IF \A conflict \in graph.conflicts : conflict \subseteq NodeIds(graph)
       THEN compressed' = CompressedOf(graph) /\ problemStage' = "compressed"
       ELSE problemStage' = "failed" /\ UNCHANGED compressed
    /\ UNCHANGED <<rulesLeft, graph, explanation>>

-----------------------------------------------------------------------------
(* TreeDFS *)

\* successors_per_dep: by the name of the dependency; by all of it when strict.
SuccessorsPerDep(c, from, nameOnly) ==
    LET deps(n) == c.edges[<<from, n>>]
        key(n) == IF nameOnly THEN {DepName[d] : d \in deps(n)} ELSE deps(n)
        first(group) == Min(UNION {deps(n) : n \in group})
        groups == {{m \in Successors(c, from) : key(m) = key(n)} : n \in Successors(c, from)}
    IN  SetToSortSeq(groups, LAMBDA g, h : first(g) < first(h))

NodeType(c, walk, n) ==
    IF IsLeaf(c, n) THEN "leaf"
    ELSE IF n \in DOMAIN walk.visited THEN "visited"
    ELSE IF Predecessors(c, n) # {} THEN "diving" ELSE "root"

\* One more entry of the path. high is how far the vector was ever written.
Enter(walk, entry) ==
    [walk EXCEPT !.path = Append(@, entry), !.high = IF @ > Len(walk.path) THEN @ ELSE @ + 1]

\* As NotInstallable, but a node in conflict with any other.
AnyConflict(c, walk, n) == HasConflict(c, n) \/ IsLeaf(c, n)

\* node_not_installable: a conflict counts when the other node was told of.
NotInstallable(c, walk, n) ==
    IF HasConflict(c, n) THEN ConflictsOf(c, n) \cap walk.installables # {} ELSE IsLeaf(c, n)

Conclude(c, walk, n, childrenStatus) ==
    LET status == ~NotInstallable(c, walk, n) /\ childrenStatus
        reported == IF HasConflict(c, n) /\ ~NotInstallable(c, walk, n) THEN {n} ELSE {}
    IN  [walk |-> [walk EXCEPT !.installables = @ \cup reported,
                               !.visited = [m \in DOMAIN @ \cup {n} |-> IF m = n THEN status ELSE @[m]]],
         status |-> status]

AllSame(entries) ==
    \A e \in Range(entries) : e.type = entries[1].type /\ e.status = entries[1].status

\* A visit gives the walk after it and the status found. It is endless when it
\* comes back to a node that it is still in.
RECURSIVE VisitNode(_, _, _, _), VisitSplit(_, _, _, _)

VisitGroups(c, walk, n, depth) ==
    FoldLeft(LAMBDA r, group :
               LET visit == IF Cardinality(group) > 1 THEN VisitSplit(c, r.walk, group, depth + 1)
                            ELSE VisitNode(c, r.walk, Min(group), depth + 1)
               IN  [walk |-> visit.walk, status |-> r.status /\ visit.status],
             [walk |-> walk, status |-> TRUE],
             SuccessorsPerDep(c, n, depth > 0))

VisitNode(c, walk, n, depth) ==
    LET at == Len(walk.path) + 1
        entered == Enter(walk, [ids |-> {n}, type |-> NodeType(c, walk, n), status |-> TRUE])
        children == VisitGroups(c, [entered EXCEPT !.under = @ \cup {n}], n, depth)
        done == IF n \in DOMAIN walk.visited THEN [walk |-> entered, status |-> walk.visited[n]]
                ELSE Conclude(c, children.walk, n, children.status)
    IN  IF walk.endless \/ n \in walk.under
        THEN [walk |-> [walk EXCEPT !.endless = TRUE], status |-> FALSE]
        ELSE [done EXCEPT !.walk.path[at].status = done.status, !.walk.under = walk.under]

\* Entries of one type and status alone are taken back: the split takes their type.
VisitSplit(c, walk, group, depth) ==
    LET at == Len(walk.path) + 1
        entered == Enter(walk, [ids |-> group, type |-> "split", status |-> FALSE])
        done == FoldLeft(LAMBDA r, n :
                           LET visit == VisitNode(c, r.walk, n, depth + 1)
                           IN  [walk |-> visit.walk, status |-> r.status \/ visit.status],
                         [walk |-> entered, status |-> FALSE], SetToSortSeq(group, <))
        children == SubSeq(done.walk.path, at + 1, Len(done.walk.path))
        noted == [done EXCEPT !.walk.path[at].status = done.status]
    IN  IF done.walk.endless \/ walk.endless THEN done
        ELSE IF AllSame(children)
             THEN [noted EXCEPT !.walk.path =
                     Append(SubSeq(walk.path, 1, at - 1), [noted.walk.path[at] EXCEPT !.type = children[1].type])]
             ELSE noted

Explain ==
    /\ problemStage = "compressed"
    /\ explanation' = VisitNode(compressed, NewWalk, Root, 0).walk
    /\ problemStage' = "explained"
    /\ UNCHANGED <<rulesLeft, graph, compressed>>

ProblemNext == ParseProblem \/ Simplify \/ Compress \/ Explain

-----------------------------------------------------------------------------

\* Size that TreeDFS::explore gives the path.
PathSize == Cardinality(DOMAIN compressed.edges) + Len(compressed.nodes)

\* "conflicts with any installable versions previously reported" is true of
\* what is written before it.
ConflictWasReported(i) ==
    \E j \in 1 .. i - 1 : \E n \in explanation.path[i].ids, m \in explanation.path[j].ids :
        {n, m} \in compressed.conflicts

\* As the comment of TreeDFS::explore says, the edges and the nodes bound what the
\* walk writes: it ends, inside the vector that was made for it.
PathFits == problemStage = "explained" => ~explanation.endless /\ explanation.high <= PathSize

\* The steps from the rules to the message never fail, the walk fits, and what it
\* says is so: the request cannot be met; each reason given at a leaf is one, a
\* conflict only with what was told of before; what is written as one entry
\* has one type.
ExplanationIsRight ==
    /\ problemStage # "failed"
    /\ PathFits
    /\ problemStage = "explained" =>
         /\ ~explanation.path[1].status
         /\ \A i \in DOMAIN explanation.path : LET e == explanation.path[i] IN
              /\ \A n, m \in e.ids : compressed.nodes[n].type = compressed.nodes[m].type
              /\ e.type = "leaf" /\ ~e.status =>
                   \A n \in e.ids : compressed.nodes[n].type # "unresolved" => ConflictWasReported(i)

=============================================================================
