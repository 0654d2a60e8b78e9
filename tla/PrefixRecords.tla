--------------------------- MODULE PrefixRecords ---------------------------
(***************************************************************************)
(* PrefixData (prefix_data.cpp): the records of conda-meta, in whatever     *)
(* order the directory lists its files, and sorted_records, which orders    *)
(* them with a DiGraph whose edges go from a dependency to the packages     *)
(* that need it.  A record is a name and the names that it depends on.      *)
(***************************************************************************)
EXTENDS Digraph

CONSTANTS
    RecordNames,   \* the names of packages, in alphabetical order
    RecordFiles    \* the files: [name, needs], where needs are names

ASSUME RecordConstants ==
    /\ RecordNames \in Seq(STRING) /\ Len(RecordNames) <= MaxNodeId
    /\ \A i, j \in DOMAIN RecordNames : RecordNames[i] = RecordNames[j] => i = j
    /\ \A f \in RecordFiles : \E i \in DOMAIN RecordNames : RecordNames[i] = f.name

VARIABLES
    prefixFiles,    \* the files of conda-meta
    loadedFiles,    \* those that were read
    packageRecords, \* m_package_records
    sorting         \* sorted_records is running

prefixVars == <<prefixFiles, loadedFiles, packageRecords, sorting>>

PrefixInit ==
    /\ DigraphInit
    /\ prefixFiles \in SUBSET RecordFiles
    /\ loadedFiles = {} /\ packageRecords = {} /\ sorting = FALSE

\* load_single_record: std::map::insert keeps the record that it has.
LoadRecord(f) ==
    /\ f \notin loadedFiles
    /\ loadedFiles' = loadedFiles \cup {f}
    /\ packageRecords' = IF \E r \in packageRecords : r.name = f.name THEN packageRecords
                         ELSE packageRecords \cup {f}
    /\ UNCHANGED <<prefixFiles, sorting, digraphVars>>

-----------------------------------------------------------------------------
(* sorted_records *)

\* The names that have a record, by their places in the order of the map; the
\* node of one is the number of those before it.
Listed == {i \in DOMAIN RecordNames : \E r \in packageRecords : r.name = RecordNames[i]}
ListedNames == {RecordNames[i] : i \in Listed}
NodeOf(name) == Cardinality({j \in Listed : \E i \in Listed : RecordNames[i] = name /\ j < i})
NameOf(node) == CHOOSE name \in ListedNames : NodeOf(name) = node

\* A dependency without a record is left out.
DependencyEdges ==
    UNION {{<<NodeOf(d), NodeOf(r.name)>> : d \in r.needs \cap ListedNames} : r \in packageRecords}

NotFlipped(edges) == edges
\* edges_to_flip: python needs pip is read as pip needs python.
Flipped(edges) ==
    IF "pip" \notin ListedNames \/ "python" \notin ListedNames THEN edges
    ELSE LET known == <<NodeOf("pip"), NodeOf("python")>>
         IN  IF known \in edges THEN (edges \ {known}) \cup {<<known[2], known[1]>>} ELSE edges

SortRecords ==
    /\ loadedFiles = prefixFiles /\ ~sorting
    /\ sorting' = TRUE
    /\ LET edges == Flipped(DependencyEdges)
       IN  /\ nodeMap' = 0..(Cardinality(Listed) - 1)
           /\ nextId' = Cardinality(Listed)
           /\ successors' = [n \in Ids |-> {m \in Ids : <<n, m>> \in edges}]
           /\ predecessors' = [n \in Ids |-> {m \in Ids : <<m, n>> \in edges}]
           /\ edgeCount' = Cardinality(edges) /\ edgeData' = edges
    /\ walk' = [NoWalk EXCEPT !.on = TRUE]
    /\ UNCHANGED <<prefixFiles, loadedFiles, packageRecords>>

SortStep == sorting /\ Walking /\ UNCHANGED prefixVars

PrefixNext == (\E f \in prefixFiles : LoadRecord(f)) \/ SortRecords \/ SortStep
PrefixSpec == PrefixInit /\ [][PrefixNext]_<<prefixVars, digraphVars>>

-----------------------------------------------------------------------------
PrefixTypeOK ==
    /\ loadedFiles \subseteq prefixFiles /\ packageRecords \subseteq loadedFiles
    /\ sorting \in BOOLEAN
    /\ sorting => DigraphTypeOK

SortedRecords == [i \in DOMAIN walk.order |-> NameOf(walk.order[i])]

\* What a package needs before it: its dependencies that are installed, but
\* python waits for pip never, and pip for python instead.
NeededFirst(name) ==
    LET needs(n) == {d \in ListedNames : \E r \in packageRecords : r.name = n /\ d \in r.needs}
    IN  IF "python" \notin ListedNames \/ "pip" \notin needs("python") THEN needs(name)
        ELSE CASE name = "python" -> needs(name) \ {"pip"}
               [] name = "pip"    -> needs(name) \cup {"python"}
               [] OTHER           -> needs(name)

\* The least set of names with this one that has what its names need.
AllNeeded(name) ==
    {d \in ListedNames : \A S \in SUBSET ListedNames :
        name \in S /\ (\A n \in S : NeededFirst(n) \subseteq S) => d \in S}

\* sorted_records has each installed package once, whatever file of its name
\* was listed first, and after the packages it needs, but for those of another
\* cycle than that of python and pip.
SortedAfterDependencies ==
    sorting /\ Sorted =>
        LET Position(n) == CHOOSE i \in DOMAIN SortedRecords : SortedRecords[i] = n
        IN  /\ Len(SortedRecords) = Cardinality({f.name : f \in prefixFiles})
            /\ \A f \in prefixFiles : \E i \in DOMAIN SortedRecords : SortedRecords[i] = f.name
            /\ \A r \in packageRecords : \A d \in NeededFirst(r.name) :
                 Position(d) < Position(r.name) \/ r.name \in AllNeeded(d)
=============================================================================
