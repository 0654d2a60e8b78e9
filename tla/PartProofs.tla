------------------------------ MODULE PartProofs ------------------------------
(***************************************************************************)
(* Proofs about parts that keep their state apart from each other: the one  *)
(* executor of a process; the chain of roots of a channel, whatever the     *)
(* server holds and however often the process ends; the process that        *)
(* compiles Python files; the commands, their jobs and what is made of the  *)
(* answer; the order of versions; the caches of a subdir's index; and a     *)
(* transaction, for any packages, any solution and any paths.               *)
(***************************************************************************)
EXTENDS ExecutorInstance, RootUpdates, PycCompilation, PackageRequests, Versions, SubdirIndex,
        Transaction, WellFoundedInduction, FiniteSetTheorems, TLAPS

-----------------------------------------------------------------------------
(* ExecutorInstance *)

ExecutorTyped ==
    /\ mainExecutor \in Nat /\ made \in Nat
    /\ taskOf \in [Callers -> Nat]
    /\ callPc \in [Callers -> {"out", "checking", "locked", "returning", "joining",
                               "clearing", "undefined"}]
    /\ aliveExecutors = IF mainExecutor = 0 THEN {} ELSE {mainExecutor}

\* No task is left, nor begins, when the pointer is cleared.
NoTaskIsLeft ==
    (\E t \in Callers : callPc[t] = "clearing") => \A u \in Callers : taskOf[u] = 0

ExecutorInv == ExecutorTyped /\ TaskHasItsExecutor /\ NoTaskIsLeft

LEMMA ExecutorInitial == ExecutorInit => ExecutorInv
BY DEF ExecutorInit, ExecutorInv, ExecutorTyped, TaskHasItsExecutor, NoTaskIsLeft

LEMMA ExecutorStep == ExecutorInv /\ [ExecutorNext]_executorVars => ExecutorInv'
<1> SUFFICES ASSUME ExecutorInv, [ExecutorNext]_executorVars PROVE ExecutorInv'
  OBVIOUS
<1> USE DEF ExecutorInv, ExecutorTyped, TaskHasItsExecutor, NoTaskIsLeft, CallIs, CallTo,
            ownedVars
<1>1. ASSUME NEW t \in Callers, CallInstance(t) \/ LockForInstance(t) PROVE ExecutorInv'
  BY <1>1 DEF CallInstance, LockForInstance
<1>2. ASSUME NEW t \in Callers, MakeDefault(t) PROVE ExecutorInv'
  BY <1>2 DEF MakeDefault, MadeBy
<1>3. ASSUME NEW t \in Callers, ReturnInstance(t) PROVE ExecutorInv'
  BY <1>3 DEF ReturnInstance
<1>4. ASSUME NEW t \in Callers, MakeExecutor(t) PROVE ExecutorInv'
  BY <1>4 DEF MakeExecutor, MadeBy
<1>5. ASSUME NEW t \in Callers, RunTask(t) PROVE ExecutorInv'
  BY <1>5 DEF RunTask, ExecutorCloses
<1>6. ASSUME NEW t \in Callers, EndTask(t) PROVE ExecutorInv'
  BY <1>6 DEF EndTask
<1>7. ASSUME NEW t \in Callers, StopDefault(t) \/ EndExecutor(t) PROVE ExecutorInv'
  BY <1>7 DEF StopDefault, EndExecutor, BeginToClose
<1>8. ASSUME NEW t \in Callers, TasksJoined(t) PROVE ExecutorInv'
  BY <1>8 DEF TasksJoined
<1>9. ASSUME NEW t \in Callers, PointerCleared(t) PROVE ExecutorInv'
  BY <1>9 DEF PointerCleared
<1>10. CASE UNCHANGED executorVars
  BY <1>10 DEF executorVars
<1> QED BY <1>1, <1>2, <1>3, <1>4, <1>5, <1>6, <1>7, <1>8, <1>9, <1>10 DEF ExecutorNext, InCall

\* A task that asks for the instance has the executor that runs it, and there
\* is never a second one (Executor's default, stop_default and ~MainExecutor).
THEOREM OneExecutorForItsTasks == ExecutorSpec => []InstanceOutlivesTasks
<1>1. ExecutorInv => InstanceOutlivesTasks
  <2>1. Cardinality({}) = 0 /\ Cardinality({mainExecutor}) = 1
    BY FS_EmptySet, FS_Singleton
  <2> QED BY <2>1 DEF ExecutorInv, ExecutorTyped, InstanceOutlivesTasks
<1> QED BY <1>1, ExecutorInitial, ExecutorStep, PTL DEF ExecutorSpec

-----------------------------------------------------------------------------
(* RootUpdates *)

RootTyped ==
    /\ cachedRoot \in RootVersions \cup {NoRoot, TornRoot}
    /\ trustedRoot \in RootVersions
    /\ acceptedRoots \subseteq RootVersions
    /\ fellBack \in BOOLEAN

\* No version is accepted before the one it is signed by, and no run has a
\* root that none accepted.
AcceptedIsChain ==
    /\ \A v \in acceptedRoots : (v = 1 \/ Served(v)) /\ 1..v \subseteq acceptedRoots
    /\ cachedRoot \in RootVersions => cachedRoot \in acceptedRoots
    /\ trustedRoot \in acceptedRoots

\* What a copy or the cache has, and that it is the latest.
Known == IF cachedRoot = NoRoot THEN 1 ELSE cachedRoot
InRun == rootPc \in {"updating", "copying", "writing", "ended"}
CopiesTheTrusted ==
    /\ rootPc \in {"copying", "writing"} => nextRoot = trustedRoot
    /\ rootPc = "copying" => cachedRoot = NoRoot
    /\ rootPc = "writing" => cachedRoot = TornRoot
    /\ rootPc \in {"updating", "ended"} => cachedRoot = trustedRoot
IsLatest ==
    ~fellBack => /\ InRun => acceptedRoots \subseteq 1..trustedRoot
                 /\ ~InRun /\ cachedRoot # TornRoot => acceptedRoots \subseteq 1..Known

RootInv == RootTyped /\ AcceptedIsChain /\ CopiesTheTrusted /\ IsLatest

LEMMA RootInitial == RootInit => RootInv
<1> SUFFICES ASSUME RootInit PROVE RootInv
  OBVIOUS
<1>1. RootTyped
  <2>1. cachedRoot = NoRoot /\ trustedRoot = 1 /\ acceptedRoots = {1}
    BY DEF RootInit
  <2>2. fellBack \in BOOLEAN
    BY DEF RootInit
  <2> QED BY <2>1, <2>2, RootConstants DEF RootTyped, RootVersions
<1>5. AcceptedIsChain
  BY DEF RootInit, AcceptedIsChain, RootVersions, NoRoot
<1>2. CopiesTheTrusted
  BY DEF RootInit, CopiesTheTrusted
<1>3. ~InRun /\ Known = 1 /\ acceptedRoots \subseteq 1..1
  BY DEF RootInit, InRun, Known
<1>4. IsLatest
  BY <1>3 DEF IsLatest
<1> QED BY <1>1, <1>2, <1>4, <1>5 DEF RootInv

LEMMA RootStep == RootInv /\ [RootNext]_rootVars => RootInv'
<1> SUFFICES ASSUME RootInv, [RootNext]_rootVars PROVE RootInv'
  OBVIOUS
<1>0. 1 \in RootVersions /\ 1 \in acceptedRoots /\ NoRoot \notin RootVersions
      /\ TornRoot \notin RootVersions /\ NoRoot # TornRoot
  BY RootConstants DEF RootInv, RootTyped, AcceptedIsChain, RootVersions, NoRoot, TornRoot
<1> USE DEF RootInv, RootTyped, CopiesTheTrusted
<1>1. CASE StartRun
  <2>1. trustedRoot' \in RootVersions /\ trustedRoot' \in acceptedRoots
    BY <1>0, <1>1 DEF StartRun, AcceptedIsChain
  <2>2. AcceptedIsChain'
    BY <1>1, <2>1 DEF StartRun, AcceptedIsChain, Served
  <2>3. CopiesTheTrusted'
    BY <1>0, <1>1 DEF StartRun
  <2>4. UNCHANGED <<cachedRoot, acceptedRoots, fellBack>>
        /\ (cachedRoot # TornRoot => trustedRoot' = Known)
        /\ (InRun' => cachedRoot # TornRoot)
    BY <1>0, <1>1 DEF StartRun, Known, InRun
  <2>5. rootPc = "ended" \/ ~InRun
    BY <1>1 DEF StartRun, InRun
  <2>6. rootPc = "ended" => Known = trustedRoot
    BY <1>0 DEF Known
  <2>7. ~fellBack /\ cachedRoot # TornRoot => acceptedRoots \subseteq 1..Known
    BY <2>5, <2>6 DEF IsLatest, InRun
  <2>8. IsLatest'
    BY <2>4, <2>7 DEF IsLatest, Known
  <2> QED BY <1>1, <2>1, <2>2, <2>3, <2>8 DEF StartRun
<1>2. CASE UpdateRoot
  <2> DEFINE v == trustedRoot + 1
  <2>1. /\ rootPc = "updating" /\ Served(v) /\ v \in RootVersions /\ UNCHANGED rootServer
        /\ nextRoot' = v /\ cachedRoot' \in {NoRoot, cachedRoot}
    BY <1>2 DEF UpdateRoot, Served
  <2>2. CASE Accepts(v)
    <3>1. /\ trustedRoot' = v /\ acceptedRoots' = acceptedRoots \cup {v}
          /\ rootPc' = "copying" /\ cachedRoot' = NoRoot
          /\ fellBack' = (fellBack /\ ~(acceptedRoots \subseteq 1..v))
      BY <1>2, <2>2 DEF UpdateRoot, Persists
    <3>2. 1..trustedRoot \subseteq acceptedRoots
      BY DEF AcceptedIsChain
    <3>3. 1..v \subseteq acceptedRoots'
      BY <3>1, <3>2 DEF RootVersions
    <3>4. AcceptedIsChain'
      BY <2>1, <3>1, <3>3 DEF AcceptedIsChain, Served, NoRoot, RootVersions
    <3>5. 1..trustedRoot \subseteq 1..v /\ v \in 1..v
      BY <2>1 DEF RootVersions
    <3>6. ~fellBack' => acceptedRoots' \subseteq 1..v
      BY <2>1, <3>1, <3>5 DEF IsLatest, InRun
    <3>7. IsLatest'
      BY <3>1, <3>6 DEF IsLatest, InRun
    <3> QED BY <2>1, <3>1, <3>4, <3>7
  <2>3. CASE ~Accepts(v)
    <3>1. UNCHANGED <<trustedRoot, acceptedRoots, fellBack, cachedRoot>> /\ rootPc' = "failed"
      BY <1>2, <2>3 DEF UpdateRoot, Persists
    <3>2. AcceptedIsChain'
      BY <2>1, <3>1 DEF AcceptedIsChain, Served, NoRoot, RootVersions
    <3>3. IsLatest'
      BY <1>0, <2>1, <3>1 DEF IsLatest, InRun, Known
    <3> QED BY <2>1, <3>1, <3>2, <3>3
  <2> QED BY <2>2, <2>3
<1>3. CASE CopyRoot
  <2>1. AcceptedIsChain' /\ IsLatest'
    BY <1>3 DEF CopyRoot, AcceptedIsChain, Served, TornRoot, RootVersions, IsLatest, InRun
  <2> QED BY <1>3, <2>1 DEF CopyRoot
<1>7. CASE RootCopied
  <2>1. AcceptedIsChain' /\ IsLatest'
    BY <1>7 DEF RootCopied, AcceptedIsChain, Served, IsLatest, InRun
  <2> QED BY <1>7, <2>1 DEF RootCopied
<1>4. CASE EndRun
  <2>1. AcceptedIsChain'
    BY <1>4 DEF EndRun, AcceptedIsChain, Served
  <2>2. IsLatest'
    BY <1>0, <1>4 DEF EndRun, IsLatest, InRun, Known
  <2> QED BY <1>4, <2>1, <2>2 DEF EndRun
<1>5. CASE ProcessEnds
  <2>1. AcceptedIsChain'
    BY <1>5 DEF ProcessEnds, AcceptedIsChain, Served
  <2>2. IsLatest'
    <3>1. ~InRun' /\ UNCHANGED <<cachedRoot, acceptedRoots>> /\ (~fellBack' => ~fellBack)
      BY <1>5 DEF ProcessEnds, InRun
    <3>2. CASE rootPc = "copying"
      <4>1. ~fellBack' => acceptedRoots \subseteq {1}
        BY <1>5, <3>2 DEF ProcessEnds
      <4>2. cachedRoot # TornRoot => 1 \in 1..Known
        BY <1>0 DEF Known, RootVersions
      <4> QED BY <3>1, <4>1, <4>2 DEF IsLatest, Known
    <3>3. CASE rootPc = "updating"
      <4>1. ~fellBack => acceptedRoots \subseteq 1..trustedRoot
        BY <3>3 DEF IsLatest, InRun
      <4>2. Known = trustedRoot
        BY <1>0, <3>3 DEF Known
      <4> QED BY <3>1, <4>1, <4>2 DEF IsLatest, Known
    <3>4. CASE rootPc = "writing"
      BY <3>1, <3>4 DEF IsLatest
    <3> QED BY <1>5, <3>2, <3>3, <3>4 DEF ProcessEnds
  <2> QED BY <1>5, <2>1, <2>2 DEF ProcessEnds
<1>6. CASE UNCHANGED rootVars
  <2>1. AcceptedIsChain' /\ IsLatest'
    BY <1>6 DEF rootVars, AcceptedIsChain, Served, IsLatest, InRun, Known
  <2> QED BY <1>6, <2>1 DEF rootVars
<1> QED BY <1>1, <1>2, <1>3, <1>4, <1>5, <1>6, <1>7 DEF RootNext

\* Whatever the server holds, whatever part of it is found and wherever the
\* process ends, the cached root is one that was accepted, from the reference
\* on; a run that ends has it in the cache, and it is the latest that any run
\* accepted, but after an end between removal and copy (get_root_role,
\* persist_file).
THEOREM RootsMoveOn == RootSpec => []RootMovesOn
<1>1. RootInv => RootMovesOn
  BY DEF RootInv, AcceptedIsChain, CopiesTheTrusted, IsLatest, InRun, RootMovesOn
<1> QED BY <1>1, RootInitial, RootStep, PTL DEF RootSpec

-----------------------------------------------------------------------------
(* PycCompilation *)

InPipe == {pycInput[i] : i \in 1..Len(pycInput)}

PycTyped ==
    /\ pycPackages \in Seq(Seq(PyNames)) /\ pyFiles \in Seq(PyNames) /\ pycInput \in Seq(PyNames)
    /\ pycProcess \in {"none", "running"}
    /\ pycChild \in {"reading", "joining", "ended"}

\* A name that was handed over is somewhere on its way.
NoneIsLost == handedOver \subseteq compiled \cup BadFiles \cup submitted \cup InPipe

\* The input is open while names are written, and to a child that runs.
ParentWrites ==
    /\ ~pycInputOpen => pycParent \in {"waiting", "stopping", "done"}
    /\ pycParent = "writing" => pycProcess = "running"
    /\ pycProcess = "none" => handedOver = {} \/ pycParent = "done"
    /\ pycParent = "stopping" => pycChild = "ended"

\* A child that ends by itself has read and done everything.
ChildIsDone ==
    /\ pycChild # "reading" => pycInput = <<>> /\ ~pycInputOpen
    /\ pycChild = "ended" => submitted = {}

PycInv ==
    /\ PycTyped /\ NoneIsLost /\ ParentWrites
    /\ ~pycKilled => ChildIsDone /\ (pycParent = "done" => pycChild = "ended" \/ handedOver = {})

LEMMA AppendElements ==
  ASSUME NEW S, NEW q \in Seq(S), NEW e \in S
  PROVE  {Append(q, e)[i] : i \in 1..Len(Append(q, e))} = {q[i] : i \in 1..Len(q)} \cup {e}
<1>1. Len(Append(q, e)) = Len(q) + 1 /\ Append(q, e)[Len(q) + 1] = e
      /\ \A i \in 1..Len(q) : Append(q, e)[i] = q[i]
  OBVIOUS
<1>2. 1..Len(Append(q, e)) = 1..Len(q) \cup {Len(q) + 1}
  BY <1>1
<1> QED BY <1>1, <1>2, Zenon

LEMMA TailElements ==
  ASSUME NEW S, NEW q \in Seq(S), q # <<>>
  PROVE  {q[i] : i \in 1..Len(q)} \subseteq {Tail(q)[i] : i \in 1..Len(Tail(q))} \cup {Head(q)}
<1> SUFFICES ASSUME NEW i \in 1..Len(q), i # 1
             PROVE  \E j \in 1..Len(Tail(q)) : q[i] = Tail(q)[j]
  BY Head(q) = q[1]
<1>1. i - 1 \in 1..Len(Tail(q)) /\ Tail(q)[i - 1] = q[i]
  OBVIOUS
<1> QED BY <1>1

LEMMA PycInitial == PycInit => PycInv
BY PycConstants DEF PycInit, PycInv, PycTyped, NoneIsLost, ParentWrites, ChildIsDone, InPipe

LEMMA PycStep == PycInv /\ [PycNext]_pycVars => PycInv'
<1> SUFFICES ASSUME PycInv, [PycNext]_pycVars PROVE PycInv'
  OBVIOUS
<1> USE DEF PycInv, PycTyped, ParentWrites, ChildIsDone, childVars, parentVars
<1>1. CASE TryPycCompilation
  BY <1>1 DEF TryPycCompilation, NoneIsLost, InPipe
<1>2. CASE WriteName
  <2>1. CASE pycChild = "ended"
    BY <1>2, <2>1 DEF WriteName, NoneIsLost, InPipe
  <2>2. CASE pycChild # "ended"
    <3>1. pyFiles # <<>> /\ pycInput' = Append(pycInput, Head(pyFiles)) /\ pyFiles' = Tail(pyFiles)
          /\ handedOver' = handedOver \cup {Head(pyFiles)} /\ pycParent = "writing"
          /\ UNCHANGED <<pycParent, pycPackages, pycProcess, pycInputOpen, childVars>>
      BY <1>2, <2>2 DEF WriteName
    <3>2. PycTyped'
      BY <3>1
    <3>3. InPipe' = InPipe \cup {Head(pyFiles)}
      BY <3>1, AppendElements, Head(pyFiles) \in PyNames DEF InPipe
    <3>4. NoneIsLost'
      BY <3>1, <3>3 DEF NoneIsLost
    <3> QED BY <3>1, <3>2, <3>4
  <2> QED BY <2>1, <2>2
<1>3. CASE PackageWritten \/ WaitForPycCompilation \/ Drain
  BY <1>3 DEF PackageWritten, WaitForPycCompilation, Drain, NoneIsLost, InPipe
<1>4. CASE StopChild
  <2>1. pycChild = "ended" /\ (pycKilled' <=> pycKilled)
    BY <1>4 DEF StopChild
  <2> QED BY <1>4, <2>1 DEF StopChild, NoneIsLost, InPipe
<1>5. CASE ReadName
  <2>1. pycInput # <<>> /\ pycInput' = Tail(pycInput) /\ submitted' = submitted \cup {Head(pycInput)}
        /\ pycChild = "reading" /\ UNCHANGED <<parentVars, pycChild, compiled, pycKilled>>
    BY <1>5 DEF ReadName, MayRead
  <2>2. PycTyped'
    BY <2>1
  <2>3. InPipe \subseteq InPipe' \cup {Head(pycInput)}
    BY <2>1, TailElements DEF InPipe
  <2>4. NoneIsLost'
    BY <2>1, <2>3 DEF NoneIsLost
  <2> QED BY <2>1, <2>2, <2>4
<1>6. CASE ReadEnd
  BY <1>6 DEF ReadEnd, InputOver, NoneIsLost, InPipe
<1>7. ASSUME NEW f \in submitted, CompileFile(f) PROVE PycInv'
  BY <1>7 DEF CompileFile, NoneIsLost, InPipe
<1>8. CASE ChildEnds
  BY <1>8 DEF ChildEnds, NoneIsLost, InPipe
<1>9. CASE ChildDies
  BY <1>9 DEF ChildDies, NoneIsLost, InPipe
<1>10. CASE UNCHANGED pycVars
  BY <1>10 DEF pycVars, NoneIsLost, InPipe
<1> QED BY <1>1, <1>2, <1>3, <1>4, <1>5, <1>6, <1>7, <1>8, <1>9, <1>10
        DEF PycNext, PycParentNext, PycChildNext

\* Whatever the packages, and however much a pipe holds: a transaction that
\* goes on has every file compiled that it handed over, unless somebody else
\* ended the child.
THEOREM CompiledBeforeGoingOn == PycSpec => []HandedOverAreCompiled
<1>1. PycInv => HandedOverAreCompiled
  BY DEF PycInv, NoneIsLost, ChildIsDone, HandedOverAreCompiled, PyFilesMade, InPipe
<1> QED BY <1>1, PycInitial, PycStep, PTL DEF PycSpec

-----------------------------------------------------------------------------
(* PackageRequests: the actions made of an answer *)

\* A version of each package, or none.
States == {state \in [PackageNames -> Nat] : \A n \in PackageNames : state[n] \in VersionsOf[n] \cup {0}}

LEMMA PackagesOf ==
  ASSUME installed \in States, NEW after \in States, NEW n \in PackageNames
  PROVE  /\ Old(n) = IF Has(installed, n) THEN {Package(n, installed[n])} ELSE {}
         /\ New(n, after) = IF Has(after, n) THEN {Package(n, after[n])} ELSE {}
BY RequestConstants DEF States, Old, New, Has, Package

\* What the flags leave of an answer.
Want(after, n) == IF FilterKeeps(n) THEN after[n] ELSE installed[n]
Changes(after, n) == ~(installed[n] = after[n] /\ ~Reinstalled(n))

\* The three kinds of actions on a package.
Changing(a, after, n) == FilterKeeps(n) /\ Changes(after, n) /\ a = Action(Old(n), New(n, after), {})
Omitting(a, after, n) == ~FilterKeeps(n) /\ \E p : a = Action({}, {}, {p})
Relinking(a, after, n) == /\ Has(installed, n) /\ a = ReinstallOf(Package(n, installed[n]))
                          /\ ~FilterKeeps(n) \/ ~Changes(after, n)
KindOf(a, after, n) == Changing(a, after, n) \/ Omitting(a, after, n) \/ Relinking(a, after, n)

\* The actions of one package.
LEMMA ActionsOfOne ==
  ASSUME NEW after, NEW n, NEW a \in ActionsFor(n, after)
  PROVE  /\ Changes(after, n)
         /\ FilterKeeps(n) => a = Action(Old(n), New(n, after), {})
         /\ ~FilterKeeps(n) => \E p \in Old(n) \cup New(n, after) : a = Action({}, {}, {p})
<1>1. Changes(after, n)
  BY DEF ActionsFor, Changes
<1>2. CASE FilterKeeps(n)
  BY <1>1, <1>2 DEF ActionsFor, Changes
<1>3. CASE ~FilterKeeps(n)
  BY <1>1, <1>3 DEF ActionsFor, Changes
<1> QED BY <1>1, <1>2, <1>3

SolvedActions(after) == {Solution(after), AddNoarchRelink(Solution(after))}

\* A noarch package that some action is about, but that is not linked again.
LEMMA RelinkedOrChanged ==
  ASSUME installed \in States, NEW after \in States, NEW n \in NoarchNames, Has(installed, n)
  PROVE  LET actions == Solution(after)
         IN  \/ ReinstallOf(Package(n, installed[n])) \in AddNoarchRelink(actions)
             \/ FilterKeeps(n) /\ Changes(after, n)
<1> DEFINE actions == Solution(after)
<1>1. n \in PackageNames /\ Old(n) = {Package(n, installed[n])}
  BY PackagesOf, RequestConstants
<1>2. CASE FilterKeeps(n) /\ Changes(after, n)
  BY <1>2
<1>3. CASE ~FilterKeeps(n) /\ Changes(after, n)
  <2>1. Action({}, {}, {Package(n, installed[n])}) \in ActionsFor(n, after)
    BY <1>1, <1>3 DEF ActionsFor, Changes
  <2>2. Action({}, {}, Old(n)) \in actions
    BY <1>1, <2>1 DEF Solution
  <2> QED BY <1>1, <2>2 DEF AddNoarchRelink
<1>4. CASE ~Changes(after, n)
  <2>1. ASSUME NEW a \in actions, RefersTo(a, n) PROVE FALSE
    <3>1. PICK m \in PackageNames : a \in ActionsFor(m, after)
      BY <2>1 DEF Solution
    <3>2. m # n
      BY <3>1, <1>4, ActionsOfOne
    <3>3. \A p \in Old(m) \cup New(m, after) : p.name = m
      BY DEF Old, New, Package
    <3>4. \A p \in a.removes \cup a.installs \cup a.omits : p.name = m
      BY <3>1, <3>3, ActionsOfOne DEF Action
    <3> QED BY <2>1, <3>2, <3>4 DEF RefersTo, Names
  <2> QED BY <1>1, <2>1 DEF AddNoarchRelink
<1> QED BY <1>2, <1>3, <1>4

LEMMA KindsOfActions ==
  ASSUME installed \in States, NEW after \in States, NEW actions \in SolvedActions(after)
  PROVE  /\ \A a \in actions : \E n \in PackageNames : KindOf(a, after, n)
         /\ \A n \in PackageNames : FilterKeeps(n) /\ Changes(after, n) =>
              Action(Old(n), New(n, after), {}) \in actions
<1> DEFINE chosen == Solution(after)
<1>1. ASSUME NEW a \in chosen PROVE \E n \in PackageNames : Changing(a, after, n) \/ Omitting(a, after, n)
  <2>1. PICK n \in PackageNames : a \in ActionsFor(n, after)
    BY DEF Solution
  <2>2. CASE FilterKeeps(n)
    BY <2>1, <2>2, ActionsOfOne DEF Changing
  <2>3. CASE ~FilterKeeps(n)
    <3>1. PICK p \in Old(n) \cup New(n, after) : a = Action({}, {}, {p})
      <4>1. a \in {Action({}, {}, {p}) : p \in Old(n) \cup New(n, after)}
        BY <2>1, <2>3, Zenon DEF ActionsFor
      <4> QED BY <4>1, Zenon
    <3> QED BY <2>3, <3>1 DEF Omitting
  <2> QED BY <2>2, <2>3
<1>2. ASSUME NEW n \in PackageNames, FilterKeeps(n), Changes(after, n)
      PROVE  Action(Old(n), New(n, after), {}) \in chosen
  BY <1>2 DEF Solution, ActionsFor, Changes
<1>3. CASE actions = chosen
  BY <1>1, <1>2, <1>3 DEF KindOf
<1>4. CASE actions = AddNoarchRelink(chosen)
  <2>1. ASSUME NEW a \in actions PROVE \E n \in PackageNames : KindOf(a, after, n)
    <3>1. CASE a \in chosen
      BY <3>1, <1>1 DEF KindOf
    <3>2. CASE a \notin chosen
      <4>1. PICK n \in NoarchNames :
               /\ Has(installed, n) /\ a \in {ReinstallOf(p) : p \in Old(n)}
               /\ Action({}, {}, Old(n)) \in chosen \/ ~\E b \in chosen : RefersTo(b, n)
        BY <1>4, <3>2 DEF AddNoarchRelink
      <4>2. n \in PackageNames /\ Old(n) = {Package(n, installed[n])}
        BY <4>1, PackagesOf, RequestConstants
      <4>3. a = ReinstallOf(Package(n, installed[n]))
        BY <4>1, <4>2
      <4>4. ASSUME FilterKeeps(n), Changes(after, n) PROVE FALSE
        <5>1. Action(Old(n), New(n, after), {}) \in chosen
          BY <4>2, <4>4, <1>2
        <5>2. RefersTo(Action(Old(n), New(n, after), {}), n)
          <6>1. Package(n, installed[n]) \in Old(n) /\ Package(n, installed[n]).name = n
            BY <4>2 DEF Package
          <6> QED BY <6>1 DEF RefersTo, Names, Action
        <5>3. Action({}, {}, Old(n)) \in chosen
          BY <4>1, <5>1, <5>2
        <5>4. PICK m \in PackageNames : Changing(Action({}, {}, Old(n)), after, m) \/
                                        Omitting(Action({}, {}, Old(n)), after, m)
          BY <5>3, <1>1
        <5>5. ~Changing(Action({}, {}, Old(n)), after, m)
          BY <4>2 DEF Changing, Action
        <5>6. PICK k \in PackageNames : Action({}, {}, Old(n)) \in ActionsFor(k, after)
          BY <5>3 DEF Solution
        <5>7. ~FilterKeeps(k)
          BY <5>6, <4>2, ActionsOfOne DEF Action
        <5>8. PICK p \in Old(k) \cup New(k, after) : Action({}, {}, Old(n)) = Action({}, {}, {p})
          BY <5>6, <5>7, ActionsOfOne
        <5>9. p = Package(n, installed[n])
          BY <5>8, <4>2 DEF Action
        <5>10. p.name = k /\ p.name = n
          BY <5>9 DEF Old, New, Package
        <5> QED BY <5>7, <5>10, <4>4
      <4> QED BY <4>1, <4>2, <4>3, <4>4 DEF KindOf, Relinking
    <3> QED BY <3>1, <3>2
  <2>2. ASSUME NEW n \in PackageNames, FilterKeeps(n), Changes(after, n)
        PROVE  Action(Old(n), New(n, after), {}) \in actions
    <3>1. Action(Old(n), New(n, after), {}) \in chosen
      BY <2>2, <1>2
    <3>2. \A m \in NoarchNames : Has(installed, m) => Old(m) # {}
      BY PackagesOf, RequestConstants
    <3>3. \A m \in NoarchNames : Has(installed, m) => Action(Old(n), New(n, after), {}) # Action({}, {}, Old(m))
      BY <3>2 DEF Action
    <3> QED BY <1>4, <3>1, <3>3 DEF AddNoarchRelink
  <2> QED BY <2>1, <2>2
<1> QED BY <1>3, <1>4 DEF SolvedActions

\* What an action on n removes and installs.
LEMMA KindsAreExact ==
  ASSUME installed \in States, NEW after \in States, NEW n \in PackageNames, NEW a, KindOf(a, after, n)
  PROVE  /\ \A p \in a.removes : Has(installed, n) /\ p = Package(n, installed[n])
         /\ \A p \in a.installs : Want(after, n) # 0 /\ p = Package(n, Want(after, n))
         /\ a.removes # {} /\ Want(after, n) # 0 => a.installs # {}
         /\ \A b : KindOf(b, after, n) /\ a.removes \cup a.installs # {} /\ b.removes \cup b.installs # {}
               => a = b
<1>1. /\ Old(n) = IF Has(installed, n) THEN {Package(n, installed[n])} ELSE {}
      /\ New(n, after) = IF Has(after, n) THEN {Package(n, after[n])} ELSE {}
  BY PackagesOf
<1>2. ~Changes(after, n) => installed[n] = after[n]
  BY DEF Changes
<1>3. ASSUME NEW b, Changing(b, after, n)
      PROVE  /\ b = Action(Old(n), New(n, after), {}) /\ Want(after, n) = after[n]
             /\ FilterKeeps(n) /\ Changes(after, n)
  BY <1>3 DEF Changing, Want
<1>4. ASSUME NEW b, Omitting(b, after, n) PROVE b.removes = {} /\ b.installs = {}
  BY <1>4 DEF Omitting, Action
<1>5. ASSUME NEW b, Relinking(b, after, n)
      PROVE  /\ b = ReinstallOf(Package(n, installed[n])) /\ Has(installed, n)
             /\ ~(FilterKeeps(n) /\ Changes(after, n)) /\ Want(after, n) = installed[n]
  BY <1>2, <1>5 DEF Relinking, Want
<1>6. CASE Changing(a, after, n)
  <2>1. \A b : KindOf(b, after, n) /\ b.removes \cup b.installs # {} => a = b
    BY <1>3, <1>4, <1>5, <1>6 DEF KindOf
  <2> QED BY <1>1, <1>3, <1>6, <2>1 DEF Action, Has
<1>7. CASE Omitting(a, after, n)
  BY <1>4, <1>7
<1>8. CASE Relinking(a, after, n)
  <2>1. \A b : KindOf(b, after, n) /\ b.removes \cup b.installs # {} => a = b
    BY <1>3, <1>4, <1>5, <1>8 DEF KindOf
  <2> QED BY <1>5, <1>8, <2>1 DEF ReinstallOf, Action, Has
<1> QED BY <1>6, <1>7, <1>8 DEF KindOf

\* What the transaction makes of the actions.
AfterwardsOf(actions, n) ==
    IF \E p \in AllInstalled(actions) : p.name = n
    THEN (CHOOSE p \in AllInstalled(actions) : p.name = n).version
    ELSE IF \E p \in AllRemoved(actions) : p.name = n THEN 0 ELSE installed[n]

\* It is what the flags leave of the answer, in one action for each package.
LEMMA ActionsAreRight ==
  ASSUME installed \in States, NEW after \in States, NEW actions \in SolvedActions(after)
  PROVE  /\ \A n \in PackageNames : AfterwardsOf(actions, n) = Want(after, n)
         /\ \A p \in AllInstalled(actions) : p.name \in PackageNames /\ p.version = Want(after, p.name)
         /\ \A n \in PackageNames : Want(after, n) # 0 /\ Want(after, n) # installed[n] =>
              Package(n, Want(after, n)) \in AllInstalled(actions)
         /\ AllRemoved(actions) \subseteq {Package(n, installed[n]) : n \in PackageNames}
         /\ \A n \in PackageNames :
              \A a, b \in {c \in actions : n \in Names(c.removes \cup c.installs)} : a = b
<1>1. \A n \in PackageNames : \A v : Package(n, v).name = n /\ Package(n, v).version = v
  BY DEF Package
<1>2. \A a \in actions : \E n \in PackageNames : KindOf(a, after, n)
  BY KindsOfActions
<1>3. ASSUME NEW p \in AllInstalled(actions)
      PROVE  p.name \in PackageNames /\ p.version = Want(after, p.name) /\ p.version # 0
  <2>1. PICK a \in actions : p \in a.installs
    BY DEF AllInstalled
  <2>2. PICK n \in PackageNames : KindOf(a, after, n)
    BY <1>2
  <2> QED BY <2>1, <2>2, KindsAreExact, <1>1
<1>4. ASSUME NEW p \in AllRemoved(actions)
      PROVE  \E n \in PackageNames :
               /\ Has(installed, n) /\ p = Package(n, installed[n])
               /\ Want(after, n) # 0 => \E q \in AllInstalled(actions) : q.name = n
  <2>1. PICK a \in actions : p \in a.removes
    BY DEF AllRemoved
  <2>2. PICK n \in PackageNames : KindOf(a, after, n)
    BY <1>2
  <2>3. Has(installed, n) /\ p = Package(n, installed[n])
    BY <2>1, <2>2, KindsAreExact
  <2>4. ASSUME Want(after, n) # 0 PROVE \E q \in AllInstalled(actions) : q.name = n
    <3>1. PICK q : q \in a.installs
      BY <2>1, <2>2, <2>4, KindsAreExact
    <3>2. q = Package(n, Want(after, n))
      BY <2>2, <3>1, KindsAreExact
    <3>3. q \in AllInstalled(actions)
      BY <3>1 DEF AllInstalled
    <3> QED BY <3>2, <3>3, <1>1
  <2> QED BY <2>3, <2>4
<1>5. ASSUME NEW n \in PackageNames, Want(after, n) # installed[n]
      PROVE  /\ Action(Old(n), New(n, after), {}) \in actions /\ Want(after, n) = after[n]
             /\ Has(installed, n) => Package(n, installed[n]) \in AllRemoved(actions)
             /\ Has(after, n) => Package(n, after[n]) \in AllInstalled(actions)
  <2>1. FilterKeeps(n) /\ Changes(after, n) /\ Want(after, n) = after[n]
    BY <1>5 DEF Want, Changes
  <2>2. Action(Old(n), New(n, after), {}) \in actions
    BY <2>1, KindsOfActions
  <2>3. /\ Has(installed, n) => Package(n, installed[n]) \in Old(n)
        /\ Has(after, n) => Package(n, after[n]) \in New(n, after)
    BY PackagesOf
  <2>4. Old(n) \subseteq AllRemoved(actions) /\ New(n, after) \subseteq AllInstalled(actions)
    BY <2>2 DEF AllRemoved, AllInstalled, Action
  <2> QED BY <2>1, <2>2, <2>3, <2>4
<1>6. ASSUME NEW n \in PackageNames PROVE AfterwardsOf(actions, n) = Want(after, n)
  <2>1. CASE \E p \in AllInstalled(actions) : p.name = n
    BY <2>1, <1>3 DEF AfterwardsOf
  <2>2. CASE (~\E p \in AllInstalled(actions) : p.name = n) /\ \E p \in AllRemoved(actions) : p.name = n
    <3>1. PICK p \in AllRemoved(actions) : p.name = n
      BY <2>2
    <3>2. Want(after, n) = 0
      BY <3>1, <2>2, <1>4, <1>1
    <3> QED BY <2>2, <3>2 DEF AfterwardsOf
  <2>3. CASE (~\E p \in AllInstalled(actions) : p.name = n) /\ ~\E p \in AllRemoved(actions) : p.name = n
    <3>1. AfterwardsOf(actions, n) = installed[n]
      BY <2>3 DEF AfterwardsOf
    <3>2. ASSUME Want(after, n) # installed[n] PROVE FALSE
      <4>1. Has(installed, n) \/ Has(after, n)
        BY <3>2, <1>5 DEF Has
      <4> QED BY <4>1, <3>2, <1>5, <1>1, <2>3
    <3> QED BY <3>1, <3>2
  <2> QED BY <2>1, <2>2, <2>3
<1>7. ASSUME NEW n \in PackageNames,
             NEW a \in actions, n \in Names(a.removes \cup a.installs),
             NEW b \in actions, n \in Names(b.removes \cup b.installs)
      PROVE  a = b
  <2>1. ASSUME NEW c \in actions, n \in Names(c.removes \cup c.installs)
        PROVE  KindOf(c, after, n) /\ c.removes \cup c.installs # {}
    <3>1. PICK m \in PackageNames : KindOf(c, after, m)
      BY <1>2
    <3>2. PICK p \in c.removes \cup c.installs : p.name = n
      BY <2>1 DEF Names
    <3>3. p.name = m
      BY <3>1, <3>2, KindsAreExact, <1>1
    <3> QED BY <3>1, <3>2, <3>3
  <2> QED BY <2>1, <1>7, KindsAreExact
<1>8. AllRemoved(actions) \subseteq {Package(n, installed[n]) : n \in PackageNames}
  BY <1>4
<1>9. \A n \in PackageNames : Want(after, n) # 0 /\ Want(after, n) # installed[n] =>
        Package(n, Want(after, n)) \in AllInstalled(actions)
  BY <1>5 DEF Has
<1> QED BY <1>3, <1>6, <1>7, <1>8, <1>9

-----------------------------------------------------------------------------
(* PackageRequests: the jobs of a command *)

Removes == {job \in asked.jobs : job.type = "remove"}
KeepJob(n) == Job("keep", [name |-> n, versions |-> requested[n]], FALSE)

\* What each command asks of the solver, when it is to clean dependencies too.
WellAsked ==
    /\ asked.specs \subseteq SpecChoices /\ asked.command # "force"
    /\ asked.command = "remove" => \A s \in asked.specs : \E job \in Removes : job.spec = s
    /\ asked.command # "remove" => Jobs("pin", PythonPin(asked.specs)) \subseteq asked.jobs
    /\ \A job \in asked.jobs : job.type \in {"install", "update"} => job.spec \in asked.specs
    /\ \A job \in asked.jobs : job.type = "update" => asked.command = "update"
    /\ \A job \in asked.jobs : job.type \in {"remove", "update_all"} /\ job.clean =>
          \A n \in PackageNames : requested[n] # {} =>
             \/ KeepJob(n) \in asked.jobs
             \/ \E s \in asked.specs : s.name = n
             \/ \E other \in Removes : other.spec.name = n

LEMMA CommandsAreWellAsked ==
  ASSUME Install \/ Update \/ UpdateAll \/ UpdateEnv \/ RemoveSpecs
  PROVE  WellAsked' /\ asked'.stage = "asked" /\ UNCHANGED <<installed, requested, answer, solution>>
<1> DEFINE Made(command, specs, jobs, flags) ==
             [stage |-> "asked", command |-> command, specs |-> specs, jobs |-> jobs, flags |-> flags]
<1> USE DEF Command
<1>1. CASE Install
  <2>1. PICK s \in SpecChoices, freeze \in BOOLEAN, flags \in FlagChoices :
           Command("install", {s}, Pinned(InstallRequest({s}, freeze), {s}), flags)
    BY <1>1 DEF Install
  <2>2. \A job \in InstallRequest({s}, freeze) : job.clean = FALSE /\ job.type \in {"freeze", "install"}
                                               /\ (job.type = "install" => job.spec = s)
    BY DEF InstallRequest, Jobs, Job
  <2>3. \A job \in Jobs("pin", PythonPin({s})) : job.clean = FALSE /\ job.type = "pin"
    BY DEF Jobs, Job
  <2>4. /\ asked'.command = "install" /\ asked'.specs = {s} /\ asked'.stage = "asked"
        /\ asked'.jobs = InstallRequest({s}, freeze) \cup Jobs("pin", PythonPin({s}))
        /\ UNCHANGED <<installed, requested, answer, solution>>
    BY <2>1 DEF Pinned
  <2>5. PythonPin(asked.specs)' = PythonPin({s})
    BY <2>4 DEF PythonPin, Has
  <2> QED BY <2>2, <2>3, <2>4, <2>5 DEF WellAsked
<1>2. CASE Update
  <2>1. PICK s \in SpecChoices :
           Command("update", {s}, Pinned({Job("update", s, TRUE)}, {s}), AllKept)
    BY <1>2 DEF Update
  <2>2. \A job \in Jobs("pin", PythonPin({s})) : job.clean = FALSE /\ job.type = "pin"
    BY DEF Jobs, Job
  <2>3. /\ asked'.command = "update" /\ asked'.specs = {s} /\ asked'.stage = "asked"
        /\ asked'.jobs = {Job("update", s, TRUE)} \cup Jobs("pin", PythonPin({s}))
        /\ UNCHANGED <<installed, requested, answer, solution>>
    BY <2>1 DEF Pinned
  <2>4. PythonPin(asked.specs)' = PythonPin({s})
    BY <2>3 DEF PythonPin, Has
  <2> QED BY <2>2, <2>3, <2>4 DEF WellAsked, Job
<1>3. ASSUME NEW n \in PackageNames, requested[n] # {} PROVE KeepJob(n) \in Jobs("keep", KeptSpecs)
  BY <1>3 DEF KeepJob, Jobs, KeptSpecs
<1>4. \A job \in Jobs("keep", KeptSpecs) : job.clean = FALSE /\ job.type = "keep"
  BY DEF Jobs, Job
<1>5. CASE UpdateAll
  <2>1. PICK prune \in BOOLEAN :
           Command("update_all", {}, Pinned(UpdateAllRequest(prune), {}), AllKept)
    BY <1>5 DEF UpdateAll
  <2>2. \A job \in Jobs("pin", PythonPin({})) : job.clean = FALSE /\ job.type = "pin"
    BY DEF Jobs, Job
  <2>3. /\ asked'.command = "update_all" /\ asked'.specs = {} /\ asked'.stage = "asked"
        /\ asked'.jobs = UpdateAllRequest(prune) \cup Jobs("pin", PythonPin({}))
        /\ UNCHANGED <<installed, requested, answer, solution>>
    BY <2>1 DEF Pinned
  <2>4. PythonPin(asked.specs)' = PythonPin({})
    BY <2>3 DEF PythonPin, Has
  <2>5. \A job \in asked'.jobs :
           /\ job.type \in {"pin", "keep", "update_all"}
           /\ job.clean => prune
    BY <2>2, <2>3, <1>4 DEF UpdateAllRequest
  <2>6. prune => \A n \in PackageNames : requested[n] # {} => KeepJob(n) \in asked'.jobs
    BY <2>3, <1>3 DEF UpdateAllRequest
  <2>7. \A n : KeepJob(n)' = KeepJob(n)
    BY <2>3 DEF KeepJob
  <2> QED BY <2>3, <2>4, <2>5, <2>6, <2>7 DEF WellAsked
<1>6. CASE UpdateEnv
  <2>1. PICK s \in SpecChoices, removeOthers \in BOOLEAN :
           Command("update_env", {s}, Pinned(EnvUpdateRequest({s}, removeOthers), {s}), AllKept)
    BY <1>6 DEF UpdateEnv
  <2>2. \A job \in Jobs("pin", PythonPin({s})) : job.clean = FALSE /\ job.type = "pin"
    BY DEF Jobs, Job
  <2>3. /\ asked'.command = "update_env" /\ asked'.specs = {s} /\ asked'.stage = "asked"
        /\ asked'.jobs = EnvUpdateRequest({s}, removeOthers) \cup Jobs("pin", PythonPin({s}))
        /\ UNCHANGED <<installed, requested, answer, solution>>
    BY <2>1 DEF Pinned
  <2>4. PythonPin(asked.specs)' = PythonPin({s})
    BY <2>3 DEF PythonPin, Has
  <2>5. \A job \in asked'.jobs :
           /\ job.type \in {"pin", "install", "remove"} /\ (job.type = "install" => job.spec = s)
           /\ job.clean => removeOthers
    BY <2>2, <2>3 DEF EnvUpdateRequest, Jobs, Job
  <2>6. ASSUME removeOthers, NEW n \in PackageNames, requested[n] # {}, s.name # n
        PROVE  \E other \in asked'.jobs : other.type = "remove" /\ other.spec.name = n
    <3>1. PICK k \in KeptSpecs : k.name = n
      <4>1. [name |-> n, versions |-> requested[n]] \in KeptSpecs
        BY <2>6 DEF KeptSpecs
      <4> QED BY <4>1
    <3>2. k \in {other \in KeptSpecs : other.name \notin Names({s})}
      BY <2>6, <3>1 DEF Names
    <3>3. Job("remove", AnyVersion(n), TRUE) \in asked'.jobs
      BY <2>3, <2>6, <3>1, <3>2 DEF EnvUpdateRequest
    <3> QED BY <3>3 DEF Job, AnyVersion
  <2> QED BY <2>3, <2>4, <2>5, <2>6 DEF WellAsked, Removes
<1>7. CASE RemoveSpecs
  <2>1. PICK s \in SpecChoices, prune \in BOOLEAN :
           Command("remove", {s}, RemoveRequest({s}, prune), AllKept)
    BY <1>7 DEF RemoveSpecs
  <2>2. /\ asked'.command = "remove" /\ asked'.specs = {s} /\ asked'.stage = "asked"
        /\ asked'.jobs = RemoveRequest({s}, prune)
        /\ UNCHANGED <<installed, requested, answer, solution>>
    BY <2>1
  <2>3. /\ Job("remove", s, prune) \in asked'.jobs
        /\ Job("remove", s, prune).type = "remove" /\ Job("remove", s, prune).spec = s
    BY <2>2 DEF RemoveRequest, Job
  <2>4. \A job \in asked'.jobs :
           /\ job.type \in {"keep", "remove"}
           /\ job.clean => prune
    BY <2>2, <1>4 DEF RemoveRequest, Job
  <2>5. prune => \A n \in PackageNames : requested[n] # {} => KeepJob(n) \in asked'.jobs
    BY <2>2, <1>3 DEF RemoveRequest
  <2>6. \A n : KeepJob(n)' = KeepJob(n)
    BY <2>2 DEF KeepJob
  <2> QED BY <2>2, <2>3, <2>4, <2>5, <2>6 DEF WellAsked, Removes
<1> QED BY <1>1, <1>2, <1>5, <1>6, <1>7

\* What the solver is given of them.
LEMMA QueueOfJob ==
  ASSUME NEW job, NEW force
  PROVE  /\ \A q \in QueueOf(job, force) :
              /\ q.type \notin {"install", "reinstall", "update"} => q = job
              /\ q.type = "update" => job.type = "update" /\ q.spec.name = job.spec.name
         /\ job.type \notin {"install", "update"} => job \in QueueOf(job, force)
         /\ job.type = "install" /\ ~force => job \in QueueOf(job, force)
         /\ job.type = "update" /\ ~IsOnlyName(job.spec) /\ Has(installed, job.spec.name) =>
              Job("install", job.spec, FALSE) \in QueueOf(job, force)
<1>1. CASE job.type = "install" /\ force /\ Has(installed, job.spec.name)
  BY <1>1 DEF QueueOf, Job
<1>2. CASE job.type = "update" /\ ~IsOnlyName(job.spec)
  BY <1>2 DEF QueueOf, Job, AnyVersion
<1>3. CASE ~(job.type = "install" /\ force /\ Has(installed, job.spec.name))
           /\ ~(job.type = "update" /\ ~IsOnlyName(job.spec))
  BY <1>3 DEF QueueOf
<1> QED BY <1>1, <1>2, <1>3

LEMMA QueueJobs ==
  ASSUME NEW q \in Queue
  PROVE  /\ q.type \notin {"install", "reinstall", "update"} => q \in asked.jobs
         /\ q.type = "update" => \E job \in asked.jobs : job.type = "update" /\ q.spec.name = job.spec.name
<1>1. PICK job \in asked.jobs : q \in QueueOf(job, asked.flags.force)
  BY DEF Queue
<1>2. \A r \in QueueOf(job, asked.flags.force) :
        /\ r.type \notin {"install", "reinstall", "update"} => r = job
        /\ r.type = "update" => job.type = "update" /\ r.spec.name = job.spec.name
  BY QueueOfJob
<1> QED BY <1>1, <1>2

LEMMA JobsQueued ==
  ASSUME NEW job \in asked.jobs
  PROVE  /\ job.type \notin {"install", "update"} => job \in Queue
         /\ job.type = "install" /\ ~asked.flags.force => job \in Queue
         /\ job.type = "update" /\ ~IsOnlyName(job.spec) /\ Has(installed, job.spec.name) =>
              Job("install", job.spec, FALSE) \in Queue
<1>1. QueueOf(job, asked.flags.force) \subseteq Queue
  BY DEF Queue
<1> QED BY <1>1, QueueOfJob, ZenonT(60)

\* What the user asked for goes with what is removed, or by an update.
LEMMA GoesWithReason ==
  ASSUME installed \in States, WellAsked, NEW after \in States, IsAnswer(after), NEW n \in PackageNames,
         Has(installed, n), installed[n] \in requested[n], ~Has(after, n)
  PROVE  \E m \in Names(asked.specs) \cup Names(SpecsOf({"remove"})) :
            m \in {n} \cup Dependencies[n] \/ (asked.command = "update" /\ n \in Dependencies[m])
<1>1. \A job \in Removes : job.spec.name \in Names(SpecsOf({"remove"}))
  BY DEF Removes, Names, SpecsOf
<1>2. \A s \in asked.specs : s.name \in Names(asked.specs)
  BY DEF Names
<1>3. MayGo(n, after)
  BY DEF IsAnswer
<1>4. CASE \E m \in {n} \cup Dependencies[n] : ToBeErased(m)
  <2>1. PICK m \in {n} \cup Dependencies[n], job \in Of("remove") : job.spec.name = m
    BY <1>4 DEF ToBeErased
  <2>2. job \in Removes
    BY <2>1, QueueJobs DEF Of, Removes
  <2> QED BY <2>1, <2>2, <1>1
<1>5. CASE MayBeCleaned(n)
  <2>1. PICK m \in PackageNames, job \in Queue :
           /\ n \in Dependencies[m] /\ job.clean
           /\ \/ job.type = "remove"
              \/ job.type = "update" /\ job.spec.name = m
              \/ job.type = "update_all"
    BY <1>5 DEF MayBeCleaned
  <2>2. CASE job.type = "update"
    <3>1. PICK other \in asked.jobs : other.type = "update" /\ m = other.spec.name
      BY <2>1, <2>2, QueueJobs
    <3>2. asked.command = "update" /\ other.spec \in asked.specs
      BY <3>1 DEF WellAsked
    <3> QED BY <2>1, <3>1, <3>2, <1>2
  <2>3. CASE job.type # "update"
    <3>1. job \in asked.jobs /\ job.type \in {"remove", "update_all"}
      BY <2>1, <2>3, QueueJobs
    <3>2. requested[n] # {}
      OBVIOUS
    <3>3. \/ KeepJob(n) \in asked.jobs
          \/ \E s \in asked.specs : s.name = n
          \/ \E other \in Removes : other.spec.name = n
      BY <2>1, <3>1, <3>2 DEF WellAsked
    <3>4. KeepJob(n) \notin asked.jobs
      <4>1. KeepJob(n) \in asked.jobs => KeepJob(n) \in Of("keep")
        BY JobsQueued DEF KeepJob, Job, Of
      <4>2. KeepJob(n).spec.name = n /\ Matches(KeepJob(n).spec, installed[n])
        BY DEF KeepJob, Job, Matches
      <4> QED BY <4>1, <4>2, <1>5 DEF MayBeCleaned
    <3> QED BY <3>3, <3>4, <1>1, <1>2
  <2> QED BY <2>2, <2>3
<1> QED BY <1>3, <1>4, <1>5 DEF MayGo

-----------------------------------------------------------------------------
(* PackageRequests: what is solved *)

\* The fields of a command under way.
AskedIs(command, specs, jobs, flags, stage) ==
    asked = [stage |-> stage, command |-> command, specs |-> specs, jobs |-> jobs, flags |-> flags]
RequestTyped ==
    /\ installed \in States /\ answer \in States
    /\ asked = Nothing \/ AskedIs(asked.command, asked.specs, asked.jobs, asked.flags, asked.stage)

LEMMA DependenciesStay ==
  ASSUME UNCHANGED installed
  PROVE  Dependencies' = Dependencies
<1> DEFINE D(state) == CHOOSE f : f = [n \in PackageNames |->
                                NeedsOf(state, n) \cup UNION {f[m] : m \in NeedsOf(state, n)}]
<1>1. Dependencies = D(installed)
  BY DEF Dependencies
<1>2. Dependencies' = D(installed')
  BY DEF Dependencies, NeedsOf, Has
<1> HIDE DEF D
<1> QED BY <1>1, <1>2

LEMMA AfterwardsIs ==
  ASSUME UNCHANGED installed, NEW n \in PackageNames
  PROVE  Afterwards'[n] = AfterwardsOf(solution', n)
BY DEF Afterwards, AfterwardsOf, AllInstalled, AllRemoved

\* The answer obeys the jobs, so it meets the specs.
LEMMA AnswerMeetsSpecs ==
  ASSUME installed \in States, WellAsked, asked.flags = AllKept,
         NEW after \in States, IsAnswer(after)
  PROVE  /\ \A job \in asked.jobs :
              /\ job.type = "install" => Matches(job.spec, after[job.spec.name])
              /\ job.type = "update" /\ Has(installed, job.spec.name) /\ Has(after, job.spec.name) =>
                   Matches(job.spec, after[job.spec.name])
         /\ asked.command = "remove" => \A s \in asked.specs : ~Matches(s, after[s.name])
         /\ Has(installed, "python") /\ Has(after, "python") /\ "python" \notin Names(asked.specs) =>
              MinorOf[after["python"]] = MinorOf[installed["python"]]
<1>1. \A job \in Queue : Obeyed(job, after)
  BY DEF IsAnswer
<1>2. ASSUME NEW job \in asked.jobs, job.type = "install"
      PROVE  Matches(job.spec, after[job.spec.name])
  <2>1. ~asked.flags.force
    BY DEF AllKept
  <2>2. job \in Queue
    BY <1>2, <2>1, JobsQueued
  <2> QED BY <1>1, <1>2, <2>2 DEF Obeyed
<1>3. ASSUME NEW job \in asked.jobs, job.type = "update",
             Has(installed, job.spec.name), Has(after, job.spec.name)
      PROVE  Matches(job.spec, after[job.spec.name])
  <2>1. job.spec.name \in PackageNames
    BY <1>3, RequestConstants DEF WellAsked
  <2>2. CASE IsOnlyName(job.spec)
    BY <1>3, <2>1, <2>2 DEF IsOnlyName, Matches, States, Has
  <2>3. CASE ~IsOnlyName(job.spec)
    <3>1. Job("install", job.spec, FALSE) \in Queue
      BY <1>3, <2>3, JobsQueued
    <3> QED BY <3>1, <1>1 DEF Obeyed, Job
  <2> QED BY <2>2, <2>3
<1>4. ASSUME asked.command = "remove", NEW s \in asked.specs PROVE ~Matches(s, after[s.name])
  <2>1. PICK job \in asked.jobs : job.type = "remove" /\ job.spec = s
    BY <1>4 DEF WellAsked, Removes
  <2>2. job \in Queue
    BY <2>1, JobsQueued
  <2> QED BY <2>1, <2>2, <1>1 DEF Obeyed
<1>5. ASSUME Has(installed, "python"), Has(after, "python"), "python" \notin Names(asked.specs)
      PROVE  MinorOf[after["python"]] = MinorOf[installed["python"]]
  <2>1. CASE asked.command = "remove"
    BY <1>5, <2>1, RequestConstants DEF IsAnswer
  <2>2. CASE asked.command # "remove"
    <3> DEFINE pin == [name |-> "python", versions |-> {v \in VersionsOf["python"] :
                                              MinorOf[v] = MinorOf[installed["python"]]}]
    <3>1. Job("pin", pin, FALSE) \in asked.jobs
      BY <1>5, <2>2 DEF WellAsked, Jobs, PythonPin
    <3>2. Job("pin", pin, FALSE) \in Queue
      BY <3>1, JobsQueued DEF Job
    <3> QED BY <3>2, <1>1, <1>5 DEF Obeyed, Job, Matches
  <2> QED BY <2>1, <2>2
<1> QED BY <1>2, <1>3, <1>4, <1>5

LEMMA AtMostOne ==
  ASSUME NEW S, \A a, b \in S : a = b
  PROVE  Cardinality(S) <= 1
<1>1. CASE S = {}
  BY <1>1, FS_EmptySet
<1>2. CASE S # {}
  <2>1. PICK a : S = {a}
    BY <1>2
  <2> QED BY <2>1, FS_Singleton
<1> QED BY <1>1, <1>2

LEMMA SolveIsRight ==
  ASSUME RequestTyped, WellAsked, Solve
  PROVE  RequestTyped' /\ CommandsDoAsAsked' /\ asked'.stage = "solved"
<1>1. PICK after \in AllAnswers :
         /\ IsAnswer(after) /\ answer' = after
         /\ solution' = IF NeedsPythonRelink(Solution(after)) THEN AddNoarchRelink(Solution(after))
                        ELSE Solution(after)
  BY DEF Solve
<1>2. /\ asked' = [asked EXCEPT !.stage = "solved"] /\ asked.stage = "asked"
      /\ UNCHANGED <<installed, requested>>
  BY DEF Solve
<1>3. /\ AskedIs(asked.command, asked.specs, asked.jobs, asked.flags, "solved")'
      /\ asked'.command = asked.command /\ asked'.specs = asked.specs /\ asked'.jobs = asked.jobs
      /\ asked'.flags = asked.flags /\ asked'.stage = "solved"
  BY <1>2 DEF RequestTyped, AskedIs, Nothing
<1>4. after \in States /\ solution' \in SolvedActions(after)
  BY <1>1, RequestConstants DEF AllAnswers, States, SolvedActions
<1>5. RequestTyped'
  BY <1>1, <1>2, <1>3, <1>4 DEF RequestTyped, AskedIs, States
<1>6. \A n \in PackageNames : (FilterKeeps(n)' <=> FilterKeeps(n)) /\ Want(after, n) =
                                IF FilterKeeps(n) THEN after[n] ELSE installed[n]
  BY <1>3 DEF FilterKeeps, PackageIsRequested, Want
<1>7. installed \in States
  BY DEF RequestTyped
<1>8. \A n \in PackageNames : Afterwards'[n] = Want(after, n)
  BY <1>2, <1>4, <1>7, AfterwardsIs, ActionsAreRight
<1>9. SolutionIsRight'
  <2> DEFINE actions == Solution(after)
  <2>1. ASSUME NEW n \in PackageNames
        PROVE  /\ Afterwards'[n] = IF asked'.command = "force" \/ FilterKeeps(n)' THEN answer'[n] ELSE installed'[n]
               /\ Cardinality({a \in solution' : n \in Names(a.removes \cup a.installs)}) <= 1
    <3>1. Afterwards'[n] = IF asked'.command = "force" \/ FilterKeeps(n)' THEN answer'[n] ELSE installed'[n]
      BY <1>1, <1>2, <1>3, <1>6, <1>8 DEF WellAsked
    <3>2. \A a, b \in {c \in solution' : n \in Names(c.removes \cup c.installs)} : a = b
      BY <1>4, <1>7, ActionsAreRight
    <3> QED BY <3>1, <3>2, AtMostOne
  <2>2. AllRemoved(solution') \subseteq {Package(n, installed'[n]) : n \in PackageNames}
    BY <1>2, <1>4, <1>7, ActionsAreRight
  <2>3. \A p \in AllInstalled(solution') : p.name \in PackageNames /\ p.version = Afterwards'[p.name]
    BY <1>4, <1>7, <1>8, ActionsAreRight
  <2>4. Has(Afterwards', "python") => PythonVersion' = Afterwards'["python"]
    <3>1. CASE FindNewPython(solution') = {}
      <4>1. ~\E p \in AllInstalled(solution') : p.name = "python"
        BY <3>1 DEF FindNewPython
      <4>2. Has(Afterwards', "python") => Afterwards'["python"] = installed'["python"]
        BY <1>2, <4>1, AfterwardsIs, RequestConstants DEF AfterwardsOf, Has
      <4> QED BY <3>1, <4>2 DEF PythonVersion
    <3>2. CASE FindNewPython(solution') # {}
      <4>1. (CHOOSE p \in FindNewPython(solution') : TRUE) \in FindNewPython(solution')
        BY <3>2
      <4>2. (CHOOSE p \in FindNewPython(solution') : TRUE).version = Afterwards'["python"]
        BY <4>1, <2>3 DEF FindNewPython
      <4> QED BY <3>2, <4>2 DEF PythonVersion
    <3> QED BY <3>1, <3>2
  <2>5. ASSUME Has(Afterwards', "python"), Has(installed', "python"),
               MinorOf[Afterwards'["python"]] # MinorOf[installed'["python"]],
               NEW n \in NoarchNames, Has(Afterwards', n)
        PROVE  Package(n, Afterwards'[n]) \in AllInstalled(solution')
    <3>1. n \in PackageNames /\ "python" \in PackageNames
      BY RequestConstants
    <3>2. CASE Afterwards'[n] # installed[n]
      BY <1>4, <1>7, <1>8, <2>5, <3>1, <3>2, ActionsAreRight DEF Has
    <3>3. CASE Afterwards'[n] = installed[n] /\ solution' = AddNoarchRelink(actions)
      <4>1. Has(installed, n)
        BY <2>5, <3>3 DEF Has
      <4>2. CASE ReinstallOf(Package(n, installed[n])) \in AddNoarchRelink(actions)
        BY <3>3, <4>2 DEF AllInstalled, ReinstallOf, Action
      <4>3. CASE FilterKeeps(n) /\ Changes(after, n)
        <5>1. Action(Old(n), New(n, after), {}) \in solution'
          BY <1>4, <1>7, <3>1, <4>3, KindsOfActions
        <5>2. after[n] = Afterwards'[n]
          BY <1>8, <3>1, <4>3 DEF Want
        <5>3. Package(n, after[n]) \in New(n, after)
          BY <1>4, <1>7, <2>5, <3>1, <5>2, PackagesOf DEF Has
        <5> QED BY <5>1, <5>2, <5>3 DEF AllInstalled, Action
      <4> QED BY <1>4, <1>7, <4>1, <4>2, <4>3, RelinkedOrChanged
    <3>4. CASE solution' = actions /\ ~NeedsPythonRelink(actions)
      <4>1. Afterwards'["python"] # installed["python"]
        BY <1>2, <2>5
      <4>2. Package("python", Afterwards'["python"]) \in AllInstalled(actions)
        BY <1>4, <1>7, <1>8, <2>5, <3>1, <3>4, <4>1, ActionsAreRight DEF Has
      <4>3. Package("python", Afterwards'["python"]) \in FindNewPython(actions)
        BY <4>2 DEF FindNewPython, Package
      <4>4. ~PythonBinaryCompatible(installed["python"], Afterwards'["python"])
        BY <1>2, <2>5 DEF PythonBinaryCompatible
      <4> QED BY <1>2, <2>5, <3>4, <4>3, <4>4 DEF NeedsPythonRelink, Package
    <3> QED BY <1>1, <3>2, <3>3, <3>4
  <2> QED BY <2>1, <2>2, <2>4, <2>5 DEF SolutionIsRight
<1>10. SpecsAreMet'
  <2> SUFFICES ASSUME asked.flags = AllKept PROVE SpecsAreMet'
    BY <1>3 DEF SpecsAreMet
  <2>1. \A n \in PackageNames : Afterwards'[n] = after[n]
    BY <1>6, <1>8 DEF FilterKeeps, AllKept
  <2>2. \A job \in asked.jobs : job.type \in {"install", "update"} => job.spec.name \in PackageNames
    BY RequestConstants DEF WellAsked
  <2>3. \A s \in asked.specs : s.name \in PackageNames
    BY RequestConstants DEF WellAsked
  <2>4. /\ \A job \in asked.jobs :
              /\ job.type = "install" => Matches(job.spec, after[job.spec.name])
              /\ job.type = "update" /\ Has(installed, job.spec.name) /\ Has(after, job.spec.name) =>
                   Matches(job.spec, after[job.spec.name])
        /\ asked.command = "remove" => \A s \in asked.specs : ~Matches(s, after[s.name])
        /\ Has(installed, "python") /\ Has(after, "python") /\ "python" \notin Names(asked.specs) =>
              MinorOf[after["python"]] = MinorOf[installed["python"]]
    BY <1>1, <1>4, <1>7, AnswerMeetsSpecs
  <2>5. \A n \in PackageNames : Has(Afterwards', n) <=> Has(after, n)
    BY <2>1 DEF Has
  <2>6. ASSUME NEW job \in asked'.jobs
        PROVE  CASE job.type = "install" -> Matches(job.spec, Afterwards'[job.spec.name])
                 [] job.type = "update"  ->
                      Has(installed', job.spec.name) /\ Has(Afterwards', job.spec.name) =>
                        Matches(job.spec, Afterwards'[job.spec.name])
                 [] OTHER -> TRUE
    BY <1>2, <1>3, <2>1, <2>2, <2>4, <2>5
  <2>7. \A s \in asked'.specs : asked'.command \in {"remove", "force"} => ~Matches(s, Afterwards'[s.name])
    BY <1>3, <2>1, <2>3, <2>4 DEF WellAsked
  <2>8. Has(installed', "python") /\ Has(Afterwards', "python") /\ "python" \notin Names(asked'.specs) =>
            MinorOf[Afterwards'["python"]] = MinorOf[installed'["python"]]
    BY <1>2, <1>3, <2>1, <2>4, <2>5, RequestConstants
  <2> QED BY <2>6, <2>7, <2>8 DEF SpecsAreMet
<1>11. AskedForStays'
  <2> SUFFICES ASSUME NEW n \in PackageNames, Has(installed', n), installed'[n] \in requested'[n],
                      ~Has(Afterwards', n)
               PROVE  \E m \in Names(asked'.specs) \cup Names(SpecsOf({"remove"})') :
                         \/ m \in {n} \cup (Dependencies')[n]
                         \/ asked'.command = "update" /\ n \in (Dependencies')[m]
    BY DEF AskedForStays
  <2>1. ~Has(after, n) /\ Has(installed, n) /\ installed[n] \in requested[n]
    BY <1>2, <1>6, <1>8 DEF Has
  <2>2. Dependencies' = Dependencies
    BY <1>2, DependenciesStay
  <2>3. SpecsOf({"remove"})' = SpecsOf({"remove"})
    BY <1>3 DEF SpecsOf
  <2> QED BY <1>1, <1>3, <1>4, <1>7, <2>1, <2>2, <2>3, GoesWithReason
<1> QED BY <1>3, <1>5, <1>9, <1>10, <1>11 DEF CommandsDoAsAsked

LEMMA ForceRemoveIsRight ==
  ASSUME RequestTyped, ForceRemove
  PROVE  RequestTyped' /\ CommandsDoAsAsked' /\ asked'.stage = "solved"
<1>1. PICK s \in SpecChoices :
         /\ solution' = {Action({p}, {}, {}) : p \in {p \in Old(s.name) : TRUE}}
         /\ answer' = [installed EXCEPT ![s.name] = 0]
         /\ asked' = [stage |-> "solved", command |-> "force", specs |-> {s}, jobs |-> {},
                      flags |-> AllKept]
         /\ UNCHANGED <<installed, requested>>
  BY DEF ForceRemove
<1>2. /\ installed \in States /\ s.name \in PackageNames /\ 0 \notin s.versions
      /\ Old(s.name) = IF Has(installed, s.name) THEN {Package(s.name, installed[s.name])} ELSE {}
  BY RequestConstants, PackagesOf DEF RequestTyped
<1>3. RequestTyped'
  BY <1>1, <1>2 DEF RequestTyped, AskedIs, States
<1>4. \A a \in solution' :
         /\ a = Action({Package(s.name, installed[s.name])}, {}, {})
         /\ a.removes = {Package(s.name, installed[s.name])} /\ a.installs = {}
  BY <1>1, <1>2 DEF Action
<1>5. /\ AllInstalled(solution') = {}
      /\ AllRemoved(solution') = IF Has(installed, s.name) THEN {Package(s.name, installed[s.name])} ELSE {}
  <2>1. AllInstalled(solution') = {}
    BY <1>4 DEF AllInstalled
  <2>2. CASE Has(installed, s.name)
    <3>1. Action({Package(s.name, installed[s.name])}, {}, {}) \in solution'
      BY <1>1, <1>2, <2>2
    <3> QED BY <1>4, <2>1, <2>2, <3>1 DEF AllRemoved
  <2>3. CASE ~Has(installed, s.name)
    BY <1>1, <1>2, <2>1, <2>3 DEF AllRemoved
  <2> QED BY <2>1, <2>2, <2>3
<1>6. ASSUME NEW n \in PackageNames PROVE Afterwards'[n] = answer'[n]
  <2>1. ~\E p \in AllInstalled(solution') : p.name = n
    BY <1>5
  <2>2. (\E p \in AllRemoved(solution') : p.name = n) <=> n = s.name /\ Has(installed, n)
    <3>1. Package(s.name, installed[s.name]).name = s.name
      BY DEF Package
    <3> QED BY <1>5, <3>1
  <2>3. AfterwardsOf(solution', n) = IF n = s.name /\ Has(installed, n) THEN 0 ELSE installed[n]
    BY <2>1, <2>2 DEF AfterwardsOf
  <2>4. answer'[n] = IF n = s.name THEN 0 ELSE installed[n]
    BY <1>1, <1>2 DEF States
  <2>5. Afterwards'[n] = AfterwardsOf(solution', n)
    BY <1>1, AfterwardsIs
  <2> QED BY <2>3, <2>4, <2>5 DEF Has
<1>7. SolutionIsRight'
  <2>1. ASSUME NEW n \in PackageNames
        PROVE  Cardinality({a \in solution' : n \in Names(a.removes \cup a.installs)}) <= 1
    BY <1>4, AtMostOne
  <2>2. AllRemoved(solution') \subseteq {Package(n, installed'[n]) : n \in PackageNames}
    BY <1>1, <1>2, <1>5
  <2>3. FindNewPython(solution') = {}
    BY <1>5 DEF FindNewPython
  <2>4. Has(Afterwards', "python") => Afterwards'["python"] = installed["python"]
    BY <1>1, <1>2, <1>6, RequestConstants DEF Has, States
  <2> QED BY <1>1, <1>6, <2>1, <2>2, <2>3, <2>4 DEF SolutionIsRight, PythonVersion
<1>8. SpecsAreMet'
  <2>1. \A t \in asked'.specs : ~Matches(t, Afterwards'[t.name])
    BY <1>1, <1>2, <1>6 DEF Matches, States
  <2>2. Has(Afterwards', "python") => Afterwards'["python"] = installed["python"]
    BY <1>1, <1>2, <1>6, RequestConstants DEF Has, States
  <2> QED BY <1>1, <2>1, <2>2 DEF SpecsAreMet
<1>9. AskedForStays'
  <2> SUFFICES ASSUME NEW n \in PackageNames, Has(installed', n), ~Has(Afterwards', n)
               PROVE  \E m \in Names(asked'.specs) : m = n
    BY DEF AskedForStays
  <2>1. n = s.name
    BY <1>1, <1>2, <1>6 DEF Has, States
  <2> QED BY <1>1, <2>1 DEF Names
<1> QED BY <1>1, <1>3, <1>7, <1>8, <1>9 DEF CommandsDoAsAsked

RequestInv == RequestTyped /\ (asked.stage = "asked" => WellAsked) /\ CommandsDoAsAsked

LEMMA UnlessSolved ==
  asked.stage # "solved" => CommandsDoAsAsked
BY DEF CommandsDoAsAsked, SolutionIsRight, SpecsAreMet, AskedForStays, Solved

LEMMA RequestInitial == RequestInit => RequestInv
<1> SUFFICES ASSUME RequestInit PROVE RequestInv
  OBVIOUS
<1>1. RequestTyped
  BY RequestConstants DEF RequestInit, RequestTyped, States
<1>2. asked.stage = "none"
  BY DEF RequestInit, Nothing
<1> QED BY <1>1, <1>2, UnlessSolved DEF RequestInv

LEMMA RequestStep == RequestInv /\ [RequestNext]_requestVars => RequestInv'
<1> SUFFICES ASSUME RequestInv, [RequestNext]_requestVars PROVE RequestInv'
  OBVIOUS
<1> USE DEF RequestInv
<1>0. asked'.stage # "solved" => CommandsDoAsAsked'
  BY DEF CommandsDoAsAsked, SolutionIsRight, SpecsAreMet, AskedForStays, Solved
<1>1. CASE Install \/ Update \/ UpdateAll \/ UpdateEnv \/ RemoveSpecs
  <2>1. WellAsked' /\ asked'.stage = "asked" /\ UNCHANGED <<installed, requested, answer, solution>>
    BY <1>1, CommandsAreWellAsked
  <2>2. AskedIs(asked.command, asked.specs, asked.jobs, asked.flags, asked.stage)'
    BY <1>1 DEF Install, Update, UpdateAll, UpdateEnv, RemoveSpecs, Command, AskedIs
  <2>3. RequestTyped'
    BY <2>1, <2>2 DEF RequestTyped, States
  <2> QED BY <1>0, <2>1, <2>3
<1>2. CASE ForceRemove
  BY <1>2, ForceRemoveIsRight
<1>3. CASE Solve
  BY <1>3, SolveIsRight DEF Solve
<1>4. CASE NoSolution \/ Decline
  <2>1. asked' = Nothing /\ asked'.stage = "none" /\ UNCHANGED installed /\ answer' \in {answer, installed}
    BY <1>4 DEF NoSolution, Decline, Nothing
  <2>2. RequestTyped'
    BY <2>1 DEF RequestTyped, States
  <2> QED BY <1>0, <2>1, <2>2
<1>5. CASE Execute
  <2>1. asked' = Nothing /\ asked'.stage = "none" /\ installed' = Afterwards /\ answer' = installed' /\ Solved
    BY <1>5 DEF Execute, Nothing, Solved
  <2>2. \A n \in PackageNames : Afterwards[n] \in {answer[n], installed[n]}
    BY <2>1 DEF CommandsDoAsAsked, SolutionIsRight
  <2>3. Afterwards = [n \in PackageNames |-> Afterwards[n]]
    BY DEF Afterwards
  <2>4. Afterwards \in States
    BY <2>2, <2>3 DEF RequestTyped, States
  <2>5. RequestTyped'
    BY <2>1, <2>4 DEF RequestTyped, States
  <2> QED BY <1>0, <2>1, <2>5
<1>6. CASE UNCHANGED requestVars
  <2>1. RequestTyped' /\ (asked'.stage = "asked" => WellAsked')
    BY <1>6 DEF requestVars, RequestTyped, States, AskedIs, WellAsked, Removes, KeepJob, PythonPin, Has
  <2>2. CommandsDoAsAsked'
    <3>1. UNCHANGED <<installed, requested, asked, answer, solution>>
      BY <1>6 DEF requestVars
    <3>2. UNCHANGED <<Dependencies, Afterwards, PythonVersion>>
      BY <3>1, DependenciesStay DEF Afterwards, PythonVersion
    <3>3. UNCHANGED SpecsOf({"remove"})
      BY <3>1 DEF SpecsOf
    <3>4. SolutionIsRight'
      BY <3>1, <3>2 DEF CommandsDoAsAsked, SolutionIsRight, Solved, FilterKeeps, PackageIsRequested
    <3>5. SpecsAreMet'
      BY <3>1, <3>2 DEF CommandsDoAsAsked, SpecsAreMet, Solved, Has
    <3>6. AskedForStays'
      BY <3>1, <3>2, <3>3 DEF CommandsDoAsAsked, AskedForStays, Solved
    <3> QED BY <3>4, <3>5, <3>6 DEF CommandsDoAsAsked
  <2> QED BY <2>1, <2>2
<1> QED BY <1>1, <1>2, <1>3, <1>4, <1>5, <1>6 DEF RequestNext

\* Whatever the packages and the specs, and whatever answers libsolv may give:
\* a command that is solved meets its specs and takes nothing else that the
\* user asked for, and its actions are those of the answer that its flags leave
\* in, each package dealt with once.
THEOREM CommandsAnswered == RequestSpec => []CommandsDoAsAsked
<1>1. RequestInv => CommandsDoAsAsked
  BY DEF RequestInv
<1> QED BY <1>1, RequestInitial, RequestStep, PTL DEF RequestSpec

-----------------------------------------------------------------------------
(* Versions: comparing sequences *)

LEMMA Least ==
  ASSUME NEW T \in SUBSET Nat, T # {}
  PROVE  \E n \in T : \A m \in T : n <= m
<1>1. PICK n \in T : \A m \in T : <<m, n>> \notin OpToRel(<, Nat)
  BY NatLessThanWellFounded, WFMin
<1>2. \A m \in T : ~(m < n)
  BY <1>1, Zenon DEF OpToRel
<1>3. \A m \in T : n <= m
  BY <1>2
<1> QED BY <1>3

NoneDiffers(n, cs) == (\A i \in 1..n : cs[i] = 0) /\ FirstDifference(cs).cmp = 0
SomeDiffers(n, cs) ==
    \E i \in 1..n : /\ \A j \in 1..(i - 1) : cs[j] = 0
                    /\ cs[i] # 0 /\ FirstDifference(cs) = [cmp |-> cs[i], idx |-> i - 1]

\* The first difference, if there is one.
LEMMA FirstDifferenceIs ==
  ASSUME NEW n \in Nat, NEW cs \in [1..n -> Int]
  PROVE  NoneDiffers(n, cs) \/ SomeDiffers(n, cs)
<1> DEFINE differ == {i \in DOMAIN cs : cs[i] # Equal}
<1> DEFINE least == CHOOSE i \in differ : \A j \in differ : i <= j
<1>1. CASE differ = {}
  <2>1. \A i \in 1..n : cs[i] = 0
    BY <1>1 DEF Equal
  <2>2. FirstDifference(cs).cmp = 0
    BY <1>1 DEF FirstDifference, Equal
  <2> QED BY <2>1, <2>2 DEF NoneDiffers
<1>2. CASE differ # {}
  <2>1. differ \in SUBSET Nat
    OBVIOUS
  <2>2. \E i \in differ : \A j \in differ : i <= j
    BY <1>2, <2>1, Least
  <2>3. least \in differ /\ \A j \in differ : least <= j
    BY <2>2
  <2>4. FirstDifference(cs) = [cmp |-> cs[least], idx |-> least - 1]
    BY <1>2 DEF FirstDifference
  <2> HIDE DEF least
  <2>5. least \in 1..n /\ cs[least] # 0 /\ \A j \in 1..(least - 1) : cs[j] = 0
    BY <2>3 DEF Equal
  <2> QED BY <2>4, <2>5 DEF SomeDiffers
<1> QED BY <1>1, <1>2

\* C compares the elements of S in one order, in which some are equal.
ThreeWay(S, C) ==
    /\ C \in [S \X S -> {Less, Equal, Greater}]
    /\ \A a, b \in S : C[<<b, a>>] = -C[<<a, b>>]
    /\ \A a, b, c \in S : C[<<a, b>>] <= 0 /\ C[<<b, c>>] <= 0 =>
          C[<<a, c>>] <= 0 /\ (C[<<a, c>>] = 0 => C[<<a, b>>] = 0 /\ C[<<b, c>>] = 0)

\* How C compares the i-th elements, where e follows the last one.
CompareAt(C, e, p, q, i) == C[<<At(p, i, e), At(q, i, e)>>]
Lexicographic(C, e, p, q) == FirstDifference([i \in 1..Longest(p, q) |-> CompareAt(C, e, p, q, i)])
Positions == Nat \ {0}

\* Nothing differs beyond the end of both.
LEMMA LexicographicIs ==
  ASSUME NEW S, NEW e \in S, NEW C, ThreeWay(S, C), NEW p \in Seq(S), NEW q \in Seq(S)
  PROVE  \/ /\ \A i \in Positions : CompareAt(C, e, p, q, i) = 0
            /\ Lexicographic(C, e, p, q).cmp = 0
         \/ \E i \in Positions :
               /\ \A j \in 1..(i - 1) : CompareAt(C, e, p, q, j) = 0
               /\ CompareAt(C, e, p, q, i) # 0
               /\ Lexicographic(C, e, p, q) = [cmp |-> CompareAt(C, e, p, q, i), idx |-> i - 1]
<1> DEFINE n == Longest(p, q)
<1> DEFINE cs == [i \in 1..n |-> CompareAt(C, e, p, q, i)]
<1>1. n \in Nat /\ n >= Len(p) /\ n >= Len(q)
  BY DEF Longest
<1>2. \A i \in Positions : At(p, i, e) \in S /\ At(q, i, e) \in S
  BY DEF At, Positions
<1>3. \A i \in Positions : CompareAt(C, e, p, q, i) \in {-1, 0, 1}
  BY <1>2 DEF CompareAt, ThreeWay, Less, Equal, Greater
<1>4. \A i \in Positions : i > n => CompareAt(C, e, p, q, i) = 0
  <2>1. C[<<e, e>>] = 0
    <3>1. C[<<e, e>>] \in {-1, 0, 1} /\ C[<<e, e>>] = -C[<<e, e>>]
      BY DEF ThreeWay, Less, Equal, Greater
    <3> QED BY <3>1
  <2>2. \A i \in Positions : i > n => At(p, i, e) = e /\ At(q, i, e) = e
    BY <1>1 DEF At, Positions
  <2> QED BY <2>1, <2>2 DEF CompareAt
<1>5. cs \in [1..n -> Int] /\ \A i \in 1..n : cs[i] = CompareAt(C, e, p, q, i)
  BY <1>1, <1>3 DEF Positions
<1>6. Lexicographic(C, e, p, q) = FirstDifference(cs)
  BY DEF Lexicographic
<1> HIDE DEF n, cs
<1>7. NoneDiffers(n, cs) \/ SomeDiffers(n, cs)
  BY <1>1, <1>5, FirstDifferenceIs
<1>8. CASE NoneDiffers(n, cs)
  BY <1>1, <1>4, <1>5, <1>6, <1>8 DEF Positions, NoneDiffers
<1>9. CASE SomeDiffers(n, cs)
  <2>1. PICK i \in 1..n : /\ \A j \in 1..(i - 1) : cs[j] = 0
                          /\ cs[i] # 0 /\ FirstDifference(cs) = [cmp |-> cs[i], idx |-> i - 1]
    BY <1>9 DEF SomeDiffers
  <2>2. i \in Positions /\ \A j \in 1..(i - 1) : j \in 1..n
    BY <1>1 DEF Positions
  <2>3. \A j \in 1..(i - 1) : CompareAt(C, e, p, q, j) = 0
    BY <2>1, <2>2, <1>5
  <2>4. cs[i] = CompareAt(C, e, p, q, i)
    BY <1>5
  <2>5. /\ CompareAt(C, e, p, q, i) # 0
        /\ Lexicographic(C, e, p, q) = [cmp |-> CompareAt(C, e, p, q, i), idx |-> i - 1]
    BY <2>1, <2>4, <1>6
  <2> QED BY <2>2, <2>3, <2>5
<1> QED BY <1>7, <1>8, <1>9

\* The result is that of the first position that differs.
LEMMA LexicographicAt ==
  ASSUME NEW S, NEW e \in S, NEW C, ThreeWay(S, C), NEW p \in Seq(S), NEW q \in Seq(S),
         NEW i \in Positions, \A j \in 1..(i - 1) : CompareAt(C, e, p, q, j) = 0,
         CompareAt(C, e, p, q, i) # 0
  PROVE  Lexicographic(C, e, p, q) = [cmp |-> CompareAt(C, e, p, q, i), idx |-> i - 1]
<1>1. PICK k \in Positions :
               /\ \A j \in 1..(k - 1) : CompareAt(C, e, p, q, j) = 0
               /\ CompareAt(C, e, p, q, k) # 0
               /\ Lexicographic(C, e, p, q) = [cmp |-> CompareAt(C, e, p, q, k), idx |-> k - 1]
  BY LexicographicIs
<1>2. k = i
  <2>1. ~(k < i) /\ ~(i < k)
    BY <1>1 DEF Positions
  <2> QED BY <2>1 DEF Positions
<1> QED BY <1>1, <1>2

LEMMA LexicographicEqual ==
  ASSUME NEW S, NEW e \in S, NEW C, ThreeWay(S, C), NEW p \in Seq(S), NEW q \in Seq(S)
  PROVE  Lexicographic(C, e, p, q).cmp = 0 <=> \A i \in Positions : CompareAt(C, e, p, q, i) = 0
BY LexicographicIs

\* Sequences are in one order when their elements are.
LEMMA SequencesInOrder ==
  ASSUME NEW S, NEW e \in S, NEW C, ThreeWay(S, C)
  PROVE  /\ \A p, q \in Seq(S) :
              /\ Lexicographic(C, e, p, q).cmp \in {Less, Equal, Greater}
              /\ Lexicographic(C, e, q, p).cmp = -Lexicographic(C, e, p, q).cmp
         /\ \A p, q, r \in Seq(S) :
              Lexicographic(C, e, p, q).cmp <= 0 /\ Lexicographic(C, e, q, r).cmp <= 0 =>
                 /\ Lexicographic(C, e, p, r).cmp <= 0
                 /\ Lexicographic(C, e, p, r).cmp = 0 =>
                      Lexicographic(C, e, p, q).cmp = 0 /\ Lexicographic(C, e, q, r).cmp = 0
<1> DEFINE D(p, q, i) == CompareAt(C, e, p, q, i)
<1> DEFINE L(p, q) == Lexicographic(C, e, p, q)
<1>1. ASSUME NEW p \in Seq(S), NEW q \in Seq(S), NEW i \in Positions
      PROVE  D(p, q, i) \in {-1, 0, 1} /\ D(q, p, i) = -D(p, q, i)
  <2>1. At(p, i, e) \in S /\ At(q, i, e) \in S
    BY DEF At, Positions
  <2> QED BY <2>1 DEF CompareAt, ThreeWay, Less, Equal, Greater
<1>2. ASSUME NEW p \in Seq(S), NEW q \in Seq(S), NEW r \in Seq(S), NEW i \in Positions,
             D(p, q, i) <= 0, D(q, r, i) <= 0
      PROVE  D(p, r, i) <= 0 /\ (D(p, r, i) = 0 => D(p, q, i) = 0 /\ D(q, r, i) = 0)
  <2>1. At(p, i, e) \in S /\ At(q, i, e) \in S /\ At(r, i, e) \in S
    BY DEF At, Positions
  <2> QED BY <1>2, <2>1 DEF CompareAt, ThreeWay
<1>3. ASSUME NEW p \in Seq(S), NEW q \in Seq(S)
      PROVE  \/ L(p, q).cmp = 0 /\ \A i \in Positions : D(p, q, i) = 0
             \/ \E i \in Positions : /\ \A j \in 1..(i - 1) : D(p, q, j) = 0
                                     /\ D(p, q, i) # 0 /\ L(p, q).cmp = D(p, q, i)
  <2>1. CASE L(p, q).cmp = 0 /\ \A i \in Positions : D(p, q, i) = 0
    BY <2>1
  <2>2. CASE \E i \in Positions :
               /\ \A j \in 1..(i - 1) : CompareAt(C, e, p, q, j) = 0
               /\ CompareAt(C, e, p, q, i) # 0
               /\ Lexicographic(C, e, p, q) = [cmp |-> CompareAt(C, e, p, q, i), idx |-> i - 1]
    BY <2>2
  <2> QED BY <2>1, <2>2, LexicographicIs
<1>4. ASSUME NEW p \in Seq(S), NEW q \in Seq(S), NEW i \in Positions,
             \A j \in 1..(i - 1) : D(p, q, j) = 0, D(p, q, i) # 0
      PROVE  L(p, q).cmp = D(p, q, i)
  <2>1. L(p, q) = [cmp |-> D(p, q, i), idx |-> i - 1]
    BY <1>4, LexicographicAt
  <2> QED BY <2>1
<1>5. ASSUME NEW p \in Seq(S), NEW q \in Seq(S), \A i \in Positions : D(p, q, i) = 0
      PROVE  L(p, q).cmp = 0
  BY <1>5, LexicographicEqual
<1> HIDE DEF D, L
<1>6. \A i \in Positions : \A j \in 1..(i - 1) : j \in Positions
  BY DEF Positions
<1>7. ASSUME NEW p \in Seq(S), NEW q \in Seq(S)
      PROVE  L(p, q).cmp \in {-1, 0, 1} /\ L(q, p).cmp = -L(p, q).cmp
  <2>1. CASE L(p, q).cmp = 0 /\ \A i \in Positions : D(p, q, i) = 0
    <3>1. \A i \in Positions : D(q, p, i) = 0
      BY <2>1, <1>1
    <3> QED BY <2>1, <3>1, <1>5
  <2>2. CASE \E i \in Positions : /\ \A j \in 1..(i - 1) : D(p, q, j) = 0
                                  /\ D(p, q, i) # 0 /\ L(p, q).cmp = D(p, q, i)
    <3>1. PICK i \in Positions : /\ \A j \in 1..(i - 1) : D(p, q, j) = 0
                                 /\ D(p, q, i) # 0 /\ L(p, q).cmp = D(p, q, i)
      BY <2>2
    <3>2. \A j \in 1..(i - 1) : D(q, p, j) = 0
      BY <3>1, <1>1, <1>6
    <3>3. D(q, p, i) = -D(p, q, i) /\ D(p, q, i) \in {-1, 0, 1}
      BY <1>1
    <3>4. L(q, p).cmp = D(q, p, i)
      BY <3>1, <3>2, <3>3, <1>4
    <3> QED BY <3>1, <3>3, <3>4
  <2> QED BY <2>1, <2>2, <1>3
<1>8. ASSUME NEW p \in Seq(S), NEW q \in Seq(S), NEW r \in Seq(S), L(p, q).cmp <= 0, L(q, r).cmp <= 0
      PROVE  L(p, r).cmp <= 0 /\ (L(p, r).cmp = 0 => L(p, q).cmp = 0 /\ L(q, r).cmp = 0)
  <2>1. CASE \A i \in Positions : D(p, q, i) = 0 /\ D(q, r, i) = 0
    <3>1. \A i \in Positions : D(q, p, i) = 0 /\ D(r, q, i) = 0
      BY <2>1, <1>1
    <3>2. \A i \in Positions : D(p, r, i) <= 0 /\ D(r, p, i) <= 0
      BY <2>1, <3>1, <1>2
    <3>3. \A i \in Positions : D(p, r, i) = 0
      BY <3>2, <1>1
    <3> QED BY <2>1, <3>3, <1>5
  <2>2. CASE ~\A i \in Positions : D(p, q, i) = 0 /\ D(q, r, i) = 0
    <3> DEFINE T == {i \in Positions : ~(D(p, q, i) = 0 /\ D(q, r, i) = 0)}
    <3>1. PICK i \in T : \A j \in T : i <= j
      BY <2>2, Least, T \in SUBSET Nat DEF Positions
    <3>2. \A j \in 1..(i - 1) : j \in Positions /\ D(p, q, j) = 0 /\ D(q, r, j) = 0
      <4>1. \A j \in 1..(i - 1) : j \in Positions /\ ~(i <= j)
        BY DEF Positions
      <4> QED BY <3>1, <4>1
    <3>3. \A j \in 1..(i - 1) : D(p, r, j) = 0
      <4>1. \A j \in 1..(i - 1) : D(q, p, j) = 0 /\ D(r, q, j) = 0
        BY <3>2, <1>1
      <4>2. \A j \in 1..(i - 1) : D(p, r, j) <= 0 /\ D(r, p, j) <= 0
        BY <3>2, <4>1, <1>2
      <4> QED BY <3>2, <4>2, <1>1
    <3>4. D(p, q, i) <= 0 /\ (D(p, q, i) # 0 => L(p, q).cmp # 0)
      <4>1. CASE D(p, q, i) = 0
        BY <4>1
      <4>2. CASE D(p, q, i) # 0
        BY <4>2, <3>2, <1>4, <1>8
      <4> QED BY <4>1, <4>2
    <3>5. D(q, r, i) <= 0 /\ (D(q, r, i) # 0 => L(q, r).cmp # 0)
      <4>1. CASE D(q, r, i) = 0
        BY <4>1
      <4>2. CASE D(q, r, i) # 0
        BY <4>2, <3>2, <1>4, <1>8
      <4> QED BY <4>1, <4>2
    <3>6. D(p, r, i) <= 0 /\ D(p, r, i) # 0
      BY <3>1, <3>4, <3>5, <1>2
    <3>7. L(p, r).cmp = D(p, r, i)
      BY <3>3, <3>6, <1>4
    <3>8. D(p, r, i) \in {-1, 0, 1}
      BY <1>1
    <3> QED BY <3>6, <3>7, <3>8
  <2> QED BY <2>1, <2>2
<1> QED BY <1>7, <1>8 DEF L, Less, Equal, Greater

-----------------------------------------------------------------------------
(* Versions: atoms, parts and versions *)

AtomOrder == [x \in Atoms \X Atoms |-> CompareAtoms(x[1], x[2])]
PartOrder == [x \in AllParts \X AllParts |-> CompareParts(x[1], x[2])]

LEMMA LitPriorityIs ==
  /\ LitPriority("*") = -3 /\ LitPriority("dev") = -2 /\ LitPriority("_") = -1
  /\ LitPriority("") = 1 /\ LitPriority("post") = 2
  /\ \A lit : lit \notin {"*", "dev", "_", "", "post"} => LitPriority(lit) = 0
BY DEF LitPriority

LEMMA NumbersDiffer ==
  /\ -3 # 0 /\ -2 # 0 /\ -1 # 0 /\ 1 # 0 /\ 2 # 0
  /\ -3 # -2 /\ -3 # -1 /\ -3 # 1 /\ -3 # 2 /\ -2 # -1 /\ -2 # 1 /\ -2 # 2 /\ -1 # 1 /\ -1 # 2 /\ 1 # 2
  /\ {-3, -2, -1, 0, 1, 2} \subseteq Int
OBVIOUS

\* A regular literal has its place, and any other a priority of its own.
LEMMA PlaceOfLiteral ==
  ASSUME NEW lit \in Literals
  PROVE  /\ LitPriority(lit) \in Int
         /\ LitPriority(lit) = 0 => Place(lit) \in Nat /\ RegularLiterals[Place(lit)] = lit
<1>1. LitPriority(lit) \in Int
  <2>1. LitPriority(lit) \in {-3, -2, -1, 0, 1, 2}
    BY LitPriorityIs, Zenon
  <2> QED BY <2>1, NumbersDiffer, Zenon
<1>2. ASSUME LitPriority(lit) = 0 PROVE Place(lit) \in Nat /\ RegularLiterals[Place(lit)] = lit
  <2>1. lit \notin {"*", "dev", "_", "", "post"}
    BY <1>2, LitPriorityIs, NumbersDiffer, Zenon
  <2>2. \E i \in DOMAIN RegularLiterals : RegularLiterals[i] = lit
    BY <2>1, Zenon DEF Literals
  <2>3. Place(lit) \in DOMAIN RegularLiterals /\ RegularLiterals[Place(lit)] = lit
    BY <2>2, Zenon DEF Place
  <2>4. DOMAIN RegularLiterals \subseteq Nat
    BY VersionConstants
  <2> QED BY <2>3, <2>4, Zenon
<1> QED BY <1>1, <1>2

LEMMA PriorityIsOwn ==
  ASSUME NEW lit \in Literals, NEW other \in Literals, LitPriority(lit) = LitPriority(other),
         LitPriority(lit) # 0
  PROVE  lit = other
<1>1. lit \in {"*", "dev", "_", "", "post"} /\ other \in {"*", "dev", "_", "", "post"}
  <2>1. LitPriority(other) # 0
    OBVIOUS
  <2> QED BY <2>1, LitPriorityIs, Zenon
<1>2. CASE lit = "*"
  <2>1. LitPriority(other) = LitPriority("*")
    BY <1>2
  <2> QED BY <1>1, <1>2, <2>1, LitPriorityIs, NumbersDiffer, Zenon
<1>3. CASE lit = "dev"
  <2>1. LitPriority(other) = LitPriority("dev")
    BY <1>3
  <2> QED BY <1>1, <1>3, <2>1, LitPriorityIs, NumbersDiffer, Zenon
<1>4. CASE lit = "_"
  <2>1. LitPriority(other) = LitPriority("_")
    BY <1>4
  <2> QED BY <1>1, <1>4, <2>1, LitPriorityIs, NumbersDiffer, Zenon
<1>5. CASE lit = ""
  <2>1. LitPriority(other) = LitPriority("")
    BY <1>5
  <2> QED BY <1>1, <1>5, <2>1, LitPriorityIs, NumbersDiffer, Zenon
<1>6. CASE lit = "post"
  <2>1. LitPriority(other) = LitPriority("post")
    BY <1>6
  <2> QED BY <1>1, <1>6, <2>1, LitPriorityIs, NumbersDiffer, Zenon
<1> QED BY <1>1, <1>2, <1>3, <1>4, <1>5, <1>6

LEMMA AtomsInOrder ==
  /\ ThreeWay(Atoms, AtomOrder)
  /\ \A a, b \in Atoms : AtomOrder[<<a, b>>] = 0 <=> a = b
<1>1. \A a, b \in Atoms : AtomOrder[<<a, b>>] = CompareAtoms(a, b)
  BY DEF AtomOrder
<1>2. ASSUME NEW a \in Atoms
      PROVE  /\ a.num \in Nat /\ a.lit \in Literals /\ LitPriority(a.lit) \in Int
             /\ LitPriority(a.lit) = 0 => Place(a.lit) \in Nat
  BY PlaceOfLiteral DEF Atoms
<1>3. ASSUME NEW a \in Atoms, NEW b \in Atoms
      PROVE  CompareAtoms(a, b) \in {-1, 0, 1} /\ CompareAtoms(b, a) = -CompareAtoms(a, b)
  BY <1>2 DEF CompareAtoms, Compare, Less, Equal, Greater
<1>4. ASSUME NEW a \in Atoms, NEW b \in Atoms, NEW c \in Atoms,
             CompareAtoms(a, b) <= 0, CompareAtoms(b, c) <= 0
      PROVE  /\ CompareAtoms(a, c) <= 0
             /\ CompareAtoms(a, c) = 0 => CompareAtoms(a, b) = 0 /\ CompareAtoms(b, c) = 0
  BY <1>2, <1>4 DEF CompareAtoms, Compare, Less, Equal, Greater
<1>5. ASSUME NEW a \in Atoms, NEW b \in Atoms PROVE CompareAtoms(a, b) = 0 <=> a = b
  <2>1. ASSUME CompareAtoms(a, b) = 0 PROVE a.num = b.num /\ a.lit = b.lit
    <3>1. a.num = b.num
      BY <1>2, <2>1 DEF CompareAtoms, Compare, Less, Equal, Greater
    <3>2. CASE LitPriority(a.lit) = 0 /\ LitPriority(b.lit) = 0
      <4>1. Place(a.lit) = Place(b.lit)
        BY <1>2, <2>1, <3>1, <3>2 DEF CompareAtoms, Compare, Less, Equal, Greater
      <4> QED BY <1>2, <3>1, <3>2, <4>1, PlaceOfLiteral
    <3>3. CASE ~(LitPriority(a.lit) = 0 /\ LitPriority(b.lit) = 0)
      <4>1. LitPriority(a.lit) = LitPriority(b.lit)
        BY <1>2, <2>1, <3>1, <3>3 DEF CompareAtoms, Compare, Less, Equal, Greater
      <4> QED BY <1>2, <3>1, <3>3, <4>1, PriorityIsOwn
    <3> QED BY <3>2, <3>3
  <2>2. CompareAtoms(a, a) = 0
    BY <1>3
  <2> QED BY <2>1, <2>2 DEF Atoms
<1>6. AtomOrder \in [Atoms \X Atoms -> {Less, Equal, Greater}]
  BY <1>3 DEF AtomOrder, Less, Equal, Greater
<1> QED BY <1>1, <1>3, <1>4, <1>5, <1>6 DEF ThreeWay

LEMMA NothingIsAnAtom == NoAtom \in Atoms /\ NoPart \in AllParts
BY DEF NoAtom, Atoms, Literals, NoPart, AllParts

LEMMA PartsAreLexicographic ==
  ASSUME NEW p \in AllParts, NEW q \in AllParts
  PROVE  CompareParts(p, q) = Lexicographic(AtomOrder, NoAtom, p, q).cmp
<1>1. \A i \in 1..Longest(p, q) : At(p, i, NoAtom) \in Atoms /\ At(q, i, NoAtom) \in Atoms
  BY NothingIsAnAtom DEF At, AllParts
<1>2. \A i \in 1..Longest(p, q) :
        CompareAtoms(At(p, i, NoAtom), At(q, i, NoAtom)) = CompareAt(AtomOrder, NoAtom, p, q, i)
  BY <1>1 DEF CompareAt, AtomOrder
<1>3. [i \in 1..Longest(p, q) |-> CompareAtoms(At(p, i, NoAtom), At(q, i, NoAtom))] =
      [i \in 1..Longest(p, q) |-> CompareAt(AtomOrder, NoAtom, p, q, i)]
  BY <1>2
<1> QED BY <1>3 DEF CompareParts, Lexicographic

LEMMA PartsInOrder ==
  /\ ThreeWay(AllParts, PartOrder)
  /\ \A p, q \in AllParts : PartOrder[<<p, q>>] = CompareParts(p, q)
<1>1. \A p, q \in AllParts : PartOrder[<<p, q>>] = CompareParts(p, q)
  BY DEF PartOrder
<1> DEFINE L(p, q) == Lexicographic(AtomOrder, NoAtom, p, q).cmp
<1>2. \A p, q \in AllParts : PartOrder[<<p, q>>] = L(p, q)
  BY <1>1, PartsAreLexicographic
<1>3. /\ \A p, q \in AllParts : L(p, q) \in {Less, Equal, Greater} /\ L(q, p) = -L(p, q)
      /\ \A p, q, r \in AllParts : L(p, q) <= 0 /\ L(q, r) <= 0 =>
            L(p, r) <= 0 /\ (L(p, r) = 0 => L(p, q) = 0 /\ L(q, r) = 0)
  BY AtomsInOrder, NothingIsAnAtom, SequencesInOrder DEF AllParts
<1> HIDE DEF L
<1>4. PartOrder \in [AllParts \X AllParts -> {Less, Equal, Greater}]
  <2>1. PartOrder = [x \in AllParts \X AllParts |-> PartOrder[x]]
    BY DEF PartOrder
  <2>2. \A x \in AllParts \X AllParts : PartOrder[x] \in {Less, Equal, Greater}
    BY <1>2, <1>3
  <2> QED BY <2>1, <2>2
<1> QED BY <1>1, <1>2, <1>3, <1>4 DEF ThreeWay

LEMMA CommonIsLexicographic ==
  ASSUME NEW v \in Seq(AllParts), NEW w \in Seq(AllParts)
  PROVE  CompareCommon(v, w) = Lexicographic(PartOrder, NoPart, v, w)
<1>1. \A i \in 1..Longest(v, w) : At(v, i, NoPart) \in AllParts /\ At(w, i, NoPart) \in AllParts
  BY NothingIsAnAtom DEF At
<1>2. \A i \in 1..Longest(v, w) :
        CompareParts(At(v, i, NoPart), At(w, i, NoPart)) = CompareAt(PartOrder, NoPart, v, w, i)
  BY <1>1, PartsInOrder DEF CompareAt
<1>3. [i \in 1..Longest(v, w) |-> CompareParts(At(v, i, NoPart), At(w, i, NoPart))] =
      [i \in 1..Longest(v, w) |-> CompareAt(PartOrder, NoPart, v, w, i)]
  BY <1>2
<1> QED BY <1>3 DEF CompareCommon, Lexicographic

\* Versions are compared in one order, whatever they are made of.
LEMMA VersionsInOrder ==
  /\ \A u, v \in AllVersions :
       CompareVersions(u, v) \in {-1, 0, 1} /\ CompareVersions(v, u) = -CompareVersions(u, v)
  /\ \A u, v, w \in AllVersions :
       CompareVersions(u, v) <= 0 /\ CompareVersions(v, w) <= 0 =>
          /\ CompareVersions(u, w) <= 0
          /\ CompareVersions(u, w) = 0 => CompareVersions(u, v) = 0 /\ CompareVersions(v, w) = 0
<1> DEFINE L(v, w) == CompareCommon(v, w).cmp
<1>1. /\ \A p, q \in Seq(AllParts) : L(p, q) \in {-1, 0, 1} /\ L(q, p) = -L(p, q)
      /\ \A p, q, r \in Seq(AllParts) : L(p, q) <= 0 /\ L(q, r) <= 0 =>
            L(p, r) <= 0 /\ (L(p, r) = 0 => L(p, q) = 0 /\ L(q, r) = 0)
  BY PartsInOrder, NothingIsAnAtom, CommonIsLexicographic, SequencesInOrder DEF Less, Equal, Greater
<1>2. \A v \in AllVersions : v.epoch \in Nat /\ v.version \in Seq(AllParts) /\ v.local \in Seq(AllParts)
  BY DEF AllVersions
<1>3. \A v, w : CompareVersions(v, w) =
        IF v.epoch # w.epoch THEN Compare(v.epoch, w.epoch)
        ELSE IF L(v.version, w.version) # 0 THEN L(v.version, w.version) ELSE L(v.local, w.local)
  BY DEF CompareVersions, Equal
<1> HIDE DEF L
<1>4. ASSUME NEW u \in AllVersions, NEW v \in AllVersions
      PROVE  CompareVersions(u, v) \in {-1, 0, 1} /\ CompareVersions(v, u) = -CompareVersions(u, v)
  BY <1>1, <1>2, <1>3 DEF Compare, Less, Equal, Greater
<1>5. ASSUME NEW u \in AllVersions, NEW v \in AllVersions, NEW w \in AllVersions,
             CompareVersions(u, v) <= 0, CompareVersions(v, w) <= 0
      PROVE  /\ CompareVersions(u, w) <= 0
             /\ CompareVersions(u, w) = 0 => CompareVersions(u, v) = 0 /\ CompareVersions(v, w) = 0
  <2>1. ASSUME NEW p \in Seq(AllParts), NEW q \in Seq(AllParts), NEW r \in Seq(AllParts),
               L(p, q) <= 0, L(q, r) <= 0
        PROVE  L(p, r) \in {-1, 0} /\ (L(p, r) = 0 <=> L(p, q) = 0 /\ L(q, r) = 0)
    <3>1. L(q, p) = -L(p, q) /\ L(r, q) = -L(q, r) /\ L(r, p) = -L(p, r) /\ L(p, r) \in {-1, 0, 1}
          /\ L(p, q) \in {-1, 0, 1} /\ L(q, r) \in {-1, 0, 1}
      BY <1>1
    <3>2. L(p, r) <= 0 /\ (L(p, r) = 0 => L(p, q) = 0 /\ L(q, r) = 0)
      BY <1>1, <2>1
    <3>3. L(p, q) = 0 /\ L(q, r) = 0 => L(r, p) <= 0
      BY <1>1, <3>1
    <3> QED BY <3>1, <3>2, <3>3
  <2>2. /\ L(u.version, v.version) \in {-1, 0, 1} /\ L(v.version, w.version) \in {-1, 0, 1}
        /\ L(u.version, v.version) <= 0 /\ L(v.version, w.version) <= 0 =>
             /\ L(u.version, w.version) \in {-1, 0}
             /\ L(u.version, w.version) = 0 <=> L(u.version, v.version) = 0 /\ L(v.version, w.version) = 0
    BY <1>1, <1>2, <2>1
  <2>3. /\ L(u.local, v.local) \in {-1, 0, 1} /\ L(v.local, w.local) \in {-1, 0, 1}
        /\ L(u.local, v.local) <= 0 /\ L(v.local, w.local) <= 0 =>
             /\ L(u.local, w.local) \in {-1, 0}
             /\ L(u.local, w.local) = 0 <=> L(u.local, v.local) = 0 /\ L(v.local, w.local) = 0
    BY <1>1, <1>2, <2>1
  <2>4. u.epoch \in Nat /\ v.epoch \in Nat /\ w.epoch \in Nat
    BY <1>2
  <2>5. u.epoch <= v.epoch /\ v.epoch <= w.epoch
    BY <1>3, <1>5, <2>4 DEF Compare, Less, Equal, Greater
  <2>6. CASE u.epoch = v.epoch /\ v.epoch = w.epoch
    <3>1. L(u.version, v.version) <= 0 /\ L(v.version, w.version) <= 0
      BY <1>3, <1>5, <2>2, <2>6
    <3> QED BY <1>3, <1>5, <2>2, <2>3, <2>6, <3>1
  <2>7. CASE u.epoch < w.epoch
    BY <1>3, <2>4, <2>7 DEF Compare, Less, Equal, Greater
  <2> QED BY <2>4, <2>5, <2>6, <2>7
<1> QED BY <1>4, <1>5

-----------------------------------------------------------------------------
(* Versions: equal versions match alike, and what is compatible *)

\* What is equal compares alike with anything else.
LEMMA EqualComparesAlike ==
  ASSUME NEW S, NEW C, ThreeWay(S, C), NEW a \in S, NEW b \in S, NEW c \in S, C[<<a, b>>] = 0
  PROVE  C[<<a, c>>] = C[<<b, c>>]
<1>1. /\ C[<<a, b>>] \in {-1, 0, 1} /\ C[<<a, c>>] \in {-1, 0, 1} /\ C[<<b, c>>] \in {-1, 0, 1}
      /\ C[<<b, a>>] = -C[<<a, b>>] /\ C[<<c, a>>] = -C[<<a, c>>] /\ C[<<c, b>>] = -C[<<b, c>>]
  BY DEF ThreeWay, Less, Equal, Greater
<1>2. /\ C[<<b, c>>] <= 0 => C[<<a, c>>] <= 0
      /\ C[<<a, c>>] <= 0 => C[<<b, c>>] <= 0
      /\ C[<<c, b>>] <= 0 => C[<<c, a>>] <= 0
      /\ C[<<c, a>>] <= 0 => C[<<c, b>>] <= 0
  BY <1>1 DEF ThreeWay
<1> QED BY <1>1, <1>2

LEMMA EqualPartsHaveSameAtoms ==
  ASSUME NEW p \in AllParts, NEW q \in AllParts, CompareParts(p, q) = 0
  PROVE  \A i \in Positions : At(p, i, NoAtom) = At(q, i, NoAtom)
<1>1. \A i \in Positions : CompareAt(AtomOrder, NoAtom, p, q, i) = 0
  BY PartsAreLexicographic, LexicographicEqual, AtomsInOrder, NothingIsAnAtom DEF AllParts
<1>2. \A i \in Positions : At(p, i, NoAtom) \in Atoms /\ At(q, i, NoAtom) \in Atoms
  BY NothingIsAnAtom DEF At, AllParts, Positions
<1> QED BY <1>1, <1>2, AtomsInOrder DEF CompareAt

LEMMA EqualPartsStartAlike ==
  ASSUME NEW p \in AllParts, NEW q \in AllParts, CompareParts(p, q) = 0, NEW head \in AllParts
  PROVE  StartsPart(p, head) = StartsPart(q, head)
<1>1. \A i \in 1..Len(head) : At(p, i, NoAtom) = At(q, i, NoAtom)
  BY EqualPartsHaveSameAtoms DEF Positions
<1>2. [i \in 1..Len(head) |-> StartsAtom(At(p, i, NoAtom), head[i])] =
      [i \in 1..Len(head) |-> StartsAtom(At(q, i, NoAtom), head[i])]
  BY <1>1
<1> QED BY <1>2 DEF StartsPart

\* Where common sequences are equal, so are their parts.
LEMMA EqualCommonParts ==
  ASSUME NEW v \in Seq(AllParts), NEW w \in Seq(AllParts), CompareCommon(v, w).cmp = 0,
         NEW i \in Positions
  PROVE  /\ At(v, i, NoPart) \in AllParts /\ At(w, i, NoPart) \in AllParts
         /\ CompareParts(At(v, i, NoPart), At(w, i, NoPart)) = 0
<1>1. CompareAt(PartOrder, NoPart, v, w, i) = 0
  BY CommonIsLexicographic, LexicographicEqual, PartsInOrder, NothingIsAnAtom
<1>2. At(v, i, NoPart) \in AllParts /\ At(w, i, NoPart) \in AllParts
  BY NothingIsAnAtom DEF At, Positions
<1> QED BY <1>1, <1>2, PartsInOrder DEF CompareAt

LEMMA EqualCommonStartAlike ==
  ASSUME NEW v \in Seq(AllParts), NEW w \in Seq(AllParts), CompareCommon(v, w).cmp = 0,
         NEW head \in Seq(AllParts)
  PROVE  StartsCommon(v, head) = StartsCommon(w, head)
<1>1. \A i \in 1..Len(head) : i \in Positions /\ head[i] \in AllParts
  BY DEF Positions
<1>2. \A i \in 1..Len(head) : StartsPart(At(v, i, NoPart), head[i]) = StartsPart(At(w, i, NoPart), head[i])
  BY <1>1, EqualCommonParts, EqualPartsStartAlike
<1>3. [i \in 1..Len(head) |-> StartsPart(At(v, i, NoPart), head[i])] =
      [i \in 1..Len(head) |-> StartsPart(At(w, i, NoPart), head[i])]
  BY <1>2
<1> QED BY <1>3 DEF StartsCommon

\* Where the first of two differences is does not tell equal sequences apart.
LEMMA EqualCommonCompareAlike ==
  ASSUME NEW v \in Seq(AllParts), NEW w \in Seq(AllParts), CompareCommon(v, w).cmp = 0,
         NEW other \in Seq(AllParts)
  PROVE  \/ CompareCommon(v, other) = CompareCommon(w, other)
         \/ CompareCommon(v, other).cmp = 0 /\ CompareCommon(w, other).cmp = 0
<1> DEFINE D(s, i) == CompareAt(PartOrder, NoPart, s, other, i)
<1>1. ASSUME NEW i \in Positions PROVE D(v, i) = D(w, i)
  <2>1. At(v, i, NoPart) \in AllParts /\ At(w, i, NoPart) \in AllParts /\ At(other, i, NoPart) \in AllParts
    BY NothingIsAnAtom DEF At, Positions
  <2>2. PartOrder[<<At(v, i, NoPart), At(w, i, NoPart)>>] = 0
    BY <2>1, EqualCommonParts, PartsInOrder
  <2> QED BY <2>1, <2>2, PartsInOrder, EqualComparesAlike DEF CompareAt
<1>2. /\ CompareCommon(v, other) = Lexicographic(PartOrder, NoPart, v, other)
      /\ CompareCommon(w, other) = Lexicographic(PartOrder, NoPart, w, other)
  BY CommonIsLexicographic
<1>3. CASE \A i \in Positions : D(v, i) = 0
  <2>1. \A i \in Positions : D(w, i) = 0
    BY <1>1, <1>3
  <2> QED BY <1>2, <1>3, <2>1, LexicographicEqual, PartsInOrder, NothingIsAnAtom
<1>4. CASE \E i \in Positions :
             /\ \A j \in 1..(i - 1) : CompareAt(PartOrder, NoPart, v, other, j) = 0
             /\ CompareAt(PartOrder, NoPart, v, other, i) # 0
             /\ Lexicographic(PartOrder, NoPart, v, other) =
                  [cmp |-> CompareAt(PartOrder, NoPart, v, other, i), idx |-> i - 1]
  <2>1. PICK i \in Positions :
             /\ \A j \in 1..(i - 1) : D(v, j) = 0
             /\ D(v, i) # 0
             /\ Lexicographic(PartOrder, NoPart, v, other) = [cmp |-> D(v, i), idx |-> i - 1]
    BY <1>4
  <2>2. \A j \in 1..(i - 1) : j \in Positions
    BY DEF Positions
  <2>3. (\A j \in 1..(i - 1) : D(w, j) = 0) /\ D(w, i) = D(v, i)
    BY <1>1, <2>1, <2>2
  <2>4. Lexicographic(PartOrder, NoPart, w, other) = [cmp |-> D(w, i), idx |-> i - 1]
    BY <2>1, <2>3, LexicographicAt, PartsInOrder, NothingIsAnAtom
  <2> QED BY <1>2, <2>1, <2>3, <2>4
<1> QED BY <1>3, <1>4, LexicographicIs, PartsInOrder, NothingIsAnAtom

\* What equal versions have in common.
LEMMA EqualVersionsParts ==
  ASSUME NEW v \in AllVersions, NEW w \in AllVersions, CompareVersions(v, w) = 0
  PROVE  /\ v.epoch = w.epoch
         /\ CompareCommon(v.version, w.version).cmp = 0 /\ CompareCommon(v.local, w.local).cmp = 0
<1>1. v.epoch \in Nat /\ w.epoch \in Nat
  BY DEF AllVersions
<1> QED BY <1>1 DEF CompareVersions, Compare, Less, Equal, Greater

LEMMA EqualVersionsAlike ==
  ASSUME NEW v \in AllVersions, NEW w \in AllVersions, CompareVersions(v, w) = 0,
         NEW other \in AllVersions, NEW sign \in Operators
  PROVE  SpecContains(Predicate(sign, other), v) <=> SpecContains(Predicate(sign, other), w)
<1> DEFINE pred == Predicate(sign, other)
<1>1. v.version \in Seq(AllParts) /\ w.version \in Seq(AllParts) /\ other.version \in Seq(AllParts)
      /\ v.local \in Seq(AllParts) /\ w.local \in Seq(AllParts) /\ other.local \in Seq(AllParts)
  BY DEF AllVersions
<1>2. /\ v.epoch = w.epoch
      /\ CompareCommon(v.version, w.version).cmp = 0 /\ CompareCommon(v.local, w.local).cmp = 0
  BY EqualVersionsParts
<1>3. CompareVersions(v, other) = CompareVersions(w, other)
  <2>1. /\ CompareVersions(v, other) \in {-1, 0, 1} /\ CompareVersions(w, other) \in {-1, 0, 1}
        /\ CompareVersions(other, v) = -CompareVersions(v, other)
        /\ CompareVersions(other, w) = -CompareVersions(w, other)
        /\ CompareVersions(w, v) = -CompareVersions(v, w)
    BY VersionsInOrder
  <2>2. CompareVersions(v, w) <= 0 /\ CompareVersions(w, v) <= 0
    BY <2>1
  <2>3. CompareVersions(w, other) <= 0 => CompareVersions(v, other) <= 0
    BY <2>2, VersionsInOrder
  <2>4. CompareVersions(v, other) <= 0 => CompareVersions(w, other) <= 0
    BY <2>2, VersionsInOrder
  <2>5. CompareVersions(other, v) <= 0 => CompareVersions(other, w) <= 0
    BY <2>2, VersionsInOrder
  <2>6. CompareVersions(other, w) <= 0 => CompareVersions(other, v) <= 0
    BY <2>2, VersionsInOrder
  <2> HIDE DEF Predicate
  <2> QED BY <2>1, <2>3, <2>4, <2>5, <2>6
<1>4. StartsWith(v, other) <=> StartsWith(w, other)
  <2>1. StartsCommon(v.version, other.version) = StartsCommon(w.version, other.version)
    BY <1>1, <1>2, EqualCommonStartAlike
  <2>2. StartsCommon(v.local, other.local) = StartsCommon(w.local, other.local)
    BY <1>1, <1>2, EqualCommonStartAlike
  <2>3. CompareCommon(v.version, other.version).cmp = CompareCommon(w.version, other.version).cmp
    BY <1>1, <1>2, EqualCommonCompareAlike, SMTT(60)
  <2> QED BY <1>2, <2>1, <2>2, <2>3, Zenon DEF StartsWith
<1>5. CompatibleWith(v, other, pred.level) <=> CompatibleWith(w, other, pred.level)
  <2>1. ASSUME NEW x \in Seq(AllParts), NEW y \in Seq(AllParts), NEW z \in Seq(AllParts),
               CompareCommon(x, y).cmp = 0
        PROVE  CompatibleCommon(x, z, pred.level) <=> CompatibleCommon(y, z, pred.level)
    <3>1. CASE CompareCommon(x, z) = CompareCommon(y, z)
      BY <3>1, Zenon DEF CompatibleCommon
    <3>2. CASE CompareCommon(x, z).cmp = 0 /\ CompareCommon(y, z).cmp = 0
      BY <3>2, Zenon DEF CompatibleCommon, Equal
    <3> QED BY <2>1, <3>1, <3>2, EqualCommonCompareAlike
  <2>2. CompatibleCommon(v.version, other.version, pred.level) <=>
          CompatibleCommon(w.version, other.version, pred.level)
    BY <1>1, <1>2, <2>1
  <2>3. CompatibleCommon(v.local, other.local, pred.level) <=>
          CompatibleCommon(w.local, other.local, pred.level)
    BY <1>1, <1>2, <2>1
  <2> QED BY <1>2, <2>2, <2>3, Zenon DEF CompatibleWith
<1>6. pred.version = other
  BY DEF Predicate
<1> HIDE DEF pred
<1>7. SpecContains(pred, v) <=> SpecContains(pred, w)
  <2>1. pred.op \in Operators
    BY DEF pred, Predicate
  <2>2. CASE pred.op = "free"
    BY <2>2, Zenon DEF SpecContains
  <2>3. CASE pred.op = "=="
    BY <1>3, <1>6, <2>3, Zenon DEF SpecContains
  <2>4. CASE pred.op = "!="
    BY <1>3, <1>6, <2>4, Zenon DEF SpecContains
  <2>5. CASE pred.op = ">"
    BY <1>3, <1>6, <2>5, Zenon DEF SpecContains
  <2>6. CASE pred.op = ">="
    BY <1>3, <1>6, <2>6, Zenon DEF SpecContains
  <2>7. CASE pred.op = "<"
    BY <1>3, <1>6, <2>7, Zenon DEF SpecContains
  <2>8. CASE pred.op = "<="
    BY <1>3, <1>6, <2>8, Zenon DEF SpecContains
  <2>9. CASE pred.op = "="
    BY <1>4, <1>6, <2>9, Zenon DEF SpecContains
  <2>10. CASE pred.op = "!=.*"
    BY <1>4, <1>6, <2>10, Zenon DEF SpecContains
  <2>11. CASE pred.op = "~="
    BY <1>5, <1>6, <2>11, Zenon DEF SpecContains
  <2> QED BY <2>1, <2>2, <2>3, <2>4, <2>5, <2>6, <2>7, <2>8, <2>9, <2>10, <2>11, Zenon DEF Operators
<1> QED BY <1>7 DEF pred

\* Without local versions, ~= is its documentation.
LEMMA CompatibleIsDocumented ==
  ASSUME NEW v \in AllVersions, NEW w \in AllVersions, v.local = <<>>, w.local = <<>>
  PROVE  SpecContains(Predicate("~=", w), v) <=>
            /\ CompareVersions(v, w) # Less
            /\ v.epoch = w.epoch
            /\ \A i \in 1..(Len(w.version) - 1) :
                 CompareParts(At(v.version, i, NoPart), w.version[i]) = Equal
<1> DEFINE D(i) == CompareAt(PartOrder, NoPart, v.version, w.version, i)
<1> DEFINE c == CompareCommon(v.version, w.version)
<1> DEFINE level == Len(w.version) - 1
<1>1. v.version \in Seq(AllParts) /\ w.version \in Seq(AllParts) /\ v.epoch \in Nat /\ w.epoch \in Nat
  BY DEF AllVersions
<1>2. level \in Int
  BY <1>1
<1>3. CompareCommon(<<>>, <<>>).cmp = 0
  <2>1. CompareCommon(<<>>, <<>>) = Lexicographic(PartOrder, NoPart, <<>>, <<>>)
    BY CommonIsLexicographic, <<>> \in Seq(AllParts)
  <2>2. \A i \in Positions : CompareAt(PartOrder, NoPart, <<>>, <<>>, i) = 0
    <3>1. PartOrder[<<NoPart, NoPart>>] \in {-1, 0, 1}
          /\ PartOrder[<<NoPart, NoPart>>] = -PartOrder[<<NoPart, NoPart>>]
      BY PartsInOrder, NothingIsAnAtom DEF ThreeWay, Less, Equal, Greater
    <3>2. \A i \in Positions : At(<<>>, i, NoPart) = NoPart
      BY DEF At
    <3> QED BY <3>1, <3>2 DEF CompareAt
  <2>3. Lexicographic(PartOrder, NoPart, <<>>, <<>>).cmp = 0
    <3>1. <<>> \in Seq(AllParts)
      OBVIOUS
    <3> HIDE <2>1
    <3> QED BY <2>2, <3>1, LexicographicEqual, PartsInOrder, NothingIsAnAtom
  <2> QED BY <2>1, <2>3
<1>4. \A i \in 1..level : D(i) = CompareParts(At(v.version, i, NoPart), w.version[i])
  <2>1. \A i \in 1..level : At(v.version, i, NoPart) \in AllParts /\ w.version[i] \in AllParts
                            /\ At(w.version, i, NoPart) = w.version[i]
    BY <1>1, NothingIsAnAtom DEF At
  <2> QED BY <2>1, PartsInOrder DEF CompareAt
<1>5. SpecContains(Predicate("~=", w), v) <=> CompatibleWith(v, w, level)
  BY Zenon DEF SpecContains, Predicate, Level
<1>6. CompatibleWith(v, w, level) <=> v.epoch = w.epoch /\ (c.cmp = 0 \/ (c.cmp = 1 /\ c.idx >= level))
  BY <1>3 DEF CompatibleWith, CompatibleCommon, Equal, Greater
<1>7. v.epoch = w.epoch => CompareVersions(v, w) = c.cmp
  BY <1>3 DEF CompareVersions, Equal
<1>8. \/ c.cmp = 0 /\ \A i \in Positions : D(i) = 0
      \/ \E k \in Positions : /\ \A j \in 1..(k - 1) : D(j) = 0
                              /\ D(k) # 0 /\ c = [cmp |-> D(k), idx |-> k - 1]
  BY <1>1, CommonIsLexicographic, LexicographicIs, PartsInOrder, NothingIsAnAtom
<1>9. \A k \in Positions : D(k) \in {-1, 0, 1}
  <2>1. \A k \in Positions : At(v.version, k, NoPart) \in AllParts /\ At(w.version, k, NoPart) \in AllParts
    BY <1>1, NothingIsAnAtom DEF At, Positions
  <2> QED BY <2>1, PartsInOrder DEF CompareAt, ThreeWay, Less, Equal, Greater
<1> HIDE DEF D, c, level
<1>10. (c.cmp = 0 \/ (c.cmp = 1 /\ c.idx >= level)) <=> c.cmp # -1 /\ \A i \in 1..level : D(i) = 0
  <2>1. CASE c.cmp = 0 /\ \A i \in Positions : D(i) = 0
    BY <2>1, <1>2 DEF Positions
  <2>2. CASE \E k \in Positions : /\ \A j \in 1..(k - 1) : D(j) = 0
                                  /\ D(k) # 0 /\ c = [cmp |-> D(k), idx |-> k - 1]
    <3>1. PICK k \in Positions : /\ \A j \in 1..(k - 1) : D(j) = 0
                                 /\ D(k) # 0 /\ c = [cmp |-> D(k), idx |-> k - 1]
      BY <2>2
    <3>2. c.cmp = D(k) /\ c.idx = k - 1 /\ D(k) \in {-1, 1}
      BY <3>1, <1>9
    <3>3. (k - 1 >= level) <=> \A i \in 1..level : D(i) = 0
      BY <3>1, <1>2 DEF Positions
    <3> QED BY <3>2, <3>3
  <2> QED BY <1>8, <2>1, <2>2
<1>11. (\A i \in 1..level : D(i) = 0) <=>
        \A i \in 1..level : CompareParts(At(v.version, i, NoPart), w.version[i]) = 0
  BY <1>4
<1> QED BY <1>5, <1>6, <1>7, <1>10, <1>11 DEF level, Equal, Less

VersionInv ==
    /\ first \in VersionsCompared /\ second \in VersionsCompared /\ third \in VersionsCompared
    /\ operator \in Operators
    /\ reparsed = NotRead \/ reparsed = Reparsed(Predicate(operator, third))

\* A predicate of another operator than ~= is written with its whole version.
LEMMA ReparsedIs ==
  ASSUME NEW rel \in Operators, rel # "~=", NEW v, v.version # <<>>
  PROVE  Reparsed(Predicate(rel, v)) = Predicate(rel, v) /\ Predicate(rel, v) # Unparsable
<1> DEFINE p == Predicate(rel, v)
<1>1. p = [op |-> rel, version |-> v, level |-> 0] /\ p.op = rel /\ p.version = v
  BY DEF Predicate
<1>2. StrVersion(p) = v
  BY <1>1 DEF StrVersion
<1>3. Reparsed(p) = p
  BY <1>1, <1>2 DEF Reparsed
<1>4. p # Unparsable
  <2>1. Unparsable.op = "error" /\ rel # "error"
    BY DEF Unparsable, Operators
  <2> QED BY <1>1, <2>1
<1> QED BY <1>3, <1>4

\* Versions are in one order, equal ones match alike, ~= is as documented, and a
\* predicate of another operator is read as it was written, whichever versions are
\* compared (version.cpp, version_spec.cpp).
THEOREM VersionsCompareAsMeant == VersionSpecification => []VersionsAgree
<1>1. VersionInit => VersionInv
  BY DEF VersionInit, VersionInv
<1>2. VersionInv /\ [VersionNext]_versionVars => VersionInv'
  BY DEF VersionInv, VersionNext, Reparse, versionVars
<1>3. ASSUME VersionInv PROVE VersionsAgree
  <2>1. first \in AllVersions /\ second \in AllVersions /\ third \in AllVersions /\ operator \in Operators
    BY <1>3, VersionConstants DEF VersionInv
  <2>2. OneOrder
    <3>1. /\ CompareVersions(first, second) \in {-1, 0, 1} /\ CompareVersions(second, third) \in {-1, 0, 1}
          /\ CompareVersions(first, third) \in {-1, 0, 1}
          /\ CompareVersions(second, first) = -CompareVersions(first, second)
      BY <2>1, VersionsInOrder
    <3>2. CompareVersions(first, second) <= 0 /\ CompareVersions(second, third) <= 0 =>
            /\ CompareVersions(first, third) <= 0
            /\ CompareVersions(first, third) = 0 =>
                 CompareVersions(first, second) = 0 /\ CompareVersions(second, third) = 0
      BY <2>1, VersionsInOrder
    <3> QED BY <3>1, <3>2 DEF OneOrder, Equal, Greater
  <2>3. EqualVersionsMatchAlike
    BY <2>1, EqualVersionsAlike, Zenon DEF EqualVersionsMatchAlike, Equal
  <2>4. CompatibleIsAsDocumented
    BY <2>1, CompatibleIsDocumented, Zenon DEF CompatibleIsAsDocumented
  <2>5. ReparsingGivesTheSame
    <3> SUFFICES ASSUME reparsed # NotRead, operator # "~=", third.version # <<>>
                 PROVE  reparsed = Predicate(operator, third) /\ reparsed # Unparsable
      BY DEF ReparsingGivesTheSame
    <3>1. reparsed = Reparsed(Predicate(operator, third))
      BY <1>3 DEF VersionInv
    <3> QED BY <2>1, <3>1, ReparsedIs
  <2> QED BY <2>2, <2>3, <2>4, <2>5 DEF VersionsAgree
<1> QED BY <1>1, <1>2, <1>3, PTL DEF VersionSpecification

-----------------------------------------------------------------------------
(* SubdirIndex, for any caches, writable or not, and any number of versions:  *)
(* an index that is believed is what its etag says, and what the solver is   *)
(* given is what the server has confirmed.                                   *)

LEMMA HomeIsWritable == Home \in WritableCaches /\ Home \in Caches
BY SubdirConstants DEF Home

Files == [json : Contents, young : BOOLEAN, note : {"none", "torn", "whole"},
          etag : Versions \cup {NoEtag}, agrees : BOOLEAN, solv : Versions \cup {Absent},
          origin : Versions \cup {NoEtag}, newer : BOOLEAN]
Subs == [pc : {"idle", "scan", "ask", "rename", "copy", "copying", "copySolv", "refresh",
               "refreshSolv", "note", "noting", "read", "loaded", "ended"},
         at : 1..(CacheCount + 1), etag : Versions \cup {NoEtag},
         expired : Caches \cup {NoCache}, valid : Caches \cup {NoCache},
         jsonOK : BOOLEAN, solvOK : BOOLEAN, solvKept : BOOLEAN,
         temp : Contents, confirmed : Versions \cup {Absent}, again : BOOLEAN,
         got : Versions \cup {Absent}]

\* What an etag says of a file.
EtagNames(json, etag) == IF etag = NoEtag THEN json = Broken ELSE json >= etag

\* A cache that this user cannot write is what another user's mamba made it.
OthersAreRight == \A c \in Caches \ WritableCaches : store[c].json = store[c].etag

\* The cache that is asked about was believed, and this process has not
\* written to it since.
AskedIsBelieved ==
    sub.pc \in {"scan", "ask"} =>
        /\ sub.expired \in WritableCaches => Believed(sub.expired)
        /\ sub.etag # NoEtag => sub.expired \in Caches \/ sub.jsonOK
        /\ sub.pc = "ask" => ~sub.jsonOK

AnswerIsRight == sub.pc = "rename" => EtagNames(sub.temp, sub.etag)

CopyIsRight ==
    sub.pc \in {"copy", "copying", "copySolv"} =>
        /\ sub.expired \in Caches \ WritableCaches
        /\ sub.valid = Home /\ sub.etag \in Versions

\* The file whose state is about to be written is what that state will say.
NotedIsRight ==
    sub.pc \in {"copySolv", "refresh", "refreshSolv", "note", "noting"} =>
        /\ sub.valid \in WritableCaches
        /\ sub.valid \notin relabelled => EtagNames(store[sub.valid].json, sub.etag)

\* What is read is the file of some cache.
FoundIsThere ==
    /\ sub.pc = "scan" /\ sub.jsonOK => sub.valid \in Caches
    /\ sub.pc = "read" => sub.valid \in Caches

Typed == published \in Versions /\ store \in [Caches -> Files] /\ sub \in Subs
IndexInv == /\ OthersAreRight /\ EtagNamesIndex /\ AskedIsBelieved /\ AnswerIsRight
            /\ CopyIsRight /\ NotedIsRight /\ FoundIsThere

\* A serialized form that may be used is not older than its origin.
SolvIsRight ==
    /\ \A c \in Caches \ (relabelled \cup mixed) :
         store[c].solv # Absent /\ store[c].newer => store[c].solv >= store[c].origin
    /\ \A c \in Caches \ WritableCaches :
         store[c].solv # Absent => store[c].solv >= store[c].origin
    /\ relabelled \cup mixed \subseteq WritableCaches

\* The file that is read was believed.
ReadIsBelieved ==
    sub.pc = "read" \/ (sub.pc = "scan" /\ sub.jsonOK) => Believed(sub.valid)

\* What the server confirmed is what the state of the file says.
ConfirmedIsNamed ==
    /\ sub.pc \in {"scan", "ask"} => sub.confirmed = Absent
    /\ sub.pc \in {"rename", "copy", "copying", "copySolv", "refresh", "refreshSolv", "note",
                   "noting", "read"} /\ sub.confirmed # Absent => sub.confirmed = sub.etag
    /\ sub.pc = "read" /\ sub.confirmed # Absent =>
         sub.valid \in WritableCaches /\ store[sub.valid].etag = sub.etag

\* A serialized form that is kept for the file was right before it was kept.
KeptIsRight ==
    /\ sub.pc = "scan" /\ ~sub.jsonOK => ~sub.solvOK
    /\ sub.pc \in {"ask", "rename", "copy", "copying", "copySolv", "refresh", "refreshSolv"} =>
         ~sub.solvOK
    /\ sub.pc = "refreshSolv" /\ sub.solvKept =>
         /\ store[sub.valid].solv # Absent
         /\ sub.valid \notin relabelled \cup mixed => store[sub.valid].solv >= store[sub.valid].origin
    /\ sub.pc \in {"note", "noting", "read"} /\ sub.confirmed # Absent /\ sub.solvOK =>
         store[sub.valid].newer

SolvInv == SolvIsRight /\ ReadIsBelieved /\ ConfirmedIsNamed /\ KeptIsRight /\ SolverGetsConfirmed

-----------------------------------------------------------------------------
LEMMA TypedIsType == Typed <=> SubdirTypeOK
BY DEF Typed, SubdirTypeOK, Files, Subs

LEMMA VersionsAreNumbers ==
    /\ \A v \in Versions : v \in Nat /\ v > 0
    /\ MaxVersion \in Nat /\ CacheCount \in Nat /\ Caches \subseteq Nat /\ 0 \notin Caches
BY SubdirConstants DEF Versions, Caches

LEMMA FreshTyped == ASSUME NEW b \in BOOLEAN PROVE Fresh(b) \in Subs /\ NotRunning \in Subs
<1>1. 1 \in 1..(CacheCount + 1)
  BY SubdirConstants
<1>2. \A d \in BOOLEAN : Fresh(d) \in Subs
  BY <1>1 DEF Fresh, Subs, Contents
<1>3. NotRunning = [Fresh(FALSE) EXCEPT !.pc = "idle"]
  BY DEF NotRunning
<1> QED BY <1>2, <1>3 DEF Subs

\* Two shapes of a change of one cache.
LEMMA StoreTyped ==
  ASSUME Typed, NEW c \in Caches, NEW f \in Files
  PROVE  [store EXCEPT ![c] = f] \in [Caches -> Files]
BY DEF Typed

LEMMA WroteIs ==
  ASSUME Typed, NEW c \in Caches, NEW text \in Contents
  PROVE  /\ Wrote(c, text) =
              [store EXCEPT ![c] = [store[c] EXCEPT !.json = text, !.young = TRUE,
                                                    !.newer = FALSE, !.agrees = FALSE]]
         /\ Wrote(c, text) \in [Caches -> Files]
<1> DEFINE f == [store[c] EXCEPT !.json = text, !.young = TRUE, !.newer = FALSE, !.agrees = FALSE]
<1>1. Wrote(c, text) = [store EXCEPT ![c] = f]
  BY DEF Wrote, Typed
<1>2. f \in Files
  BY DEF Typed, Files
<1> QED BY <1>1, <1>2, StoreTyped

LEMMA TypedInit == SubdirInit => Typed
<1>1. NoFiles \in Files
  BY DEF NoFiles, Files, Contents, Absent, NoEtag
<1>2. 1 \in Versions
  BY SubdirConstants DEF Versions
<1>3. FirstIndex \in Files
  BY <1>2 DEF FirstIndex, NoFiles, Files, Contents
<1>4. NotRunning \in Subs
  BY FreshTyped
<1> QED BY <1>1, <1>2, <1>3, <1>4 DEF SubdirInit, Typed

LEMMA TypedNext == Typed /\ IndexInv /\ [SubdirNext]_subdirVars => Typed'
<1> SUFFICES ASSUME Typed, IndexInv, [SubdirNext]_subdirVars PROVE Typed'
  OBVIOUS
<1> USE DEF Typed
<1>1. CASE Scan
  <2>1. PICK c \in Caches : c = sub.at
    BY <1>1, SubdirConstants DEF Scan, Subs, Caches
  <2>2. /\ sub.at + 1 \in 1..(CacheCount + 1) /\ CacheCount + 1 \in 1..(CacheCount + 1)
    BY <1>1, SubdirConstants DEF Scan, Subs
  <2>3. \A s \in Subs : s.at = sub.at => Next1(s) \in Subs
    BY <2>2 DEF Next1, Subs
  <2>4. [sub EXCEPT !.pc = "ended"] \in Subs
    BY DEF Subs
  <2>5. Expired(c) \in Subs
    BY <2>1, <2>2 DEF Expired, Next1, Subs, Files
  <2>6. Found(c) \in Subs
    <3> DEFINE s == [sub EXCEPT !.etag = store[c].etag, !.jsonOK = TRUE,
                                !.valid = IF sub.jsonOK THEN sub.valid ELSE c]
    <3>1. store[c].etag \in Versions \cup {NoEtag}
      BY DEF Files
    <3>2. s \in Subs /\ s.at = sub.at
      BY <3>1, ZenonT(60) DEF Subs
    <3> HIDE DEF s
    <3>3. Next1(s) \in Subs
      BY <2>3, <3>2
    <3>4. [s EXCEPT !.solvOK = TRUE, !.valid = c, !.at = CacheCount + 1] \in Subs
      BY <2>2, <3>2 DEF Subs
    <3> QED BY <3>3, <3>4 DEF Found, s
  <2> QED BY <1>1, <2>1, <2>3, <2>4, <2>5, <2>6 DEF Scan
<1>2. CASE Scanned \/ NoAnswer
  BY <1>2 DEF Scanned, NoAnswer, Subs
<1>3. CASE Answered
  <2>1. published \in Contents /\ Broken \in Contents
    BY DEF Contents
  <2>2. \A v \in Versions : \A k \in Contents :
          [sub EXCEPT !.pc = "rename", !.temp = k, !.etag = v, !.confirmed = v] \in Subs
    BY DEF Subs
  <2>3. [sub EXCEPT !.pc = "rename", !.temp = Broken, !.etag = NoEtag] \in Subs
    BY <2>1 DEF Subs
  <2>4. published' \in Versions /\ store' \in [Caches -> Files]
    BY <1>3 DEF Answered
  <2>5. sub' \in Subs
    BY <1>3, <2>1, <2>2, <2>3 DEF Answered
  <2> QED BY <2>4, <2>5
<1>4. CASE Rename
  <2>1. store' \in [Caches -> Files]
    BY <1>4, HomeIsWritable, WroteIs DEF Rename, Subs
  <2>2. sub' \in Subs
    BY <1>4, HomeIsWritable DEF Rename, Subs
  <2> QED BY <1>4, <2>1, <2>2 DEF Rename
<1>5. CASE NotModified
  <2>1. published \in Versions /\ Home \in Caches \cup {NoCache} /\ sub.expired \in Caches \cup {NoCache}
    BY HomeIsWritable DEF Subs
  <2> QED BY <1>5, <2>1, ZenonT(60) DEF NotModified, Subs
<1>6. CASE CopyBegins
  <2>1. store' \in [Caches -> Files]
    BY <1>6, HomeIsWritable, WroteIs DEF CopyBegins, Contents
  <2> QED BY <1>6, <2>1 DEF CopyBegins, Subs
<1>7. CASE CopyEnds
  <2>1. store[sub.expired].json \in Contents
    BY <1>7 DEF CopyEnds, IndexInv, CopyIsRight, Files
  <2>2. store' \in [Caches -> Files]
    BY <1>7, <2>1, HomeIsWritable, WroteIs DEF CopyEnds
  <2> QED BY <1>7, <2>2 DEF CopyEnds, Subs
<1>8. CASE CopySolv
  <2>1. sub' = [sub EXCEPT !.pc = "refresh"] /\ sub' \in Subs /\ UNCHANGED published
    BY <1>8 DEF CopySolv, Subs
  <2>2. CASE store[sub.expired].solv = Absent
    BY <1>8, <2>1, <2>2 DEF CopySolv
  <2>3. CASE store[sub.expired].solv # Absent
    <3>1. sub.expired \in Caches
      BY <1>8 DEF CopySolv, IndexInv, CopyIsRight
    <3> DEFINE f == [store[Home] EXCEPT !.solv = store[sub.expired].solv,
                                        !.origin = store[sub.expired].origin, !.newer = TRUE]
    <3>2. store[sub.expired] \in Files /\ store[Home] \in Files
      BY <3>1, HomeIsWritable
    <3>3. f \in Files
      BY <3>2 DEF Files
    <3>4. store' = [store EXCEPT ![Home] = f]
      BY <1>8, <2>3, HomeIsWritable DEF CopySolv
    <3> QED BY <2>1, <3>3, <3>4, HomeIsWritable, StoreTyped
  <2> QED BY <2>2, <2>3
<1>9. CASE Refresh
  <2>1. sub.valid \in Caches
    BY <1>9, SubdirConstants DEF Refresh, IndexInv, NotedIsRight
  <2>2. store' \in [Caches -> Files]
    BY <1>9, <2>1, WroteIs DEF Refresh, Files
  <2> QED BY <1>9, <2>1, <2>2 DEF Refresh, Subs, Files
<1>10. CASE RefreshSolv
  <2>1. sub.valid \in Caches
    BY <1>10, SubdirConstants DEF RefreshSolv, IndexInv, NotedIsRight
  <2> DEFINE f == [store[sub.valid] EXCEPT !.newer = sub.solvKept]
  <2>2. f \in Files
    <3>1. sub.solvKept \in BOOLEAN /\ store[sub.valid] \in Files
      BY <2>1 DEF Subs
    <3> QED BY <3>1 DEF Files
  <2>3. store' = [store EXCEPT ![sub.valid] = f]
    BY <1>10, <2>1 DEF RefreshSolv
  <2>4. sub' \in Subs /\ UNCHANGED published
    BY <1>10 DEF RefreshSolv, Subs
  <2> QED BY <2>1, <2>2, <2>3, <2>4, StoreTyped
<1>11. CASE Truncate
  <2>1. sub.valid \in Caches
    BY <1>11, SubdirConstants DEF Truncate, IndexInv, NotedIsRight
  <2> QED BY <1>11, <2>1 DEF Truncate, Subs, Files
<1>12. CASE WriteState
  <2>1. sub.valid \in Caches
    BY <1>12, SubdirConstants DEF WriteState, IndexInv, NotedIsRight
  <2> DEFINE f == [store[sub.valid] EXCEPT !.note = "whole", !.etag = sub.etag, !.agrees = TRUE]
  <2>2. f \in Files
    <3>1. sub.etag \in Versions \cup {NoEtag} /\ store[sub.valid] \in Files
      BY <2>1 DEF Subs
    <3> QED BY <3>1 DEF Files
  <2>3. store' = [store EXCEPT ![sub.valid] = f]
    BY <1>12, <2>1 DEF WriteState
  <2>4. sub' \in Subs /\ UNCHANGED published
    BY <1>12 DEF WriteState, Subs
  <2> QED BY <2>1, <2>2, <2>3, <2>4, StoreTyped
<1>13. CASE ReadSolv
  <2>1. sub.valid \in Caches
    BY <1>13 DEF ReadSolv, IndexInv, FoundIsThere
  <2>2. store[sub.valid].solv \in Versions \cup {Absent}
    BY <2>1 DEF Files
  <2> QED BY <1>13, <2>2 DEF ReadSolv, Subs
<1>14. CASE ReadJson
  <2>1. sub.valid \in Caches /\ store[sub.valid].json \in Versions
    BY <1>14 DEF ReadJson, IndexInv, FoundIsThere
  <2> DEFINE f == [store[Home] EXCEPT !.solv = store[sub.valid].json, !.origin = sub.etag, !.newer = TRUE]
  <2>2. f \in Files
    <3>1. sub.etag \in Versions \cup {NoEtag} /\ store[Home] \in Files
      BY HomeIsWritable DEF Subs
    <3> QED BY <2>1, <3>1 DEF Files
  <2>3. store' = [store EXCEPT ![Home] = f]
    BY <1>14, HomeIsWritable DEF ReadJson
  <2>4. sub' \in Subs /\ UNCHANGED published
    BY <1>14, <2>1 DEF ReadJson, Subs
  <2> QED BY <2>2, <2>3, <2>4, HomeIsWritable, StoreTyped
<1>15. CASE ReadFails
  <2>1. [sub EXCEPT !.pc = "ended"] \in Subs
    BY DEF Subs
  <2> QED BY <1>15, <2>1, FreshTyped DEF ReadFails, Cleared
<1>16. CASE Create \/ EndOfProcess
  BY <1>16, FreshTyped DEF Create, EndOfProcess
<1>17. CASE Publish
  BY <1>17, SubdirConstants DEF Publish, Versions
<1>18. ASSUME NEW c \in Caches, GrowsOld(c) \/ OtherUser(c) PROVE Typed'
  <2>1. [store[c] EXCEPT !.young = FALSE] \in Files
    BY DEF Files
  <2>2. \A solv \in {Absent, published} :
          [FirstIndex EXCEPT !.json = published, !.etag = published, !.young = TRUE, !.solv = solv,
                             !.origin = solv, !.newer = solv # Absent] \in Files
    BY DEF FirstIndex, NoFiles, Files, Contents, Absent, NoEtag
  <2> QED BY <1>18, <2>1, <2>2, StoreTyped, ZenonT(60) DEF GrowsOld, OtherUser
<1>19. CASE UNCHANGED subdirVars
  BY <1>19 DEF subdirVars
<1> QED BY <1>1, <1>2, <1>3, <1>4, <1>5, <1>6, <1>7, <1>8, <1>9, <1>10, <1>11, <1>12, <1>13,
        <1>14, <1>15, <1>16, <1>17, <1>18, <1>19 DEF SubdirNext

-----------------------------------------------------------------------------
LEMMA IndexInit == SubdirInit => IndexInv
<1> SUFFICES ASSUME SubdirInit PROVE IndexInv
  OBVIOUS
<1>1. \A c \in Caches : store[c] \in {FirstIndex, NoFiles}
  BY DEF SubdirInit
<1>2. sub.pc = "idle"
  BY DEF SubdirInit, NotRunning, Fresh
<1>3. /\ FirstIndex.json = 1 /\ FirstIndex.etag = 1
      /\ NoFiles.json = 0 /\ NoFiles.etag = 0 /\ NoFiles.note = "none"
  BY DEF FirstIndex, NoFiles, Absent, NoEtag
<1>4. OthersAreRight
  BY <1>1, <1>3 DEF OthersAreRight
<1>5. EtagNamesIndex
  BY <1>1, <1>3 DEF EtagNamesIndex, Believed, NoEtag
<1> QED BY <1>2, <1>4, <1>5 DEF IndexInv, AskedIsBelieved, AnswerIsRight, CopyIsRight,
                               NotedIsRight, FoundIsThere

\* A step that writes no file.
LEMMA SameStore ==
  ASSUME Typed, IndexInv, UNCHANGED <<store, relabelled>>,
         AskedIsBelieved', AnswerIsRight', CopyIsRight', NotedIsRight', FoundIsThere'
  PROVE  IndexInv'
BY DEF IndexInv, OthersAreRight, EtagNamesIndex, Believed, Agrees

\* A step after which every repodata file and what its state says are the same.
LEMMA SameIndex ==
  ASSUME Typed, IndexInv, UNCHANGED relabelled,
         \A d \in Caches : /\ store'[d].json = store[d].json /\ store'[d].etag = store[d].etag
                           /\ store'[d].note = store[d].note /\ store'[d].agrees = store[d].agrees
  PROVE  OthersAreRight' /\ EtagNamesIndex' /\ (\A d \in Caches : Believed(d)' <=> Believed(d))
BY DEF IndexInv, OthersAreRight, EtagNamesIndex, Believed, Agrees

\* A step that writes to one cache, after which its state is not believed.
LEMMA NotBelieved ==
  ASSUME Typed, IndexInv, NEW c \in WritableCaches, NEW f \in Files,
         store' = [store EXCEPT ![c] = f], f.note # "whole" \/ ~f.agrees,
         relabelled \subseteq relabelled' \cup {c}
  PROVE  OthersAreRight' /\ EtagNamesIndex'
<1>1. c \in Caches
  BY SubdirConstants
<1>2. store'[c] = f /\ \A d \in Caches \ {c} : store'[d] = store[d]
  BY <1>1 DEF Typed
<1>3. OthersAreRight'
  BY <1>2 DEF IndexInv, OthersAreRight
<1>4. EtagNamesIndex'
  <2> SUFFICES ASSUME NEW d \in Caches, d \notin relabelled', Believed(d)'
               PROVE  IF store'[d].etag = NoEtag THEN store'[d].json = Broken
                                                 ELSE store'[d].json >= store'[d].etag
    BY DEF EtagNamesIndex
  <2>1. d # c
    BY <1>2 DEF Believed, Agrees
  <2>2. Believed(d) /\ d \notin relabelled
    BY <1>2, <2>1 DEF Believed, Agrees
  <2> QED BY <1>2, <2>1, <2>2 DEF IndexInv, EtagNamesIndex
<1> QED BY <1>3, <1>4

LEMMA IndexNext == Typed /\ IndexInv /\ [SubdirNext]_subdirVars => IndexInv'
<1> SUFFICES ASSUME Typed, IndexInv, [SubdirNext]_subdirVars PROVE IndexInv'
  OBVIOUS
<1>1. CASE Scan
  <2>1. PICK c \in Caches : c = sub.at
    BY <1>1, SubdirConstants DEF Scan, Typed, Subs, Caches
  <2>2. sub.pc = "scan" /\ UNCHANGED <<published, store, relabelled>> /\ sub \in Subs
    BY <1>1 DEF Scan, Typed
  <2>3. ASSUME sub'.pc = "scan", sub'.etag = sub.etag, sub'.expired = sub.expired,
               sub'.jsonOK = sub.jsonOK, sub'.valid = sub.valid
        PROVE  IndexInv'
    BY <2>2, <2>3, SameStore DEF IndexInv, AskedIsBelieved, AnswerIsRight, CopyIsRight,
       NotedIsRight, FoundIsThere, Believed, Agrees
  <2>4. CASE sub' = Next1(sub)
    BY <2>2, <2>3, <2>4 DEF Next1, Subs
  <2>5. CASE sub' = [sub EXCEPT !.pc = "ended"]
    <3>1. sub'.pc = "ended"
      BY <2>2, <2>5 DEF Subs
    <3> QED BY <2>2, <3>1, SameStore DEF AskedIsBelieved, AnswerIsRight, CopyIsRight,
       NotedIsRight, FoundIsThere
  <2>6. CASE sub' = Found(c)
    <3>1. /\ sub'.pc = "scan" /\ sub'.jsonOK /\ sub'.expired = sub.expired
          /\ sub'.valid = c \/ (sub.jsonOK /\ sub'.valid = sub.valid)
      BY <2>2, <2>6 DEF Found, Next1, Subs
    <3> QED BY <2>2, <3>1, SameStore DEF IndexInv, AskedIsBelieved, AnswerIsRight, CopyIsRight,
       NotedIsRight, FoundIsThere, Believed, Agrees
  <2>7. CASE sub' = Expired(c) /\ Believed(c)
    <3>1. /\ sub'.pc = "scan" /\ sub'.jsonOK = sub.jsonOK /\ sub'.valid = sub.valid
          /\ sub'.expired = IF sub.expired = NoCache THEN c ELSE sub.expired
      BY <2>2, <2>7 DEF Expired, Next1, Subs
    <3>2. sub'.expired \in Caches
      BY <2>2, <3>1 DEF Subs
    <3>3. sub'.expired \in WritableCaches => Believed(sub'.expired)
      BY <2>2, <2>7, <3>1 DEF IndexInv, AskedIsBelieved
    <3>4. AskedIsBelieved'
      BY <2>2, <3>1, <3>2, <3>3 DEF AskedIsBelieved, Believed, Agrees
    <3> QED BY <2>2, <3>1, <3>4, SameStore DEF IndexInv, AnswerIsRight, CopyIsRight,
       NotedIsRight, FoundIsThere
  <2> QED BY <1>1, <2>1, <2>4, <2>5, <2>6, <2>7 DEF Scan
<1>2. CASE Scanned
  <2>1. /\ sub.pc = "scan" /\ UNCHANGED <<published, store, relabelled>>
        /\ sub'.pc = (IF sub.jsonOK THEN "read" ELSE "ask")
        /\ sub'.etag = sub.etag /\ sub'.expired = sub.expired /\ sub'.jsonOK = sub.jsonOK
        /\ sub'.valid = sub.valid
    BY <1>2 DEF Scanned, Typed, Subs
  <2> QED BY <2>1, SameStore DEF IndexInv, AskedIsBelieved, AnswerIsRight, CopyIsRight,
       NotedIsRight, FoundIsThere, Believed, Agrees
<1>3. CASE NoAnswer \/ Answered
  <2>1. published # NoEtag /\ published >= published
    BY VersionsAreNumbers DEF Typed, NoEtag
  <2>2. EtagNames(published, published) /\ EtagNames(Broken, NoEtag)
    BY <2>1 DEF EtagNames
  <2>3. UNCHANGED <<store, relabelled>> /\ sub'.pc \in {"ended", "rename"}
    BY <1>3 DEF NoAnswer, Answered, Typed, Subs
  <2>4. sub'.pc = "rename" => EtagNames(sub'.temp, sub'.etag)
    BY <1>3, <2>2 DEF NoAnswer, Answered, Typed, Subs
  <2> QED BY <2>3, <2>4, SameStore DEF AskedIsBelieved, AnswerIsRight, CopyIsRight,
       NotedIsRight, FoundIsThere
<1>4. CASE Rename
  <2>1. /\ sub'.pc = "note" /\ sub'.valid = Home /\ sub'.etag = sub.etag
        /\ sub.pc = "rename" /\ relabelled' = relabelled \ {Home} /\ sub.temp \in Contents
    BY <1>4 DEF Rename, Typed, Subs
  <2> DEFINE f == [store[Home] EXCEPT !.json = sub.temp, !.young = TRUE,
                                      !.newer = FALSE, !.agrees = FALSE]
  <2>2. store' = [store EXCEPT ![Home] = f]
    BY <1>4, <2>1, HomeIsWritable, WroteIs DEF Rename
  <2>3. f \in Files /\ ~f.agrees /\ f.json = sub.temp
    BY <2>1, HomeIsWritable, ZenonT(60) DEF Typed, Files
  <2> HIDE DEF f
  <2>4. OthersAreRight' /\ EtagNamesIndex'
    BY <2>1, <2>2, <2>3, HomeIsWritable, NotBelieved
  <2>5. NotedIsRight'
    BY <2>1, <2>2, <2>3, HomeIsWritable DEF NotedIsRight, IndexInv, AnswerIsRight, Typed
  <2> QED BY <2>1, <2>4, <2>5 DEF IndexInv, AskedIsBelieved, AnswerIsRight, CopyIsRight, FoundIsThere
<1>5. CASE NotModified
  <2> DEFINE c == sub.expired
  <2>1. /\ sub.pc = "ask" /\ sub.etag = published /\ sub.etag # NoEtag /\ ~sub.jsonOK
        /\ UNCHANGED <<published, store>> /\ sub'.etag = sub.etag /\ sub'.expired = c
        /\ sub'.pc = (IF c \in WritableCaches THEN "refresh" ELSE "copy")
        /\ sub'.valid = (IF c \in WritableCaches THEN c ELSE Home)
        /\ relabelled' = IF c \in WritableCaches /\ store[c].etag # sub.etag
                         THEN relabelled \cup {c} ELSE relabelled
    BY <1>5, VersionsAreNumbers DEF NotModified, Typed, Subs, NoEtag, IndexInv, AskedIsBelieved
  <2>2. c \in Caches
    BY <2>1 DEF IndexInv, AskedIsBelieved
  <2>3. OthersAreRight' /\ EtagNamesIndex'
    BY <2>1 DEF IndexInv, OthersAreRight, EtagNamesIndex, Believed, Agrees
  <2>4. CASE c \in WritableCaches
    <3>1. Believed(c)
      BY <2>1, <2>4 DEF IndexInv, AskedIsBelieved
    <3>2. c \notin relabelled' => EtagNames(store[c].json, sub.etag)
      BY <2>1, <2>2, <2>4, <3>1 DEF IndexInv, EtagNamesIndex, EtagNames
    <3> QED BY <2>1, <2>3, <2>4, <3>2 DEF IndexInv, AskedIsBelieved, AnswerIsRight, CopyIsRight,
                                          NotedIsRight, FoundIsThere
  <2>5. CASE c \notin WritableCaches
    BY <2>1, <2>2, <2>3, <2>5 DEF IndexInv, AskedIsBelieved, AnswerIsRight, CopyIsRight,
                                  NotedIsRight, FoundIsThere, Typed
  <2> QED BY <2>4, <2>5
<1>6. CASE CopyBegins
  <2>1. /\ sub.pc = "copy" /\ sub'.pc = "copying" /\ sub'.valid = sub.valid
        /\ sub'.etag = sub.etag /\ sub'.expired = sub.expired /\ UNCHANGED relabelled
        /\ Partial \in Contents
    BY <1>6 DEF CopyBegins, Typed, Subs, Contents
  <2> DEFINE f == [store[Home] EXCEPT !.json = Partial, !.young = TRUE,
                                      !.newer = FALSE, !.agrees = FALSE]
  <2>2. store' = [store EXCEPT ![Home] = f]
    BY <1>6, <2>1, HomeIsWritable, WroteIs DEF CopyBegins
  <2>3. f \in Files /\ ~f.agrees
    BY <2>1, HomeIsWritable DEF Typed, Files
  <2> HIDE DEF f
  <2>4. OthersAreRight' /\ EtagNamesIndex'
    BY <2>1, <2>2, <2>3, HomeIsWritable, NotBelieved
  <2> QED BY <2>1, <2>4 DEF IndexInv, AskedIsBelieved, AnswerIsRight, CopyIsRight,
                            NotedIsRight, FoundIsThere
<1>7. CASE CopyEnds
  <2> DEFINE e == sub.expired
  <2>1. /\ sub.pc = "copying" /\ sub'.pc = "copySolv" /\ sub'.valid = sub.valid
        /\ sub'.etag = sub.etag /\ sub'.expired = e
        /\ relabelled' = IF store[e].etag = sub.etag THEN relabelled \ {Home}
                         ELSE relabelled \cup {Home}
    BY <1>7 DEF CopyEnds, Typed, Subs
  <2>2. e \in Caches \ WritableCaches /\ sub.valid = Home /\ sub.etag \in Versions
    BY <2>1 DEF IndexInv, CopyIsRight
  <2>3. store[e].json = store[e].etag /\ store[e].json \in Contents /\ store[e] \in Files
    BY <2>2 DEF IndexInv, OthersAreRight, Typed, Files
  <2> DEFINE f == [store[Home] EXCEPT !.json = store[e].json, !.young = TRUE,
                                      !.newer = FALSE, !.agrees = FALSE]
  <2>4. store' = [store EXCEPT ![Home] = f]
    BY <1>7, <2>3, HomeIsWritable, WroteIs DEF CopyEnds
  <2>5. f \in Files /\ ~f.agrees /\ f.json = store[e].json
    BY <2>3, HomeIsWritable DEF Typed, Files
  <2> HIDE DEF f
  <2>6. OthersAreRight' /\ EtagNamesIndex'
    BY <2>1, <2>4, <2>5, HomeIsWritable, NotBelieved
  <2>7. Home \notin relabelled' => EtagNames(f.json, sub.etag)
    BY <2>1, <2>2, <2>3, <2>5, VersionsAreNumbers DEF EtagNames, NoEtag
  <2>8. NotedIsRight' /\ CopyIsRight'
    BY <2>1, <2>2, <2>4, <2>7, HomeIsWritable DEF NotedIsRight, CopyIsRight, Typed
  <2> QED BY <2>1, <2>6, <2>8 DEF IndexInv, AskedIsBelieved, AnswerIsRight, FoundIsThere
<1>8. ASSUME NEW f \in Files, NEW c \in WritableCaches, store' = [store EXCEPT ![c] = f],
             c = sub.valid, f.json = store[c].json, f.note # "whole" \/ ~f.agrees,
             UNCHANGED relabelled, sub'.valid = sub.valid, sub'.etag = sub.etag,
             sub.pc \in {"refresh", "refreshSolv", "note"},
             sub'.pc \in {"refreshSolv", "note", "noting"}
      PROVE  IndexInv'
  <2>1. OthersAreRight' /\ EtagNamesIndex'
    BY <1>8, NotBelieved
  <2>2. c \in Caches /\ store'[c] = f
    BY <1>8, SubdirConstants DEF Typed
  <2>3. NotedIsRight'
    BY <1>8, <2>2 DEF IndexInv, NotedIsRight
  <2> QED BY <1>8, <2>1, <2>3 DEF IndexInv, AskedIsBelieved, AnswerIsRight, CopyIsRight, FoundIsThere
<1>9. CASE CopySolv
  <2>1. /\ sub.pc = "copySolv" /\ sub'.pc = "refresh" /\ sub'.valid = sub.valid
        /\ sub'.etag = sub.etag /\ UNCHANGED relabelled
    BY <1>9 DEF CopySolv, Typed, Subs
  <2>2. \A d \in Caches : /\ store'[d].json = store[d].json /\ store'[d].etag = store[d].etag
                          /\ store'[d].note = store[d].note /\ store'[d].agrees = store[d].agrees
    <3>1. CASE store' = store
      BY <3>1
    <3>2. CASE store' # store
      <4>1. store' = [store EXCEPT ![Home] = [store[Home] EXCEPT !.solv = store[sub.expired].solv,
                                   !.origin = store[sub.expired].origin, !.newer = TRUE]]
        BY <1>9, <3>2, HomeIsWritable DEF CopySolv, Typed
      <4> QED BY <4>1, HomeIsWritable DEF Typed, Files
    <3> QED BY <3>1, <3>2
  <2>3. OthersAreRight' /\ EtagNamesIndex'
    BY <2>1, <2>2, SameIndex
  <2>4. NotedIsRight'
    BY <2>1, <2>2, SubdirConstants DEF IndexInv, NotedIsRight
  <2> QED BY <2>1, <2>3, <2>4 DEF IndexInv, AskedIsBelieved, AnswerIsRight, CopyIsRight, FoundIsThere
<1>10. CASE Refresh \/ RefreshSolv \/ Truncate
  <2>1. /\ sub.pc \in {"refresh", "refreshSolv", "note"} /\ UNCHANGED relabelled
        /\ sub'.pc \in {"refreshSolv", "note", "noting"}
        /\ sub'.valid = sub.valid /\ sub'.etag = sub.etag
    BY <1>10 DEF Refresh, RefreshSolv, Truncate, Typed, Subs
  <2>2. sub.valid \in WritableCaches /\ sub.valid \in Caches
    BY <2>1, SubdirConstants DEF IndexInv, NotedIsRight
  <2> DEFINE g == store[sub.valid]
  <2>3. g \in Files
    BY <2>2 DEF Typed
  <2>4. CASE Refresh
    <3> DEFINE f == [g EXCEPT !.json = g.json, !.young = TRUE, !.newer = FALSE, !.agrees = FALSE]
    <3>1. store' = [store EXCEPT ![sub.valid] = f]
      BY <2>2, <2>3, <2>4, WroteIs DEF Refresh, Files
    <3>2. f \in Files /\ f.json = g.json /\ ~f.agrees
      BY <2>3 DEF Files
    <3> QED BY <1>8, <2>1, <2>2, <3>1, <3>2
  <2>5. CASE RefreshSolv
    <3>1. store' = [store EXCEPT ![sub.valid] = [g EXCEPT !.newer = sub.solvKept]]
      BY <2>2, <2>3, <2>5 DEF RefreshSolv, Typed
    <3>2. \A d \in Caches : /\ store'[d].json = store[d].json /\ store'[d].etag = store[d].etag
                            /\ store'[d].note = store[d].note /\ store'[d].agrees = store[d].agrees
      BY <2>2, <3>1 DEF Typed, Files
    <3>3. NotedIsRight'
      BY <2>1, <2>2, <3>2 DEF IndexInv, NotedIsRight
    <3>4. sub'.pc = "note"
      BY <2>5 DEF RefreshSolv, Typed, Subs
    <3> QED BY <2>1, <3>2, <3>3, <3>4, SameIndex DEF IndexInv, AskedIsBelieved, AnswerIsRight, CopyIsRight, FoundIsThere
  <2>6. CASE Truncate
    <3> DEFINE f == [g EXCEPT !.note = "torn"]
    <3>1. store' = [store EXCEPT ![sub.valid] = f]
      BY <2>2, <2>3, <2>6 DEF Truncate, Typed
    <3>2. f \in Files /\ f.json = g.json /\ f.note = "torn"
      BY <2>3 DEF Files
    <3> QED BY <1>8, <2>1, <2>2, <3>1, <3>2
  <2> QED BY <1>10, <2>4, <2>5, <2>6
<1>11. CASE WriteState
  <2>1. /\ sub.pc = "noting" /\ sub'.pc = "read" /\ sub'.valid = sub.valid /\ UNCHANGED relabelled
    BY <1>11 DEF WriteState, Typed, Subs
  <2> DEFINE c == sub.valid
  <2>2. c \in WritableCaches /\ c \in Caches /\ (c \notin relabelled => EtagNames(store[c].json, sub.etag))
    BY <2>1, SubdirConstants DEF IndexInv, NotedIsRight
  <2>3. /\ store'[c].json = store[c].json /\ store'[c].etag = sub.etag
        /\ \A d \in Caches \ {c} : store'[d] = store[d]
    BY <1>11, <2>2 DEF WriteState, Typed, Files
  <2>4. OthersAreRight'
    BY <2>2, <2>3 DEF IndexInv, OthersAreRight
  <2>5. EtagNamesIndex'
    BY <2>1, <2>2, <2>3 DEF IndexInv, EtagNamesIndex, Believed, Agrees, EtagNames
  <2> QED BY <2>1, <2>2, <2>4, <2>5 DEF IndexInv, AskedIsBelieved, AnswerIsRight, CopyIsRight,
                                        NotedIsRight, FoundIsThere
<1>12. ASSUME OthersAreRight', EtagNamesIndex', sub'.pc \in {"loaded", "ended", "idle"}
       PROVE  IndexInv'
  BY <1>12 DEF IndexInv, AskedIsBelieved, AnswerIsRight, CopyIsRight, NotedIsRight, FoundIsThere
<1>13. ASSUME UNCHANGED <<store, relabelled>>
       PROVE  OthersAreRight' /\ EtagNamesIndex'
  BY <1>13, SameIndex
<1>14. ASSUME UNCHANGED <<store, relabelled>>, NEW b \in BOOLEAN, sub' = Fresh(b)
       PROVE  IndexInv'
  <2>1. sub'.pc = "scan" /\ sub'.expired = 0 /\ sub'.etag = NoEtag /\ ~sub'.jsonOK
    BY <1>14 DEF Fresh, NoCache
  <2>2. 0 \notin WritableCaches
    BY SubdirConstants, VersionsAreNumbers
  <2> QED BY <1>14, <2>1, <2>2, SameStore DEF AskedIsBelieved, AnswerIsRight, CopyIsRight,
                                              NotedIsRight, FoundIsThere
<1>15. CASE ReadSolv
  <2>1. sub'.pc = "loaded" /\ UNCHANGED <<store, relabelled>>
    BY <1>15 DEF ReadSolv, Typed, Subs
  <2> QED BY <1>12, <1>13, <2>1
<1>16. CASE ReadJson
  <2>1. sub'.pc = "loaded" /\ UNCHANGED relabelled
    BY <1>16 DEF ReadJson, Typed, Subs
  <2>2. \A d \in Caches : /\ store'[d].json = store[d].json /\ store'[d].etag = store[d].etag
                          /\ store'[d].note = store[d].note /\ store'[d].agrees = store[d].agrees
    BY <1>16, HomeIsWritable DEF ReadJson, Typed, Files
  <2> QED BY <1>12, <2>1, <2>2, SameIndex
<1>17. CASE ReadFails
  <2>1. UNCHANGED <<store, relabelled>>
    BY <1>17 DEF ReadFails, Cleared
  <2>2. CASE sub' = [sub EXCEPT !.pc = "ended"]
    <3>1. sub'.pc = "ended"
      BY <2>2 DEF Typed, Subs
    <3> QED BY <1>12, <1>13, <2>1, <3>1
  <2>3. CASE sub' = Fresh(TRUE)
    BY <1>14, <2>1, <2>3
  <2> QED BY <1>17, <2>2, <2>3 DEF ReadFails
<1>18. CASE Create
  BY <1>14, <1>18 DEF Create
<1>19. CASE EndOfProcess
  <2>1. sub'.pc = "idle" /\ UNCHANGED <<store, relabelled>>
    BY <1>19 DEF EndOfProcess, NotRunning, Fresh
  <2> QED BY <1>12, <1>13, <2>1
<1>20. CASE Publish \/ UNCHANGED subdirVars
  <2>1. UNCHANGED <<store, relabelled, sub>>
    BY <1>20 DEF Publish, subdirVars
  <2> QED BY <2>1, SameStore DEF IndexInv, AskedIsBelieved, AnswerIsRight, CopyIsRight,
                                 NotedIsRight, FoundIsThere, Believed, Agrees
<1>21. ASSUME NEW c \in Caches, GrowsOld(c) PROVE IndexInv'
  <2>1. UNCHANGED <<sub, relabelled>>
    BY <1>21 DEF GrowsOld
  <2>2. \A d \in Caches : /\ store'[d].json = store[d].json /\ store'[d].etag = store[d].etag
                          /\ store'[d].note = store[d].note /\ store'[d].agrees = store[d].agrees
    BY <1>21 DEF GrowsOld, Typed, Files
  <2>3. AskedIsBelieved' /\ NotedIsRight'
    BY <2>1, <2>2, SubdirConstants DEF IndexInv, AskedIsBelieved, NotedIsRight, Believed, Agrees
  <2> QED BY <2>1, <2>2, <2>3, SameIndex DEF IndexInv, AnswerIsRight, CopyIsRight, FoundIsThere
<1>22. ASSUME NEW c \in Caches, OtherUser(c) PROVE IndexInv'
  <2>1. UNCHANGED <<sub, relabelled>> /\ c \notin WritableCaches
    BY <1>22 DEF OtherUser
  <2>2. /\ store'[c].json = published /\ store'[c].etag = published
        /\ \A d \in Caches \ {c} : store'[d] = store[d]
    BY <1>22 DEF OtherUser, Typed, FirstIndex, NoFiles
  <2>3. published # NoEtag /\ published >= published
    BY VersionsAreNumbers DEF Typed, NoEtag
  <2>4. OthersAreRight'
    BY <2>2 DEF IndexInv, OthersAreRight
  <2>5. EtagNamesIndex'
    BY <2>1, <2>2, <2>3 DEF IndexInv, EtagNamesIndex, Believed, Agrees
  <2>6. AskedIsBelieved' /\ NotedIsRight'
    BY <2>1, <2>2, SubdirConstants DEF IndexInv, AskedIsBelieved, NotedIsRight, Believed, Agrees
  <2> QED BY <2>1, <2>4, <2>5, <2>6 DEF IndexInv, AnswerIsRight, CopyIsRight, FoundIsThere
<1> QED BY <1>1, <1>2, <1>3, <1>4, <1>5, <1>6, <1>7, <1>9, <1>10, <1>11, <1>15, <1>16, <1>17,
        <1>18, <1>19, <1>20, <1>21, <1>22 DEF SubdirNext

-----------------------------------------------------------------------------
(* What the solver is given *)

LEMMA SolvInit == SubdirInit => SolvInv
<1> SUFFICES ASSUME SubdirInit PROVE SolvInv
  OBVIOUS
<1>1. \A c \in Caches : store[c] \in {FirstIndex, NoFiles}
  BY DEF SubdirInit
<1>2. \A c \in Caches : store[c].solv = Absent
  <2>1. NoFiles.solv = Absent /\ FirstIndex.solv = Absent
    BY DEF FirstIndex, NoFiles
  <2> QED BY <1>1, <2>1
<1>3. sub.pc = "idle" /\ relabelled = {} /\ mixed = {}
  BY DEF SubdirInit, NotRunning, Fresh
<1> QED BY <1>2, <1>3 DEF SolvInv, SolvIsRight, ReadIsBelieved, ConfirmedIsNamed, KeptIsRight,
                          SolverGetsConfirmed

\* A step that writes no file.
LEMMA SameSolv ==
  ASSUME SolvInv, UNCHANGED <<store, mixed>>, relabelled \subseteq relabelled',
         relabelled' \subseteq relabelled \cup WritableCaches
  PROVE  SolvIsRight' /\ (\A d \in Caches : Believed(d)' <=> Believed(d))
BY DEF SolvInv, SolvIsRight, Believed, Agrees

\* A step that writes to one cache.
LEMMA SolvWritten ==
  ASSUME Typed, SolvInv, NEW c \in WritableCaches, NEW f \in Files,
         store' = [store EXCEPT ![c] = f],
         relabelled \subseteq relabelled' \cup {c}, mixed \subseteq mixed' \cup {c},
         relabelled' \cup mixed' \subseteq relabelled \cup mixed \cup WritableCaches,
         c \notin relabelled' \cup mixed' /\ f.solv # Absent /\ f.newer => f.solv >= f.origin
  PROVE  SolvIsRight' /\ store'[c] = f
<1>1. c \in Caches
  BY SubdirConstants
<1>2. store'[c] = f /\ \A d \in Caches \ {c} : store'[d] = store[d]
  BY <1>1 DEF Typed
<1>3. relabelled' \cup mixed' \subseteq WritableCaches
  BY DEF SolvInv, SolvIsRight
<1>4. ASSUME NEW d \in Caches, d \notin relabelled' \cup mixed', store'[d].solv # Absent, store'[d].newer
      PROVE  store'[d].solv >= store'[d].origin
  <2>1. CASE d = c
    BY <1>2, <1>4, <2>1
  <2>2. CASE d # c
    <3>1. d \notin relabelled \cup mixed
      BY <1>4, <2>2
    <3> QED BY <1>2, <1>4, <2>2, <3>1 DEF SolvInv, SolvIsRight
  <2> QED BY <2>1, <2>2
<1>5. ASSUME NEW d \in Caches \ WritableCaches, store'[d].solv # Absent
      PROVE  store'[d].solv >= store'[d].origin
  BY <1>2, <1>5 DEF SolvInv, SolvIsRight
<1> QED BY <1>2, <1>3, <1>4, <1>5 DEF SolvIsRight

LEMMA SolvNext == Typed /\ IndexInv /\ SolvInv /\ [SubdirNext]_subdirVars => SolvInv'
<1> SUFFICES ASSUME Typed, IndexInv, SolvInv, [SubdirNext]_subdirVars PROVE SolvInv'
  OBVIOUS
<1>1. CASE Scan
  <2>1. PICK c \in Caches : c = sub.at
    BY <1>1, SubdirConstants DEF Scan, Typed, Subs, Caches
  <2>2. sub.pc = "scan" /\ UNCHANGED <<store, relabelled, mixed>> /\ sub \in Subs
    BY <1>1 DEF Scan, Typed
  <2>3. SolvIsRight' /\ (\A d \in Caches : Believed(d)' <=> Believed(d))
    BY <2>2, SameSolv
  <2>4. ASSUME sub'.pc = "scan", sub'.jsonOK = sub.jsonOK, sub'.valid = sub.valid,
               sub'.solvOK = sub.solvOK, sub'.confirmed = sub.confirmed
        PROVE  SolvInv'
    BY <2>2, <2>3, <2>4 DEF SolvInv, ReadIsBelieved, ConfirmedIsNamed, KeptIsRight,
       SolverGetsConfirmed, Believed, Agrees
  <2>5. CASE sub' = Next1(sub)
    BY <2>2, <2>4, <2>5 DEF Next1, Subs
  <2>6. CASE sub' = [sub EXCEPT !.pc = "ended"]
    <3>1. sub'.pc = "ended"
      BY <2>2, <2>6 DEF Subs
    <3> QED BY <2>3, <3>1 DEF SolvInv, ReadIsBelieved, ConfirmedIsNamed, KeptIsRight, SolverGetsConfirmed
  <2>7. CASE sub' = Found(c) /\ Believed(c)
    <3>1. /\ sub'.pc = "scan" /\ sub'.jsonOK /\ sub'.confirmed = sub.confirmed
          /\ sub'.valid = c \/ (sub.jsonOK /\ sub'.valid = sub.valid)
      BY <2>2, <2>7 DEF Found, Next1, Subs
    <3>2. Believed(sub'.valid)
      BY <2>2, <2>7, <3>1 DEF SolvInv, ReadIsBelieved
    <3>3. ReadIsBelieved'
      BY <2>2, <3>2 DEF ReadIsBelieved, Believed, Agrees
    <3> QED BY <2>2, <2>3, <3>1, <3>3 DEF SolvInv, ConfirmedIsNamed, KeptIsRight, SolverGetsConfirmed
  <2>8. CASE sub' = Expired(c)
    BY <2>2, <2>4, <2>8 DEF Expired, Next1, Subs
  <2> QED BY <1>1, <2>1, <2>5, <2>6, <2>7, <2>8 DEF Scan
<1>2. CASE Scanned
  <2>1. /\ sub.pc = "scan" /\ UNCHANGED <<store, relabelled, mixed>>
        /\ sub'.pc = (IF sub.jsonOK THEN "read" ELSE "ask")
        /\ sub'.valid = sub.valid /\ sub'.solvOK = sub.solvOK /\ sub'.confirmed = sub.confirmed
    BY <1>2 DEF Scanned, Typed, Subs
  <2>2. SolvIsRight'
    BY <2>1, SameSolv
  <2> QED BY <2>1, <2>2 DEF SolvInv, ReadIsBelieved, ConfirmedIsNamed, KeptIsRight,
             SolverGetsConfirmed, Believed, Agrees
<1>3. CASE NoAnswer \/ Answered
  <2>1. /\ sub.pc = "ask" /\ UNCHANGED <<store, relabelled, mixed>> /\ sub'.pc \in {"ended", "rename"}
        /\ sub'.solvOK = sub.solvOK /\ sub'.confirmed \in {sub.confirmed, sub'.etag}
    BY <1>3 DEF NoAnswer, Answered, Typed, Subs
  <2>2. SolvIsRight'
    BY <2>1, SameSolv
  <2> QED BY <2>1, <2>2 DEF SolvInv, ReadIsBelieved, ConfirmedIsNamed, KeptIsRight, SolverGetsConfirmed
<1>4. CASE Rename
  <2>1. /\ sub.pc = "rename" /\ sub'.pc = "note" /\ relabelled' = relabelled \ {Home} /\ UNCHANGED mixed
        /\ sub'.solvOK = sub.solvOK /\ sub'.confirmed = sub.confirmed /\ sub'.etag = sub.etag
        /\ sub.temp \in Contents
    BY <1>4 DEF Rename, Typed, Subs
  <2> DEFINE f == [store[Home] EXCEPT !.json = sub.temp, !.young = TRUE, !.newer = FALSE, !.agrees = FALSE]
  <2>2. store' = [store EXCEPT ![Home] = f]
    BY <1>4, <2>1, HomeIsWritable, WroteIs DEF Rename
  <2>3. f \in Files /\ ~f.newer
    BY <2>1, HomeIsWritable DEF Typed, Files
  <2> HIDE DEF f
  <2>4. SolvIsRight'
    BY <2>1, <2>2, <2>3, HomeIsWritable, SolvWritten
  <2> QED BY <2>1, <2>4 DEF SolvInv, ReadIsBelieved, ConfirmedIsNamed, KeptIsRight, SolverGetsConfirmed
<1>5. CASE NotModified
  <2>1. /\ sub.pc = "ask" /\ sub'.pc \in {"refresh", "copy"} /\ UNCHANGED <<store, mixed>>
        /\ sub'.etag = sub.etag /\ sub'.confirmed = sub.etag /\ sub'.solvOK = sub.solvOK
        /\ relabelled \subseteq relabelled' /\ relabelled' \subseteq relabelled \cup WritableCaches
    BY <1>5 DEF NotModified, Typed, Subs
  <2>2. SolvIsRight'
    BY <2>1, SameSolv
  <2> QED BY <2>1, <2>2 DEF SolvInv, ReadIsBelieved, ConfirmedIsNamed, KeptIsRight, SolverGetsConfirmed
<1>6. CASE CopyBegins \/ CopyEnds
  <2>1. /\ sub.pc \in {"copy", "copying"} /\ sub'.pc \in {"copying", "copySolv"} /\ UNCHANGED mixed
        /\ sub'.etag = sub.etag /\ sub'.confirmed = sub.confirmed /\ sub'.solvOK = sub.solvOK
        /\ relabelled \subseteq relabelled' \cup {Home} /\ relabelled' \subseteq relabelled \cup {Home}
    BY <1>6 DEF CopyBegins, CopyEnds, Typed, Subs
  <2>2. sub.expired \in Caches
    BY <2>1 DEF IndexInv, CopyIsRight
  <2>3. PICK text \in Contents : store' = Wrote(Home, text)
    BY <1>6, <2>2 DEF CopyBegins, CopyEnds, Typed, Files, Contents
  <2> DEFINE f == [store[Home] EXCEPT !.json = text, !.young = TRUE, !.newer = FALSE, !.agrees = FALSE]
  <2>4. store' = [store EXCEPT ![Home] = f]
    BY <2>3, HomeIsWritable, WroteIs
  <2>5. f \in Files /\ ~f.newer
    BY HomeIsWritable DEF Typed, Files
  <2> HIDE DEF f
  <2>6. SolvIsRight'
    BY <2>1, <2>4, <2>5, HomeIsWritable, SolvWritten
  <2> QED BY <2>1, <2>6 DEF SolvInv, ReadIsBelieved, ConfirmedIsNamed, KeptIsRight, SolverGetsConfirmed
<1>7. CASE CopySolv
  <2> DEFINE e == sub.expired
  <2>1. /\ sub.pc = "copySolv" /\ sub'.pc = "refresh" /\ UNCHANGED relabelled
        /\ sub'.etag = sub.etag /\ sub'.confirmed = sub.confirmed /\ sub'.solvOK = sub.solvOK
    BY <1>7 DEF CopySolv, Typed, Subs
  <2>2. e \in Caches \ WritableCaches
    BY <2>1 DEF IndexInv, CopyIsRight
  <2>3. SolvIsRight'
    <3>1. CASE store[e].solv = Absent
      <4>1. UNCHANGED <<store, mixed, relabelled>>
        BY <1>7, <3>1 DEF CopySolv
      <4> QED BY <4>1, SameSolv
    <3>2. CASE store[e].solv # Absent
      <4> DEFINE f == [store[Home] EXCEPT !.solv = store[e].solv, !.origin = store[e].origin, !.newer = TRUE]
      <4>1. store' = [store EXCEPT ![Home] = f] /\ mixed' = mixed \ {Home}
        BY <1>7, <3>2, HomeIsWritable DEF CopySolv, Typed
      <4>0. store[Home] \in Files /\ store[e] \in Files
        BY <2>2, HomeIsWritable DEF Typed
      <4>2. f \in Files /\ f.solv = store[e].solv /\ f.origin = store[e].origin
        <5> HIDE DEF e
        <5> QED BY <4>0 DEF Files
      <4>3. f.solv >= f.origin
        BY <2>2, <3>2, <4>2 DEF SolvInv, SolvIsRight
      <4> HIDE DEF f
      <4> QED BY <2>1, <4>1, <4>2, <4>3, HomeIsWritable, SolvWritten
    <3> QED BY <3>1, <3>2
  <2> QED BY <2>1, <2>3 DEF SolvInv, ReadIsBelieved, ConfirmedIsNamed, KeptIsRight, SolverGetsConfirmed
<1>8. CASE Refresh \/ RefreshSolv \/ Truncate \/ WriteState
  <2> DEFINE c == sub.valid
  <2> DEFINE g == store[c]
  <2>1. /\ sub.pc \in {"refresh", "refreshSolv", "note", "noting"} /\ UNCHANGED <<relabelled, mixed>>
        /\ sub'.pc \in {"refreshSolv", "note", "noting", "read"}
        /\ sub'.valid = c /\ sub'.etag = sub.etag /\ sub'.confirmed = sub.confirmed
    BY <1>8, ZenonT(60) DEF Refresh, RefreshSolv, Truncate, WriteState, Typed, Subs
  <2>2. c \in WritableCaches /\ c \in Caches /\ g \in Files
    BY <2>1, SubdirConstants DEF IndexInv, NotedIsRight, Typed
  <2>3. c \notin relabelled \cup mixed /\ g.solv # Absent /\ g.newer => g.solv >= g.origin
    BY <2>2 DEF SolvInv, SolvIsRight
  <2>4. CASE Refresh
    <3> DEFINE f == [g EXCEPT !.json = g.json, !.young = TRUE, !.newer = FALSE, !.agrees = FALSE]
    <3>1. store' = [store EXCEPT ![c] = f]
      BY <2>2, <2>4, WroteIs DEF Refresh, Files
    <3>2. f \in Files /\ ~f.newer /\ f.solv = g.solv /\ f.origin = g.origin
      BY <2>2 DEF Files
    <3> HIDE DEF f
    <3>3. SolvIsRight' /\ store'[c] = f
      BY <2>1, <2>2, <3>1, <3>2, SolvWritten
    <3>4. /\ sub.pc = "refresh" /\ sub'.pc = "refreshSolv" /\ sub'.solvOK = sub.solvOK
          /\ sub'.solvKept = (g.solv # Absent /\ g.newer)
      BY <2>4 DEF Refresh, Typed, Subs
    <3>5. KeptIsRight'
      BY <2>1, <2>3, <3>2, <3>3, <3>4 DEF SolvInv, KeptIsRight
    <3> QED BY <2>1, <3>3, <3>4, <3>5 DEF SolvInv, ReadIsBelieved, ConfirmedIsNamed, SolverGetsConfirmed
  <2>5. CASE RefreshSolv
    <3> DEFINE f == [g EXCEPT !.newer = sub.solvKept]
    <3>1. /\ sub.pc = "refreshSolv" /\ sub'.pc = "note" /\ sub'.solvOK = sub.solvKept
          /\ sub.solvKept \in BOOLEAN
      BY <2>5 DEF RefreshSolv, Typed, Subs
    <3>2. store' = [store EXCEPT ![c] = f]
      BY <2>2, <2>5 DEF RefreshSolv, Typed
    <3>3. f \in Files /\ f.newer = sub.solvKept /\ f.solv = g.solv /\ f.origin = g.origin
      BY <2>2, <3>1 DEF Files
    <3> HIDE DEF f
    <3>4. c \notin relabelled \cup mixed /\ f.solv # Absent /\ f.newer => f.solv >= f.origin
      BY <3>1, <3>3 DEF SolvInv, KeptIsRight
    <3>5. SolvIsRight' /\ store'[c] = f
      BY <2>1, <2>2, <3>2, <3>3, <3>4, SolvWritten
    <3>6. KeptIsRight'
      BY <2>1, <3>1, <3>3, <3>5 DEF KeptIsRight
    <3> QED BY <2>1, <3>1, <3>5, <3>6 DEF SolvInv, ReadIsBelieved, ConfirmedIsNamed, SolverGetsConfirmed
  <2>6. CASE Truncate
    <3> DEFINE f == [g EXCEPT !.note = "torn"]
    <3>1. sub.pc = "note" /\ sub'.pc = "noting" /\ sub'.solvOK = sub.solvOK
      BY <2>6 DEF Truncate, Typed, Subs
    <3>2. store' = [store EXCEPT ![c] = f]
      BY <2>2, <2>6 DEF Truncate, Typed
    <3>3. f \in Files /\ f.newer = g.newer /\ f.solv = g.solv /\ f.origin = g.origin
      BY <2>2 DEF Files
    <3> HIDE DEF f
    <3>4. SolvIsRight' /\ store'[c] = f
      BY <2>1, <2>2, <2>3, <3>2, <3>3, SolvWritten, ZenonT(60)
    <3>5. KeptIsRight'
      BY <2>1, <3>1, <3>3, <3>4 DEF SolvInv, KeptIsRight
    <3> QED BY <2>1, <3>1, <3>4, <3>5 DEF SolvInv, ReadIsBelieved, ConfirmedIsNamed, SolverGetsConfirmed
  <2>7. CASE WriteState
    <3> DEFINE f == [g EXCEPT !.note = "whole", !.etag = sub.etag, !.agrees = TRUE]
    <3>1. sub.pc = "noting" /\ sub'.pc = "read" /\ sub'.solvOK = sub.solvOK
          /\ sub.etag \in Versions \cup {NoEtag}
      BY <2>7 DEF WriteState, Typed, Subs
    <3>2. store' = [store EXCEPT ![c] = f]
      BY <2>2, <2>7 DEF WriteState, Typed
    <3>3. /\ f \in Files /\ f.newer = g.newer /\ f.solv = g.solv /\ f.origin = g.origin
          /\ f.note = "whole" /\ f.etag = sub.etag /\ f.agrees
      BY <2>2, <3>1 DEF Files
    <3> HIDE DEF f
    <3>8. c \notin relabelled \cup mixed /\ f.solv # Absent /\ f.newer => f.solv >= f.origin
      BY <2>3, <3>3
    <3>4. SolvIsRight' /\ store'[c] = f
      BY <2>1, <2>2, <3>2, <3>3, <3>8, SolvWritten
    <3>5. KeptIsRight'
      BY <2>1, <3>1, <3>3, <3>4 DEF SolvInv, KeptIsRight
    <3>6. ReadIsBelieved' /\ ConfirmedIsNamed'
      BY <2>1, <2>2, <3>1, <3>3, <3>4 DEF SolvInv, ReadIsBelieved, ConfirmedIsNamed, Believed, Agrees
    <3> QED BY <2>1, <3>1, <3>4, <3>5, <3>6 DEF SolvInv, SolverGetsConfirmed
  <2> QED BY <1>8, <2>4, <2>5, <2>6, <2>7
<1>9. CASE ReadSolv
  <2> DEFINE c == sub.valid
  <2>1. /\ sub.pc = "read" /\ sub'.pc = "loaded" /\ UNCHANGED <<store, relabelled, mixed>>
        /\ sub'.valid = c /\ sub'.confirmed = sub.confirmed /\ sub'.got = store[c].solv
        /\ sub.solvOK /\ store[c].solv # Absent /\ store[c].origin = sub.etag
        /\ sub.confirmed \in Versions \cup {Absent}
    BY <1>9 DEF ReadSolv, UsableSolv, Typed, Subs
  <2>2. SolvIsRight'
    BY <2>1, SameSolv
  <2>3. c \in Caches /\ store[c].solv \in Versions \cup {Absent}
    BY <2>1 DEF IndexInv, FoundIsThere, Typed, Files
  <2>4. sub'.got \in Nat
    BY <2>1, <2>3, VersionsAreNumbers DEF Absent
  <2>5. CASE sub.confirmed = Absent
    BY <2>1, <2>2, <2>4, <2>5 DEF SolvInv, ReadIsBelieved, ConfirmedIsNamed, KeptIsRight,
       SolverGetsConfirmed, Absent
  <2>6. CASE sub.confirmed # Absent
    <3>1. c \notin relabelled \cup mixed => store[c].solv >= sub.confirmed
      BY <2>1, <2>3, <2>6 DEF SolvInv, SolvIsRight, ConfirmedIsNamed, KeptIsRight
    <3> QED BY <2>1, <2>2, <3>1 DEF SolvInv, ReadIsBelieved, ConfirmedIsNamed, KeptIsRight,
               SolverGetsConfirmed
  <2> QED BY <2>5, <2>6
<1>10. CASE ReadJson
  <2> DEFINE c == sub.valid
  <2> DEFINE f == [store[Home] EXCEPT !.solv = store[c].json, !.origin = sub.etag, !.newer = TRUE]
  <2>1. /\ sub.pc = "read" /\ sub'.pc = "loaded" /\ UNCHANGED relabelled
        /\ sub'.valid = c /\ sub'.confirmed = sub.confirmed /\ sub'.got = store[c].json
        /\ store[c].json \in Versions /\ sub.confirmed \in Versions \cup {Absent}
        /\ sub.etag \in Versions \cup {NoEtag}
        /\ mixed' = IF store[c].etag = sub.etag /\ c \notin relabelled
                    THEN mixed \ {Home} ELSE mixed \cup {Home}
    BY <1>10 DEF ReadJson, Typed, Subs
  <2>2. c \in Caches /\ Believed(c)
    BY <2>1 DEF IndexInv, FoundIsThere, SolvInv, ReadIsBelieved
  <2>3. c \notin relabelled => store[c].json >= store[c].etag
    <3>1. store[c].json # Broken
      BY <2>1, VersionsAreNumbers DEF Broken
    <3> QED BY <2>2, <3>1 DEF IndexInv, EtagNamesIndex
  <2>4. store' = [store EXCEPT ![Home] = f]
    BY <1>10, HomeIsWritable DEF ReadJson, Typed
  <2>5. f \in Files /\ f.solv = store[c].json /\ f.origin = sub.etag
    BY <2>1, HomeIsWritable DEF Typed, Files
  <2> HIDE DEF f
  <2>6. Home \notin mixed' => f.solv >= f.origin
    BY <2>1, <2>3, <2>5
  <2>7. mixed \subseteq mixed' \cup {Home} /\ mixed' \subseteq mixed \cup {Home}
    BY <2>1
  <2>8. SolvIsRight'
    BY <2>1, <2>4, <2>5, <2>6, <2>7, HomeIsWritable, SolvWritten
  <2>9. c \notin relabelled => store[c].json >= sub.confirmed
    <3>1. CASE sub.confirmed = Absent
      BY <2>1, <3>1, VersionsAreNumbers DEF Absent
    <3>2. CASE sub.confirmed # Absent
      <4>1. store[c].etag = sub.confirmed
        BY <2>1, <3>2 DEF SolvInv, ConfirmedIsNamed
      <4> QED BY <2>3, <4>1
    <3> QED BY <3>1, <3>2
  <2> QED BY <2>1, <2>8, <2>9 DEF SolvInv, ReadIsBelieved, ConfirmedIsNamed, KeptIsRight,
             SolverGetsConfirmed
<1>11. ASSUME NEW b \in BOOLEAN, sub' = Fresh(b), UNCHANGED <<store, relabelled, mixed>> PROVE SolvInv'
  <2>1. sub'.pc = "scan" /\ ~sub'.jsonOK /\ ~sub'.solvOK /\ sub'.confirmed = Absent
    BY <1>11 DEF Fresh
  <2>2. SolvIsRight'
    BY <1>11, SameSolv
  <2> QED BY <2>1, <2>2 DEF SolvInv, ReadIsBelieved, ConfirmedIsNamed, KeptIsRight, SolverGetsConfirmed
<1>12. ASSUME sub'.pc \in {"ended", "idle"}, UNCHANGED <<store, relabelled, mixed>> PROVE SolvInv'
  <2>1. SolvIsRight'
    BY <1>12, SameSolv
  <2> QED BY <1>12, <2>1 DEF SolvInv, ReadIsBelieved, ConfirmedIsNamed, KeptIsRight, SolverGetsConfirmed
<1>13. CASE ReadFails
  <2>1. UNCHANGED <<store, relabelled, mixed>>
    BY <1>13 DEF ReadFails, Cleared
  <2>2. CASE sub' = [sub EXCEPT !.pc = "ended"]
    <3>1. sub'.pc = "ended"
      BY <2>2 DEF Typed, Subs
    <3> QED BY <1>12, <2>1, <3>1
  <2>3. CASE sub' = Fresh(TRUE)
    BY <1>11, <2>1, <2>3
  <2> QED BY <1>13, <2>2, <2>3 DEF ReadFails
<1>14. CASE Create
  BY <1>11, <1>14 DEF Create
<1>15. CASE EndOfProcess
  <2>1. sub'.pc = "idle" /\ UNCHANGED <<store, relabelled, mixed>>
    BY <1>15 DEF EndOfProcess, NotRunning, Fresh
  <2> QED BY <1>12, <2>1
<1>16. CASE Publish \/ UNCHANGED subdirVars
  <2>1. UNCHANGED <<store, relabelled, mixed, sub>>
    BY <1>16 DEF Publish, subdirVars
  <2>2. SolvIsRight'
    BY <2>1, SameSolv
  <2> QED BY <2>1, <2>2 DEF SolvInv, ReadIsBelieved, ConfirmedIsNamed, KeptIsRight,
             SolverGetsConfirmed, Believed, Agrees
<1>17. ASSUME NEW c \in Caches, GrowsOld(c) PROVE SolvInv'
  <2>1. UNCHANGED <<sub, relabelled, mixed>>
    BY <1>17 DEF GrowsOld
  <2>2. \A d \in Caches : /\ store'[d].json = store[d].json /\ store'[d].etag = store[d].etag
                          /\ store'[d].note = store[d].note /\ store'[d].agrees = store[d].agrees
                          /\ store'[d].solv = store[d].solv /\ store'[d].origin = store[d].origin
                          /\ store'[d].newer = store[d].newer
    BY <1>17 DEF GrowsOld, Typed, Files
  <2>3. SolvIsRight'
    BY <2>1, <2>2 DEF SolvInv, SolvIsRight
  <2>4. sub.pc \in {"refreshSolv", "note", "noting", "read"} \/ (sub.pc = "scan" /\ sub.jsonOK) =>
           sub.valid \in Caches
    BY SubdirConstants DEF IndexInv, NotedIsRight, FoundIsThere
  <2>5. ReadIsBelieved' /\ ConfirmedIsNamed' /\ KeptIsRight'
    BY <2>1, <2>2, <2>4 DEF SolvInv, ReadIsBelieved, ConfirmedIsNamed, KeptIsRight, Believed, Agrees
  <2> QED BY <2>1, <2>3, <2>5 DEF SolvInv, SolverGetsConfirmed
<1>18. ASSUME NEW c \in Caches, OtherUser(c) PROVE SolvInv'
  <2>1. UNCHANGED <<sub, relabelled, mixed>> /\ c \notin WritableCaches
    BY <1>18 DEF OtherUser
  <2>2. \A d \in Caches \ {c} : store'[d] = store[d]
    BY <1>18 DEF OtherUser, Typed
  <2>3. /\ store'[c].solv = store'[c].origin /\ store'[c].solv \in {Absent, published}
        /\ store'[c].note = "whole" /\ store'[c].agrees
    BY <1>18 DEF OtherUser, Typed, FirstIndex, NoFiles
  <2>4. store'[c].solv >= store'[c].origin
    BY <2>3, VersionsAreNumbers DEF Typed, Absent
  <2>5. SolvIsRight'
    BY <2>1, <2>2, <2>4 DEF SolvInv, SolvIsRight
  <2>6. ReadIsBelieved'
    BY <2>1, <2>2, <2>3 DEF IndexInv, FoundIsThere, SolvInv, ReadIsBelieved, Believed, Agrees
  <2>7. sub.pc \in {"refreshSolv", "note", "noting"} \/ (sub.pc = "read" /\ sub.confirmed # Absent) =>
           sub.valid \in WritableCaches /\ sub.valid \in Caches
    BY SubdirConstants DEF IndexInv, NotedIsRight, SolvInv, ConfirmedIsNamed
  <2>8. ConfirmedIsNamed' /\ KeptIsRight'
    BY <2>1, <2>2, <2>7 DEF SolvInv, ConfirmedIsNamed, KeptIsRight
  <2> QED BY <2>1, <2>5, <2>6, <2>8 DEF SolvInv, SolverGetsConfirmed
<1> QED BY <1>1, <1>2, <1>3, <1>4, <1>5, <1>6, <1>7, <1>8, <1>9, <1>10, <1>13, <1>14, <1>15, <1>16,
        <1>17, <1>18 DEF SubdirNext

-----------------------------------------------------------------------------
\* Every variable of SubdirIndex keeps its type, for any caches.
THEOREM SubdirTyped == SubdirSpec => []SubdirTypeOK
<1>1. SubdirInit => Typed /\ IndexInv
  BY TypedInit, IndexInit
<1>2. Typed /\ IndexInv /\ [SubdirNext]_subdirVars => (Typed /\ IndexInv)'
  BY TypedNext, IndexNext
<1> QED BY <1>1, <1>2, TypedIsType, PTL DEF SubdirSpec

\* What an earlier process left, wherever it ended, is believed only if it is
\* the version its etag names or a later one, and the solver is given what the
\* server has confirmed, or newer (SubdirMetadata::read and write,
\* use_existing_cache, load_subdir_in_database), but for the files relabelled
\* and the serialized forms mixed up.
THEOREM IndexesAreTrusted == SubdirSpec => []IndexIsTrusted
<1>1. SubdirInit => Typed /\ IndexInv /\ SolvInv
  BY TypedInit, IndexInit, SolvInit
<1>2. Typed /\ IndexInv /\ SolvInv /\ [SubdirNext]_subdirVars => (Typed /\ IndexInv /\ SolvInv)'
  BY TypedNext, IndexNext, SolvNext
<1>3. Typed /\ IndexInv /\ SolvInv => IndexIsTrusted
  BY TypedIsType DEF IndexInv, SolvInv, IndexIsTrusted
<1> QED BY <1>1, <1>2, <1>3, PTL DEF SubdirSpec

-----------------------------------------------------------------------------
(* Transaction.  TransactionTyped is TypeOK and where an operation may be    *)
(* under way: without the latter EndOp would not say what becomes of the     *)
(* stacks.  The other parts are about the memory of the cache, and need that *)
(* no two packages of the solution share a key.                              *)

Relevant == ToInstall \cup Range(Unlinks)

\* No two packages that are installed or removed have the same name, version
\* and build.
KeysApart == \A p, q \in Relevant : Str[p] = Str[q] => p = q

TransactionTyped ==
    /\ TypeOK
    /\ op # NoOp => phase \in {"unlinking", "linking", "undoLinks", "undoUnlinks", "threw"}

\* The stacks fill one operation at a time, and no further than the solution.
Progress ==
    /\ phase \in {"begin", "fetching"} => unlinked = <<>>
    /\ phase \in {"begin", "fetching", "unlinking"} => linked = <<>>
    /\ phase = "unlinking" => IF op = NoOp THEN Len(unlinked) <= Len(Unlinks)
                              ELSE Len(unlinked) < Len(Unlinks)
    /\ phase = "linking" => IF op = NoOp THEN Len(linked) <= Len(Links)
                            ELSE Len(linked) < Len(Links)

\* Before the fetch nothing is remembered ...
NothingYet ==
    phase = "begin" => /\ memo = [k \in Keys |-> "unknown"]
                       /\ found = {}

\* ... and what is to be extracted is forgotten.
NeedForgotten ==
    phase = "fetching" =>
        \A p \in need : memo[Str[p]] = "unknown" /\ Str[p] \notin found

\* A yes is about the package that has been asked for.
YesIsRight ==
    \A p \in Relevant : Str[p] \in found \/ memo[Str[p]] = "yes" => content[Str[p]] = p

\* What the rollback will ask of the cache.
StackIsRight ==
    /\ op # NoOp /\ phase = "unlinking" => op.pkg \in Relevant
    /\ \A i \in DOMAIN unlinked : /\ unlinked[i].pkg \in Relevant
                                  /\ unlinked[i].cached => Str[unlinked[i].pkg] \in found

\* What needs no extraction any more is there, and no answer no is about it.
NoNoIsLeft ==
    phase \in {"fetching", "unlinking", "linking"} =>
        \A p \in ToInstall \ need : /\ content[Str[p]] = p
                                    /\ Str[p] \in found \/ memo[Str[p]] # "no"

CacheIsRight ==
    NothingYet /\ NeedForgotten /\ YesIsRight /\ StackIsRight /\ NoNoIsLeft /\ LinkedFromItsOwn

-----------------------------------------------------------------------------
LEMMA SolutionTyped ==
    /\ Unlinks \in Seq(Packages) /\ Links \in Seq(Packages)
    /\ ToInstall \subseteq Packages /\ Relevant \subseteq Packages
    /\ \A i \in 1 .. Len(Unlinks) : Unlinks[i] \in Relevant
    /\ \A i \in 1 .. Len(Links) : Links[i] \in ToInstall
BY TransactionConstants DEF TransactionConstants, ToInstall, Relevant, Range

LEMMA KeyOf == \A p \in Packages : Str[p] \in Keys
BY DEF Keys

LEMMA FrontTyped ==
    ASSUME NEW S, NEW s \in Seq(S)
    PROVE  /\ Front(s) \in Seq(S)
           /\ \A i \in DOMAIN Front(s) : i \in DOMAIN s /\ Front(s)[i] = s[i]
BY DEF Front

LEMMA LastTyped ==
    ASSUME NEW S, NEW s \in Seq(S), s # <<>>
    PROVE  Last(s) \in S /\ \E i \in DOMAIN s : Last(s) = s[i]
BY DEF Last

LEMMA AppendTyped ==
    ASSUME NEW S, NEW s \in Seq(S), NEW e \in S
    PROVE  Append(s, e) \in Seq(S)
OBVIOUS

LEMMA AppendFacts ==
    ASSUME NEW S, NEW s \in Seq(S), NEW e \in S
    PROVE  /\ Len(Append(s, e)) = Len(s) + 1
           /\ DOMAIN Append(s, e) = 1 .. (Len(s) + 1)
           /\ \A i \in 1 .. Len(s) : Append(s, e)[i] = s[i]
           /\ Append(s, e)[Len(s) + 1] = e
OBVIOUS

LEMMA ElementTyped ==
    ASSUME NEW S, NEW s \in Seq(S), NEW i \in DOMAIN s
    PROVE  s[i] \in S
OBVIOUS

LEMMA FilesTyped ==
    /\ FilesAtStart \in [Paths -> Packages \cup {None}]
    /\ RecordsAtStart \in [Keys -> Packages \cup {None}]
BY TransactionConstants DEF TransactionConstants, FilesAtStart, RecordsAtStart

LEMMA StartUnlinkTyped ==
    ASSUME TransactionTyped, NEW p \in Packages, StartUnlink(p)
    PROVE  op' \in [kind : {"link", "unlink"}, pkg : Packages, left : SUBSET Paths]
<1>1. records[Str[p]] \in Packages BY KeyOf DEF TransactionTyped, TypeOK, StartUnlink
<1>2. PathsOf[records[Str[p]]] \in SUBSET Paths
  BY <1>1, TransactionConstants DEF TransactionConstants
<1> QED BY <1>2 DEF StartUnlink

LEMMA StartLinkTyped ==
    ASSUME TransactionTyped, NEW p \in Packages, StartLink(p)
    PROVE  op' \in [kind : {"link", "unlink"}, pkg : Packages, left : SUBSET Paths]
<1>1. content[Str[p]] \in Packages BY KeyOf DEF TransactionTyped, TypeOK, StartLink
<1>2. PathsOf[content[Str[p]]] \in SUBSET Paths
  BY <1>1, TransactionConstants DEF TransactionConstants
<1> QED BY <1>2 DEF StartLink

LEMMA RememberTyped ==
    ASSUME TransactionTyped, NEW p \in Packages, Remember(p)
    PROVE  /\ memo' \in [Keys -> {"unknown", "yes", "no"}] /\ found' \subseteq Keys
           /\ content' = content /\ need' = need
BY KeyOf DEF Remember, TransactionTyped, TypeOK, FoundKey

LEMMA ExtractedTyped ==
    ASSUME TransactionTyped, NEW S \in SUBSET need
    PROVE  Extracted(S) \in [Keys -> Packages \cup {None}]
BY SolutionTyped DEF TransactionTyped, TypeOK, Extracted

-----------------------------------------------------------------------------
LEMMA TransactionTypedInit == Init => TransactionTyped
<1>1. SUFFICES ASSUME Init PROVE TransactionTyped OBVIOUS
<1>2. unlinked \in Seq([pkg : Packages, cached : BOOLEAN]) /\ linked \in Seq(Packages)
  BY <1>1 DEF Init
<1> QED BY <1>1, <1>2, FilesTyped DEF Init, TransactionTyped, TypeOK, Phases

LEMMA ProgressInit == Init => Progress
BY DEF Init, Progress

LEMMA TransactionTypedNext == TransactionTyped /\ Progress /\ [Next]_vars => TransactionTyped'
<1>1. SUFFICES ASSUME TransactionTyped, Progress, [Next]_vars PROVE TransactionTyped' OBVIOUS
<1> USE <1>1
<1> DEFINE Ops == [kind : {"link", "unlink"}, pkg : Packages, left : SUBSET Paths]
<1>2. CASE Begin
  <2>1. CASE options = "dry_run"
    BY <1>2, <2>1 DEF Begin, TransactionTyped, TypeOK, cache, prefix, stacks, Phases
  <2>2. CASE options # "dry_run"
    <3>1. need' \subseteq ToInstall BY <1>2, <2>2 DEF Begin
    <3>2. found' \subseteq Keys
      BY <1>2, <2>2, SolutionTyped, KeyOf DEF Begin, TransactionTyped, TypeOK, FoundKey
    <3>3. memo' \in [Keys -> {"unknown", "yes", "no"}]
      BY <1>2, <2>2 DEF Begin, TransactionTyped, TypeOK
    <3> QED BY <1>2, <2>2, <3>1, <3>2, <3>3 DEF Begin, TransactionTyped, TypeOK, prefix, stacks, Phases
  <2> QED BY <2>1, <2>2
<1>3. CASE Fetched
  <2>1. content' \in [Keys -> Packages \cup {None}]
    BY <1>3, ExtractedTyped DEF Fetched
  <2> QED BY <1>3, <2>1 DEF Fetched, AfterFetch, TransactionTyped, TypeOK, prefix, stacks, Phases
<1>4. CASE FetchInterrupted
  <2>1. content' \in [Keys -> Packages \cup {None}]
    BY <1>4, ExtractedTyped DEF FetchInterrupted
  <2>2. need' \subseteq ToInstall BY <1>4 DEF FetchInterrupted, TransactionTyped, TypeOK
  <2> QED BY <1>4, <2>1, <2>2 DEF FetchInterrupted, AfterFetch, TransactionTyped, TypeOK, prefix, stacks, Phases
<1>5. CASE Unlink
  <2>1. CASE interrupted \/ Len(unlinked) = Len(Unlinks)
    BY <1>5, <2>1 DEF Unlink, Goto, TransactionTyped, TypeOK, cache, prefix, stacks, Phases
  <2>2. CASE ~(interrupted \/ Len(unlinked) = Len(Unlinks))
    <3> DEFINE p == Unlinks[Len(unlinked) + 1]
    <3>1. Remember(p) BY <1>5, <2>2 DEF Unlink
    <3>2. p \in Packages
      BY <1>5, <2>2, SolutionTyped DEF Unlink, Progress, TransactionTyped, TypeOK
    <3> HIDE DEF p
    <3>3. CASE StartUnlink(p) /\ UNCHANGED phase
      <4>1. op' \in Ops BY <3>2, <3>3, StartUnlinkTyped
      <4> QED BY <1>5, <3>1, <3>2, <3>3, <4>1, RememberTyped
              DEF Unlink, TransactionTyped, TypeOK, prefix, stacks
    <3>4. CASE phase' = "threw" /\ UNCHANGED op
      BY <1>5, <3>1, <3>2, <3>4, RememberTyped DEF Unlink, TransactionTyped, TypeOK, prefix, stacks, Phases
    <3> QED BY <1>5, <2>2, <3>3, <3>4 DEF Unlink, p
  <2> QED BY <2>1, <2>2
<1>6. CASE Link
  <2>1. CASE interrupted \/ Len(linked) = Len(Links)
    BY <1>6, <2>1 DEF Link, Goto, TransactionTyped, TypeOK, cache, prefix, stacks, Phases
  <2>2. CASE ~(interrupted \/ Len(linked) = Len(Links))
    <3> DEFINE p == Links[Len(linked) + 1]
    <3>1. Remember(p) BY <1>6, <2>2 DEF Link
    <3>2. p \in Packages
      BY <1>6, <2>2, SolutionTyped DEF Link, Progress, TransactionTyped, TypeOK
    <3> HIDE DEF p
    <3>3. CASE StartLink(p) /\ UNCHANGED phase
      <4>1. op' \in Ops BY <3>2, <3>3, StartLinkTyped
      <4> QED BY <1>6, <3>1, <3>2, <3>3, <4>1, RememberTyped
              DEF Link, TransactionTyped, TypeOK, prefix, stacks
    <3>4. CASE phase' = "threw" /\ UNCHANGED op
      BY <1>6, <3>1, <3>2, <3>4, RememberTyped DEF Link, TransactionTyped, TypeOK, prefix, stacks, Phases
    <3> QED BY <1>6, <2>2, <3>3, <3>4 DEF Link, p
  <2> QED BY <2>1, <2>2
<1>7. CASE NextPath
  <2>1. op \in Ops /\ op' \in Ops BY <1>7 DEF NextPath, TransactionTyped, TypeOK
  <2>2. files' \in [Paths -> Packages \cup {None}]
    BY <1>7, <2>1, KeyOf DEF NextPath, TransactionTyped, TypeOK, LinkedPath, UnlinkedPath
  <2> QED BY <1>7, <2>1, <2>2 DEF NextPath, TransactionTyped, TypeOK, cache, stacks
<1>8. CASE EndOp
  <2>1. op \in Ops BY <1>8 DEF EndOp, TransactionTyped, TypeOK
  <2>2. records' \in [Keys -> Packages \cup {None}]
    BY <1>8, <2>1, KeyOf DEF EndOp, TransactionTyped, TypeOK
  <2>3. unlinked' \in Seq([pkg : Packages, cached : BOOLEAN]) /\ linked' \in Seq(Packages)
    <3>1. [pkg |-> op.pkg, cached |-> FoundKey(op.pkg) \in found]
            \in [pkg : Packages, cached : BOOLEAN]
      BY <2>1
    <3>2. CASE phase = "unlinking"
      <4>1. unlinked' = Append(unlinked, [pkg |-> op.pkg, cached |-> FoundKey(op.pkg) \in found])
            /\ linked' = linked
        BY <1>8, <3>2 DEF EndOp
      <4> QED BY <3>1, <4>1, AppendTyped DEF TransactionTyped, TypeOK
    <3>3. CASE phase = "linking"
      <4>1. linked' = Append(linked, op.pkg) /\ unlinked' = unlinked BY <1>8, <3>3 DEF EndOp
      <4>2. op.pkg \in Packages BY <2>1
      <4> QED BY <4>1, <4>2, AppendTyped DEF TransactionTyped, TypeOK
    <3>4. CASE phase = "undoLinks" BY <1>8, <3>4, FrontTyped DEF EndOp, TransactionTyped, TypeOK
    <3>5. CASE phase = "undoUnlinks" BY <1>8, <3>5, FrontTyped DEF EndOp, TransactionTyped, TypeOK
    <3> QED BY <1>8, <3>2, <3>3, <3>4, <3>5 DEF EndOp, Ended, TransactionTyped
  <2> QED BY <1>8, <2>2, <2>3 DEF EndOp, TransactionTyped, TypeOK, cache
<1>9. CASE AllLinked
  BY <1>9 DEF AllLinked, Goto, TransactionTyped, TypeOK, cache, prefix, stacks, Phases
<1>10. CASE Finish
  <2>1. entry' \in [unlinked : SUBSET Packages, linked : SUBSET Packages]
    <3>1. ASSUME NEW i \in DOMAIN unlinked PROVE unlinked[i].pkg \in Packages
      <4>1. unlinked[i] \in [pkg : Packages, cached : BOOLEAN]
        BY ElementTyped DEF TransactionTyped, TypeOK
      <4> QED BY <4>1
    <3>2. Range(linked) \subseteq Packages BY DEF TransactionTyped, TypeOK, Range
    <3> QED BY <1>10, <3>1, <3>2 DEF Finish
  <2> QED BY <1>10, <2>1 DEF Finish, Goto, TransactionTyped, TypeOK, cache, prefix, stacks, Phases
<1>11. CASE UndoLinks
  <2>1. CASE Undone(linked)
    BY <1>11, <2>1 DEF UndoLinks, Goto, TransactionTyped, TypeOK, cache, prefix, stacks, Phases
  <2>2. CASE ~Undone(linked)
    <3>1. Last(linked) \in Packages BY <2>2, LastTyped DEF Undone, TransactionTyped, TypeOK
    <3>2. op' \in Ops BY <1>11, <2>2, <3>1, StartUnlinkTyped DEF UndoLinks
    <3> QED BY <1>11, <2>2, <3>2 DEF UndoLinks, TransactionTyped, TypeOK, cache, prefix, stacks
  <2> QED BY <2>1, <2>2
<1>12. CASE UndoUnlinks
  <2>1. CASE Undone(unlinked) \/ ~Last(unlinked).cached
    BY <1>12, <2>1 DEF UndoUnlinks, Goto, TransactionTyped, TypeOK, cache, prefix, stacks, Phases
  <2>2. CASE ~(Undone(unlinked) \/ ~Last(unlinked).cached)
    <3>1. Last(unlinked) \in [pkg : Packages, cached : BOOLEAN]
      BY <2>2, LastTyped DEF Undone, TransactionTyped, TypeOK
    <3>2. op' \in Ops BY <1>12, <2>2, <3>1, StartLinkTyped DEF UndoUnlinks
    <3> QED BY <1>12, <2>2, <3>2 DEF UndoUnlinks, TransactionTyped, TypeOK, cache, prefix, stacks
  <2> QED BY <2>1, <2>2
<1>13. CASE Stop
  BY <1>13 DEF Stop, TransactionTyped, TypeOK, cache, prefix, stacks, Phases
<1>14. CASE Interrupt
  BY <1>14 DEF Interrupt, TransactionTyped, TypeOK, cache, prefix, stacks
<1>15. CASE UNCHANGED vars
  BY <1>15 DEF vars, TransactionTyped, TypeOK, cache, prefix, stacks
<1> QED BY <1>2, <1>3, <1>4, <1>5, <1>6, <1>7, <1>8, <1>9, <1>10, <1>11, <1>12, <1>13, <1>14,
        <1>15 DEF Next, Over

LEMMA ProgressNext == TransactionTyped /\ Progress /\ [Next]_vars => Progress'
<1>1. SUFFICES ASSUME TransactionTyped, Progress, [Next]_vars PROVE Progress' OBVIOUS
<1> USE <1>1 DEF Progress
<1>2. Len(Unlinks) \in Nat /\ Len(Links) \in Nat /\ Len(unlinked) \in Nat /\ Len(linked) \in Nat
  BY SolutionTyped DEF TransactionTyped, TypeOK
<1>3. CASE Begin \/ Fetched \/ FetchInterrupted
  BY <1>2, <1>3 DEF Begin, Fetched, FetchInterrupted, AfterFetch, stacks, TransactionTyped
<1>4. CASE Unlink BY <1>2, <1>4 DEF Unlink, Goto, StartUnlink, NoOp, stacks, TransactionTyped
<1>5. CASE Link BY <1>2, <1>5 DEF Link, Goto, StartLink, NoOp, stacks, TransactionTyped
<1>6. CASE NextPath
  <2>1. op' # NoOp BY <1>6 DEF NextPath, NoOp, TransactionTyped, TypeOK
  <2> QED BY <1>6, <2>1 DEF NextPath, stacks
<1>7. CASE EndOp
  <2>1. CASE phase = "unlinking"
    <3>1. \E e : unlinked' = Append(unlinked, e) BY <1>7, <2>1 DEF EndOp
    <3>2. Len(unlinked') = Len(unlinked) + 1 BY <3>1 DEF TransactionTyped, TypeOK
    <3> QED BY <1>2, <1>7, <2>1, <3>2 DEF EndOp
  <2>2. CASE phase = "linking"
    <3>1. \E e : linked' = Append(linked, e) BY <1>7, <2>2 DEF EndOp
    <3>2. Len(linked') = Len(linked) + 1 BY <3>1 DEF TransactionTyped, TypeOK
    <3> QED BY <1>2, <1>7, <2>2, <3>2 DEF EndOp
  <2>3. CASE phase \in {"undoLinks", "undoUnlinks"} BY <1>7, <2>3 DEF EndOp
  <2> QED BY <1>7, <2>1, <2>2, <2>3 DEF EndOp, Ended, TransactionTyped
<1>8. CASE AllLinked \/ Finish \/ UndoLinks \/ UndoUnlinks \/ Stop \/ Interrupt
  BY <1>8 DEF AllLinked, Finish, UndoLinks, UndoUnlinks, Stop, Interrupt, Goto, stacks
<1>9. CASE UNCHANGED vars BY <1>9 DEF vars, stacks
<1> QED BY <1>3, <1>4, <1>5, <1>6, <1>7, <1>8, <1>9 DEF Next, Over

\* Type correctness of the transaction for any packages and any solution, with
\* the path an operation is at and the stacks the rollback works through.
THEOREM TransactionTypeCorrect == Spec => []TypeOK
<1>1. Init => TransactionTyped /\ Progress BY TransactionTypedInit, ProgressInit
<1>2. TransactionTyped /\ Progress /\ [Next]_vars => TransactionTyped' /\ Progress' BY TransactionTypedNext, ProgressNext
<1>3. TransactionTyped => TypeOK BY DEF TransactionTyped
<1> QED BY <1>1, <1>2, <1>3, PTL DEF Spec

-----------------------------------------------------------------------------
(* The memory of the cache *)

\* Asking about one package of the solution says nothing wrong of another.
LEMMA RememberRight ==
    ASSUME KeysApart, TransactionTyped, YesIsRight, NoNoIsLeft, phase \in {"unlinking", "linking"},
           NEW p \in Relevant, Remember(p)
    PROVE  /\ \A q \in Relevant : Str[q] \in found' \/ memo'[Str[q]] = "yes" => content[Str[q]] = q
           /\ \A q \in ToInstall \ need : Str[q] \in found' \/ memo'[Str[q]] # "no"
           /\ found \subseteq found'
           /\ Held(p) => content[Str[p]] = p
<1>1. \A q \in Relevant : Str[q] \in Keys BY SolutionTyped, KeyOf
<1>2. \A q \in Relevant : Str[q] = Str[p] => q = p BY DEF KeysApart
<1>3. Held(p) => content[Str[p]] = p BY DEF Held, FoundKey, ValidDir, YesIsRight
<1>4. found' = IF Held(p) THEN found \cup {Str[p]} ELSE found BY DEF Remember, FoundKey
<1>5. ASSUME NEW k \in Keys PROVE memo'[k] = memo[k] \/ (k = Str[p] /\ memo'[k] =
             IF content[Str[p]] = p THEN "yes" ELSE "no")
  BY <1>1 DEF Remember, ValidDir, TransactionTyped, TypeOK
<1>6. ASSUME NEW q \in Relevant, Str[q] \in found' \/ memo'[Str[q]] = "yes"
      PROVE  content[Str[q]] = q
  <2>1. CASE q = p BY <1>1, <1>3, <1>4, <1>5, <1>6, <2>1 DEF YesIsRight
  <2>2. CASE q # p
    <3>1. Str[q] # Str[p] BY <1>2, <2>2
    <3> QED BY <1>1, <1>4, <1>5, <1>6, <3>1 DEF YesIsRight
  <2> QED BY <2>1, <2>2
<1>7. ASSUME NEW q \in ToInstall \ need PROVE Str[q] \in found' \/ memo'[Str[q]] # "no"
  <2>1. q \in Relevant BY DEF Relevant
  <2>2. content[Str[q]] = q /\ (Str[q] \in found \/ memo[Str[q]] # "no") BY DEF NoNoIsLeft
  <2>3. found \subseteq found' BY <1>4
  <2>4. CASE Str[q] = Str[p]
    <3>1. q = p BY <1>2, <2>1, <2>4
    <3> QED BY <1>1, <1>5, <2>1, <2>2, <2>3, <3>1
  <2>5. CASE Str[q] # Str[p] BY <1>1, <1>5, <2>1, <2>2, <2>3, <2>5
  <2> QED BY <2>4, <2>5
<1> QED BY <1>3, <1>4, <1>6, <1>7

LEMMA CacheInit == Init => CacheIsRight
<1>1. SUFFICES ASSUME Init PROVE CacheIsRight OBVIOUS
<1>2. \A p \in Relevant : memo[Str[p]] = "unknown" /\ found = {}
  BY <1>1, SolutionTyped, KeyOf DEF Init
<1> QED BY <1>1, <1>2 DEF Init, CacheIsRight, NothingYet, NeedForgotten, YesIsRight, StackIsRight,
        NoNoIsLeft, LinkedFromItsOwn, NoOp

LEMMA BeginKeepsCacheRight ==
    ASSUME KeysApart, TransactionTyped, Progress, CacheIsRight, Begin PROVE CacheIsRight'
<1> USE DEF CacheIsRight
<1>1. CASE options = "dry_run"
  BY <1>1 DEF Begin, cache, stacks, NothingYet, NeedForgotten, YesIsRight, StackIsRight, NoNoIsLeft,
     LinkedFromItsOwn
<1>2. CASE options # "dry_run"
  <2>1. phase = "begin" /\ phase' = "fetching" /\ content' = content /\ op' = op
        /\ unlinked' = unlinked
    BY <1>2 DEF Begin, stacks
  <2>2. \A p \in Relevant : Str[p] \in Keys /\ p \in Packages BY SolutionTyped, KeyOf
  <2>3. ToInstall \subseteq Relevant BY DEF Relevant
  <2>4. need' = {p \in ToInstall : content[Str[p]] # p}
    <3>1. \A p \in ToInstall : Held(p) <=> content[Str[p]] = p
      BY <2>1, <2>2, <2>3 DEF Held, FoundKey, ValidDir, NothingYet
    <3> QED BY <1>2, <3>1 DEF Begin
  <2>5. found' = {Str[p] : p \in ToInstall \ need'}
    BY <1>2, <2>1 DEF Begin, NothingYet, FoundKey
  <2>6. memo' = [k \in Keys |->
                   IF \E p \in need' : Str[p] = k THEN "unknown"
                   ELSE IF \E p \in ToInstall : Str[p] = k THEN "yes" ELSE "unknown"]
    <3>1. memo' = [k \in Keys |->
                    IF k \in {Str[p] : p \in need'} THEN "unknown"
                    ELSE IF \E p \in ToInstall : Str[p] = k
                    THEN IF \E p \in need' : Str[p] = k THEN "no" ELSE "yes"
                    ELSE memo[k]]
      BY <1>2 DEF Begin, Forgotten
    <3>2. \A k \in Keys : memo[k] = "unknown" BY <2>1 DEF NothingYet
    <3> QED BY <3>1, <3>2
  <2>7. NeedForgotten'
    <3>1. ASSUME NEW p \in need' PROVE memo'[Str[p]] = "unknown" /\ Str[p] \notin found'
      <4>1. p \in Relevant BY <2>3, <2>4
      <4>2. memo'[Str[p]] = "unknown" BY <2>2, <2>6, <4>1
      <4>3. \A q \in ToInstall : Str[q] = Str[p] => q = p BY <2>3, <4>1 DEF KeysApart
      <4> QED BY <2>5, <4>2, <4>3
    <3> QED BY <3>1 DEF NeedForgotten
  <2>8. YesIsRight'
    <3>1. ASSUME NEW p \in Relevant, Str[p] \in found' \/ memo'[Str[p]] = "yes"
          PROVE  content[Str[p]] = p
      <4>1. \E q \in ToInstall \ need' : Str[q] = Str[p]
        BY <2>2, <2>5, <2>6, <3>1
      <4>2. p \in ToInstall \ need' BY <2>3, <4>1 DEF KeysApart
      <4> QED BY <2>4, <4>2
    <3> QED BY <2>1, <3>1 DEF YesIsRight
  <2>9. NoNoIsLeft'
    <3>1. \A p \in ToInstall \ need' : content[Str[p]] = p /\ Str[p] \in found' BY <2>4, <2>5
    <3> QED BY <2>1, <3>1 DEF NoNoIsLeft
  <2>10. StackIsRight' BY <2>1 DEF Progress, StackIsRight
  <2> QED BY <2>1, <2>7, <2>8, <2>9, <2>10 DEF NothingYet, LinkedFromItsOwn
<1> QED BY <1>1, <1>2

\* What comes of any number of the extractions that were needed.
LEMMA ExtractionKeepsCacheRight ==
    ASSUME KeysApart, TransactionTyped, Progress, CacheIsRight, phase = "fetching",
           NEW S \in SUBSET need, content' = Extracted(S), need' = need \ S, phase' = AfterFetch,
           UNCHANGED <<memo, found, op, unlinked>>
    PROVE  CacheIsRight'
<1> USE DEF CacheIsRight
<1>1. need \subseteq Relevant /\ ToInstall \subseteq Relevant BY DEF TransactionTyped, TypeOK, Relevant
<1>2. \A p \in Relevant : Str[p] \in Keys BY SolutionTyped, KeyOf
<1>3. ASSUME NEW p \in Relevant PROVE content'[Str[p]] = IF p \in S THEN p ELSE content[Str[p]]
  <2>1. \A q \in S : Str[q] = Str[p] => q = p BY <1>1 DEF KeysApart
  <2>2. CASE p \in S
    <3>1. (CHOOSE q \in S : Str[q] = Str[p]) = p BY <2>1, <2>2
    <3> QED BY <1>2, <2>2, <3>1 DEF Extracted
  <2>3. CASE p \notin S
    <3>1. ~ \E q \in S : Str[q] = Str[p] BY <2>1, <2>3
    <3> QED BY <1>2, <2>3, <3>1 DEF Extracted
  <2> QED BY <2>2, <2>3
<1>4. op = NoOp /\ op' = NoOp BY DEF TransactionTyped
<1>5. YesIsRight' BY <1>3 DEF YesIsRight
<1>6. NoNoIsLeft'
  <2>1. ASSUME NEW p \in ToInstall \ need'
        PROVE  content'[Str[p]] = p /\ (Str[p] \in found \/ memo[Str[p]] # "no")
    <3>1. p \in Relevant BY <1>1
    <3>2. CASE p \in S BY <1>3, <3>1, <3>2 DEF NeedForgotten
    <3>3. CASE p \notin S BY <1>3, <3>1, <3>3 DEF NoNoIsLeft
    <3> QED BY <3>2, <3>3
  <2> QED BY <2>1 DEF NoNoIsLeft
<1>7. StackIsRight' BY <1>4 DEF StackIsRight
<1>8. phase' \notin {"begin", "fetching"} BY DEF AfterFetch
<1> QED BY <1>4, <1>5, <1>6, <1>7, <1>8 DEF NothingYet, NeedForgotten, LinkedFromItsOwn, NoOp

\* A package is unlinked or linked next, or the loop is left, after the cache
\* has been asked.
LEMMA AskingKeepsCacheRight ==
    ASSUME KeysApart, TransactionTyped, CacheIsRight, phase \in {"unlinking", "linking"},
           NEW p \in Relevant, Remember(p), phase' \in {phase, "threw"}, unlinked' = unlinked,
           op' = op \/ op'.pkg = p, op'.kind = "link" /\ op' # op => Held(p)
    PROVE  CacheIsRight'
<1> USE DEF CacheIsRight
<1>1. content' = content /\ need' = need /\ found \subseteq found'
  BY RememberRight DEF Remember
<1>2. YesIsRight' BY <1>1, RememberRight DEF YesIsRight
<1>3. NoNoIsLeft' BY <1>1, RememberRight DEF NoNoIsLeft
<1>4. LinkedFromItsOwn' BY <1>1, RememberRight DEF LinkedFromItsOwn
<1>5. StackIsRight' BY <1>1 DEF StackIsRight
<1> QED BY <1>2, <1>3, <1>4, <1>5 DEF NothingYet, NeedForgotten

\* The steps that do not ask the cache, and start no operation.
LEMMA CacheUnused ==
    ASSUME TransactionTyped, CacheIsRight, UNCHANGED <<content, memo, found, need, unlinked>>,
           \/ op' = op
           \/ op' = NoOp
           \/ op'.kind = "unlink" /\ phase' = "undoLinks"
           \/ op'.kind = op.kind /\ op'.pkg = op.pkg /\ op # NoOp /\ phase' = phase,
           phase' \notin {"begin", "fetching"} \/ phase' = phase,
           phase' \in {"unlinking", "linking"} => phase \in {"unlinking", "linking"},
           phase' = "unlinking" => phase = "unlinking"
    PROVE  CacheIsRight'
<1> USE DEF CacheIsRight
<1>1. NothingYet' BY DEF NothingYet
<1>2. NeedForgotten' BY DEF NeedForgotten
<1>3. YesIsRight' BY DEF YesIsRight
<1>4. StackIsRight' BY DEF StackIsRight
<1>5. NoNoIsLeft' BY DEF NoNoIsLeft
<1>6. LinkedFromItsOwn' BY DEF LinkedFromItsOwn, NoOp
<1> QED BY <1>1, <1>2, <1>3, <1>4, <1>5, <1>6

LEMMA EndOpKeepsCacheRight ==
    ASSUME TransactionTyped, CacheIsRight, EndOp PROVE CacheIsRight'
<1> USE DEF CacheIsRight
<1>1. UNCHANGED <<phase, content, memo, found, need>> /\ op' = NoOp BY DEF EndOp, cache
<1>2. StackIsRight'
  <2>1. CASE phase = "unlinking"
    <3>1. unlinked' = Append(unlinked, [pkg |-> op.pkg, cached |-> Str[op.pkg] \in found])
      BY <2>1 DEF EndOp, FoundKey
    <3>2. op.pkg \in Relevant BY <2>1 DEF EndOp, StackIsRight
    <3>3. ASSUME NEW i \in DOMAIN unlinked'
          PROVE  /\ unlinked'[i].pkg \in Relevant
                 /\ unlinked'[i].cached => Str[unlinked'[i].pkg] \in found
      <4> DEFINE new == [pkg |-> op.pkg, cached |-> Str[op.pkg] \in found]
      <4>1. new.pkg = op.pkg /\ new.cached = (Str[op.pkg] \in found) OBVIOUS
      <4> HIDE DEF new
      <4>2. unlinked' = Append(unlinked, new) BY <3>1 DEF new
      <4>3. (i \in DOMAIN unlinked /\ unlinked'[i] = unlinked[i]) \/ unlinked'[i] = new
        BY <4>2 DEF TransactionTyped, TypeOK
      <4> QED BY <3>2, <4>1, <4>3 DEF StackIsRight
    <3> QED BY <1>1, <3>3 DEF StackIsRight
  <2>2. CASE phase \in {"linking", "undoLinks"}
    BY <1>1, <2>2 DEF EndOp, StackIsRight
  <2>3. CASE phase = "undoUnlinks"
    <3>1. unlinked' = Front(unlinked) BY <2>3 DEF EndOp
    <3>2. \A i \in DOMAIN unlinked' : i \in DOMAIN unlinked /\ unlinked'[i] = unlinked[i]
      BY <3>1, FrontTyped DEF TransactionTyped, TypeOK
    <3> QED BY <1>1, <3>2 DEF StackIsRight
  <2> QED BY <2>1, <2>2, <2>3 DEF EndOp, Ended, TransactionTyped
<1> QED BY <1>1, <1>2 DEF NothingYet, NeedForgotten, YesIsRight, NoNoIsLeft, LinkedFromItsOwn, NoOp

LEMMA CacheNext ==
    ASSUME KeysApart, TransactionTyped, Progress, CacheIsRight, [Next]_vars PROVE CacheIsRight'
<1>1. CASE Begin BY <1>1, BeginKeepsCacheRight
<1>2. CASE Fetched
  <2>1. need' = need \ need BY <1>2 DEF Fetched
  <2> QED BY <1>2, <2>1, ExtractionKeepsCacheRight DEF Fetched, stacks
<1>3. CASE FetchInterrupted
  BY <1>3, ExtractionKeepsCacheRight DEF FetchInterrupted, stacks
<1>4. CASE Unlink
  <2>1. CASE interrupted \/ Len(unlinked) = Len(Unlinks)
    BY <1>4, <2>1, CacheUnused DEF Unlink, Goto, cache, stacks
  <2>2. CASE ~(interrupted \/ Len(unlinked) = Len(Unlinks))
    <3> DEFINE p == Unlinks[Len(unlinked) + 1]
    <3>1. p \in Relevant
      BY <1>4, <2>2, SolutionTyped DEF Unlink, Progress, TransactionTyped, TypeOK
    <3> HIDE DEF p
    <3>2. Remember(p) /\ unlinked' = unlinked /\ phase = "unlinking"
      BY <1>4, <2>2 DEF Unlink, stacks, p
    <3>3. \/ StartUnlink(p) /\ phase' = phase
          \/ phase' = "threw" /\ op' = op
      BY <1>4, <2>2 DEF Unlink, p
    <3>4. /\ phase' \in {phase, "threw"}
          /\ op' = op \/ (op'.pkg = p /\ op'.kind = "unlink")
      BY <3>3 DEF StartUnlink
    <3> QED BY <3>1, <3>2, <3>4, AskingKeepsCacheRight
  <2> QED BY <2>1, <2>2
<1>5. CASE Link
  <2>1. CASE interrupted \/ Len(linked) = Len(Links)
    BY <1>5, <2>1, CacheUnused DEF Link, Goto, cache, stacks
  <2>2. CASE ~(interrupted \/ Len(linked) = Len(Links))
    <3> DEFINE p == Links[Len(linked) + 1]
    <3>1. p \in Relevant
      BY <1>5, <2>2, SolutionTyped DEF Link, Progress, TransactionTyped, TypeOK, Relevant
    <3> HIDE DEF p
    <3>2. Remember(p) /\ unlinked' = unlinked /\ phase = "linking"
      BY <1>5, <2>2 DEF Link, stacks, p
    <3>3. \/ Held(p) /\ StartLink(p) /\ phase' = phase
          \/ phase' = "threw" /\ op' = op
      BY <1>5, <2>2 DEF Link, p
    <3>4. /\ phase' \in {phase, "threw"}
          /\ op' = op \/ (op'.pkg = p /\ Held(p))
      BY <3>3 DEF StartLink
    <3> QED BY <3>1, <3>2, <3>4, AskingKeepsCacheRight
  <2> QED BY <2>1, <2>2
<1>6. CASE NextPath
  BY <1>6, CacheUnused DEF NextPath, cache, stacks, TransactionTyped, TypeOK
<1>7. CASE EndOp BY <1>7, EndOpKeepsCacheRight
<1>8. CASE AllLinked \/ Finish \/ Stop \/ Interrupt
  BY <1>8, CacheUnused DEF AllLinked, Finish, Stop, Interrupt, Goto, cache, stacks
<1>9. CASE UndoLinks
  BY <1>9, CacheUnused DEF UndoLinks, StartUnlink, Goto, cache, stacks
<1>10. CASE UndoUnlinks
  <2>1. CASE Undone(unlinked) \/ ~Last(unlinked).cached
    BY <1>10, <2>1, CacheUnused DEF UndoUnlinks, Goto, cache, stacks
  <2>2. CASE ~(Undone(unlinked) \/ ~Last(unlinked).cached)
    <3> DEFINE p == Last(unlinked).pkg
    <3>1. \E i \in DOMAIN unlinked : Last(unlinked) = unlinked[i]
      BY <2>2, LastTyped DEF Undone, TransactionTyped, TypeOK
    <3>2. p \in Relevant /\ content[Str[p]] = p
      BY <2>2, <3>1 DEF CacheIsRight, StackIsRight, YesIsRight
    <3>3. UNCHANGED <<phase, content, memo, found, need, unlinked>> /\ phase = "undoUnlinks"
      BY <1>10, <2>2 DEF UndoUnlinks, cache, stacks
    <3>4. op'.kind = "link" /\ op'.pkg = p BY <1>10, <2>2 DEF UndoUnlinks, StartLink
    <3> QED BY <3>2, <3>3, <3>4 DEF CacheIsRight, NothingYet, NeedForgotten, YesIsRight, StackIsRight,
            NoNoIsLeft, LinkedFromItsOwn
  <2> QED BY <2>1, <2>2
<1>11. CASE UNCHANGED vars
  BY <1>11 DEF vars, cache, stacks, CacheIsRight, NothingYet, NeedForgotten, YesIsRight, StackIsRight,
     NoNoIsLeft, LinkedFromItsOwn
<1> QED BY <1>1, <1>2, <1>3, <1>4, <1>5, <1>6, <1>7, <1>8, <1>9, <1>10, <1>11 DEF Next, Over

\* The parts of the memory hold in every reachable state.
LEMMA CacheAlways == ASSUME KeysApart PROVE Spec => [](TransactionTyped /\ CacheIsRight)
<1>1. Init => TransactionTyped /\ Progress /\ CacheIsRight BY TransactionTypedInit, ProgressInit, CacheInit
<1>2. TransactionTyped /\ Progress /\ CacheIsRight /\ [Next]_vars => TransactionTyped' /\ Progress' /\ CacheIsRight'
  BY TransactionTypedNext, ProgressNext, CacheNext
<1> QED BY <1>1, <1>2, PTL DEF Spec

\* get_extracted_dir_path answers with a directory of the package that it was
\* asked about, also in the rollback, if no two packages of the solution have
\* the same name, version and build.
THEOREM LinkedFromTheRightDirectory == ASSUME KeysApart PROVE Spec => []LinkedFromItsOwn
<1>1. TransactionTyped /\ CacheIsRight => LinkedFromItsOwn BY DEF CacheIsRight
<1> QED BY <1>1, CacheAlways, PTL

\* Then also no package is refused with "Package cache error." once the fetch
\* has succeeded: what clear_query_cache forgets is enough.
THEOREM EveryFetchedPackageIsHeld == ASSUME KeysApart PROVE Spec => []FetchedCanBeLinked
<1>1. TransactionTyped /\ CacheIsRight => FetchedCanBeLinked
  <2>1. SUFFICES ASSUME TransactionTyped, CacheIsRight, phase \in {"unlinking", "linking"}, need = {},
                        NEW p \in ToInstall
                 PROVE  Held(p)
    BY DEF FetchedCanBeLinked
  <2>2. content[Str[p]] = p /\ (Str[p] \in found \/ memo[Str[p]] # "no")
    BY <2>1 DEF CacheIsRight, NoNoIsLeft
  <2>3. memo[Str[p]] \in {"unknown", "yes", "no"}
    BY <2>1, SolutionTyped, KeyOf DEF TransactionTyped, TypeOK
  <2> QED BY <2>2, <2>3 DEF Held, FoundKey, ValidDir
<1> QED BY <1>1, CacheAlways, PTL

-----------------------------------------------------------------------------
(* The prefix.  Present is what is installed by the stacks alone; conda-meta *)
(* and the paths follow it, but for the operation under way.                 *)

Apart(p, q) == Str[p] # Str[q] /\ PathsOf[p] \cap PathsOf[q] = {}

\* The prefix is in order at first, and the solution leaves it in order: only
\* a package that is removed may share paths with one that is installed.
SolutionApart ==
    /\ \A p, q \in Installed : p # q => Apart(p, q)
    /\ \A p, q \in ToInstall : p # q => Apart(p, q)
    /\ \A p \in ToInstall, q \in Installed \ Range(Unlinks) : p # q /\ Apart(p, q)

Gone == {Unlinks[i] : i \in 1 .. Len(unlinked)}
Linked == {Links[i] : i \in 1 .. Len(linked)}
Present == (Installed \ Gone) \cup Linked

StacksRight ==
    /\ Len(unlinked) <= Len(Unlinks) /\ \A i \in DOMAIN unlinked : unlinked[i].pkg = Unlinks[i]
    /\ Len(linked) <= Len(Links) /\ \A i \in DOMAIN linked : linked[i] = Links[i]

AllIsDone == (phase = "linked" /\ ~interrupted) \/ phase \in {"finishing", "done"}

\* Nothing is linked before all is unlinked, and a success means that all was
\* done.
PhaseRight ==
    /\ phase \in {"undoUnlinks", "rolledBack"} => linked = <<>>
    /\ phase = "rolledBack" => unlinked = <<>>
    /\ linked # <<>> \/ (phase = "linking" /\ (op # NoOp \/ ~interrupted)) \/ AllIsDone
       => Len(unlinked) = Len(Unlinks)
    /\ AllIsDone => Len(linked) = Len(Links)
    /\ entry = IF phase = "done" THEN [unlinked |-> Range(Unlinks), linked |-> ToInstall] ELSE None

\* The operation under way is the next one, or the last one to be undone.
NextOrLast ==
    CASE phase = "unlinking"   -> op.kind = "unlink" /\ op.pkg = Unlinks[Len(unlinked) + 1]
      [] phase = "linking"     -> op.kind = "link" /\ op.pkg = Links[Len(linked) + 1]
      [] phase = "undoLinks"   -> op.kind = "unlink" /\ linked # <<>> /\ op.pkg = Links[Len(linked)]
      [] phase = "undoUnlinks" -> op.kind = "link" /\ unlinked # <<>>
                                  /\ op.pkg = Unlinks[Len(unlinked)]
      [] OTHER -> TRUE

OpRight ==
    op # NoOp =>
        /\ op.left \subseteq PathsOf[op.pkg]
        /\ op.kind = "unlink" => op.pkg \in Present
        /\ op.kind = "link" => op.pkg \notin Present /\ \A q \in Present : Apart(op.pkg, q)
        /\ NextOrLast

RecordsRight ==
    /\ \A p \in Present : records[Str[p]] = p
    /\ \A k \in Keys : records[k] # None => records[k] \in Present /\ Str[records[k]] = k

\* A package has all its paths, or none; the one in hand has those that are
\* not removed yet, or linked already.
Owns(p, f) == /\ f \in PathsOf[p]
              /\ IF op.pkg = p THEN op.kind = "unlink" <=> f \in op.left ELSE p \in Present

FilesRight == \A p \in Packages, f \in Paths : files[f] = p <=> Owns(p, f)

PrefixIsRight == StacksRight /\ PhaseRight /\ OpRight /\ RecordsRight /\ FilesRight

-----------------------------------------------------------------------------
LEMMA InjectivePrefix ==
    ASSUME NEW S, NEW s \in Seq(S), IsInjective(s), NEW n \in Nat, n < Len(s)
    PROVE  /\ s[n + 1] \in S /\ s[n + 1] \notin {s[i] : i \in 1 .. n}
           /\ {s[i] : i \in 1 .. (n + 1)} = {s[i] : i \in 1 .. n} \cup {s[n + 1]}
<1>1. s[n + 1] \notin {s[i] : i \in 1 .. n}
  <2>1. ASSUME NEW i \in 1 .. n PROVE s[n + 1] # s[i]
    BY i \in DOMAIN s, n + 1 \in DOMAIN s, n + 1 # i DEF IsInjective
  <2> QED BY <2>1
<1>2. 1 .. (n + 1) = 1 .. n \cup {n + 1} OBVIOUS
<1> QED BY <1>1, <1>2

LEMMA WholeRange ==
    /\ {Unlinks[i] : i \in 1 .. Len(Unlinks)} = Range(Unlinks)
    /\ {Links[i] : i \in 1 .. Len(Links)} = ToInstall
BY SolutionTyped DEF Range, ToInstall

LEMMA SolutionSequences ==
    /\ Unlinks \in Seq(Installed) /\ IsInjective(Unlinks)
    /\ Links \in Seq(ToInstall) /\ IsInjective(Links)
    /\ Installed \subseteq Packages /\ None \notin Packages
    /\ \A p \in Packages : PathsOf[p] \subseteq Paths
<1>1. Links \in Seq(ToInstall) BY TransactionConstants DEF TransactionConstants, ToInstall, Range
<1> QED BY <1>1, TransactionConstants DEF TransactionConstants

LEMMA PresentTyped ==
    ASSUME TransactionTyped, StacksRight
    PROVE  Gone \subseteq Installed /\ Linked \subseteq ToInstall /\ Present \subseteq Packages
BY SolutionSequences, SolutionTyped DEF TransactionTyped, TypeOK, StacksRight, Gone, Linked, Present

LEMMA ApartSymmetric == \A p, q : Apart(p, q) <=> Apart(q, p)
BY DEF Apart

\* What the prefix holds at first, when it is in order.
LEMMA StartIsRight ==
    ASSUME SolutionApart
    PROVE  /\ \A p \in Packages, f \in Paths :
                FilesAtStart[f] = p <=> p \in Installed /\ f \in PathsOf[p]
           /\ \A p \in Installed : RecordsAtStart[Str[p]] = p
           /\ \A k \in Keys : RecordsAtStart[k] # None =>
                RecordsAtStart[k] \in Installed /\ Str[RecordsAtStart[k]] = k
<1> USE SolutionSequences
<1>1. ASSUME NEW p \in Packages, NEW f \in Paths
      PROVE  FilesAtStart[f] = p <=> p \in Installed /\ f \in PathsOf[p]
  <2>1. CASE \E q \in Installed : f \in PathsOf[q]
    <3> DEFINE owner == CHOOSE q \in Installed : f \in PathsOf[q]
    <3>1. owner \in Installed /\ f \in PathsOf[owner] BY <2>1
    <3>2. FilesAtStart[f] = owner BY <2>1 DEF FilesAtStart
    <3> HIDE DEF owner
    <3>3. p \in Installed /\ f \in PathsOf[p] => p = owner BY <3>1 DEF SolutionApart, Apart
    <3> QED BY <3>1, <3>2, <3>3
  <2>2. CASE ~ \E q \in Installed : f \in PathsOf[q]
    <3>1. FilesAtStart[f] = None BY <2>2 DEF FilesAtStart
    <3> QED BY <2>2, <3>1
  <2> QED BY <2>1, <2>2
<1>2. ASSUME NEW p \in Installed PROVE RecordsAtStart[Str[p]] = p
  <2>1. Str[p] \in Keys BY KeyOf
  <2>2. \A q \in Installed : Str[q] = Str[p] => q = p BY DEF SolutionApart, Apart
  <2>3. (CHOOSE q \in Installed : Str[q] = Str[p]) = p BY <2>2
  <2> QED BY <2>1, <2>3 DEF RecordsAtStart
<1>3. ASSUME NEW k \in Keys, RecordsAtStart[k] # None
      PROVE  RecordsAtStart[k] \in Installed /\ Str[RecordsAtStart[k]] = k
  <2>1. \E q \in Installed : Str[q] = k BY <1>3 DEF RecordsAtStart
  <2>2. RecordsAtStart[k] = CHOOSE q \in Installed : Str[q] = k BY <2>1 DEF RecordsAtStart
  <2> QED BY <2>1, <2>2
<1> QED BY <1>1, <1>2, <1>3

LEMMA PrefixInit == ASSUME SolutionApart PROVE Init => PrefixIsRight
<1>1. SUFFICES ASSUME Init PROVE PrefixIsRight OBVIOUS
<1>2. unlinked = <<>> /\ linked = <<>> /\ op = NoOp /\ phase = "begin" /\ entry = None
      /\ files = FilesAtStart /\ records = RecordsAtStart
  BY <1>1 DEF Init
<1>3. Present = Installed BY <1>2 DEF Present, Gone, Linked
<1>4. StacksRight BY <1>2, SolutionTyped DEF StacksRight
<1>5. PhaseRight BY <1>2 DEF PhaseRight, AllIsDone
<1>6. RecordsRight BY <1>2, <1>3, StartIsRight DEF RecordsRight
<1>7. FilesRight BY <1>2, <1>3, StartIsRight, SolutionSequences DEF FilesRight, Owns, NoOp
<1> QED BY <1>2, <1>4, <1>5, <1>6, <1>7 DEF PrefixIsRight, OpRight

\* Where an operation starts the prefix and the stacks do not change.
LEMMA StartUnlinkRight ==
    ASSUME TransactionTyped, PrefixIsRight, op = NoOp, NEW p \in Present, StartUnlink(p),
           UNCHANGED <<phase, files, records, unlinked, linked>>, NextOrLast'
    PROVE  StacksRight' /\ OpRight' /\ RecordsRight' /\ FilesRight'
<1> USE DEF PrefixIsRight
<1>1. Present' = Present BY DEF Present, Gone, Linked
<1>2. p \in Packages BY PresentTyped
<1>3. op' = [kind |-> "unlink", pkg |-> p, left |-> PathsOf[p]]
  BY DEF StartUnlink, RecordsRight
<1>4. op'.kind = "unlink" /\ op'.pkg = p /\ op'.left = PathsOf[p] BY <1>3
<1>5. StacksRight' /\ RecordsRight' BY <1>1 DEF StacksRight, RecordsRight
<1>6. OpRight' BY <1>1, <1>4 DEF OpRight
<1>7. ASSUME NEW q \in Packages, NEW f \in Paths PROVE Owns(q, f)' <=> Owns(q, f)
  <2>1. op.pkg # q BY SolutionSequences DEF NoOp
  <2>2. CASE q = p BY <1>1, <1>4, <2>1, <2>2 DEF Owns
  <2>3. CASE q # p BY <1>1, <1>4, <2>1, <2>3 DEF Owns
  <2> QED BY <2>2, <2>3
<1> QED BY <1>5, <1>6, <1>7 DEF FilesRight

LEMMA StartLinkRight ==
    ASSUME TransactionTyped, PrefixIsRight, op = NoOp, NEW p \in Packages, StartLink(p), content[Str[p]] = p,
           p \notin Present, \A q \in Present : Apart(p, q),
           UNCHANGED <<phase, files, records, unlinked, linked>>, NextOrLast'
    PROVE  StacksRight' /\ OpRight' /\ RecordsRight' /\ FilesRight'
<1> USE DEF PrefixIsRight
<1>1. Present' = Present BY DEF Present, Gone, Linked
<1>2. op' = [kind |-> "link", pkg |-> p, left |-> PathsOf[p]] BY DEF StartLink
<1>3. op'.kind = "link" /\ op'.pkg = p /\ op'.left = PathsOf[p] BY <1>2
<1>4. StacksRight' /\ RecordsRight' BY <1>1 DEF StacksRight, RecordsRight
<1>5. OpRight' BY <1>1, <1>3 DEF OpRight, Apart
<1>6. ASSUME NEW q \in Packages, NEW f \in Paths PROVE Owns(q, f)' <=> Owns(q, f)
  <2>1. op.pkg # q BY SolutionSequences DEF NoOp
  <2>2. CASE q = p BY <1>1, <1>3, <2>1, <2>2 DEF Owns
  <2>3. CASE q # p BY <1>1, <1>3, <2>1, <2>3 DEF Owns
  <2> QED BY <2>2, <2>3
<1> QED BY <1>4, <1>5, <1>6 DEF FilesRight

LEMMA OpFields ==
    ASSUME TransactionTyped, op # NoOp
    PROVE  /\ op.kind \in {"link", "unlink"} /\ op.pkg \in Packages /\ op.left \subseteq Paths
           /\ Str[op.pkg] \in Keys
BY KeyOf DEF TransactionTyped, TypeOK

LEMMA NextPathRight ==
    ASSUME TransactionTyped, PrefixIsRight, LinkedFromItsOwn, NextPath
    PROVE  StacksRight' /\ OpRight' /\ RecordsRight' /\ FilesRight'
<1> USE DEF PrefixIsRight
<1>1. op # NoOp /\ UNCHANGED <<phase, records, unlinked, linked>> BY DEF NextPath, stacks
<1>2. PICK f \in op.left :
         /\ op' = [op EXCEPT !.left = @ \ {f}]
         /\ files' = IF op.kind = "link" THEN LinkedPath(f) ELSE UnlinkedPath(f)
  BY DEF NextPath
<1> DEFINE p == op.pkg
<1>3. op'.kind = op.kind /\ op'.pkg = p /\ op'.left = op.left \ {f}
  BY <1>1, <1>2 DEF TransactionTyped, TypeOK
<1>4. f \in Paths /\ f \in PathsOf[p] /\ p \in Packages /\ op.kind \in {"link", "unlink"}
  BY <1>1, OpFields DEF OpRight
<1>5. Present' = Present BY <1>1 DEF Present, Gone, Linked
<1>6. NextOrLast' BY <1>1, <1>3 DEF OpRight, NextOrLast
<1>7. OpRight'
  <2>1. op'.left \subseteq PathsOf[op'.pkg] BY <1>1, <1>3 DEF OpRight
  <2>2. op'.kind = "unlink" => op'.pkg \in Present' BY <1>1, <1>3, <1>5 DEF OpRight
  <2>3. op'.kind = "link" => op'.pkg \notin Present' /\ \A q \in Present' : Apart(op'.pkg, q)
    BY <1>1, <1>3, <1>5 DEF OpRight
  <2> QED BY <1>6, <2>1, <2>2, <2>3 DEF OpRight, Apart
<1>8. files' = [files EXCEPT ![f] = IF op.kind = "link" THEN p ELSE None]
  BY <1>2, <1>4 DEF LinkedPath, UnlinkedPath, LinkedFromItsOwn
<1>9. ASSUME NEW q \in Packages, NEW g \in Paths PROVE files'[g] = q <=> Owns(q, g)'
  <2>1. files[g] = q <=> Owns(q, g) BY DEF FilesRight
  <2>2. CASE g # f
    <3>1. files'[g] = files[g] BY <1>8, <2>2 DEF TransactionTyped, TypeOK
    <3>2. Owns(q, g)' <=> Owns(q, g) BY <1>3, <1>5, <2>2 DEF Owns
    <3> QED BY <2>1, <3>1, <3>2
  <2>3. CASE g = f /\ op.kind = "link"
    <3>1. files'[g] = p BY <1>4, <1>8, <2>3 DEF TransactionTyped, TypeOK
    <3>2. q = p => Owns(q, g)' BY <1>3, <1>4, <2>3 DEF Owns
    <3>3. q # p => ~Owns(q, g)'
      <4>1. q \in Present => g \notin PathsOf[q]
        BY <1>1, <1>4, <2>3 DEF OpRight, Apart
      <4> QED BY <1>3, <1>5, <4>1 DEF Owns
    <3> QED BY <3>1, <3>2, <3>3
  <2>4. CASE g = f /\ op.kind = "unlink"
    <3>1. files'[g] = None BY <1>4, <1>8, <2>4 DEF TransactionTyped, TypeOK
    <3>2. q = p => ~Owns(q, g)' BY <1>3, <2>4 DEF Owns
    <3>3. files[g] = p BY <1>4, <2>4 DEF FilesRight, Owns
    <3>4. q # p => ~Owns(q, g) BY <2>1, <3>3
    <3>5. ASSUME q # p PROVE ~Owns(q, g)'
      <4>1. ~(g \in PathsOf[q] /\ q \in Present) BY <3>4, <3>5 DEF Owns
      <4>2. op'.pkg # q BY <1>3, <3>5
      <4> QED BY <1>5, <4>1, <4>2 DEF Owns
    <3> QED BY <3>1, <3>2, <3>5, SolutionSequences
  <2> QED BY <1>4, <2>2, <2>3, <2>4
<1>10. StacksRight' /\ RecordsRight' BY <1>1, <1>5 DEF StacksRight, RecordsRight
<1> QED BY <1>7, <1>9, <1>10 DEF FilesRight

\* What the end of an operation makes of Present.
LEMMA EndOpPresent ==
    ASSUME SolutionApart, TransactionTyped, Progress, PrefixIsRight, EndOp
    PROVE  /\ StacksRight'
           /\ Present' = IF op.kind = "link" THEN Present \cup {op.pkg} ELSE Present \ {op.pkg}
<1> USE DEF PrefixIsRight
<1>1. op # NoOp /\ NextOrLast BY DEF EndOp, OpRight
<1>2. Len(unlinked) \in Nat /\ Len(linked) \in Nat /\ Len(Unlinks) \in Nat /\ Len(Links) \in Nat
  BY SolutionTyped DEF TransactionTyped, TypeOK
<1>3. CASE phase = "unlinking"
  <2>1. op.kind = "unlink" /\ op.pkg = Unlinks[Len(unlinked) + 1] /\ Len(unlinked) < Len(Unlinks)
    BY <1>1, <1>3 DEF NextOrLast, Progress
  <2> DEFINE new == [pkg |-> op.pkg, cached |-> FoundKey(op.pkg) \in found]
  <2>2. new.pkg = op.pkg OBVIOUS
  <2> HIDE DEF new
  <2>3. unlinked' = Append(unlinked, new) /\ linked' = linked
    BY <1>3 DEF EndOp, new
  <2>4. /\ Len(unlinked') = Len(unlinked) + 1 /\ DOMAIN unlinked' = 1 .. (Len(unlinked) + 1)
        /\ \A i \in 1 .. Len(unlinked) : unlinked'[i] = unlinked[i]
        /\ unlinked'[Len(unlinked) + 1] = new
    <3>1. new \in [pkg : Packages, cached : BOOLEAN] BY <1>1, OpFields DEF new
    <3> QED BY <2>3, <3>1, AppendFacts DEF TransactionTyped, TypeOK
  <2>5. ASSUME NEW i \in DOMAIN unlinked' PROVE unlinked'[i].pkg = Unlinks[i]
    <3>1. CASE i \in 1 .. Len(unlinked)
      <4>1. DOMAIN unlinked = 1 .. Len(unlinked) BY DEF TransactionTyped, TypeOK
      <4> QED BY <2>4, <3>1, <4>1 DEF StacksRight
    <3>2. CASE i = Len(unlinked) + 1 BY <2>1, <2>2, <2>4, <3>2
    <3> QED BY <1>2, <2>4, <3>1, <3>2
  <2>6. StacksRight'
    <3>1. Len(unlinked') <= Len(Unlinks) BY <1>2, <2>1, <2>4
    <3> QED BY <2>3, <2>5, <3>1 DEF StacksRight
  <2>7. Gone' = Gone \cup {op.pkg}
    <3> DEFINE n == Len(unlinked)
    <3>1. /\ n \in Nat /\ n < Len(Unlinks) /\ op.pkg = Unlinks[n + 1]
          /\ Gone' = {Unlinks[i] : i \in 1 .. (n + 1)} /\ Gone = {Unlinks[i] : i \in 1 .. n}
      BY <1>2, <2>1, <2>4 DEF Gone
    <3> HIDE DEF n
    <3> QED BY <3>1, InjectivePrefix, SolutionSequences
  <2>8. Linked = {} /\ Linked' = {} BY <1>3, <2>3 DEF Linked, Progress
  <2> QED BY <2>1, <2>6, <2>7, <2>8 DEF Present
<1>4. CASE phase = "linking"
  <2>1. op.kind = "link" /\ op.pkg = Links[Len(linked) + 1] /\ Len(linked) < Len(Links)
    BY <1>1, <1>4 DEF NextOrLast, Progress
  <2>2. linked' = Append(linked, op.pkg) /\ unlinked' = unlinked BY <1>4 DEF EndOp
  <2>3. /\ Len(linked') = Len(linked) + 1 /\ DOMAIN linked' = 1 .. (Len(linked) + 1)
        /\ \A i \in 1 .. Len(linked) : linked'[i] = linked[i]
        /\ linked'[Len(linked) + 1] = op.pkg
    BY <1>1, <2>2, OpFields, AppendFacts DEF TransactionTyped, TypeOK
  <2>4. ASSUME NEW i \in DOMAIN linked' PROVE linked'[i] = Links[i]
    <3>1. CASE i \in 1 .. Len(linked)
      <4>1. DOMAIN linked = 1 .. Len(linked) BY DEF TransactionTyped, TypeOK
      <4> QED BY <2>3, <3>1, <4>1 DEF StacksRight
    <3>2. CASE i = Len(linked) + 1 BY <2>1, <2>3, <3>2
    <3> QED BY <1>2, <2>3, <3>1, <3>2
  <2>5. StacksRight'
    <3>1. Len(linked') <= Len(Links) BY <1>2, <2>1, <2>3
    <3> QED BY <2>2, <2>4, <3>1 DEF StacksRight
  <2>6. Linked' = Linked \cup {op.pkg}
    <3> DEFINE n == Len(linked)
    <3>1. /\ n \in Nat /\ n < Len(Links) /\ op.pkg = Links[n + 1]
          /\ Linked' = {Links[i] : i \in 1 .. (n + 1)} /\ Linked = {Links[i] : i \in 1 .. n}
      BY <1>2, <2>1, <2>3 DEF Linked
    <3> HIDE DEF n
    <3> QED BY <3>1, InjectivePrefix, SolutionSequences
  <2>7. Gone' = Gone BY <2>2 DEF Gone
  <2> QED BY <2>1, <2>5, <2>6, <2>7 DEF Present
<1>5. CASE phase = "undoLinks"
  <2>1. op.kind = "unlink" /\ linked # <<>> /\ op.pkg = Links[Len(linked)]
    BY <1>1, <1>5 DEF NextOrLast
  <2> DEFINE n == Len(linked) - 1
  <2>2. n \in Nat /\ n < Len(Links) /\ n + 1 = Len(linked)
    BY <1>2, <2>1 DEF StacksRight, TransactionTyped, TypeOK
  <2>3. linked' = Front(linked) /\ unlinked' = unlinked BY <1>5 DEF EndOp
  <2>4. Len(linked') = n BY <2>2, <2>3 DEF Front, TransactionTyped, TypeOK
  <2>5. StacksRight'
    <3>1. \A i \in DOMAIN linked' : i \in DOMAIN linked /\ linked'[i] = linked[i]
      BY <2>3, FrontTyped DEF TransactionTyped, TypeOK
    <3> QED BY <1>2, <2>2, <2>3, <2>4, <3>1 DEF StacksRight
  <2>6. op.pkg \notin Linked' /\ Linked = Linked' \cup {op.pkg}
    <3>1. Linked' = {Links[i] : i \in 1 .. n} /\ Linked = {Links[i] : i \in 1 .. (n + 1)}
          /\ op.pkg = Links[n + 1]
      BY <2>1, <2>2, <2>4 DEF Linked
    <3> HIDE DEF n
    <3> QED BY <2>2, <3>1, InjectivePrefix, SolutionSequences
  <2>7. Gone = Range(Unlinks) /\ Gone' = Gone
    BY <2>1, <2>3, WholeRange DEF Gone, PhaseRight
  <2>8. op.pkg \notin Installed \ Gone
    <3>1. op.pkg \in ToInstall BY <2>6, PresentTyped
    <3> QED BY <2>7, <3>1 DEF SolutionApart
  <2> QED BY <2>1, <2>5, <2>6, <2>7, <2>8 DEF Present
<1>6. CASE phase = "undoUnlinks"
  <2>1. op.kind = "link" /\ unlinked # <<>> /\ op.pkg = Unlinks[Len(unlinked)]
    BY <1>1, <1>6 DEF NextOrLast
  <2> DEFINE n == Len(unlinked) - 1
  <2>2. n \in Nat /\ n < Len(Unlinks) /\ n + 1 = Len(unlinked)
    BY <1>2, <2>1 DEF StacksRight, TransactionTyped, TypeOK
  <2>3. unlinked' = Front(unlinked) /\ linked' = linked BY <1>6 DEF EndOp
  <2>4. Len(unlinked') = n BY <2>2, <2>3 DEF Front, TransactionTyped, TypeOK
  <2>5. StacksRight'
    <3>1. \A i \in DOMAIN unlinked' : i \in DOMAIN unlinked /\ unlinked'[i] = unlinked[i]
      BY <2>3, FrontTyped DEF TransactionTyped, TypeOK
    <3> QED BY <1>2, <2>2, <2>3, <2>4, <3>1 DEF StacksRight
  <2>6. op.pkg \notin Gone' /\ Gone = Gone' \cup {op.pkg} /\ op.pkg \in Installed
    <3>1. Gone' = {Unlinks[i] : i \in 1 .. n} /\ Gone = {Unlinks[i] : i \in 1 .. (n + 1)}
          /\ op.pkg = Unlinks[n + 1]
      BY <2>1, <2>2, <2>4 DEF Gone
    <3> HIDE DEF n
    <3> QED BY <2>2, <3>1, InjectivePrefix, SolutionSequences
  <2>7. Linked' = Linked BY <2>3 DEF Linked
  <2> QED BY <2>1, <2>5, <2>6, <2>7 DEF Present
<1> QED BY <1>1, <1>3, <1>4, <1>5, <1>6 DEF EndOp, Ended, TransactionTyped

LEMMA EndOpRight ==
    ASSUME SolutionApart, TransactionTyped, Progress, PrefixIsRight, LinkedFromItsOwn, EndOp
    PROVE  StacksRight' /\ OpRight' /\ RecordsRight' /\ FilesRight'
<1> USE DEF PrefixIsRight
<1>1. op # NoOp /\ op.left = {} /\ op' = NoOp /\ files' = files
  BY DEF EndOp, AllPaths
<1> DEFINE p == op.pkg
<1>2. p \in Packages /\ op.kind \in {"link", "unlink"} /\ Str[p] \in Keys
  BY <1>1, OpFields
<1>3. StacksRight' /\ Present' = IF op.kind = "link" THEN Present \cup {p} ELSE Present \ {p}
  BY EndOpPresent
<1>4. Present \subseteq Packages BY PresentTyped
<1>5. records' = [records EXCEPT ![Str[p]] = IF op.kind = "link" THEN p ELSE None]
  BY DEF EndOp, LinkedFromItsOwn
<1>6. \A k \in Keys : records'[k] = IF k # Str[p] THEN records[k]
                                    ELSE IF op.kind = "link" THEN p ELSE None
  BY <1>2, <1>5 DEF TransactionTyped, TypeOK
<1>7. \A q \in Present : Str[q] \in Keys /\ records[Str[q]] = q BY <1>4, KeyOf DEF RecordsRight
<1>8. RecordsRight'
  <2>1. CASE op.kind = "link"
    <3>1. \A q \in Present : Str[q] # Str[p] BY <1>1, <2>1 DEF OpRight, Apart
    <3>2. \A q \in Present' : records'[Str[q]] = q
      BY <1>2, <1>3, <1>6, <1>7, <2>1, <3>1
    <3>3. ASSUME NEW k \in Keys, records'[k] # None
          PROVE  records'[k] \in Present' /\ Str[records'[k]] = k
      <4>1. CASE k = Str[p] BY <1>3, <1>6, <2>1, <4>1
      <4>2. CASE k # Str[p] BY <1>3, <1>6, <2>1, <3>3, <4>2 DEF RecordsRight
      <4> QED BY <4>1, <4>2
    <3> QED BY <3>2, <3>3 DEF RecordsRight
  <2>2. CASE op.kind = "unlink"
    <3>1. p \in Present /\ records[Str[p]] = p BY <1>1, <1>7, <2>2 DEF OpRight
    <3>2. \A q \in Present' : records'[Str[q]] = q
      BY <1>2, <1>3, <1>6, <1>7, <2>2, <3>1
    <3>3. ASSUME NEW k \in Keys, records'[k] # None
          PROVE  records'[k] \in Present' /\ Str[records'[k]] = k
      <4>1. k # Str[p] /\ records'[k] = records[k] BY <1>2, <1>6, <2>2, <3>3
      <4>2. records[k] \in Present /\ Str[records[k]] = k BY <3>3, <4>1 DEF RecordsRight
      <4> QED BY <1>3, <2>2, <4>1, <4>2
    <3> QED BY <3>2, <3>3 DEF RecordsRight
  <2> QED BY <1>2, <2>1, <2>2
<1>9. FilesRight'
  <2>1. ASSUME NEW q \in Packages, NEW f \in Paths PROVE Owns(q, f)' <=> Owns(q, f)
    <3>1. op'.pkg = None BY <1>1 DEF NoOp
    <3>2. Owns(q, f)' <=> f \in PathsOf[q] /\ q \in Present'
      BY <3>1, SolutionSequences DEF Owns
    <3>3. CASE q = p
      <4>1. Owns(q, f) <=> f \in PathsOf[q] /\ op.kind = "link" BY <1>1, <1>2, <3>3 DEF Owns
      <4> QED BY <1>2, <1>3, <3>2, <3>3, <4>1
    <3>4. CASE q # p
      <4>1. Owns(q, f) <=> f \in PathsOf[q] /\ q \in Present BY <3>4 DEF Owns
      <4> QED BY <1>3, <3>2, <3>4, <4>1
    <3> QED BY <3>3, <3>4
  <2> QED BY <1>1, <2>1 DEF FilesRight
<1> QED BY <1>1, <1>3, <1>8, <1>9 DEF OpRight

\* A step keeps the order of the phases, and what a success means.
LEMMA PhaseNext ==
    ASSUME TransactionTyped, Progress, PrefixIsRight, [Next]_vars PROVE PhaseRight'
<1> USE DEF PrefixIsRight, PhaseRight, AllIsDone
<1>1. CASE Begin \/ Fetched \/ FetchInterrupted
  BY <1>1 DEF Begin, Fetched, FetchInterrupted, AfterFetch, stacks, Progress
<1>2. CASE Unlink
  BY <1>2 DEF Unlink, Goto, StartUnlink, stacks, Progress
<1>3. CASE Link
  BY <1>3 DEF Link, Goto, StartLink, stacks
<1>4. CASE NextPath BY <1>4 DEF NextPath, stacks
<1>5. CASE EndOp
  <2>1. UNCHANGED <<phase, interrupted, entry>> /\ op # NoOp /\ op' = NoOp BY <1>5 DEF EndOp
  <2>2. CASE phase = "unlinking" BY <1>5, <2>1, <2>2 DEF EndOp, Progress
  <2>3. CASE phase = "linking" BY <1>5, <2>1, <2>3 DEF EndOp
  <2>4. CASE phase = "undoLinks"
    BY <1>5, <2>1, <2>4 DEF EndOp, OpRight, NextOrLast
  <2>5. CASE phase = "undoUnlinks" BY <1>5, <2>1, <2>5 DEF EndOp
  <2> QED BY <1>5, <2>2, <2>3, <2>4, <2>5 DEF EndOp, Ended, TransactionTyped
<1>6. CASE AllLinked BY <1>6 DEF AllLinked, Goto, RollsBack, stacks
<1>7. CASE Finish
  <2>1. {unlinked[i].pkg : i \in DOMAIN unlinked} = Range(Unlinks)
    <3>1. DOMAIN unlinked = 1 .. Len(Unlinks) BY <1>7 DEF Finish, TransactionTyped, TypeOK
    <3> QED BY <3>1, WholeRange DEF StacksRight
  <2>2. Range(linked) = ToInstall
    <3>1. DOMAIN linked = 1 .. Len(Links) BY <1>7 DEF Finish, TransactionTyped, TypeOK
    <3> QED BY <3>1, WholeRange DEF StacksRight, Range
  <2> QED BY <1>7, <2>1, <2>2 DEF Finish, Goto, stacks
<1>8. CASE UndoLinks BY <1>8 DEF UndoLinks, Goto, Undone, stacks
<1>9. CASE UndoUnlinks BY <1>9 DEF UndoUnlinks, Goto, Undone, stacks
<1>10. CASE Stop BY <1>10 DEF Stop, Ended, stacks
<1>11. CASE Interrupt BY <1>11 DEF Interrupt, stacks
<1>12. CASE UNCHANGED vars BY <1>12 DEF vars, stacks
<1> QED BY <1>1, <1>2, <1>3, <1>4, <1>5, <1>6, <1>7, <1>8, <1>9, <1>10, <1>11, <1>12 DEF Next, Over

\* The steps that touch neither the prefix nor the stacks.
LEMMA PrefixUntouched ==
    ASSUME PrefixIsRight, UNCHANGED <<op, files, records, unlinked, linked>>,
           op = NoOp \/ phase' \in {phase, "threw"}
    PROVE  StacksRight' /\ OpRight' /\ RecordsRight' /\ FilesRight'
<1> USE DEF PrefixIsRight
<1>1. Present' = Present BY DEF Present, Gone, Linked
<1>2. StacksRight' /\ RecordsRight' BY <1>1 DEF StacksRight, RecordsRight
<1>3. FilesRight' BY <1>1 DEF FilesRight, Owns
<1>4. OpRight'
  <2>1. CASE op = NoOp BY <2>1 DEF OpRight
  <2>2. CASE phase' = phase /\ op # NoOp BY <1>1, <2>2 DEF OpRight, NextOrLast, Apart
  <2>3. CASE phase' = "threw" /\ op # NoOp BY <1>1, <2>3 DEF OpRight, NextOrLast, Apart
  <2> QED BY <2>1, <2>2, <2>3
<1> QED BY <1>2, <1>3, <1>4

LEMMA PrefixNext ==
    ASSUME KeysApart, SolutionApart, TransactionTyped, Progress, CacheIsRight, PrefixIsRight, [Next]_vars
    PROVE  PrefixIsRight'
<1>1. SUFFICES StacksRight' /\ OpRight' /\ RecordsRight' /\ FilesRight'
  BY PhaseNext DEF PrefixIsRight
<1>2. Len(unlinked) \in Nat /\ Len(linked) \in Nat /\ Len(Unlinks) \in Nat /\ Len(Links) \in Nat
  BY SolutionTyped DEF TransactionTyped, TypeOK
<1>3. CASE Begin \/ Fetched \/ FetchInterrupted
  <2>1. op = NoOp BY <1>3 DEF Begin, Fetched, FetchInterrupted, TransactionTyped
  <2> QED BY <1>3, <2>1, PrefixUntouched DEF Begin, Fetched, FetchInterrupted, prefix, stacks
<1>4. CASE Unlink
  <2>1. op = NoOp /\ phase = "unlinking" /\ linked = <<>>
        /\ UNCHANGED <<files, records, unlinked, linked>>
    BY <1>4 DEF Unlink, prefix, stacks, Progress
  <2>2. CASE op' = op BY <2>1, <2>2, PrefixUntouched
  <2>3. CASE op' # op
    <3> DEFINE n == Len(unlinked)
    <3> DEFINE p == Unlinks[n + 1]
    <3>1. n # Len(Unlinks) /\ StartUnlink(p) /\ phase' = phase
      BY <1>4, <2>3 DEF Unlink, Goto
    <3>2. n \in Nat /\ n < Len(Unlinks) /\ Gone = {Unlinks[i] : i \in 1 .. n} /\ Linked = {}
      BY <1>2, <2>1, <3>1 DEF Progress, Gone, Linked
    <3>3. op'.kind = "unlink" /\ op'.pkg = p BY <3>1 DEF StartUnlink
    <3>4. NextOrLast' BY <2>1, <3>1, <3>3 DEF NextOrLast
    <3> HIDE DEF n
    <3>5. p \in Present BY <3>2, InjectivePrefix, SolutionSequences DEF Present
    <3> HIDE DEF p
    <3> QED BY <2>1, <3>1, <3>4, <3>5, StartUnlinkRight
  <2> QED BY <2>2, <2>3
<1>5. CASE Link
  <2>1. op = NoOp /\ phase = "linking" /\ UNCHANGED <<files, records, unlinked, linked>>
    BY <1>5 DEF Link, prefix, stacks
  <2>2. CASE op' = op BY <2>1, <2>2, PrefixUntouched
  <2>3. CASE op' # op
    <3> DEFINE n == Len(linked)
    <3> DEFINE p == Links[n + 1]
    <3>1. n # Len(Links) /\ StartLink(p) /\ phase' = phase /\ Remember(p) /\ Held(p) /\ ~interrupted
      BY <1>5, <2>3 DEF Link, Goto
    <3>2. n \in Nat /\ n < Len(Links) /\ Linked = {Links[i] : i \in 1 .. n}
      BY <1>2, <2>1, <3>1 DEF Progress, Linked
    <3>3. op'.kind = "link" /\ op'.pkg = p BY <3>1 DEF StartLink
    <3>4. NextOrLast' BY <2>1, <3>1, <3>3 DEF NextOrLast
    <3>5. Gone = Range(Unlinks)
      BY <2>1, <3>1, WholeRange DEF Gone, PrefixIsRight, PhaseRight
    <3> HIDE DEF n
    <3>6. p \in ToInstall /\ p \notin Linked BY <3>2, InjectivePrefix, SolutionSequences
    <3> HIDE DEF p
    <3>7. Linked \subseteq ToInstall BY PresentTyped DEF PrefixIsRight
    <3>8. p \notin Present /\ \A q \in Present : Apart(p, q)
      BY <3>5, <3>6, <3>7 DEF SolutionApart, Present
    <3>9. p \in Packages /\ p \in Relevant BY <3>6, SolutionTyped DEF Relevant
    <3>10. content[Str[p]] = p
      BY <2>1, <3>1, <3>9, RememberRight DEF CacheIsRight
    <3> QED BY <2>1, <3>1, <3>4, <3>8, <3>9, <3>10, StartLinkRight
  <2> QED BY <2>2, <2>3
<1>6. CASE NextPath BY <1>6, NextPathRight DEF CacheIsRight
<1>7. CASE EndOp BY <1>7, EndOpRight DEF CacheIsRight
<1>8. CASE AllLinked \/ Finish
  <2>1. op = NoOp BY <1>8 DEF AllLinked, Finish, TransactionTyped
  <2> QED BY <1>8, <2>1, PrefixUntouched DEF AllLinked, Finish, Goto, prefix, stacks
<1>9. CASE Stop \/ Interrupt
  BY <1>9, PrefixUntouched DEF Stop, Interrupt, prefix, stacks
<1>10. CASE UndoLinks
  <2>1. op = NoOp /\ phase = "undoLinks" /\ UNCHANGED <<files, records, unlinked, linked>>
    BY <1>10 DEF UndoLinks, prefix, stacks
  <2>2. CASE op' = op BY <2>1, <2>2, PrefixUntouched
  <2>3. CASE op' # op
    <3> DEFINE p == Last(linked)
    <3>1. linked # <<>> /\ StartUnlink(p) /\ phase' = phase
      BY <1>10, <2>3 DEF UndoLinks, Goto, Undone
    <3>2. p = Links[Len(linked)] /\ p \in Linked
      BY <1>2, <3>1 DEF Last, Linked, PrefixIsRight, StacksRight, TransactionTyped, TypeOK
    <3> HIDE DEF p
    <3>3. op'.kind = "unlink" /\ op'.pkg = p BY <3>1 DEF StartUnlink
    <3>4. NextOrLast' BY <2>1, <3>1, <3>2, <3>3 DEF NextOrLast
    <3>5. p \in Present BY <3>2 DEF Present
    <3> QED BY <2>1, <3>1, <3>4, <3>5, StartUnlinkRight
  <2> QED BY <2>2, <2>3
<1>11. CASE UndoUnlinks
  <2>1. op = NoOp /\ phase = "undoUnlinks" /\ UNCHANGED <<files, records, unlinked, linked>>
    BY <1>11 DEF UndoUnlinks, prefix, stacks
  <2>2. CASE op' = op BY <2>1, <2>2, PrefixUntouched
  <2>3. CASE op' # op
    <3> DEFINE p == Last(unlinked).pkg
    <3>1. unlinked # <<>> /\ Last(unlinked).cached /\ StartLink(p) /\ phase' = phase
      BY <1>11, <2>3 DEF UndoUnlinks, Goto, Undone
    <3>2. Len(unlinked) \in DOMAIN unlinked /\ Last(unlinked) = unlinked[Len(unlinked)]
      BY <1>2, <3>1 DEF Last, TransactionTyped, TypeOK
    <3>3. p = Unlinks[Len(unlinked)] /\ p \in Gone
      <4>1. p = Unlinks[Len(unlinked)] BY <3>2 DEF PrefixIsRight, StacksRight
      <4>2. Len(unlinked) \in 1 .. Len(unlinked) BY <1>2, <3>1 DEF TransactionTyped, TypeOK
      <4> HIDE DEF p
      <4> QED BY <4>1, <4>2 DEF Gone
    <3>4. p \in Relevant /\ Str[p] \in found
      BY <3>1, <3>2 DEF CacheIsRight, StackIsRight
    <3> HIDE DEF p
    <3>5. content[Str[p]] = p BY <3>4 DEF CacheIsRight, YesIsRight
    <3>6. op'.kind = "link" /\ op'.pkg = p BY <3>1 DEF StartLink
    <3>7. NextOrLast' BY <2>1, <3>1, <3>3, <3>6 DEF NextOrLast
    <3>8. p \in Packages /\ p \in Installed
      BY <3>3, PresentTyped, SolutionSequences DEF PrefixIsRight
    <3>9. Linked = {} BY <2>1 DEF Linked, PrefixIsRight, PhaseRight
    <3>10. p \notin Present /\ \A q \in Present : Apart(p, q)
      BY <3>3, <3>8, <3>9 DEF Present, SolutionApart
    <3> QED BY <2>1, <3>1, <3>5, <3>7, <3>8, <3>10, StartLinkRight
  <2> QED BY <2>2, <2>3
<1>12. CASE UNCHANGED vars BY <1>12, PrefixUntouched DEF vars, prefix, stacks
<1> QED BY <1>3, <1>4, <1>5, <1>6, <1>7, <1>8, <1>9, <1>10, <1>11, <1>12 DEF Next, Over

-----------------------------------------------------------------------------
(* What follows for a solution whose packages share no key, and that leaves  *)
(* the prefix in order.                                                      *)

LEMMA PrefixAlways ==
    ASSUME KeysApart, SolutionApart PROVE Spec => [](TransactionTyped /\ PrefixIsRight)
<1>1. Init => TransactionTyped /\ Progress /\ CacheIsRight /\ PrefixIsRight
  BY TransactionTypedInit, ProgressInit, CacheInit, PrefixInit
<1>2. TransactionTyped /\ Progress /\ CacheIsRight /\ PrefixIsRight /\ [Next]_vars
        => TransactionTyped' /\ Progress' /\ CacheIsRight' /\ PrefixIsRight'
  BY TransactionTypedNext, ProgressNext, CacheNext, PrefixNext
<1> QED BY <1>1, <1>2, PTL DEF Spec

\* Wherever execute has stopped or been killed, a package has all its paths
\* and its conda-meta file, or neither, but for the one in hand.
THEOREM PrefixAgreesWithRecords ==
    ASSUME KeysApart, SolutionApart PROVE Spec => []PrefixMatchesRecords
<1>1. TransactionTyped /\ PrefixIsRight => PrefixMatchesRecords
  <2>1. SUFFICES ASSUME TransactionTyped, PrefixIsRight, NEW p \in Packages, op.pkg # p,
                        NEW f \in PathsOf[p]
                 PROVE  files[f] = p <=> records[Str[p]] = p
    BY DEF PrefixMatchesRecords
  <2>2. f \in Paths BY <2>1, SolutionSequences
  <2>3. files[f] = p <=> p \in Present BY <2>1, <2>2 DEF PrefixIsRight, FilesRight, Owns
  <2>4. records[Str[p]] = p <=> p \in Present
    BY <2>1, KeyOf, SolutionSequences DEF PrefixIsRight, RecordsRight
  <2> QED BY <2>3, <2>4
<1> QED BY <1>1, PrefixAlways, PTL

\* TransactionRollback: when it has come to its end, files and records are
\* what they were before, and the history knows of nothing.
THEOREM RollbackIsComplete ==
    ASSUME KeysApart, SolutionApart PROVE Spec => []RollbackRestores
<1>1. TransactionTyped /\ PrefixIsRight => RollbackRestores
  <2>1. SUFFICES ASSUME TransactionTyped, PrefixIsRight, phase = "rolledBack"
                 PROVE  files = FilesAtStart /\ records = RecordsAtStart /\ entry = None
    BY DEF RollbackRestores
  <2>2. unlinked = <<>> /\ linked = <<>> /\ op = NoOp /\ entry = None
    BY <2>1 DEF PrefixIsRight, PhaseRight, TransactionTyped
  <2>3. Present = Installed BY <2>2 DEF Present, Gone, Linked
  <2>4. files \in [Paths -> Packages \cup {None}] /\ records \in [Keys -> Packages \cup {None}]
    BY <2>1 DEF TransactionTyped, TypeOK
  <2>5. ASSUME NEW f \in Paths PROVE files[f] = FilesAtStart[f]
    <3>1. \A p \in Packages : files[f] = p <=> p \in Installed /\ f \in PathsOf[p]
      BY <2>1, <2>2, <2>3, SolutionSequences DEF PrefixIsRight, FilesRight, Owns, NoOp
    <3>2. \A p \in Packages : files[f] = p <=> FilesAtStart[f] = p BY <3>1, StartIsRight
    <3>3. files[f] \in Packages \cup {None} /\ FilesAtStart[f] \in Packages \cup {None}
      BY <2>4, FilesTyped
    <3> QED BY <3>2, <3>3
  <2>6. ASSUME NEW k \in Keys PROVE records[k] = RecordsAtStart[k]
    <3>1. \A p \in Installed : records[Str[p]] = p /\ RecordsAtStart[Str[p]] = p
      BY <2>1, <2>3, StartIsRight DEF PrefixIsRight, RecordsRight
    <3>2. records[k] # None => records[k] \in Installed /\ Str[records[k]] = k
      BY <2>1, <2>3 DEF PrefixIsRight, RecordsRight
    <3>3. RecordsAtStart[k] # None => RecordsAtStart[k] \in Installed /\ Str[RecordsAtStart[k]] = k
      BY StartIsRight
    <3> QED BY <3>1, <3>2, <3>3
  <2> QED BY <2>2, <2>4, <2>5, <2>6, FilesTyped
<1> QED BY <1>1, PrefixAlways, PTL

\* execute returns true only when the whole solution has been carried out, and
\* the history entry says just that.
THEOREM SuccessIsComplete ==
    ASSUME KeysApart, SolutionApart PROVE Spec => []DoneIsComplete
<1>1. TransactionTyped /\ PrefixIsRight => DoneIsComplete
  <2>1. SUFFICES ASSUME TransactionTyped, PrefixIsRight, phase = "done" PROVE DoneIsComplete
    BY DEF DoneIsComplete
  <2>2. Gone = Range(Unlinks) /\ Linked = ToInstall
        /\ entry = [unlinked |-> Range(Unlinks), linked |-> ToInstall]
    BY <2>1, WholeRange DEF PrefixIsRight, PhaseRight, AllIsDone, Gone, Linked
  <2>3. \A p \in ToInstall : records[Str[p]] = p
    BY <2>1, <2>2 DEF PrefixIsRight, RecordsRight, Present
  <2>4. ASSUME NEW p \in Range(Unlinks) \ ToInstall PROVE records[Str[p]] # p
    <3>1. p \in Packages /\ p # None BY SolutionSequences, SolutionTyped DEF Relevant
    <3>2. p \notin Present BY <2>2 DEF Present
    <3> QED BY <2>1, <3>1, <3>2, KeyOf DEF PrefixIsRight, RecordsRight
  <2> QED BY <2>2, <2>3, <2>4 DEF DoneIsComplete
<1> QED BY <1>1, PrefixAlways, PTL
=============================================================================
