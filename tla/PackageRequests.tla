--------------------------- MODULE PackageRequests ---------------------------
(***************************************************************************)
(* What install, update and remove do to one environment: the request that  *)
(* a command makes of its specs, of the history and of the pins             *)
(* (api/install.cpp, update.cpp, remove.cpp), the jobs it becomes, the      *)
(* actions made of libsolv's answer (solver/libsolv/helpers.cpp) and what   *)
(* the transaction then records.  A package is a name and a version.        *)
(* libsolv itself is external: any answer it may give to the jobs.          *)
(***************************************************************************)
EXTENDS Naturals, FiniteSets

CONSTANTS
    PackageNames,    \* "python" is one
    NoarchNames,     \* those that have to be linked again for another python
    VersionsOf,      \* the versions there are of each, numbers from 1
    MinorOf,         \* the minor version that a version of python belongs to
    Needs,           \* the packages that each version depends on, in no circle
    SpecChoices      \* the specs that a user may give

ASSUME RequestConstants ==
    /\ "python" \in PackageNames /\ NoarchNames \subseteq PackageNames
    /\ VersionsOf \in [PackageNames -> SUBSET (Nat \ {0})]
    /\ SpecChoices \subseteq [name : PackageNames, versions : SUBSET (Nat \ {0})]

VARIABLES
    installed,       \* the version of each package in the prefix, 0 for none
    requested,       \* for each name the versions of its spec in the history, {} for none
    asked,           \* the command under way: "none", "asked" or "solved", and of what
    answer,          \* libsolv's: the version of each package afterwards
    solution         \* the actions

requestVars == <<installed, requested, asked, answer, solution>>

AnyVersion(n) == [name |-> n, versions |-> VersionsOf[n]]
Has(state, n) == state[n] # 0
Package(n, v) == [name |-> n, version |-> v]

\* add_job and its variants: what a job is and for which packages.
Job(type, spec, clean) == [type |-> type, spec |-> spec, clean |-> clean]
Jobs(type, specs) == {Job(type, s, FALSE) : s \in specs}

AllKept == [keepDeps |-> TRUE, keepUser |-> TRUE, force |-> FALSE]
FlagChoices == {AllKept, [AllKept EXCEPT !.keepDeps = FALSE], [AllKept EXCEPT !.keepUser = FALSE],
                [AllKept EXCEPT !.force = TRUE]}

Nothing == [stage |-> "none"]

RequestInit ==
    /\ installed = [n \in PackageNames |-> 0]
    /\ requested = [n \in PackageNames |-> {}]
    /\ asked = Nothing
    /\ answer = installed
    /\ solution = {}

-----------------------------------------------------------------------------
(* The requests of the commands *)

Names(specs) == {s.name : s \in specs}

\* python_pin: the minor version stays unless a spec is about python.
PythonPin(specs) ==
    IF Has(installed, "python") /\ "python" \notin Names(specs)
    THEN {[name |-> "python", versions |-> {v \in VersionsOf["python"] :
                                              MinorOf[v] = MinorOf[installed["python"]]}]}
    ELSE {}

FrozenPackages(freeze) ==
    IF freeze THEN {AnyVersion(n) : n \in {m \in PackageNames : Has(installed, m)}} ELSE {}

\* The packages that the history asks for are not cleaned away.
KeptSpecs == {[name |-> n, versions |-> requested[n]] : n \in {m \in PackageNames : requested[m] # {}}}

InstallRequest(specs, freeze) == Jobs("freeze", FrozenPackages(freeze)) \cup Jobs("install", specs)

UpdateAllRequest(prune) ==
    (IF prune THEN Jobs("keep", KeptSpecs) ELSE {})
        \cup {[type |-> "update_all", clean |-> prune]}

\* What the history asks for and the specs do not name goes.
EnvUpdateRequest(specs, removeOthers) ==
    Jobs("install", specs)
        \cup IF removeOthers
             THEN {Job("remove", AnyVersion(s.name), TRUE) :
                     s \in {k \in KeptSpecs : k.name \notin Names(specs)}}
             ELSE {}

RemoveRequest(specs, prune) ==
    (IF prune THEN Jobs("keep", KeptSpecs) ELSE {})
        \cup {Job("remove", s, prune) : s \in specs}

Command(command, specs, jobs, flags) ==
    /\ asked = Nothing
    /\ asked' = [stage |-> "asked", command |-> command, specs |-> specs, jobs |-> jobs,
                 flags |-> flags]
    /\ UNCHANGED <<installed, requested, answer, solution>>

Pinned(jobs, specs) == jobs \cup Jobs("pin", PythonPin(specs))

Install ==
    \E s \in SpecChoices, freeze \in BOOLEAN, flags \in FlagChoices :
        /\ freeze => flags = AllKept \* bound: one option at a time
        /\ Command("install", {s}, Pinned(InstallRequest({s}, freeze), {s}), flags)

Update ==
    \E s \in SpecChoices : Command("update", {s}, Pinned({Job("update", s, TRUE)}, {s}), AllKept)

UpdateAll ==
    \E prune \in BOOLEAN : Command("update_all", {}, Pinned(UpdateAllRequest(prune), {}), AllKept)

UpdateEnv ==
    \E s \in SpecChoices, removeOthers \in BOOLEAN :
        Command("update_env", {s}, Pinned(EnvUpdateRequest({s}, removeOthers), {s}), AllKept)

RemoveSpecs ==
    \E s \in SpecChoices, prune \in BOOLEAN :
        Command("remove", {s}, RemoveRequest({s}, prune), AllKept)

-----------------------------------------------------------------------------
(* request_to_decision_queue, and libsolv *)

IsOnlyName(s) == s.versions = VersionsOf[s.name]

\* Without the spec of an update.
QueueOfNames(job, force) ==
    {IF job.type = "update" THEN [job EXCEPT !.spec = AnyVersion(job.spec.name)] ELSE job}

QueueOf(job, force) ==
    CASE job.type = "install" /\ force /\ Has(installed, job.spec.name) ->
           {Job("reinstall", [job.spec EXCEPT !.versions = {installed[job.spec.name]}], FALSE)}
      [] job.type = "update" /\ ~IsOnlyName(job.spec) ->
           IF Has(installed, job.spec.name)
           THEN {Job("update", AnyVersion(job.spec.name), TRUE), Job("install", job.spec, FALSE)}
           ELSE {}
      [] OTHER -> {job}

Queue == UNION {QueueOf(job, asked.flags.force) : job \in asked.jobs}
Of(type) == {job \in Queue : job.type = type}
Matches(s, v) == v \in s.versions

\* Whether one job is obeyed by an answer.
Obeyed(job, after) ==
    CASE job.type \in {"install", "reinstall"} -> Matches(job.spec, after[job.spec.name])
      [] job.type = "remove" -> ~Matches(job.spec, after[job.spec.name])
      [] job.type = "freeze" -> after[job.spec.name] = installed[job.spec.name]
      [] job.type = "pin"    -> Has(after, job.spec.name) => Matches(job.spec, after[job.spec.name])
      [] OTHER               -> TRUE

NeedsOf(state, n) == IF Has(state, n) THEN Needs[n][state[n]] ELSE {}

\* A package comes when it is asked for or needed.
MayCome(n, after) ==
    \/ \E job \in Of("install") : job.spec.name = n
    \/ \E m \in PackageNames : n \in NeedsOf(after, m)

\* What each installed package depends on, directly or not.
Dependencies[n \in PackageNames] ==
    NeedsOf(installed, n) \cup UNION {Dependencies[m] : m \in NeedsOf(installed, n)}

ToBeErased(n) ==
    \E job \in Of("remove") : job.spec.name = n /\ Matches(job.spec, installed[n])

\* Cleaning takes the dependencies of what is erased or updated, but those that
\* a job keeps.
MayBeCleaned(n) ==
    /\ \E m \in PackageNames : n \in Dependencies[m] /\
         \E job \in Queue : job.clean /\
            CASE job.type = "remove" -> job.spec.name = m /\ Matches(job.spec, installed[m])
              [] job.type = "update" -> job.spec.name = m
              [] OTHER               -> job.type = "update_all"
    /\ ~\E job \in Of("keep") \cup Of("install") :
          job.spec.name = n /\ Matches(job.spec, installed[n])

\* A package goes when it or a package that it depends on is to be removed, or
\* when dependencies are cleaned and nothing needs it.
MayGo(n, after) ==
    \/ \E m \in {n} \cup Dependencies[n] : ToBeErased(m)
    \/ MayBeCleaned(n) /\ \A m \in PackageNames : n \notin NeedsOf(after, m)

\* remove has no channel loaded: only what is installed is there.  What misses a
\* dependency already may stay so.
IsAnswer(after) ==
    /\ \A n \in PackageNames : Has(after, n) =>
         /\ after[n] \in IF asked.command = "remove" THEN {installed[n]} ELSE VersionsOf[n]
         /\ \A m \in NeedsOf(after, n) :
              Has(after, m) \/ (~Has(installed, m) /\ after[n] = installed[n])
    /\ \A job \in Queue : Obeyed(job, after)
    /\ \A n \in PackageNames :
         /\ ~Has(installed, n) /\ Has(after, n) => MayCome(n, after)
         /\ Has(installed, n) /\ ~Has(after, n) => MayGo(n, after)

AllAnswers ==
    {after \in [PackageNames -> UNION {VersionsOf[n] : n \in PackageNames} \cup {0}] :
       \A n \in PackageNames : after[n] \in VersionsOf[n] \cup {0}}

-----------------------------------------------------------------------------
(* transaction_to_solution: an action removes and installs, or omits *)

Action(removes, installs, omits) == [removes |-> removes, installs |-> installs, omits |-> omits]
ReinstallOf(p) == Action({p}, {p}, {})

PackageIsRequested(n) ==
    \E job \in asked.jobs : job.type \in {"install", "remove", "update"} /\ job.spec.name = n

FilterKeeps(n) == IF PackageIsRequested(n) THEN asked.flags.keepUser ELSE asked.flags.keepDeps

Reinstalled(n) == \E job \in Of("reinstall") : job.spec.name = n
Old(n) == {Package(n, installed[n])} \cap {Package(n, v) : v \in VersionsOf[n]}
New(n, after) == {Package(n, after[n])} \cap {Package(n, v) : v \in VersionsOf[n]}

\* Every step is omitted by itself, also the two of a change.
ActionsFor(n, after) ==
    IF installed[n] = after[n] /\ ~Reinstalled(n) THEN {}
    ELSE IF FilterKeeps(n) THEN {Action(Old(n), New(n, after), {})}
    ELSE {Action({}, {}, {p}) : p \in Old(n) \cup New(n, after)}

Solution(after) == UNION {ActionsFor(n, after) : n \in PackageNames}

AllRemoved(actions) == UNION {a.removes : a \in actions}
AllInstalled(actions) == UNION {a.installs : a \in actions}
AllOmitted(actions) == UNION {a.omits : a \in actions}

FindNewPython(actions) == {p \in AllInstalled(actions) : p.name = "python"}

\* installed.compatible_with(newer, 2)
PythonBinaryCompatible(older, newer) == older >= newer /\ MinorOf[older] = MinorOf[newer]

NeedsPythonRelink(actions) ==
    Has(installed, "python") /\ \E p \in FindNewPython(actions) :
        ~PythonBinaryCompatible(installed["python"], p.version)

RefersTo(action, n) == n \in Names(action.removes \cup action.installs \cup action.omits)

\* With what was omitted taken for dealt with.
RelinkUnmentioned(actions) ==
    actions \cup {ReinstallOf(Package(n, installed[n])) :
                    n \in {m \in NoarchNames : Has(installed, m)
                                             /\ ~\E a \in actions : RefersTo(a, m)}}

\* What is not dealt with is reinstalled, and so is what was omitted, by the
\* first of its steps, the one that removes it.
AddNoarchRelink(actions) ==
    LET linked == {n \in NoarchNames : Has(installed, n)}
        omitted == {n \in linked : Action({}, {}, Old(n)) \in actions}
        unmentioned == {n \in linked : ~\E a \in actions : RefersTo(a, n)}
    IN  (actions \ {Action({}, {}, Old(n)) : n \in omitted})
          \cup UNION {{ReinstallOf(p) : p \in Old(n)} : n \in omitted \cup unmentioned}

Solve ==
    /\ asked.stage = "asked"
    /\ \E after \in AllAnswers :
         /\ IsAnswer(after)
         /\ answer' = after
         /\ LET actions == Solution(after)
            IN  solution' = IF NeedsPythonRelink(actions) THEN AddNoarchRelink(actions) ELSE actions
    /\ asked' = [asked EXCEPT !.stage = "solved"]
    /\ UNCHANGED <<installed, requested>>

\* remove --force asks no solver: the records of the names, whatever their
\* versions, and nothing for the history, where the specs are made of packages
\* that were moved into the actions.
ForceRemove ==
    /\ asked = Nothing
    /\ \E s \in SpecChoices :
         LET gone == {p \in Old(s.name) : TRUE}
         IN  /\ solution' = {Action({p}, {}, {}) : p \in gone}
             /\ answer' = [installed EXCEPT ![s.name] = 0]
             /\ asked' = [stage |-> "solved", command |-> "force", specs |-> {s}, jobs |-> {},
                          flags |-> AllKept]
    /\ UNCHANGED <<installed, requested>>

-----------------------------------------------------------------------------
(* The transaction *)

Afterwards ==
    [n \in PackageNames |->
        IF \E p \in AllInstalled(solution) : p.name = n
        THEN (CHOOSE p \in AllInstalled(solution) : p.name = n).version
        ELSE IF \E p \in AllRemoved(solution) : p.name = n THEN 0 ELSE installed[n]]

\* find_python_version: what the noarch packages are compiled for.
PythonVersion ==
    IF FindNewPython(solution) = {} THEN installed["python"]
    ELSE (CHOOSE p \in FindNewPython(solution) : TRUE).version

SpecsOf(types) == {job.spec : job \in {j \in asked.jobs : j.type \in types}}

\* m_history_entry.  Without the specs of the user it is the dependencies of
\* what was omitted that count as asked for.
HistoryUpdates ==
    IF asked.flags.keepUser THEN SpecsOf({"install", "update"})
    ELSE {AnyVersion(m) : m \in UNION {Needs[p.name][p.version] : p \in AllOmitted(solution)}}
HistoryRemoves == IF asked.flags.keepUser THEN SpecsOf({"remove", "update"}) ELSE {}

Execute ==
    /\ asked.stage = "solved"
    /\ installed' = Afterwards
    /\ requested' = [n \in PackageNames |->
                        IF n \in Names(HistoryUpdates)
                        THEN (CHOOSE s \in HistoryUpdates : s.name = n).versions
                        ELSE IF n \in Names(HistoryRemoves) THEN {} ELSE requested[n]]
    /\ asked' = Nothing /\ answer' = installed' /\ solution' = {}

\* Not confirmed, or rolled back.
Decline ==
    /\ asked.stage = "solved"
    /\ asked' = Nothing /\ answer' = installed /\ solution' = {}
    /\ UNCHANGED <<installed, requested>>

\* UnSolvable
NoSolution ==
    /\ asked.stage = "asked"
    /\ ~\E after \in AllAnswers : IsAnswer(after)
    /\ asked' = Nothing
    /\ UNCHANGED <<installed, requested, answer, solution>>

RequestNext ==
    \/ Install \/ Update \/ UpdateAll \/ UpdateEnv \/ RemoveSpecs \/ ForceRemove
    \/ Solve \/ NoSolution \/ Execute \/ Decline
RequestSpec == RequestInit /\ [][RequestNext]_requestVars

-----------------------------------------------------------------------------
Solved == asked.stage = "solved"

\* What the actions do is what libsolv decided for the packages that the flags
\* leave in, and nothing to the others: each package is dealt with once, only
\* what is there is removed, and whatever is noarch is linked again when the
\* minor version of python changes, for the python that will be there.
SolutionIsRight == Solved =>
    /\ \A n \in PackageNames :
         /\ Afterwards[n] = IF asked.command = "force" \/ FilterKeeps(n) THEN answer[n] ELSE installed[n]
         /\ Cardinality({a \in solution : n \in Names(a.removes \cup a.installs)}) <= 1
    /\ AllRemoved(solution) \subseteq {Package(n, installed[n]) : n \in PackageNames}
    /\ Has(Afterwards, "python") => PythonVersion = Afterwards["python"]
    /\ Has(Afterwards, "python") /\ Has(installed, "python")
         /\ MinorOf[Afterwards["python"]] # MinorOf[installed["python"]] =>
            \A n \in NoarchNames : Has(Afterwards, n) =>
                Package(n, Afterwards[n]) \in AllInstalled(solution)

\* A spec is met when its command succeeds, and python keeps its minor version
\* under commands that do not name it.
SpecsAreMet == Solved /\ asked.flags = AllKept =>
    /\ \A job \in asked.jobs :
         CASE job.type = "install" -> Matches(job.spec, Afterwards[job.spec.name])
           [] job.type = "update"  ->
                Has(installed, job.spec.name) /\ Has(Afterwards, job.spec.name) =>
                  Matches(job.spec, Afterwards[job.spec.name])
           [] OTHER -> TRUE
    /\ \A s \in asked.specs :
         asked.command \in {"remove", "force"} => ~Matches(s, Afterwards[s.name])
    /\ Has(installed, "python") /\ Has(Afterwards, "python")
         /\ "python" \notin Names(asked.specs) =>
            MinorOf[Afterwards["python"]] = MinorOf[installed["python"]]

\* What the user asked for, and is as asked, goes only with a package that a
\* command is told to remove: cleaning the dependencies takes none of it, but
\* for the former dependencies of a package that an update names, which come
\* without the jobs that keep what the history asks for.
AskedForStays == Solved =>
    \A n \in PackageNames :
        Has(installed, n) /\ installed[n] \in requested[n] /\ ~Has(Afterwards, n) =>
            \E m \in Names(asked.specs) \cup Names(SpecsOf({"remove"})) :
                \/ m \in {n} \cup Dependencies[n]
                \/ asked.command = "update" /\ n \in Dependencies[m]

\* A command that succeeds meets its specs, and takes nothing else that the
\* user asked for; its actions are those of the answer that its flags leave in,
\* and link noarch packages again for another python.
CommandsDoAsAsked == SolutionIsRight /\ SpecsAreMet /\ AskedForStays
=============================================================================
