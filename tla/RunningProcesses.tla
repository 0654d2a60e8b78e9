--------------------------- MODULE RunningProcesses ---------------------------
(***************************************************************************)
(* run.cpp: each `mamba run` writes a file named by its pid to the process   *)
(* directory, so that `ps list` and `ps stop` find it and no two share a     *)
(* name.  A pid may be used again after its process has ended.  The lock of  *)
(* the directory is a LockFile, whose file those who lock it make and        *)
(* remove: two of them may have the directory locked at a time.              *)
(***************************************************************************)
EXTENDS Integers, FiniteSets

CONSTANTS Pids,            \* pids that processes of `mamba run` have
          Labels,          \* names that --label may give
          GeneratedNames,  \* names that generate_unique_process_name may make
          MaxRuns          \* bound: processes in one behaviour

VARIABLES procFile,        \* the file of each pid: NoFile, TornFile or the name in it
          runPc,           \* where each process is
          dirPc, dirFd, dirExisted, dirShared, dirRegistry, dirFile, dirLockOf,
                           \* the variables of the LockFile of the directory
          asked,           \* its label, AnyName, or PsStop
          processName,     \* the name it chose
          hasHandler,      \* those with the handler of SIGTERM
          targets,         \* the pids that each `ps stop` has found and not signalled
          torn,            \* history: pids whose file was left by a process that was
                           \* killed while it wrote
          together,        \* history: pairs of processes that had the directory
                           \* locked at the same time
          runs             \* the processes so far

dirVars == <<dirPc, dirFd, dirExisted, dirShared, dirRegistry, dirFile, dirLockOf>>
nameVars == <<asked, processName>>
signalVars == <<hasHandler, targets>>
historyVars == <<torn, together, runs>>
procVars == <<procFile, runPc, dirVars, nameVars, signalVars, historyVars>>

NoFile == "no file"
TornFile == "torn file"
NoPid == "no pid"
PsStop == "ps stop"        \* what a process of that command is asked
AnyName == "any name"
Names == Labels \cup GeneratedNames

ASSUME ProcessConstants ==
    /\ MaxRuns \in Nat
    /\ NoPid \notin Pids
    /\ {NoFile, TornFile, AnyName, PsStop} \cap Names = {}

\* One thread of each process locks; there are no more lock files than
\* processes that have one open.
Dir == INSTANCE LockFile WITH
    Threads <- Pids, Processes <- Pids, ProcessOf <- [p \in Pids |-> p],
    Inodes <- Pids, FileAtStart <- FALSE, Timed <- FALSE, OpenMayFail <- FALSE, None <- NoPid,
    pc <- dirPc, fd <- dirFd, existed <- dirExisted, shared <- dirShared,
    registry <- dirRegistry, file <- dirFile, lockOf <- dirLockOf

RunTo(p, place) == runPc' = [runPc EXCEPT ![p] = place]
HasDirectory(p) == dirPc[p] = "holding"

\* get_all_running_processes_info parses every file that it can open, and
\* throws at one that is no json yet.
CannotBeRead == \E p \in Pids : procFile[p] = TornFile
IsRunning(name) == \E p \in Pids : procFile[p] = name

-----------------------------------------------------------------------------
(* lock_proc_dir, and the end of the LockFile that it returns *)

\* Which number the inode of a new file gets makes no difference.
Locking(p) ==
    \/ Dir!Check(p) \/ Dir!TryLock(p)
    \/ Dir!Open(p) /\ (dirFile = NoPid => dirFile' = CHOOSE i \in Pids : Dir!Unreferenced(i))
Unlocking(p) == Dir!Drop(p) \/ Dir!CloseFd(p) \/ Dir!RemoveFile(p)

\* Before the name is chosen, in ~ScopedProcFile, and in ps stop.
LockDirectory(p) ==
    /\ runPc[p] \in {"locking", "leaving"} /\ Locking(p)
    /\ UNCHANGED <<procFile, runPc, nameVars, signalVars, historyVars>>
AwaitDirectory(p) ==
    /\ runPc[p] \in {"locking", "leaving"} /\ Dir!Grant(p)
    /\ UNCHANGED <<procFile, runPc, nameVars, signalVars, historyVars>>
DirectoryLocked(p) ==
    /\ runPc[p] \in {"locking", "leaving"} /\ Dir!Acquire(p)
    /\ together' = together \cup {{p, q} : q \in {q \in Pids : HasDirectory(q)}}
    /\ RunTo(p, IF runPc[p] = "leaving" THEN "removing"
                ELSE IF asked[p] = PsStop THEN "looking" ELSE "naming")
    /\ UNCHANGED <<procFile, nameVars, signalVars, torn, runs>>

\* When the constructor or the destructor of ScopedProcFile returns, or an
\* exception leaves the block.
UnlockDirectory(p) ==
    /\ runPc[p] \in {"starting", "ending", "signalling"} /\ Unlocking(p)
    /\ UNCHANGED <<procFile, runPc, nameVars, signalVars, historyVars>>

-----------------------------------------------------------------------------
(* run_in_environment *)

\* `mamba run`, or `ps stop`, which takes the lock at once.
Run(p, label) ==
    /\ runPc[p] = "out" /\ runs < MaxRuns
    /\ runs' = runs + 1
    /\ asked' = [asked EXCEPT ![p] = label]
    /\ RunTo(p, IF label = PsStop THEN "locking" ELSE "logging")
    /\ UNCHANGED <<procFile, dirVars, processName, signalVars, torn, together>>

\* The line for the log reads the directory without its lock: a file that is
\* being written just then ends the run.
LogRunning(p) ==
    /\ runPc[p] = "logging"
    /\ RunTo(p, IF CannotBeRead THEN "ending" ELSE "locking")
    /\ UNCHANGED <<procFile, dirVars, nameVars, signalVars, historyVars>>

FreeNames(p) ==
    {name \in IF asked[p] = AnyName THEN GeneratedNames ELSE {asked[p]} : ~IsRunning(name)}

\* As ChooseName, but the directory need not be locked for it.
ChooseUnlocked(p) ==
    /\ runPc[p] \in {"locking", "naming"} /\ asked[p] # PsStop /\ ~CannotBeRead
    /\ dirPc[p] \in {"idle", "holding"}
    /\ \E name \in FreeNames(p) : processName' = [processName EXCEPT ![p] = name]
    /\ RunTo(p, "opening")
    /\ UNCHANGED <<procFile, dirVars, asked, signalVars, historyVars>>

\* generate_unique_process_name, or is_process_name_running for the label.
ChooseName(p) ==
    /\ runPc[p] = "naming" /\ ~CannotBeRead
    /\ \E name \in FreeNames(p) : processName' = [processName EXCEPT ![p] = name]
    /\ RunTo(p, "opening")
    /\ UNCHANGED <<procFile, dirVars, asked, signalVars, historyVars>>

\* The exceptions: a file cannot be read, or the label is another's.
NameThrows(p) ==
    /\ runPc[p] \in {"naming", "looking"} /\ (CannotBeRead \/ IsRunning(asked[p]))
    /\ RunTo(p, "ending")
    /\ UNCHANGED <<procFile, dirVars, nameVars, signalVars, historyVars>>

\* The file cannot be opened.
OpenThrows(p) ==
    /\ runPc[p] = "opening"
    /\ RunTo(p, "ending")
    /\ UNCHANGED <<procFile, dirVars, nameVars, signalVars, historyVars>>

\* ScopedProcFile: the file is made, or one that an earlier process of this
\* pid left is truncated.
OpenProcFile(p) ==
    /\ runPc[p] = "opening"
    /\ procFile' = [procFile EXCEPT ![p] = TornFile]
    /\ torn' = torn \ {p}
    /\ RunTo(p, "writing")
    /\ UNCHANGED <<dirVars, nameVars, signalVars, together, runs>>

\* The stream is closed before the LockFile, a parameter, goes.
WriteProcFile(p) ==
    /\ runPc[p] = "writing"
    /\ procFile' = [procFile EXCEPT ![p] = processName[p]]
    /\ RunTo(p, "starting")
    /\ UNCHANGED <<dirVars, nameVars, signalVars, historyVars>>

StartProcess(p) ==
    /\ runPc[p] = "starting" /\ dirPc[p] = "idle"
    /\ \E place \in {"running", "leaving"} : RunTo(p, place)
    /\ UNCHANGED <<procFile, dirVars, nameVars, signalVars, historyVars>>

\* The task given to the executor.
InstallHandler(p) ==
    /\ runPc[p] = "running" /\ p \notin hasHandler
    /\ hasHandler' = hasHandler \cup {p}
    /\ UNCHANGED <<procFile, runPc, dirVars, nameVars, targets, historyVars>>

\* drain and stop return.
ProgramEnds(p) ==
    /\ runPc[p] = "running"
    /\ RunTo(p, "leaving")
    /\ UNCHANGED <<procFile, dirVars, nameVars, signalVars, historyVars>>

RemoveProcFile(p) ==
    /\ runPc[p] = "removing"
    /\ procFile' = [procFile EXCEPT ![p] = NoFile]
    /\ RunTo(p, "ending")
    /\ UNCHANGED <<dirVars, nameVars, signalVars, historyVars>>

\* What the process had in memory goes with it.
Gone(p) ==
    /\ RunTo(p, "out")
    /\ asked' = [asked EXCEPT ![p] = AnyName]
    /\ processName' = [processName EXCEPT ![p] = AnyName]
    /\ hasHandler' = hasHandler \ {p}
    /\ together' = {pair \in together : p \notin pair}

Exit(p) ==
    /\ runPc[p] \in {"ending", "signalling"} /\ dirPc[p] = "idle" /\ targets[p] = {}
    /\ Gone(p)
    /\ UNCHANGED <<procFile, dirVars, targets, torn, runs>>

-----------------------------------------------------------------------------
(* ps stop, and signals.  What nothing handles ends the process: the kernel  *)
(* gives its lock back, its files stay, the lock file as well.              *)

EndsWithoutUnwinding(p) ==
    /\ runPc[p] # "out"
    /\ torn' = IF runPc[p] = "writing" THEN torn \cup {p} ELSE torn
    /\ IF dirPc[p] = "idle" THEN UNCHANGED dirVars ELSE Dir!Crash(p)
    /\ Gone(p)
    /\ UNCHANGED <<procFile, runs>>

Dies(p) ==
    /\ EndsWithoutUnwinding(p)
    /\ targets' = [targets EXCEPT ![p] = {}]

\* Looked up under the lock, signalled without it: by then the pid may be
\* another process's.
StopLookup(p, name) ==
    /\ runPc[p] = "looking" /\ ~CannotBeRead
    /\ targets' = [targets EXCEPT ![p] = {q \in Pids : procFile[q] = name}]
    /\ RunTo(p, "signalling")
    /\ UNCHANGED <<procFile, dirVars, nameVars, hasHandler, historyVars>>

Signalled(p, q) == [targets EXCEPT ![p] = @ \ {q}]
StopProcess(p, q) ==
    /\ q \in targets[p] /\ dirPc[p] = "idle"
    /\ \/ /\ q \in hasHandler
          /\ runPc' = IF runPc[q] = "running" THEN [runPc EXCEPT ![q] = "leaving"] ELSE runPc
          /\ targets' = Signalled(p, q)
          /\ UNCHANGED <<procFile, dirVars, nameVars, hasHandler, historyVars>>
       \/ /\ q \notin hasHandler /\ EndsWithoutUnwinding(q)
          /\ targets' = [Signalled(p, q) EXCEPT ![q] = {}]
       \/ /\ runPc[q] = "out"
          /\ targets' = Signalled(p, q)
          /\ UNCHANGED <<procFile, runPc, dirVars, nameVars, hasHandler, historyVars>>

-----------------------------------------------------------------------------
ProcessInit ==
    /\ procFile = [p \in Pids |-> NoFile]
    /\ runPc = [p \in Pids |-> "out"]
    /\ Dir!Init
    /\ asked = [p \in Pids |-> AnyName] /\ processName = [p \in Pids |-> AnyName]
    /\ hasHandler = {} /\ targets = [p \in Pids |-> {}]
    /\ torn = {} /\ together = {} /\ runs = 0

ProcessNext ==
    \E p \in Pids :
       \/ \E label \in Labels \cup {AnyName, PsStop} : Run(p, label)
       \/ LockDirectory(p) \/ AwaitDirectory(p) \/ DirectoryLocked(p) \/ UnlockDirectory(p)
       \/ LogRunning(p) \/ ChooseName(p) \/ NameThrows(p) \/ OpenProcFile(p) \/ OpenThrows(p)
       \/ WriteProcFile(p) \/ StartProcess(p) \/ InstallHandler(p) \/ ProgramEnds(p)
       \/ RemoveProcFile(p) \/ Exit(p) \/ Dies(p)
       \/ \E name \in Names : StopLookup(p, name)
       \/ \E q \in Pids : StopProcess(p, q)

ProcessSpec == ProcessInit /\ [][ProcessNext]_procVars

-----------------------------------------------------------------------------
ProcessTypeOK ==
    /\ procFile \in [Pids -> Names \cup {NoFile, TornFile}]
    /\ runPc \in [Pids -> {"out", "logging", "locking", "naming", "opening", "writing",
                           "starting", "running", "leaving", "removing", "ending", "looking", "signalling"}]
    /\ asked \in [Pids -> Labels \cup {AnyName, PsStop}]
    /\ processName \in [Pids -> Names \cup {AnyName}]
    /\ hasHandler \subseteq Pids /\ targets \in [Pids -> SUBSET Pids] /\ torn \subseteq Pids
    /\ together \subseteq SUBSET Pids
    /\ runs \in 0..MaxRuns

Launched(p) == runPc[p] \in {"starting", "running", "leaving", "removing"}

\* A process that was launched is listed under its name until it has ended
\* (ScopedProcFile), although a pid may come back.
LaunchedAreListed == \A p \in Pids : Launched(p) => procFile[p] = processName[p]

\* No two that were launched have one name, although names are chosen by
\* looking at files (generate_unique_process_name), unless the two had the
\* directory locked at the same time.
NamesAreUnique ==
    \A p, q \in Pids :
        Launched(p) /\ Launched(q) /\ processName[p] = processName[q] => p = q \/ {p, q} \in together

\* Who has the directory locked finds files whole, unless their writers were
\* killed or are those it meets.
WholeUnderLock ==
    \A p, q \in Pids :
        HasDirectory(p) /\ procFile[q] = TornFile => q \in torn \cup {p} \/ {p, q} \in together

ProcessesAreListed == LaunchedAreListed /\ NamesAreUnique /\ WholeUnderLock

\* What ps and stop go by is right at any time.
ProcessesAreKnown == ProcessTypeOK /\ ProcessesAreListed
=============================================================================
