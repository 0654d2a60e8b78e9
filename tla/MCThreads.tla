------------------------------ MODULE MCThreads ------------------------------
(***************************************************************************)
(* Small parts of libmamba, for TLC: the owner of the threads, the           *)
(* synchronizer of the callables that threads run, the thread that draws    *)
(* the progress bars, the explanation of an unsolvable request, and what    *)
(* processes share: a lock, the list of environments and the trash.  A       *)
(* behaviour is one of the part that it begins with, while the others stay   *)
(* in a state they begin in.                                                *)
(***************************************************************************)
EXTENDS MainExecutor, TaskSynchronizer, ProgressBars, ProblemsGraph, SharedFiles

CONSTANTS m1, m2, w1, w2, h1, t1, t2, t3

VARIABLES part,
          lockerPc, lockerFd, lockerExisted, lockOwner, lockRegistry, lockName, recordLock

(* MainExecutor: two program threads call the executor, and close it.      *)

MCMain == {m1, m2}
MCTasks == {w1, w2}
MCHandlers == {h1}
MCAllThreads == {m1, m2, w1, w2}

(* TaskSynchronizer: three callables, a join, a reset, a second join and the *)
(* end of the object.                                                       *)

MCCallables == {t1, t2, t3}

(* LockFile: three processes of one thread each, a lock file that an earlier *)
(* run left, the default of no timeout.  Four inodes: that of the file, and  *)
(* one more for each.                                                       *)

PathLock == INSTANCE LockFile WITH
    Threads <- MCCallables, Processes <- MCCallables, ProcessOf <- [t \in MCCallables |-> t],
    Inodes <- 1..4, FileAtStart <- TRUE, Timed <- FALSE, OpenMayFail <- TRUE,
    pc <- lockerPc, fd <- lockerFd, existed <- lockerExisted, shared <- lockOwner,
    registry <- lockRegistry, file <- lockName, lockOf <- recordLock

\* A process whose LockFileOwner believes it has the path locked has the record
\* lock of the file.
LockIsReal == PathLock!LockIsReal

\* No two processes have the path locked at once (LockFileOwner, with the file
\* of an earlier run in place).
Exclusion == PathLock!Exclusion

\* Every attempt to lock the path ends, with the lock or without it.
AttemptEnds == PathLock!AttemptEnds

(* EnvironmentsList, TrashFiles *)

MCEnvPrefixes == {"e1", "e2"}
MCMambas == {"mamba1", "mamba2"}
MCPrefixFiles == {"lib"}

(* ProblemsGraph: a 1, b 1 and 2, c 1 and 2, d 1; dependencies on each name, *)
(* on each version, and on versions that are not there.                     *)

MCSolvableName == <<"a", "b", "b", "c", "c", "d">>
MCDeps ==
    <<[name |-> "a", by |-> {1}], [name |-> "b", by |-> {2, 3}], [name |-> "b", by |-> {2}],
      [name |-> "b", by |-> {3}], [name |-> "b", by |-> {}], [name |-> "c", by |-> {4, 5}],
      [name |-> "c", by |-> {4}], [name |-> "c", by |-> {5}], [name |-> "c", by |-> {}],
      [name |-> "c", by |-> {}], [name |-> "d", by |-> {6}]>>
MCDepIds == 11..21
MCDepName == [d \in MCDepIds |-> MCDeps[d - 10].name]
MCDepProviders == [d \in MCDepIds |-> MCDeps[d - 10].by]
MCNameDep == [a |-> 11, b |-> 12, c |-> 16, d |-> 21]

MCA == 11      MCB == 12      MCB2 == 14     MCNoB == 15     MCC == 16
MCC1 == 17     MCC2 == 18     MCNoC == 19    MCNorC == 20    MCD == 21

MCJob(d) == Rule("job", 0, 0, d)
MCUnknown(d) == Rule("job_unknown", 0, 0, d)
MCRequires(s, d) == Rule("requires", s, 0, d)
MCNothing(s, d) == Rule("nothing_provides", s, 0, d)
MCConflicts(s, t) == Rule("conflicts", s, t, 0)
MCConstrains(s, t, d) == Rule("constrains", s, t, d)
MCUpdate(s) == Rule("update", s, 0, 0)

\* A name that is unknown, a dependency that nothing provides; two versions
\* asked for, or one of them by a dependency, or by both of two packages that
\* merge; constraints, one of them simplified; an installed package that would
\* have to go; a package that is met twice; two ways to one conflict; leaves
\* that are told in one entry although they did not merge.
MCProblems ==
    {{MCUnknown(MCNoC)},
     {MCJob(MCA), MCNothing(1, MCNoB)},
     {MCJob(MCC1), MCJob(MCC2), MCConflicts(4, 5)},
     {MCJob(MCA), MCRequires(1, MCC1), MCJob(MCC2), MCConflicts(4, 5)},
     {MCJob(MCB), MCRequires(2, MCC1), MCRequires(3, MCC1), MCJob(MCC2), MCConflicts(4, 5)},
     {MCJob(MCB), MCConstrains(2, 4, MCC2), MCConstrains(3, 4, MCC2), MCJob(MCC1)},
     {MCJob(MCA), MCJob(MCC), MCConstrains(1, 4, MCC2), MCConstrains(5, 1, MCNoB)},
     {MCUpdate(4), MCJob(MCA), MCRequires(1, MCB2), MCConstrains(3, 4, MCNoC), MCConstrains(3, 5, MCNoC)},
     {MCJob(MCB), MCRequires(2, MCC), MCRequires(3, MCC2), MCNothing(4, MCNoB), MCNothing(5, MCNorC)},
     {MCJob(MCA), MCJob(MCD), MCRequires(1, MCB), MCRequires(2, MCC1), MCRequires(3, MCC1),
      MCRequires(6, MCC2), MCConflicts(4, 5)},
     {MCJob(MCA), MCRequires(1, MCB), MCJob(MCC), MCRequires(5, MCB2), MCJob(MCD),
      MCConflicts(2, 4), MCConflicts(3, 6)}}

-----------------------------------------------------------------------------
Parts == {"executor", "synchronizer", "bars", "problems", "lock", "environments", "trash"}

MCInit ==
    /\ part \in Parts
    /\ Init /\ SyncInit /\ BarsInit /\ ProblemInit
    /\ EnvironmentsInit /\ TrashInit
    /\ PathLock!Init /\ (part # "lock" => lockName = 1)
    /\ part # "problems" => rulesLeft = {MCUnknown(MCNoC)}

lockVars == <<lockerPc, lockerFd, lockerExisted, lockOwner, lockRegistry, lockName, recordLock>>
sharedVars == <<lockVars, envVars, trashVars>>
threadVars == <<vars, syncVars, barsVars, problemVars>>

\* The executor and the lock must never be stuck; the others may come to an end.
MCEnded == part \notin {"executor", "lock"} /\ UNCHANGED <<threadVars, sharedVars>>

ThreadsNext ==
    \/ part = "executor" /\ Next /\ UNCHANGED <<syncVars, barsVars, problemVars>>
    \/ part = "synchronizer" /\ SyncNext /\ UNCHANGED <<vars, barsVars, problemVars>>
    \/ part = "bars" /\ BarsNext /\ UNCHANGED <<vars, syncVars, problemVars>>
    \/ part = "problems" /\ ProblemNext /\ UNCHANGED <<vars, syncVars, barsVars>>
SharedNext ==
    \/ part = "lock" /\ PathLock!Next /\ UNCHANGED <<envVars, trashVars>>
    \/ part = "environments" /\ EnvironmentsNext /\ UNCHANGED <<lockVars, trashVars>>
    \/ part = "trash" /\ TrashNext /\ UNCHANGED <<lockVars, envVars>>

MCNext ==
    /\ \/ ThreadsNext /\ UNCHANGED sharedVars
       \/ SharedNext /\ UNCHANGED threadVars
       \/ MCEnded
    /\ UNCHANGED part

\* The mutex of the synchronizer, or the lock.
TakesItInTheEnd(t) ==
    \/ part = "synchronizer" /\ NotifyEnd(t) /\ UNCHANGED lockVars
    \/ part = "lock" /\ PathLock!Grant(t) /\ UNCHANGED syncVars

MCFairness ==
    /\ \A t \in Threads : WF_vars(part = "executor" /\ Progress(t))
    /\ \A w \in Tasks : WF_vars(part = "executor" /\ TaskEnd(w))
    /\ \A t \in MCCallables :
         /\ WF_syncVars(part = "synchronizer" /\ TaskStep(t))
         /\ WF_lockVars(part = "lock" /\ PathLock!Proceed(t))
         /\ SF_<<syncVars, lockVars>>(TakesItInTheEnd(t))
    /\ WF_syncVars(part = "synchronizer" /\ OwnerStep)
    /\ WF_barsVars(part = "bars" /\ Terminating)
    /\ \A r \in Watches : WF_barsVars(part = "bars" /\ RendererStep(r))

MCSpecification == MCInit /\ [][MCNext]_<<part, threadVars, sharedVars>> /\ MCFairness

-----------------------------------------------------------------------------
\* Nobody waits for ever: a close, a call of a synchronizer and a terminate
\* come to their end.
CallsEnd == CloseReturns /\ CallsReturn /\ TerminateReturns
=============================================================================
