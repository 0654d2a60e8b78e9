--------------------------- MODULE ExecutorInstance ---------------------------
(***************************************************************************)
(* singletons.cpp: the one MainExecutor of the process.  A program makes it *)
(* itself, or instance() makes a default one on first use.  What an executor*)
(* does with its tasks is the module MainExecutor; here a task counts while *)
(* it runs, and may ask for the instance like any thread.                   *)
(***************************************************************************)
EXTENDS Integers, FiniteSets

CONSTANTS Callers,         \* threads: those that call, and those that run tasks
          MaxExecutors     \* bound: executors made in one behaviour

VARIABLES mainExecutor,    \* the atomic pointer, 0 when null
          isDefault,       \* the executor that default_executor owns, 0 when none
          defaultMutex,    \* the holder of default_executor_mutex, or NoCaller
          callPc,          \* where each thread is
          taskOf,          \* the executor a thread runs a task of, 0 for none
          aliveExecutors,
          made             \* the number of executors made

executorVars == <<mainExecutor, isDefault, defaultMutex, callPc, taskOf, aliveExecutors, made>>

NoCaller == "no caller"
CallIs(t, p) == callPc[t] = p
CallTo(t, p) == callPc' = [callPc EXCEPT ![t] = p]

ExecutorCloses == \E t \in Callers : callPc[t] \in {"joining", "clearing"}

ownedVars == <<isDefault, taskOf, aliveExecutors, made>>

-----------------------------------------------------------------------------
(* instance(): the pointer is read before the lock, under the lock, and     *)
(* again to return.                                                         *)

CallInstance(t) ==
    /\ CallIs(t, "out")
    /\ CallTo(t, IF mainExecutor = 0 THEN "checking" ELSE "returning")
    /\ UNCHANGED <<mainExecutor, defaultMutex, ownedVars>>

LockForInstance(t) ==
    /\ CallIs(t, "checking") /\ defaultMutex = NoCaller
    /\ defaultMutex' = t
    /\ CallTo(t, "locked")
    /\ UNCHANGED <<mainExecutor, ownedVars>>

\* The constructor throws when there is an executor already.
MadeBy(t) ==
    /\ made < MaxExecutors
    /\ mainExecutor = 0
    /\ made' = made + 1
    /\ mainExecutor' = made'
    /\ aliveExecutors' = aliveExecutors \cup {made'}

MakeDefault(t) ==
    /\ CallIs(t, "locked")
    /\ \/ /\ MadeBy(t)
          /\ isDefault' = made'
       \/ /\ mainExecutor # 0
          /\ UNCHANGED <<mainExecutor, isDefault, aliveExecutors, made>>
    /\ defaultMutex' = NoCaller
    /\ CallTo(t, "returning")
    /\ UNCHANGED taskOf

\* A null reference when the executor went away since the pointer was read.
ReturnInstance(t) ==
    /\ CallIs(t, "returning")
    /\ CallTo(t, IF mainExecutor = 0 THEN "undefined" ELSE "out")
    /\ UNCHANGED <<mainExecutor, defaultMutex, ownedVars>>

-----------------------------------------------------------------------------
(* Executors *)

\* A MainExecutor on the stack of main, or a second one, which throws.
MakeExecutor(t) ==
    /\ CallIs(t, "out") /\ taskOf[t] = 0
    /\ MadeBy(t)
    /\ UNCHANGED <<isDefault, defaultMutex, callPc, taskOf>>

\* schedule: an open executor runs the task on a thread of its own.
RunTask(t) ==
    /\ CallIs(t, "out") /\ taskOf[t] = 0
    /\ mainExecutor # 0 /\ ~ExecutorCloses
    /\ taskOf' = [taskOf EXCEPT ![t] = mainExecutor]
    /\ UNCHANGED <<mainExecutor, defaultMutex, isDefault, aliveExecutors, made, callPc>>

EndTask(t) ==
    /\ CallIs(t, "out") /\ taskOf[t] # 0
    /\ taskOf' = [taskOf EXCEPT ![t] = 0]
    /\ UNCHANGED <<mainExecutor, defaultMutex, isDefault, aliveExecutors, made, callPc>>

\* ~MainExecutor closes the executor, which joins its tasks, and clears the
\* pointer then.
ClearToClose(t) == mainExecutor' = 0 /\ CallTo(t, "joining")
BeginToClose(t) == mainExecutor' = mainExecutor /\ CallTo(t, "joining")

\* stop_default; an executor of the program ends without a lock.
StopDefault(t) ==
    /\ CallIs(t, "out") /\ taskOf[t] = 0
    /\ defaultMutex = NoCaller
    /\ isDefault # 0
    /\ defaultMutex' = t
    /\ BeginToClose(t)
    /\ UNCHANGED ownedVars

EndExecutor(t) ==
    /\ CallIs(t, "out") /\ taskOf[t] = 0
    /\ aliveExecutors # {} /\ isDefault = 0
    /\ ~ExecutorCloses
    /\ BeginToClose(t)
    /\ UNCHANGED <<defaultMutex, ownedVars>>

TasksJoined(t) ==
    /\ CallIs(t, "joining")
    /\ \A u \in Callers : taskOf[u] = 0
    /\ CallTo(t, "clearing")
    /\ UNCHANGED <<mainExecutor, defaultMutex, ownedVars>>

PointerCleared(t) ==
    /\ CallIs(t, "clearing")
    /\ mainExecutor' = 0 /\ isDefault' = 0 /\ aliveExecutors' = {}
    /\ defaultMutex' = IF defaultMutex = t THEN NoCaller ELSE defaultMutex
    /\ CallTo(t, "out")
    /\ UNCHANGED <<taskOf, made>>

-----------------------------------------------------------------------------
ExecutorInit ==
    /\ mainExecutor = 0 /\ isDefault = 0 /\ defaultMutex = NoCaller
    /\ callPc = [t \in Callers |-> "out"] /\ taskOf = [t \in Callers |-> 0]
    /\ aliveExecutors = {} /\ made = 0

InCall(t) == \/ LockForInstance(t) \/ MakeDefault(t) \/ ReturnInstance(t)
             \/ TasksJoined(t) \/ PointerCleared(t)
ExecutorNext ==
    \E t \in Callers :
        \/ CallInstance(t) \/ InCall(t) \/ RunTask(t) \/ EndTask(t)
        \/ MakeExecutor(t) \/ StopDefault(t) \/ EndExecutor(t)

\* Threads run, and each task ends however often it asks for the instance.
ExecutorFairness ==
    \A t \in Callers : WF_executorVars(InCall(t)) /\ SF_executorVars(EndTask(t))
ExecutorSpec == ExecutorInit /\ [][ExecutorNext]_executorVars /\ ExecutorFairness

-----------------------------------------------------------------------------
\* A task that asks for the instance gets the executor it runs on, until it
\* ends: the pointer is cleared after the tasks are joined (~MainExecutor).
TaskHasItsExecutor ==
    \A t \in Callers :
        taskOf[t] # 0 => mainExecutor = taskOf[t] /\ callPc[t] # "undefined"

\* And there is never a second executor.
InstanceOutlivesTasks == TaskHasItsExecutor /\ Cardinality(aliveExecutors) <= 1

\* So no task waits for the mutex that stop_default holds while it waits for
\* the task: an executor that is ended ends.
ExecutorStops == \A t \in Callers : CallIs(t, "joining") ~> CallIs(t, "out")
=============================================================================
