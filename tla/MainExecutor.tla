---------------------------- MODULE MainExecutor ----------------------------
(***************************************************************************)
(* The thread owner of libmamba (libmamba/include/mamba/core/execution.hpp, *)
(* libmamba/src/core/execution.cpp).  Program threads and running tasks     *)
(* call schedule, take_ownership, on_close and close concurrently.          *)
(*                                                                          *)
(* is_open is read without a lock, then again under threads_mutex (or       *)
(* handlers_mutex): every call is split at those two reads.  The mutexes    *)
(* are recursive in the code, but no holder calls back into the executor,   *)
(* so one owner is all there is to remember.  The vectors are sets here:    *)
(* close joins and invokes their elements one at a time, in an order the    *)
(* properties do not depend on.                                             *)
(***************************************************************************)
EXTENDS FiniteSets

CONSTANTS
    Main,       \* the threads the program already has
    Tasks,      \* tasks to schedule, and threads to hand over: one thread each
    Handlers,   \* callables for on_close
    Callers,    \* the threads, of Main or of Tasks, that call the executor
    Closers,    \* the threads of Main that call close()
    None

Threads == Main \cup Tasks

ASSUME ExecutorConstants ==
    /\ Main \cap Tasks = {}
    /\ Closers \subseteq Main
    /\ Callers \subseteq Threads
    /\ None \notin Threads \cup Handlers

VARIABLES
    isOpen,         \* is_open
    threads,        \* the threads the executor owns
    joined,         \* those close() has joined so far
    threadsMutex,   \* owner of threads_mutex, or None
    closeHandlers,  \* close_handlers
    invoked,        \* the handlers close() has invoked
    handlersMutex,  \* owner of handlers_mutex, or None
    pc,             \* where each thread is
    arg,            \* the task or handler a call in progress carries, or None
    terminated,     \* std::terminate() was called
    \* History, which no action reads:
    accepted,       \* every thread the executor ever owned
    winner,         \* the closer whose compare-exchange closed the executor
    returned        \* the closers whose call has returned

vars == <<isOpen, threads, joined, threadsMutex, closeHandlers, invoked,
          handlersMutex, pc, arg, terminated, accepted, winner, returned>>

locks == <<threadsMutex, handlersMutex>>
closing == <<joined, invoked, winner, returned>>

HoldsThreads == {"schedCheck", "emplace", "takeCheck", "push", "join"}
HoldsHandlers == {"onCheck", "pushHandler", "invoke"}
InClose == {"handlersLock", "invoke", "threadsLock", "join"}
Places == {"unborn", "pending", "dropped", "run", "finished", "schedLock",
           "takeLock", "onLock", "handlersLock", "threadsLock"}
          \cup HoldsThreads \cup HoldsHandlers

\* A thread steps only while the process lives.
At(t, place) == ~terminated /\ pc[t] = place

\* The second read of is_open, under the mutex.
NoSecondRead == TRUE
StillOpen == isOpen

\* What lock() waits for.
Unlocked(mutex) == TRUE
CanLock(mutex) == mutex = None

\* What thread::join() waits for.
Ended(w) == pc[w] = "finished"

Finished == {t \in Threads : pc[t] = "finished"}

Init ==
    /\ isOpen = TRUE
    /\ threads = {}
    /\ joined = {}
    /\ threadsMutex = None
    /\ closeHandlers = {}
    /\ invoked = {}
    /\ handlersMutex = None
    /\ pc = [t \in Threads |-> IF t \in Main THEN "run" ELSE "unborn"]
    /\ arg = [t \in Threads |-> None]
    /\ terminated = FALSE
    /\ accepted = {}
    /\ winner = None
    /\ returned = {}

-----------------------------------------------------------------------------
(* schedule(task): a closed executor ignores the call.                      *)

ScheduleCall(t, w) ==
    /\ t \in Callers /\ At(t, "run") /\ pc[w] = "unborn"
    /\ isOpen
    /\ pc' = [pc EXCEPT ![t] = "schedLock", ![w] = "pending"]
    /\ arg' = [arg EXCEPT ![t] = w]
    /\ UNCHANGED <<isOpen, threads, closeHandlers, terminated, accepted, locks, closing>>

ScheduleLock(t) ==
    /\ At(t, "schedLock") /\ CanLock(threadsMutex)
    /\ threadsMutex' = t
    /\ pc' = [pc EXCEPT ![t] = "schedCheck"]
    /\ UNCHANGED <<isOpen, threads, closeHandlers, handlersMutex, arg, terminated,
                   accepted, closing>>

\* The double check: either the task is accepted or it is dropped.
ScheduleCheck(t) ==
    /\ At(t, "schedCheck")
    /\ IF StillOpen
       THEN /\ pc' = [pc EXCEPT ![t] = "emplace"]
            /\ UNCHANGED <<threadsMutex, arg>>
       ELSE /\ pc' = [pc EXCEPT ![t] = "run", ![arg[t]] = "dropped"]
            /\ arg' = [arg EXCEPT ![t] = None]
            /\ threadsMutex' = None
    /\ UNCHANGED <<isOpen, threads, closeHandlers, handlersMutex, terminated, accepted, closing>>

\* emplace_back starts the thread; the scope then releases the mutex.
ScheduleEmplace(t) ==
    /\ At(t, "emplace")
    /\ threads' = threads \cup {arg[t]}
    /\ accepted' = accepted \cup {arg[t]}
    /\ pc' = [pc EXCEPT ![t] = "run", ![arg[t]] = "run"]
    /\ arg' = [arg EXCEPT ![t] = None]
    /\ threadsMutex' = None
    /\ UNCHANGED <<isOpen, closeHandlers, handlersMutex, terminated, closing>>

(* take_ownership(thread): the caller hands over a thread that is running.  *)
(* When the executor is closed the argument is destroyed while it is still  *)
(* joinable, which is std::terminate().                                     *)

TakeCall(t, w) ==
    /\ t \in Callers /\ At(t, "run") /\ pc[w] = "unborn"
    /\ IF isOpen
       THEN /\ pc' = [pc EXCEPT ![t] = "takeLock", ![w] = "run"]
            /\ arg' = [arg EXCEPT ![t] = w]
            /\ UNCHANGED terminated
       ELSE /\ terminated' = TRUE
            /\ UNCHANGED <<pc, arg>>
    /\ UNCHANGED <<isOpen, threads, closeHandlers, accepted, locks, closing>>

TakeLock(t) ==
    /\ At(t, "takeLock") /\ CanLock(threadsMutex)
    /\ threadsMutex' = t
    /\ pc' = [pc EXCEPT ![t] = "takeCheck"]
    /\ UNCHANGED <<isOpen, threads, closeHandlers, handlersMutex, arg, terminated,
                   accepted, closing>>

TakeCheck(t) ==
    /\ At(t, "takeCheck")
    /\ IF StillOpen
       THEN pc' = [pc EXCEPT ![t] = "push"] /\ UNCHANGED terminated
       ELSE terminated' = TRUE /\ UNCHANGED pc
    /\ UNCHANGED <<isOpen, threads, closeHandlers, arg, accepted, locks, closing>>

TakePush(t) ==
    /\ At(t, "push")
    /\ threads' = threads \cup {arg[t]}
    /\ accepted' = accepted \cup {arg[t]}
    /\ pc' = [pc EXCEPT ![t] = "run"]
    /\ arg' = [arg EXCEPT ![t] = None]
    /\ threadsMutex' = None
    /\ UNCHANGED <<isOpen, closeHandlers, handlersMutex, terminated, closing>>

(* on_close(handler) *)

OnCloseCall(t, h) ==
    /\ t \in Callers /\ At(t, "run") /\ h \notin closeHandlers
    /\ \A s \in Threads : arg[s] # h
    /\ isOpen
    /\ pc' = [pc EXCEPT ![t] = "onLock"]
    /\ arg' = [arg EXCEPT ![t] = h]
    /\ UNCHANGED <<isOpen, threads, closeHandlers, terminated, accepted, locks, closing>>

OnCloseLock(t) ==
    /\ At(t, "onLock") /\ CanLock(handlersMutex)
    /\ handlersMutex' = t
    /\ pc' = [pc EXCEPT ![t] = "onCheck"]
    /\ UNCHANGED <<isOpen, threads, closeHandlers, threadsMutex, arg, terminated,
                   accepted, closing>>

OnCloseCheck(t) ==
    /\ At(t, "onCheck")
    /\ IF StillOpen
       THEN /\ pc' = [pc EXCEPT ![t] = "pushHandler"]
            /\ UNCHANGED <<handlersMutex, arg>>
       ELSE /\ pc' = [pc EXCEPT ![t] = "run"]
            /\ arg' = [arg EXCEPT ![t] = None]
            /\ handlersMutex' = None
    /\ UNCHANGED <<isOpen, threads, closeHandlers, threadsMutex, terminated, accepted, closing>>

OnClosePush(t) ==
    /\ At(t, "pushHandler")
    /\ closeHandlers' = closeHandlers \cup {arg[t]}
    /\ pc' = [pc EXCEPT ![t] = "run"]
    /\ arg' = [arg EXCEPT ![t] = None]
    /\ handlersMutex' = None
    /\ UNCHANGED <<isOpen, threads, threadsMutex, terminated, accepted, closing>>

-----------------------------------------------------------------------------
(* close(): only the first caller does the work, every other one returns.   *)

CloseCall(t) ==
    /\ t \in Closers /\ At(t, "run")
    /\ IF isOpen
       THEN /\ isOpen' = FALSE
            /\ winner' = t
            /\ pc' = [pc EXCEPT ![t] = "handlersLock"]
            /\ UNCHANGED returned
       ELSE /\ returned' = returned \cup {t}
            /\ UNCHANGED <<isOpen, winner, pc>>
    /\ UNCHANGED <<threads, joined, closeHandlers, invoked, arg, terminated, accepted, locks>>

CloseLockHandlers(t) ==
    /\ At(t, "handlersLock") /\ CanLock(handlersMutex)
    /\ handlersMutex' = t
    /\ pc' = [pc EXCEPT ![t] = "invoke"]
    /\ UNCHANGED <<isOpen, threads, closeHandlers, threadsMutex, arg, terminated,
                   accepted, closing>>

\* A handler that throws is logged and ignored: it counts as invoked.
CloseInvoke(t, h) ==
    /\ At(t, "invoke") /\ h \in closeHandlers \ invoked
    /\ invoked' = invoked \cup {h}
    /\ UNCHANGED <<isOpen, threads, joined, closeHandlers, pc, arg, terminated,
                   accepted, winner, returned, locks>>

CloseInvoked(t) ==
    /\ At(t, "invoke") /\ closeHandlers \subseteq invoked
    /\ handlersMutex' = None
    /\ pc' = [pc EXCEPT ![t] = "threadsLock"]
    /\ UNCHANGED <<isOpen, threads, closeHandlers, threadsMutex, arg, terminated,
                   accepted, closing>>

CloseLockThreads(t) ==
    /\ At(t, "threadsLock") /\ CanLock(threadsMutex)
    /\ threadsMutex' = t
    /\ pc' = [pc EXCEPT ![t] = "join"]
    /\ UNCHANGED <<isOpen, threads, closeHandlers, handlersMutex, arg, terminated,
                   accepted, closing>>

\* join() blocks until the thread has finished; threads_mutex stays held.
CloseJoin(t, w) ==
    /\ At(t, "join") /\ w \in threads \ joined
    /\ Ended(w)
    /\ joined' = joined \cup {w}
    /\ UNCHANGED <<isOpen, threads, closeHandlers, invoked, pc, arg, terminated,
                   accepted, winner, returned, locks>>

CloseReturn(t) ==
    /\ At(t, "join") /\ joined = threads
    /\ threads' = {}
    /\ joined' = {}
    /\ threadsMutex' = None
    /\ pc' = [pc EXCEPT ![t] = "run"]
    /\ returned' = returned \cup {t}
    /\ UNCHANGED <<isOpen, closeHandlers, invoked, handlersMutex, arg, terminated,
                   accepted, winner>>

\* The body of a task ends.
TaskEnd(w) ==
    /\ w \in Tasks /\ At(w, "run")
    /\ pc' = [pc EXCEPT ![w] = "finished"]
    /\ UNCHANGED <<isOpen, threads, closeHandlers, arg, terminated, accepted, locks, closing>>

-----------------------------------------------------------------------------
\* The steps of a call once made; the call itself is the caller's choice.
Progress(t) ==
    \/ ScheduleLock(t) \/ ScheduleCheck(t) \/ ScheduleEmplace(t)
    \/ TakeLock(t) \/ TakeCheck(t) \/ TakePush(t)
    \/ OnCloseLock(t) \/ OnCloseCheck(t) \/ OnClosePush(t)
    \/ CloseLockHandlers(t) \/ CloseInvoked(t) \/ CloseLockThreads(t) \/ CloseReturn(t)
    \/ \E h \in Handlers : CloseInvoke(t, h)
    \/ \E w \in Tasks : CloseJoin(t, w)

Calls(t) ==
    \/ \E w \in Tasks : ScheduleCall(t, w) \/ TakeCall(t, w)
    \/ \E h \in Handlers : OnCloseCall(t, h)
    \/ CloseCall(t)

\* The program is over: closed, and nothing left running.
Over ==
    /\ terminated \/ /\ ~isOpen
                     /\ \A t \in Threads : pc[t] \in {"run", "finished", "dropped", "unborn"}
                     /\ \A w \in Tasks : pc[w] # "run"
    /\ UNCHANGED vars

Next ==
    \/ \E t \in Threads : Calls(t) \/ Progress(t)
    \/ \E w \in Tasks : TaskEnd(w)
    \/ Over

\* Every call runs on, and every task ends when it is not inside a call: the
\* documentation of close() makes its own return conditional on that.
Fairness ==
    /\ \A t \in Threads : WF_vars(Progress(t))
    /\ \A w \in Tasks : WF_vars(TaskEnd(w))

Spec == Init /\ [][Next]_vars
FairSpec == Spec /\ Fairness

-----------------------------------------------------------------------------
TaskCalls == {"schedLock", "schedCheck", "emplace", "takeLock", "takeCheck", "push"}
HandlerCalls == {"onLock", "onCheck", "pushHandler"}

TypeOK ==
    /\ isOpen \in BOOLEAN
    /\ threads \in SUBSET Tasks
    /\ joined \in SUBSET Tasks
    /\ threadsMutex \in Threads \cup {None}
    /\ closeHandlers \in SUBSET Handlers
    /\ invoked \in SUBSET Handlers
    /\ handlersMutex \in Threads \cup {None}
    /\ pc \in [Threads -> Places]
    /\ arg \in [Threads -> Tasks \cup Handlers \cup {None}]
    /\ terminated \in BOOLEAN
    /\ accepted \in SUBSET Tasks
    /\ winner \in Closers \cup {None}
    /\ returned \in SUBSET Closers
    /\ \A t \in Threads : /\ pc[t] \in TaskCalls => arg[t] \in Tasks
                          /\ pc[t] \in HandlerCalls => arg[t] \in Handlers
                          /\ pc[t] \in InClose => t = winner

CloseDone == winner # None /\ winner \in returned

\* When the close() that did the closing has returned, every thread the
\* executor ever accepted, in whatever race with the closing, has ended, and
\* none is accepted later (execution.hpp:109-125).
NoTaskOutlivesClose == CloseDone => accepted \subseteq Finished

\* When it has returned, every registered handler has been invoked: none was
\* slipped into the list behind the loop that invokes them (execution.hpp:129-141).
NoHandlerMissed == CloseDone => closeHandlers \subseteq invoked

\* close() holds the vector to itself while it joins: nobody adds a thread to
\* it that the loop would miss, or invalidates its iterator.
JoinLoopUndisturbed ==
    [][\A c \in Closers : pc[c] = "join" => threads' \in {threads, {}}]_vars

\* Tasks that end let close() return (execution.hpp:57-59, 106).
CloseReturns == \A c \in Closers : pc[c] = "handlersLock" ~> (c \in returned \/ terminated)

(* The inductive invariant behind the safety properties: each mutex has one *)
(* holder, and once the closer has been through a mutex nobody who read     *)
(* is_open before it can still be adding to what that mutex protects.       *)

ScheduleCalls == {"schedLock", "schedCheck", "emplace"}

\* A task in the hands of schedule() is in those of one call, and is not running.
PendingInv ==
    \A t \in Threads : pc[t] \in ScheduleCalls =>
        /\ pc[arg[t]] = "pending"
        /\ \A s \in Threads \ {t} : pc[s] \in ScheduleCalls => arg[s] # arg[t]

LockInv ==
    \A t \in Threads : /\ (threadsMutex = t) <=> (pc[t] \in HoldsThreads)
                       /\ (handlersMutex = t) <=> (pc[t] \in HoldsHandlers)

CloserInv ==
    /\ isOpen <=> (winner = None)
    /\ isOpen => returned = {}
    /\ winner # None => ((pc[winner] \in InClose) <=> (winner \notin returned))

HandlersInv ==
    /\ (winner # None /\ pc[winner] \notin {"handlersLock", "invoke"}) => closeHandlers \subseteq invoked
    /\ \A t \in Threads : pc[t] = "pushHandler" => isOpen \/ pc[winner] = "handlersLock"

ThreadsInv ==
    /\ threads = IF CloseDone THEN {} ELSE accepted
    /\ CloseDone => accepted \subseteq Finished
    /\ joined \subseteq threads \cap Finished
    /\ joined # {} => winner # None /\ pc[winner] = "join"
    /\ \A t \in Threads : pc[t] \in {"emplace", "push"} =>
           isOpen \/ pc[winner] \in {"handlersLock", "invoke", "threadsLock"}

IInv == TypeOK /\ PendingInv /\ LockInv /\ CloserInv /\ HandlersInv /\ ThreadsInv
=============================================================================
