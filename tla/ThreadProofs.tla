----------------------------- MODULE ThreadProofs -----------------------------
(***************************************************************************)
(* Proofs about what threads and processes do together, for any number of   *)
(* them: the executor that close() ends, the synchronizer of callables, the *)
(* thread that draws the progress bars, and the files that processes share. *)
(***************************************************************************)
EXTENDS MainExecutor, TaskSynchronizer, ProgressBars, RunningProcesses, SharedFiles,
        FiniteSetTheorems, TLAPS

-----------------------------------------------------------------------------
(* MainExecutor: type correctness, and what close() guarantees, for any     *)
(* sets of threads, tasks, handlers, callers and closers.                   *)

\* A step keeps every variable, and the argument of every call in progress, typed.
LEMMA TypeStep ==
  ASSUME TypeOK, CloserInv, [Next]_vars
  PROVE  TypeOK'
<1> USE ExecutorConstants DEF TypeOK, Threads, TaskCalls, HandlerCalls, InClose, At, locks, closing, Places, HoldsThreads, HoldsHandlers, StillOpen, CloserInv
<1>1. CASE UNCHANGED vars
  BY <1>1 DEF vars
<1>2. CASE Over
  BY <1>2 DEF Over, vars
<1>3. ASSUME NEW w \in Tasks, TaskEnd(w) PROVE TypeOK'
  BY <1>3 DEF TaskEnd
<1>4. ASSUME NEW t \in Threads, Calls(t) PROVE TypeOK'
  <2>1. ASSUME NEW w \in Tasks, ScheduleCall(t, w) PROVE TypeOK'
    BY <2>1 DEF ScheduleCall
  <2>2. ASSUME NEW w \in Tasks, TakeCall(t, w) PROVE TypeOK'
    <3>1. CASE isOpen
      BY <2>2, <3>1 DEF TakeCall
    <3>2. CASE ~isOpen
      BY <2>2, <3>2 DEF TakeCall
    <3> QED BY <3>1, <3>2
  <2>3. ASSUME NEW h \in Handlers, OnCloseCall(t, h) PROVE TypeOK'
    BY <2>3 DEF OnCloseCall
  <2>4. CASE CloseCall(t)
    <3>1. CASE isOpen
      <4>1. \A s \in Threads : pc[s] \notin InClose
        BY <3>1
      <4>2. winner' = t /\ pc' = [pc EXCEPT ![t] = "handlersLock"]
        BY <2>4, <3>1 DEF CloseCall
      <4>3. \A s \in Threads : /\ pc'[s] \in TaskCalls => arg'[s] \in Tasks
                               /\ pc'[s] \in HandlerCalls => arg'[s] \in Handlers
                               /\ pc'[s] \in InClose => s = winner'
        BY <2>4, <3>1, <4>1, <4>2 DEF CloseCall
      <4>4. /\ pc' \in [Threads -> Places]
            /\ winner' \in Closers \cup {None} /\ isOpen' \in BOOLEAN
        BY <2>4, <3>1, <4>2 DEF CloseCall
      <4> QED BY <2>4, <3>1, <4>3, <4>4 DEF CloseCall
    <3>2. CASE ~isOpen
      BY <2>4, <3>2 DEF CloseCall
    <3> QED BY <3>1, <3>2
  <2> QED BY <1>4, <2>1, <2>2, <2>3, <2>4 DEF Calls
<1>5. ASSUME NEW t \in Threads, Progress(t) PROVE TypeOK'
  <2>1. CASE ScheduleLock(t)
    BY <2>1 DEF ScheduleLock
  <2>2. CASE ScheduleCheck(t)
    BY <2>2 DEF ScheduleCheck
  <2>3. CASE ScheduleEmplace(t)
    BY <2>3 DEF ScheduleEmplace
  <2>4. CASE TakeLock(t)
    BY <2>4 DEF TakeLock
  <2>5. CASE TakeCheck(t)
    <3>1. CASE isOpen
      BY <2>5, <3>1 DEF TakeCheck
    <3>2. CASE ~isOpen
      BY <2>5, <3>2 DEF TakeCheck
    <3> QED BY <3>1, <3>2
  <2>6. CASE TakePush(t)
    BY <2>6 DEF TakePush
  <2>7. CASE OnCloseLock(t)
    BY <2>7 DEF OnCloseLock
  <2>8. CASE OnCloseCheck(t)
    BY <2>8 DEF OnCloseCheck
  <2>9. CASE OnClosePush(t)
    BY <2>9 DEF OnClosePush
  <2>10. CASE CloseLockHandlers(t)
    BY <2>10 DEF CloseLockHandlers
  <2>11. CASE CloseInvoked(t)
    BY <2>11 DEF CloseInvoked
  <2>12. CASE CloseLockThreads(t)
    BY <2>12 DEF CloseLockThreads
  <2>13. CASE CloseReturn(t)
    BY <2>13 DEF CloseReturn
  <2>14. ASSUME NEW h \in Handlers, CloseInvoke(t, h) PROVE TypeOK'
    BY <2>14 DEF CloseInvoke
  <2>15. ASSUME NEW w \in Tasks, CloseJoin(t, w) PROVE TypeOK'
    BY <2>15 DEF CloseJoin
  <2> QED BY <1>5, <2>1, <2>2, <2>3, <2>4, <2>5, <2>6, <2>7, <2>8, <2>9, <2>10, <2>11, <2>12, <2>13, <2>14, <2>15 DEF Progress
<1> QED BY <1>1, <1>2, <1>3, <1>4, <1>5 DEF Next

\* A task is never in the hands of two calls.
LEMMA PendingStep ==
  ASSUME TypeOK, PendingInv, [Next]_vars
  PROVE  PendingInv'
<1> USE ExecutorConstants DEF TypeOK, Threads, TaskCalls, HandlerCalls, InClose, At, locks, closing, PendingInv, ScheduleCalls, HoldsThreads, HoldsHandlers
<1>1. CASE UNCHANGED vars
  BY <1>1 DEF vars
<1>2. CASE Over
  BY <1>2 DEF Over, vars
<1>3. ASSUME NEW w \in Tasks, TaskEnd(w) PROVE PendingInv'
  BY <1>3 DEF TaskEnd
<1>4. ASSUME NEW t \in Threads, Calls(t) PROVE PendingInv'
  <2>1. ASSUME NEW w \in Tasks, ScheduleCall(t, w) PROVE PendingInv'
    BY <2>1 DEF ScheduleCall
  <2>2. ASSUME NEW w \in Tasks, TakeCall(t, w) PROVE PendingInv'
    BY <2>2 DEF TakeCall
  <2>3. ASSUME NEW h \in Handlers, OnCloseCall(t, h) PROVE PendingInv'
    BY <2>3 DEF OnCloseCall
  <2>4. CASE CloseCall(t)
    <3>1. CASE isOpen
      BY <2>4, <3>1 DEF CloseCall
    <3>2. CASE ~isOpen
      BY <2>4, <3>2 DEF CloseCall
    <3> QED BY <3>1, <3>2
  <2> QED BY <1>4, <2>1, <2>2, <2>3, <2>4 DEF Calls
<1>5. ASSUME NEW t \in Threads, Progress(t) PROVE PendingInv'
  <2>1. CASE ScheduleLock(t)
    BY <2>1 DEF ScheduleLock
  <2>2. CASE ScheduleCheck(t)
    <3>1. CASE isOpen
      BY <2>2, <3>1 DEF ScheduleCheck
    <3>2. CASE ~isOpen
      BY <2>2, <3>2 DEF ScheduleCheck
    <3> QED BY <3>1, <3>2
  <2>3. CASE ScheduleEmplace(t)
    BY <2>3 DEF ScheduleEmplace
  <2>4. CASE TakeLock(t)
    BY <2>4 DEF TakeLock
  <2>5. CASE TakeCheck(t)
    BY <2>5 DEF TakeCheck
  <2>6. CASE TakePush(t)
    BY <2>6 DEF TakePush
  <2>7. CASE OnCloseLock(t)
    BY <2>7 DEF OnCloseLock
  <2>8. CASE OnCloseCheck(t)
    BY <2>8 DEF OnCloseCheck
  <2>9. CASE OnClosePush(t)
    BY <2>9 DEF OnClosePush
  <2>10. CASE CloseLockHandlers(t)
    BY <2>10 DEF CloseLockHandlers
  <2>11. CASE CloseInvoked(t)
    BY <2>11 DEF CloseInvoked
  <2>12. CASE CloseLockThreads(t)
    BY <2>12 DEF CloseLockThreads
  <2>13. CASE CloseReturn(t)
    BY <2>13 DEF CloseReturn
  <2>14. ASSUME NEW h \in Handlers, CloseInvoke(t, h) PROVE PendingInv'
    BY <2>14 DEF CloseInvoke
  <2>15. ASSUME NEW w \in Tasks, CloseJoin(t, w) PROVE PendingInv'
    BY <2>15 DEF CloseJoin
  <2> QED BY <1>5, <2>1, <2>2, <2>3, <2>4, <2>5, <2>6, <2>7, <2>8, <2>9, <2>10, <2>11, <2>12, <2>13, <2>14, <2>15 DEF Progress
<1> QED BY <1>1, <1>2, <1>3, <1>4, <1>5 DEF Next

\* A mutex is held by exactly the thread between its lock and its unlock.
LEMMA LockStep ==
  ASSUME TypeOK, PendingInv, LockInv, [Next]_vars
  PROVE  LockInv'
<1> USE ExecutorConstants DEF TypeOK, Threads, TaskCalls, HandlerCalls, InClose, At, locks, closing, PendingInv, ScheduleCalls, CanLock, LockInv, HoldsThreads, HoldsHandlers
<1>1. CASE UNCHANGED vars
  BY <1>1 DEF vars
<1>2. CASE Over
  BY <1>2 DEF Over, vars
<1>3. ASSUME NEW w \in Tasks, TaskEnd(w) PROVE LockInv'
  BY <1>3 DEF TaskEnd
<1>4. ASSUME NEW t \in Threads, Calls(t) PROVE LockInv'
  <2>1. ASSUME NEW w \in Tasks, ScheduleCall(t, w) PROVE LockInv'
    BY <2>1 DEF ScheduleCall
  <2>2. ASSUME NEW w \in Tasks, TakeCall(t, w) PROVE LockInv'
    BY <2>2 DEF TakeCall
  <2>3. ASSUME NEW h \in Handlers, OnCloseCall(t, h) PROVE LockInv'
    BY <2>3 DEF OnCloseCall
  <2>4. CASE CloseCall(t)
    <3>1. CASE isOpen
      BY <2>4, <3>1 DEF CloseCall
    <3>2. CASE ~isOpen
      BY <2>4, <3>2 DEF CloseCall
    <3> QED BY <3>1, <3>2
  <2> QED BY <1>4, <2>1, <2>2, <2>3, <2>4 DEF Calls
<1>5. ASSUME NEW t \in Threads, Progress(t) PROVE LockInv'
  <2>1. CASE ScheduleLock(t)
    BY <2>1 DEF ScheduleLock
  <2>2. CASE ScheduleCheck(t)
    <3>1. CASE isOpen
      BY <2>2, <3>1 DEF ScheduleCheck
    <3>2. CASE ~isOpen
      BY <2>2, <3>2 DEF ScheduleCheck
    <3> QED BY <3>1, <3>2
  <2>3. CASE ScheduleEmplace(t)
    BY <2>3 DEF ScheduleEmplace
  <2>4. CASE TakeLock(t)
    BY <2>4 DEF TakeLock
  <2>5. CASE TakeCheck(t)
    BY <2>5 DEF TakeCheck
  <2>6. CASE TakePush(t)
    BY <2>6 DEF TakePush
  <2>7. CASE OnCloseLock(t)
    BY <2>7 DEF OnCloseLock
  <2>8. CASE OnCloseCheck(t)
    BY <2>8 DEF OnCloseCheck
  <2>9. CASE OnClosePush(t)
    BY <2>9 DEF OnClosePush
  <2>10. CASE CloseLockHandlers(t)
    BY <2>10 DEF CloseLockHandlers
  <2>11. CASE CloseInvoked(t)
    BY <2>11 DEF CloseInvoked
  <2>12. CASE CloseLockThreads(t)
    BY <2>12 DEF CloseLockThreads
  <2>13. CASE CloseReturn(t)
    BY <2>13 DEF CloseReturn
  <2>14. ASSUME NEW h \in Handlers, CloseInvoke(t, h) PROVE LockInv'
    BY <2>14 DEF CloseInvoke
  <2>15. ASSUME NEW w \in Tasks, CloseJoin(t, w) PROVE LockInv'
    BY <2>15 DEF CloseJoin
  <2> QED BY <1>5, <2>1, <2>2, <2>3, <2>4, <2>5, <2>6, <2>7, <2>8, <2>9, <2>10, <2>11, <2>12, <2>13, <2>14, <2>15 DEF Progress
<1> QED BY <1>1, <1>2, <1>3, <1>4, <1>5 DEF Next

\* One closer at most is at work, and it is the one that flipped is_open.
LEMMA CloserStep ==
  ASSUME TypeOK, CloserInv, [Next]_vars
  PROVE  CloserInv'
<1> USE ExecutorConstants DEF TypeOK, Threads, TaskCalls, HandlerCalls, InClose, At, locks, closing, CloserInv, HoldsThreads, HoldsHandlers
<1>1. CASE UNCHANGED vars
  BY <1>1 DEF vars
<1>2. CASE Over
  BY <1>2 DEF Over, vars
<1>3. ASSUME NEW w \in Tasks, TaskEnd(w) PROVE CloserInv'
  BY <1>3 DEF TaskEnd
<1>4. ASSUME NEW t \in Threads, Calls(t) PROVE CloserInv'
  <2>1. ASSUME NEW w \in Tasks, ScheduleCall(t, w) PROVE CloserInv'
    BY <2>1 DEF ScheduleCall
  <2>2. ASSUME NEW w \in Tasks, TakeCall(t, w) PROVE CloserInv'
    BY <2>2 DEF TakeCall
  <2>3. ASSUME NEW h \in Handlers, OnCloseCall(t, h) PROVE CloserInv'
    BY <2>3 DEF OnCloseCall
  <2>4. CASE CloseCall(t)
    <3>1. CASE isOpen
      BY <2>4, <3>1 DEF CloseCall
    <3>2. CASE ~isOpen
      BY <2>4, <3>2 DEF CloseCall
    <3> QED BY <3>1, <3>2
  <2> QED BY <1>4, <2>1, <2>2, <2>3, <2>4 DEF Calls
<1>5. ASSUME NEW t \in Threads, Progress(t) PROVE CloserInv'
  <2>1. CASE ScheduleLock(t)
    BY <2>1 DEF ScheduleLock
  <2>2. CASE ScheduleCheck(t)
    <3>1. CASE isOpen
      BY <2>2, <3>1 DEF ScheduleCheck
    <3>2. CASE ~isOpen
      BY <2>2, <3>2 DEF ScheduleCheck
    <3> QED BY <3>1, <3>2
  <2>3. CASE ScheduleEmplace(t)
    BY <2>3 DEF ScheduleEmplace
  <2>4. CASE TakeLock(t)
    BY <2>4 DEF TakeLock
  <2>5. CASE TakeCheck(t)
    BY <2>5 DEF TakeCheck
  <2>6. CASE TakePush(t)
    BY <2>6 DEF TakePush
  <2>7. CASE OnCloseLock(t)
    BY <2>7 DEF OnCloseLock
  <2>8. CASE OnCloseCheck(t)
    BY <2>8 DEF OnCloseCheck
  <2>9. CASE OnClosePush(t)
    BY <2>9 DEF OnClosePush
  <2>10. CASE CloseLockHandlers(t)
    BY <2>10 DEF CloseLockHandlers
  <2>11. CASE CloseInvoked(t)
    BY <2>11 DEF CloseInvoked
  <2>12. CASE CloseLockThreads(t)
    BY <2>12 DEF CloseLockThreads
  <2>13. CASE CloseReturn(t)
    BY <2>13 DEF CloseReturn
  <2>14. ASSUME NEW h \in Handlers, CloseInvoke(t, h) PROVE CloserInv'
    BY <2>14 DEF CloseInvoke
  <2>15. ASSUME NEW w \in Tasks, CloseJoin(t, w) PROVE CloserInv'
    BY <2>15 DEF CloseJoin
  <2> QED BY <1>5, <2>1, <2>2, <2>3, <2>4, <2>5, <2>6, <2>7, <2>8, <2>9, <2>10, <2>11, <2>12, <2>13, <2>14, <2>15 DEF Progress
<1> QED BY <1>1, <1>2, <1>3, <1>4, <1>5 DEF Next

\* No handler is pushed once the closer has gone past the handlers.
LEMMA HandlersStep ==
  ASSUME TypeOK, LockInv, CloserInv, HandlersInv, [Next]_vars
  PROVE  HandlersInv'
<1> USE ExecutorConstants DEF TypeOK, Threads, TaskCalls, HandlerCalls, InClose, At, locks, closing, CanLock, CloserInv, LockInv, HandlersInv, StillOpen, HoldsThreads, HoldsHandlers
<1>1. CASE UNCHANGED vars
  BY <1>1 DEF vars
<1>2. CASE Over
  BY <1>2 DEF Over, vars
<1>3. ASSUME NEW w \in Tasks, TaskEnd(w) PROVE HandlersInv'
  BY <1>3 DEF TaskEnd
<1>4. ASSUME NEW t \in Threads, Calls(t) PROVE HandlersInv'
  <2>1. ASSUME NEW w \in Tasks, ScheduleCall(t, w) PROVE HandlersInv'
    BY <2>1 DEF ScheduleCall
  <2>2. ASSUME NEW w \in Tasks, TakeCall(t, w) PROVE HandlersInv'
    BY <2>2 DEF TakeCall
  <2>3. ASSUME NEW h \in Handlers, OnCloseCall(t, h) PROVE HandlersInv'
    BY <2>3 DEF OnCloseCall
  <2>4. CASE CloseCall(t)
    <3>1. CASE isOpen
      BY <2>4, <3>1 DEF CloseCall
    <3>2. CASE ~isOpen
      BY <2>4, <3>2 DEF CloseCall
    <3> QED BY <3>1, <3>2
  <2> QED BY <1>4, <2>1, <2>2, <2>3, <2>4 DEF Calls
<1>5. ASSUME NEW t \in Threads, Progress(t) PROVE HandlersInv'
  <2>1. CASE ScheduleLock(t)
    BY <2>1 DEF ScheduleLock
  <2>2. CASE ScheduleCheck(t)
    <3>1. CASE isOpen
      BY <2>2, <3>1 DEF ScheduleCheck
    <3>2. CASE ~isOpen
      BY <2>2, <3>2 DEF ScheduleCheck
    <3> QED BY <3>1, <3>2
  <2>3. CASE ScheduleEmplace(t)
    BY <2>3 DEF ScheduleEmplace
  <2>4. CASE TakeLock(t)
    BY <2>4 DEF TakeLock
  <2>5. CASE TakeCheck(t)
    BY <2>5 DEF TakeCheck
  <2>6. CASE TakePush(t)
    BY <2>6 DEF TakePush
  <2>7. CASE OnCloseLock(t)
    BY <2>7 DEF OnCloseLock
  <2>8. CASE OnCloseCheck(t)
    BY <2>8 DEF OnCloseCheck
  <2>9. CASE OnClosePush(t)
    BY <2>9 DEF OnClosePush
  <2>10. CASE CloseLockHandlers(t)
    BY <2>10 DEF CloseLockHandlers
  <2>11. CASE CloseInvoked(t)
    BY <2>11 DEF CloseInvoked
  <2>12. CASE CloseLockThreads(t)
    BY <2>12 DEF CloseLockThreads
  <2>13. CASE CloseReturn(t)
    BY <2>13 DEF CloseReturn
  <2>14. ASSUME NEW h \in Handlers, CloseInvoke(t, h) PROVE HandlersInv'
    BY <2>14 DEF CloseInvoke
  <2>15. ASSUME NEW w \in Tasks, CloseJoin(t, w) PROVE HandlersInv'
    BY <2>15 DEF CloseJoin
  <2> QED BY <1>5, <2>1, <2>2, <2>3, <2>4, <2>5, <2>6, <2>7, <2>8, <2>9, <2>10, <2>11, <2>12, <2>13, <2>14, <2>15 DEF Progress
<1> QED BY <1>1, <1>2, <1>3, <1>4, <1>5 DEF Next

\* No thread is accepted once the closer has locked the threads.
LEMMA ThreadsStep ==
  ASSUME TypeOK, PendingInv, LockInv, CloserInv, ThreadsInv, [Next]_vars
  PROVE  ThreadsInv'
<1> USE ExecutorConstants DEF TypeOK, Threads, TaskCalls, HandlerCalls, InClose, At, locks, closing, PendingInv, ScheduleCalls, CanLock, CloserInv, LockInv, ThreadsInv, CloseDone, Finished, Ended, StillOpen, HoldsThreads, HoldsHandlers
<1>1. CASE UNCHANGED vars
  BY <1>1 DEF vars
<1>2. CASE Over
  BY <1>2 DEF Over, vars
<1>3. ASSUME NEW w \in Tasks, TaskEnd(w) PROVE ThreadsInv'
  BY <1>3 DEF TaskEnd
<1>4. ASSUME NEW t \in Threads, Calls(t) PROVE ThreadsInv'
  <2>1. ASSUME NEW w \in Tasks, ScheduleCall(t, w) PROVE ThreadsInv'
    BY <2>1 DEF ScheduleCall
  <2>2. ASSUME NEW w \in Tasks, TakeCall(t, w) PROVE ThreadsInv'
    BY <2>2 DEF TakeCall
  <2>3. ASSUME NEW h \in Handlers, OnCloseCall(t, h) PROVE ThreadsInv'
    BY <2>3 DEF OnCloseCall
  <2>4. CASE CloseCall(t)
    <3>1. CASE isOpen
      BY <2>4, <3>1 DEF CloseCall
    <3>2. CASE ~isOpen
      BY <2>4, <3>2 DEF CloseCall
    <3> QED BY <3>1, <3>2
  <2> QED BY <1>4, <2>1, <2>2, <2>3, <2>4 DEF Calls
<1>5. ASSUME NEW t \in Threads, Progress(t) PROVE ThreadsInv'
  <2>1. CASE ScheduleLock(t)
    BY <2>1 DEF ScheduleLock
  <2>2. CASE ScheduleCheck(t)
    <3>1. CASE isOpen
      BY <2>2, <3>1 DEF ScheduleCheck
    <3>2. CASE ~isOpen
      BY <2>2, <3>2 DEF ScheduleCheck
    <3> QED BY <3>1, <3>2
  <2>3. CASE ScheduleEmplace(t)
    BY <2>3 DEF ScheduleEmplace
  <2>4. CASE TakeLock(t)
    BY <2>4 DEF TakeLock
  <2>5. CASE TakeCheck(t)
    BY <2>5 DEF TakeCheck
  <2>6. CASE TakePush(t)
    BY <2>6 DEF TakePush
  <2>7. CASE OnCloseLock(t)
    BY <2>7 DEF OnCloseLock
  <2>8. CASE OnCloseCheck(t)
    BY <2>8 DEF OnCloseCheck
  <2>9. CASE OnClosePush(t)
    BY <2>9 DEF OnClosePush
  <2>10. CASE CloseLockHandlers(t)
    BY <2>10 DEF CloseLockHandlers
  <2>11. CASE CloseInvoked(t)
    BY <2>11 DEF CloseInvoked
  <2>12. CASE CloseLockThreads(t)
    BY <2>12 DEF CloseLockThreads
  <2>13. CASE CloseReturn(t)
    BY <2>13 DEF CloseReturn
  <2>14. ASSUME NEW h \in Handlers, CloseInvoke(t, h) PROVE ThreadsInv'
    BY <2>14 DEF CloseInvoke
  <2>15. ASSUME NEW w \in Tasks, CloseJoin(t, w) PROVE ThreadsInv'
    BY <2>15 DEF CloseJoin
  <2> QED BY <1>5, <2>1, <2>2, <2>3, <2>4, <2>5, <2>6, <2>7, <2>8, <2>9, <2>10, <2>11, <2>12, <2>13, <2>14, <2>15 DEF Progress
<1> QED BY <1>1, <1>2, <1>3, <1>4, <1>5 DEF Next


THEOREM Inductive == Spec => []IInv
<1>1. Init => IInv
  <2> SUFFICES ASSUME Init PROVE IInv
    OBVIOUS
  <2> USE ExecutorConstants DEF Init, Threads
  <2>1. TypeOK
    BY DEF TypeOK, Places, TaskCalls, HandlerCalls, InClose
  <2>2. PendingInv /\ LockInv /\ CloserInv
    BY DEF PendingInv, ScheduleCalls, LockInv, CloserInv, HoldsThreads, HoldsHandlers
  <2>3. HandlersInv /\ ThreadsInv
    BY DEF HandlersInv, ThreadsInv, CloseDone
  <2> QED BY <2>1, <2>2, <2>3 DEF IInv
<1>2. IInv /\ [Next]_vars => IInv'
  BY TypeStep, PendingStep, LockStep, CloserStep, HandlersStep, ThreadsStep DEF IInv
<1> QED BY <1>1, <1>2, PTL DEF Spec

\* Every variable keeps its type and every call its argument, whatever the interleaving.
THEOREM TypeCorrect == Spec => []TypeOK
<1>1. IInv => TypeOK
  BY DEF IInv
<1> QED BY <1>1, Inductive, PTL

\* close() that closed the executor returns with every accepted thread ended,
\* however many threads, tasks and closers there are.
THEOREM CloseJoinsEveryTask == Spec => []NoTaskOutlivesClose
<1>1. IInv => NoTaskOutlivesClose
  BY DEF IInv, ThreadsInv, NoTaskOutlivesClose
<1> QED BY <1>1, Inductive, PTL

\* ... and with every registered handler invoked.
THEOREM CloseInvokesEveryHandler == Spec => []NoHandlerMissed
<1>1. IInv => NoHandlerMissed
  BY DEF IInv, TypeOK, HandlersInv, CloserInv, NoHandlerMissed, CloseDone, InClose
<1> QED BY <1>1, Inductive, PTL

\* While close() joins, only close() changes the set of threads.
THEOREM JoinLoopAlone == Spec => JoinLoopUndisturbed
<1> DEFINE A == \A c \in Closers : pc[c] = "join" => threads' \in {threads, {}}
<1>1. IInv /\ [Next]_vars => [A]_vars
  <2> SUFFICES ASSUME IInv, Next, NEW c \in Closers, pc[c] = "join"
               PROVE  threads' \in {threads, {}}
    BY DEF vars
  <2>1. threadsMutex = c /\ \A t \in Threads : t # c => pc[t] \notin HoldsThreads
    BY ExecutorConstants DEF IInv, LockInv, HoldsThreads, Threads
  <2>2. \A t \in Threads : pc[t] \notin {"emplace", "push"}
    BY <2>1 DEF HoldsThreads
  <2>3. CASE Over
    BY <2>3 DEF Over, vars
  <2>4. ASSUME NEW w \in Tasks, TaskEnd(w) PROVE threads' = threads
    BY <2>4 DEF TaskEnd
  <2>5. ASSUME NEW t \in Threads, Calls(t) PROVE threads' = threads
    BY <2>5 DEF Calls, ScheduleCall, TakeCall, OnCloseCall, CloseCall
  <2>6. ASSUME NEW t \in Threads, Progress(t) PROVE threads' \in {threads, {}}
    BY <2>2, <2>6 DEF Progress, At, ScheduleLock, ScheduleCheck, ScheduleEmplace, TakeLock,
       TakeCheck, TakePush, OnCloseLock, OnCloseCheck, OnClosePush, CloseLockHandlers,
       CloseInvoke, CloseInvoked, CloseLockThreads, CloseJoin, CloseReturn
  <2> QED BY <2>3, <2>4, <2>5, <2>6 DEF Next
<1> QED BY <1>1, Inductive, PTL DEF Spec, JoinLoopUndisturbed

-----------------------------------------------------------------------------
(* TaskSynchronizer: the count is exact, and no body is about once a join   *)
(* has returned.                                                            *)

SyncTyped ==
    /\ place \in [Callables -> PC]
    /\ remote \in [Callables -> 0..MaxEpoch]
    /\ owner \in OwnerPC
    /\ epoch \in 0..MaxEpoch
    /\ requested \in BOOLEAN /\ kept \in BOOLEAN /\ mutex \in BOOLEAN

\* Whoever is in a call is so by the current Status; after a join nobody is,
\* and the Status is gone.
StatusInv ==
    /\ \A t \in Callables : place[t] \notin {"out", "notifying"} => remote[t] = epoch
    /\ owner \in {"joined", "destroyed"} => \A t \in Callables : place[t] \in {"out", "notifying"}

DroppedInv == owner \in {"joined", "destroyed"} => ~kept

SyncInv == SyncTyped /\ RunningCountExact /\ StatusInv /\ DroppedInv

LEMMA SyncTypedStep ==
  ASSUME SyncTyped, [SyncNext]_syncVars
  PROVE  SyncTyped'
<1> USE TaskSynchronizerConstants DEF SyncTyped, PC, OwnerPC, Move
<1>1. ASSUME NEW t \in Callables, Wrap(t) \/ Lock(t) \/ TaskStep(t) PROVE SyncTyped'
  BY <1>1 DEF Wrap, Lock, TaskStep, CheckJoin, Drop, NotifyBegin, EndBody, ResetStatus,
              NotifyEnd, Notify
<1>2. CASE Join \/ RequestJoin \/ DropStatus \/ CheckDone \/ Relock \/ WakeSpuriously \/ Destroy
  BY <1>2 DEF Join, RequestJoin, DropStatus, CheckDone, MutexReleased, Relock, WakeSpuriously,
              Destroy
<1>3. CASE Reset
  <2>1. epoch' \in 0..MaxEpoch
    BY <1>3 DEF Reset
  <2> QED BY <1>3, <2>1 DEF Reset
<1>4. CASE UNCHANGED syncVars
  BY <1>4 DEF syncVars
<1> QED BY <1>1, <1>2, <1>3, <1>4 DEF SyncNext, TaskStep

\* The executing tasks change by the one that begins or ends.
LEMMA CountStep ==
  ASSUME SyncTyped, RunningCountExact, [SyncNext]_syncVars
  PROVE  RunningCountExact'
<1> USE TaskSynchronizerConstants DEF SyncTyped, Move
<1>1. IsFiniteSet(Executing) /\ Cardinality(Executing) \in Nat
  <2>1. Executing \in SUBSET Callables
    BY DEF Executing
  <2> QED BY <2>1, FS_Subset, FS_CardinalityType
<1>2. ASSUME UNCHANGED running, Executing' = Executing PROVE RunningCountExact'
  BY <1>2 DEF RunningCountExact
<1>3. ASSUME NEW t \in Callables,
             Wrap(t) \/ Lock(t) \/ CheckJoin(t) \/ Drop(t) \/ EndBody(t) \/ ResetStatus(t) \/ Notify(t)
      PROVE  RunningCountExact'
  <2>1. UNCHANGED running
    BY <1>3 DEF Wrap, Lock, CheckJoin, Drop, EndBody, ResetStatus, Notify
  <2>2. Executing' = Executing
    BY <1>3 DEF Wrap, Lock, CheckJoin, Drop, EndBody, ResetStatus, Notify, Executing
  <2> QED BY <1>2, <2>1, <2>2
<1>4. ASSUME NEW t \in Callables, NotifyBegin(t) PROVE RunningCountExact'
  <2>1. t \notin Executing /\ Executing' = Executing \cup {t}
    BY <1>4 DEF NotifyBegin, Executing
  <2>2. Cardinality(Executing') = Cardinality(Executing) + 1
    BY <1>1, <2>1, FS_AddElement
  <2> QED BY <1>4, <2>2 DEF NotifyBegin, Counted, RunningCountExact
<1>5. ASSUME NEW t \in Callables, NotifyEnd(t) PROVE RunningCountExact'
  <2>1. t \in Executing /\ Executing' = Executing \ {t}
    BY <1>5 DEF NotifyEnd, Executing
  <2>2. Cardinality(Executing') = Cardinality(Executing) - 1
    BY <1>1, <2>1, FS_RemoveElement
  <2> QED BY <1>5, <2>2 DEF NotifyEnd, RunningCountExact
<1>6. CASE \/ Join \/ RequestJoin \/ DropStatus \/ CheckDone \/ Relock \/ WakeSpuriously
           \/ Reset \/ Destroy \/ UNCHANGED syncVars
  <2>1. UNCHANGED <<place, running>>
    BY <1>6 DEF Join, RequestJoin, DropStatus, CheckDone, Relock, WakeSpuriously, Reset,
                Destroy, syncVars
  <2> QED BY <1>2, <2>1 DEF Executing
<1> QED BY <1>3, <1>4, <1>5, <1>6 DEF SyncNext

LEMMA DroppedStep ==
  ASSUME DroppedInv, [SyncNext]_syncVars
  PROVE  DroppedInv'
<1>1. ASSUME NEW t \in Callables,
             Wrap(t) \/ Lock(t) \/ CheckJoin(t) \/ Drop(t) \/ NotifyBegin(t) \/ EndBody(t)
             \/ ResetStatus(t) \/ NotifyEnd(t)
      PROVE  DroppedInv'
  <2>1. owner' = owner /\ kept' = kept
    BY <1>1 DEF Wrap, Lock, CheckJoin, Drop, NotifyBegin, EndBody, ResetStatus, NotifyEnd
  <2> QED BY <2>1, Zenon DEF DroppedInv
<1>2. ASSUME NEW t \in Callables, Notify(t) PROVE DroppedInv'
  <2>1. kept' = kept /\ (owner' = owner \/ owner' = "woken")
    BY <1>2 DEF Notify
  <2>2. CASE owner' = owner
    BY <2>1, <2>2, Zenon DEF DroppedInv
  <2>3. CASE owner' = "woken"
    BY <2>3 DEF DroppedInv
  <2> QED BY <2>1, <2>2, <2>3
<1>3. CASE Join \/ DropStatus \/ Relock \/ WakeSpuriously \/ Reset
  <2>1. owner' \in {"requesting", "checking", "woken", "using"}
    BY <1>3 DEF Join, DropStatus, Relock, WakeSpuriously, Reset
  <2> QED BY <2>1 DEF DroppedInv
<1>4. CASE RequestJoin \/ UNCHANGED syncVars
  <2>1. owner' = owner /\ kept' = kept
    BY <1>4 DEF RequestJoin, syncVars
  <2> QED BY <2>1, Zenon DEF DroppedInv
<1>5. CASE Destroy
  <2>1. ~kept /\ kept' = kept
    BY <1>5 DEF Destroy, DroppedInv
  <2> QED BY <2>1, Zenon DEF DroppedInv
<1>6. CASE CheckDone
  <2>1. kept' = kept
    BY <1>6 DEF CheckDone
  <2>2. CASE AllDone
    <3>1. ~kept
      BY <2>2 DEF AllDone, Expired
    <3> QED BY <2>1, <3>1, Zenon DEF DroppedInv
  <2>3. CASE ~AllDone
    BY <1>6, <2>3 DEF CheckDone, DroppedInv
  <2> QED BY <2>2, <2>3
<1> QED BY <1>1, <1>2, <1>3, <1>4, <1>5, <1>6 DEF SyncNext

\* Once nobody holds the Status and none is running, nobody comes back to it.
LEMMA SyncInvStep ==
  ASSUME SyncInv, [SyncNext]_syncVars
  PROVE  SyncInv'
<1>1. SyncTyped' /\ RunningCountExact' /\ DroppedInv'
  BY SyncTypedStep, CountStep, DroppedStep DEF SyncInv
<1> USE TaskSynchronizerConstants DEF SyncTyped, PC, OwnerPC, Move, SyncInv, StatusInv
<1>2. ASSUME NEW t \in Callables, Wrap(t) \/ Lock(t) PROVE StatusInv'
  BY <1>2 DEF Wrap, Lock, Expired, Holders, DroppedInv
<1>3. ASSUME NEW t \in Callables, TaskStep(t) PROVE StatusInv'
  BY <1>3 DEF TaskStep, CheckJoin, Drop, NotifyBegin, EndBody, ResetStatus, NotifyEnd, Notify
<1>4. ASSUME Join \/ RequestJoin \/ DropStatus \/ Relock \/ WakeSpuriously \/ Destroy
      PROVE  StatusInv'
  BY <1>4 DEF Join, RequestJoin, DropStatus, Relock, WakeSpuriously, Destroy
<1>5. ASSUME CheckDone PROVE StatusInv'
  <2>1. ASSUME running = 0 PROVE \A t \in Callables : t \notin Executing
    <3>1. IsFiniteSet(Executing)
      BY FS_Subset DEF Executing
    <3> QED BY <2>1, <3>1, FS_EmptySet DEF RunningCountExact
  <2> QED BY <1>5, <2>1 DEF CheckDone, AllDone, Executing, Expired, Holders
<1>6. ASSUME Reset PROVE StatusInv'
  <2>1. \A t \in Callables : place[t] \in {"out", "notifying"}
    BY <1>6 DEF Reset
  <2> QED BY <1>6, <2>1 DEF Reset
<1>7. ASSUME UNCHANGED syncVars PROVE StatusInv'
  BY <1>7 DEF syncVars
<1>8. StatusInv'
  BY <1>2, <1>3, <1>4, <1>5, <1>6, <1>7 DEF SyncNext, TaskStep
<1> QED BY <1>1, <1>8 DEF SyncInv

LEMMA SyncInvHolds == SyncSpec => []SyncInv
<1>1. SyncInit => SyncInv
  <2> SUFFICES ASSUME SyncInit PROVE SyncInv
    OBVIOUS
  <2>1. Executing = {} /\ RunningCountExact
    BY FS_EmptySet DEF SyncInit, Executing, RunningCountExact
  <2>2. SyncTyped
    <3>1. /\ place \in [Callables -> PC] /\ remote \in [Callables -> 0..MaxEpoch]
          /\ owner \in OwnerPC /\ epoch \in 0..MaxEpoch
      BY TaskSynchronizerConstants DEF SyncInit, PC, OwnerPC
    <3>2. requested \in BOOLEAN /\ kept \in BOOLEAN /\ mutex \in BOOLEAN
      BY DEF SyncInit
    <3> QED BY <3>1, <3>2 DEF SyncTyped
  <2>3. StatusInv /\ DroppedInv
    BY DEF SyncInit, StatusInv, DroppedInv
  <2> QED BY <2>1, <2>2, <2>3 DEF SyncInv
<1> QED BY <1>1, SyncInvStep, PTL DEF SyncSpec

\* Type correctness; that the count is a natural number is its exactness.
THEOREM SynchronizerTyped == SyncSpec => []SyncTypeOK
<1>1. SyncInv => SyncTypeOK
  <2> SUFFICES ASSUME SyncInv PROVE SyncTypeOK
    OBVIOUS
  <2>1. running \in Nat
    <3>1. IsFiniteSet(Executing)
      BY TaskSynchronizerConstants, FS_Subset DEF Executing
    <3> QED BY <3>1, FS_CardinalityType DEF SyncInv, RunningCountExact
  <2> QED BY <2>1 DEF SyncInv, SyncTyped, SyncTypeOK
<1> QED BY <1>1, SyncInvHolds, PTL

\* m_running_tasks equals the number of bodies under way.
THEOREM RunningCountRight == SyncSpec => []RunningCountExact
<1>1. SyncInv => RunningCountExact
  BY DEF SyncInv
<1> QED BY <1>1, SyncInvHolds, PTL

\* The callable never executes outside the lifetime of the object, nor, wrapped
\* before a reset, after it (TaskSynchronizer::synchronized, join_tasks, reset).
THEOREM BodiesStayInTheirLifetime == SyncSpec => []BodiesAreRight
<1>1. SyncInv => NoBodyAfterJoin
  BY DEF SyncInv, StatusInv, NoBodyAfterJoin
<1>2. SyncInv => BodiesAreCurrent
  BY DEF SyncInv, StatusInv, BodiesAreCurrent
<1>3. SyncInv => BodiesAreRight
  BY <1>1, <1>2 DEF BodiesAreRight
<1> QED BY <1>3, SyncInvHolds, PTL

-----------------------------------------------------------------------------
(* ProgressBars *)

FlagsTyped == marked \in BOOLEAN /\ watchStarted \in BOOLEAN /\ useBuffer \in BOOLEAN
RendererStates == [of : Nat, sink : Sinks, sees : SUBSET Messages,
                   pc : {"none", "read", "reading", "clear", "checking", "sleeping", "last", "done"}]
PlacesTyped ==
    /\ manager \in Nat /\ watches \in 0..MaxWatches
    /\ chrono \in {"unset", "started", "terminated"}
    /\ programPc \in {"out", "watching", "marking", "waiting", "ending", "unhooking"}
    /\ renderers \in [Watches -> RendererStates]
MessagesTyped ==
    /\ given \in 0..MaxMessages /\ shown \in [Messages -> Nat]
    /\ buffers \in [Sinks -> SUBSET Messages]
    /\ unpushed \subseteq Messages /\ midPass \subseteq Messages
BarsTyped == FlagsTyped /\ PlacesTyped /\ MessagesTyped

\* Only the thread of the last watch draws, on the manager that is there.
LastDraws == \A r \in Drawing : r = watches /\ renderers[r].of = manager
NotYet == \A r \in Watches : r > watches => renderers[r].pc = "none"

\* Where the program thread is, and whether there is a thread that draws.
Handshake ==
    /\ programPc = "out" => Drawing = {} /\ chrono # "started" /\ ~useBuffer /\ ~marked
    /\ programPc \in {"watching", "marking"} => Drawing # {} /\ ~marked
    /\ programPc = "waiting" => (marked <=> Drawing # {})
    /\ programPc \in {"ending", "unhooking"} => Drawing = {} /\ ~marked
    /\ programPc = "unhooking" => chrono # "started"
    /\ Drawing # {} => chrono = "started" /\ watchStarted

\* Messages are given in the order of their numbers, each to one sink.
GivenOnce ==
    /\ \A s \in Sinks : buffers[s] \subseteq 1..given
    /\ buffers["console"] \cap buffers["log"] = {}
    /\ \A m \in Messages : m > given => shown[m] = 0
    /\ unpushed \subseteq 1..given
    /\ \A m \in unpushed : shown[m] = 0 /\ \A s \in Sinks : m \notin buffers[s]

Clearing(s) == \E r \in Drawing : renderers[r].pc = "clear" /\ renderers[r].sink = s

\* What is in a buffer was not printed, unless it is about to be cleared.
KeptIsUnread ==
    \A s \in Sinks : \A m \in buffers[s] :
        IF Clearing(s) THEN shown[m] = 1 \/ (shown[m] = 0 /\ m \in midPass) ELSE shown[m] = 0

\* What print_buffer goes through, and what came since.
ReadingIsRight ==
    \A r \in Drawing : renderers[r].pc = "reading" =>
        LET s == renderers[r].sink
        IN  /\ renderers[r].sees \subseteq buffers[s]
            /\ buffers[s] \ renderers[r].sees \subseteq midPass
            /\ buffers[s] # renderers[r].sees => renderers[r].sees \subseteq midPass

\* What a pass has left behind it was given in the middle of it.
LeftIsMidPass ==
    /\ \A r \in Drawing :
         /\ renderers[r].pc = "checking" => \A s \in Sinks : buffers[s] \subseteq midPass
         /\ renderers[r].pc \in {"read", "reading", "clear"} /\ renderers[r].sink = "log" =>
              buffers["console"] \subseteq midPass
    /\ Drawing = {} => \A s \in Sinks : buffers[s] \subseteq midPass

PrintedOnce ==
    \A m \in 1..given :
        IF shown[m] = 0 THEN m \in unpushed \cup buffers["console"] \cup buffers["log"] \cup midPass
                        ELSE shown[m] = 1

\* A pass over both buffers ends where it began.
PassesEnd == \A r \in Drawing : renderers[r].pc \in {"checking", "sleeping"} => renderers[r].sink = "console"

Control == LastDraws /\ NotYet /\ Handshake
Printing == GivenOnce /\ KeptIsUnread /\ ReadingIsRight /\ LeftIsMidPass /\ PassesEnd /\ PrintedOnce
BarsInv == BarsTyped /\ (~overlooked => Control /\ Printing)

LEMMA BarsTypedInitial == BarsInit => BarsTyped
<1> SUFFICES ASSUME BarsInit PROVE BarsTyped
  OBVIOUS
<1> USE BarsConstants DEF BarsInit
<1>1. FlagsTyped
  BY DEF FlagsTyped
<1>2. PlacesTyped
  BY DEF PlacesTyped, RendererStates, NotScheduled, Sinks
<1>3. MessagesTyped
  BY DEF MessagesTyped
<1> QED BY <1>1, <1>2, <1>3 DEF BarsTyped

LEMMA PlacesTypedStep == BarsTyped /\ [BarsNext]_barsVars => PlacesTyped'
<1> SUFFICES ASSUME PlacesTyped, MessagesTyped, [BarsNext]_barsVars PROVE PlacesTyped'
  BY DEF BarsTyped
<1> USE BarsConstants DEF PlacesTyped, handshakeVars, messageVars, ProgramAt, RendererAt, RendererTo,
        RendererStates
<1>1. CASE NewManager \/ Terminate \/ Mark \/ Waited \/ StopChrono \/ PostStop
  BY <1>1 DEF NewManager, Terminate, Mark, Waited, StopChrono, PostStop
<1>2. CASE Observe
  <2>1. watches' \in Watches /\ watches' = watches + 1
    BY <1>2 DEF Observe, Watches
  <2>2. [NotScheduled EXCEPT !.of = manager, !.pc = "read"] \in RendererStates
    BY DEF NotScheduled, Sinks
  <2> QED BY <1>2, <2>1, <2>2 DEF Observe, Watches
<1>3. ASSUME NEW r \in Watches, ReadBuffer(r) PROVE PlacesTyped'
  BY <1>3 DEF ReadBuffer, MessagesTyped
<1>4. ASSUME NEW r \in Watches, BufferRead(r) PROVE PlacesTyped'
  <2>1. /\ renderers' = [renderers EXCEPT ![r].pc = "clear", ![r].sees = {}]
        /\ UNCHANGED handshakeVars
    BY <1>4 DEF BufferRead
  <2>2. [[renderers[r] EXCEPT !.pc = "clear"] EXCEPT !.sees = {}] \in RendererStates
    OBVIOUS
  <2>3. renderers' = [renderers EXCEPT ![r] = [[renderers[r] EXCEPT !.pc = "clear"] EXCEPT !.sees = {}]]
    BY <2>1
  <2> QED BY <2>1, <2>2, <2>3
<1>5. ASSUME NEW r \in Watches, ClearBuffer(r) PROVE PlacesTyped'
  BY <1>5 DEF ClearBuffer, Sinks
<1>6. ASSUME NEW r \in Watches, CheckMarked(r) \/ WakeUp(r) PROVE PlacesTyped'
  <2>1. \E p \in {"last", "sleeping", "read"} : renderers' = [renderers EXCEPT ![r].pc = p]
    BY <1>6 DEF CheckMarked, WakeUp
  <2> QED BY <1>6, <2>1 DEF CheckMarked, WakeUp
<1>7. ASSUME NEW r \in Watches, LastStore(r) PROVE PlacesTyped'
  BY <1>7 DEF LastStore
<1>8. ASSUME (\E s \in Sinks : Give(s)) \/ (\E m \in Messages : PushLog(m)) PROVE PlacesTyped'
  BY <1>8 DEF Give, PushLog
<1>9. CASE UNCHANGED barsVars
  BY <1>9 DEF barsVars
<1> QED BY <1>1, <1>2, <1>3, <1>4, <1>5, <1>6, <1>7, <1>8, <1>9
        DEF BarsNext, RendererStep, Terminating

LEMMA PushTyped ==
  ASSUME PlacesTyped, MessagesTyped, NEW s \in Sinks, NEW m \in Messages, Push(s, m)
  PROVE  buffers' \in [Sinks -> SUBSET Messages] /\ midPass' \subseteq Messages
<1>1. ReadNow(s) \subseteq Messages
  BY DEF ReadNow, PlacesTyped, RendererStates
<1> QED BY <1>1 DEF Push, MessagesTyped

LEMMA MessagesTypedStep == BarsTyped /\ [BarsNext]_barsVars => MessagesTyped'
<1> SUFFICES ASSUME PlacesTyped, MessagesTyped, [BarsNext]_barsVars PROVE MessagesTyped'
  BY DEF BarsTyped
<1> USE BarsConstants DEF MessagesTyped, messageVars
<1>1. CASE NewManager \/ Observe \/ Terminate \/ Mark \/ Waited \/ StopChrono \/ PostStop
  BY <1>1 DEF NewManager, Observe, Terminate, Mark, Waited, StopChrono, PostStop
<1>2. ASSUME NEW r \in Watches, RendererStep(r) PROVE MessagesTyped'
  <2>1. CASE BufferRead(r)
    <3>1. PICK read : shown' = [m \in Messages |-> IF m \in read THEN shown[m] + 1 ELSE shown[m]]
      BY <2>1 DEF BufferRead
    <3>2. UNCHANGED <<unpushed, buffers, given, midPass>>
      BY <2>1 DEF BufferRead
    <3>3. shown' \in [Messages -> Nat]
      BY <3>1
    <3> QED BY <3>2, <3>3
  <2>2. CASE ReadBuffer(r) \/ ClearBuffer(r) \/ CheckMarked(r) \/ WakeUp(r) \/ LastStore(r)
    BY <2>2 DEF ReadBuffer, ClearBuffer, CheckMarked, WakeUp, LastStore, Cleared
  <2> QED BY <1>2, <2>1, <2>2 DEF RendererStep
<1>3. ASSUME NEW s \in Sinks, Give(s) PROVE MessagesTyped'
  <2>1. given + 1 \in Messages /\ given' = given + 1 /\ given' \in 0..MaxMessages
    BY <1>3 DEF Give, Messages
  <2>2. shown' \in [Messages -> Nat] /\ unpushed' \subseteq Messages
    BY <1>3, <2>1 DEF Give
  <2>3. CASE UNCHANGED <<buffers, midPass>>
    BY <2>1, <2>2, <2>3
  <2>4. CASE Push(s, given + 1)
    BY <2>1, <2>2, <2>4, PushTyped
  <2> QED BY <1>3, <2>3, <2>4 DEF Give
<1>4. ASSUME NEW m \in Messages, PushLog(m) PROVE MessagesTyped'
  <2>1. "log" \in Sinks
    BY DEF Sinks
  <2> QED BY <1>4, <2>1, PushTyped DEF PushLog
<1>5. CASE UNCHANGED barsVars
  BY <1>5 DEF barsVars
<1> QED BY <1>1, <1>2, <1>3, <1>4, <1>5 DEF BarsNext, Terminating

LEMMA BarsTypedStep == BarsTyped /\ [BarsNext]_barsVars => BarsTyped'
<1> SUFFICES ASSUME FlagsTyped, [BarsNext]_barsVars PROVE FlagsTyped'
  BY PlacesTypedStep, MessagesTypedStep DEF BarsTyped
<1>1. marked' \in {marked, TRUE, FALSE} /\ watchStarted' \in {watchStarted, TRUE, FALSE}
      /\ useBuffer' \in {useBuffer, TRUE, FALSE}
  BY DEF BarsNext, RendererStep, Terminating, barsVars, handshakeVars, messageVars,
         NewManager, Observe, Terminate, Mark, Waited, StopChrono, PostStop, Give, PushLog, Push,
         ReadBuffer, BufferRead, ClearBuffer, CheckMarked, WakeUp, LastStore
<1> QED BY <1>1 DEF FlagsTyped

\* A step of a thread that goes on drawing.
LEMMA StillDraws ==
  ASSUME PlacesTyped, Control, NEW r \in Watches, r \in Drawing,
         renderers' \in [Watches -> RendererStates],
         \A q \in Watches \ {r} : renderers'[q] = renderers[q],
         renderers'[r].of = renderers[r].of,
         renderers'[r].pc \notin {"none", "last", "done"}, UNCHANGED handshakeVars
  PROVE  Control' /\ Drawing' = Drawing
<1>1. Drawing' = Drawing
  BY DEF Drawing
<1>2. LastDraws' /\ NotYet'
  BY <1>1 DEF Control, LastDraws, NotYet, handshakeVars, Drawing
<1>3. Handshake'
  BY <1>1 DEF Control, Handshake, handshakeVars
<1> QED BY <1>1, <1>2, <1>3 DEF Control

LEMMA ControlStep ==
  ASSUME BarsTyped, BarsTyped', Control, ~overlooked', [BarsNext]_barsVars
  PROVE  Control'
<1> USE DEF BarsTyped, PlacesTyped, FlagsTyped
<1>1. CASE NewManager
  <2>1. Drawing = {} /\ Drawing' = {}
    BY <1>1 DEF NewManager, ProgramAt, Control, Handshake, Drawing
  <2> QED BY <1>1, <2>1 DEF NewManager, ProgramAt, messageVars, Control, LastDraws, NotYet, Handshake
<1>2. CASE Observe
  <2>1. watches' \in Watches /\ watches' = watches + 1
    BY <1>2 DEF Observe, Watches
  <2>2. /\ renderers'[watches'].pc = "read" /\ renderers'[watches'].of = manager
        /\ \A q \in Watches \ {watches'} : renderers'[q] = renderers[q]
    BY <1>2, <2>1 DEF Observe, NotScheduled
  <2>3. Drawing = {}
    BY <1>2 DEF Observe, ProgramAt, Control, Handshake
  <2>4. Drawing' = {watches'}
    BY <2>1, <2>2, <2>3 DEF Drawing
  <2>5. LastDraws'
    BY <1>2, <2>2, <2>4 DEF LastDraws, Observe
  <2>6. NotYet'
    BY <2>1, <2>2 DEF NotYet, Watches, Control
  <2>7. Handshake'
    BY <1>2, <2>4 DEF Handshake, Observe, ProgramAt
  <2> QED BY <2>5, <2>6, <2>7 DEF Control
<1>3. CASE Terminate \/ Mark \/ Waited \/ StopChrono \/ PostStop
  <2>1. UNCHANGED <<renderers, watches, manager>>
    BY <1>3 DEF Terminate, Mark, Waited, StopChrono, PostStop
  <2>2. Drawing' = Drawing /\ LastDraws' /\ NotYet'
    BY <2>1 DEF Drawing, LastDraws, NotYet, Control
  <2>3. Handshake'
    BY <1>3, <2>2 DEF Terminate, Mark, Waited, StopChrono, PostStop, Control, Handshake, ProgramAt,
                      MayGoOn, messageVars
  <2> QED BY <2>2, <2>3 DEF Control
<1>4. ASSUME NEW r \in Watches, ReadBuffer(r) \/ BufferRead(r) \/ ClearBuffer(r) PROVE Control'
  <2>1. r \in Drawing /\ UNCHANGED handshakeVars
    BY <1>4 DEF ReadBuffer, BufferRead, ClearBuffer, RendererAt, Drawing
  <2>2. /\ \A q \in Watches \ {r} : renderers'[q] = renderers[q]
        /\ renderers'[r].of = renderers[r].of
        /\ renderers'[r].pc \in {"read", "reading", "clear", "checking"}
    <3>1. CASE ReadBuffer(r)
      BY <3>1 DEF ReadBuffer, RendererStates
    <3>2. CASE BufferRead(r)
      <4>1. renderers' = [renderers EXCEPT ![r].pc = "clear", ![r].sees = {}]
        BY <3>2 DEF BufferRead
      <4> QED BY <4>1 DEF RendererStates
    <3>3. CASE ClearBuffer(r)
      BY <3>3 DEF ClearBuffer, RendererStates
    <3> QED BY <1>4, <3>1, <3>2, <3>3
  <2> QED BY <2>1, <2>2, StillDraws
<1>5. ASSUME NEW r \in Watches, CheckMarked(r) PROVE Control'
  <2>1. r \in Drawing /\ r = watches
    BY <1>5 DEF CheckMarked, RendererAt, Drawing, Control, LastDraws
  <2>2. renderers' = [renderers EXCEPT ![r].pc = IF marked THEN "last" ELSE "sleeping"]
    BY <1>5 DEF CheckMarked, RendererTo
  <2>3. /\ \A q \in Watches \ {r} : renderers'[q] = renderers[q]
        /\ renderers'[r].of = renderers[r].of
        /\ renderers'[r].pc = IF marked THEN "last" ELSE "sleeping"
    BY <2>2 DEF RendererStates
  <2>4. Drawing' = IF marked THEN Drawing \ {r} ELSE Drawing
    BY <2>1, <2>3 DEF Drawing
  <2>5. Drawing = {r}
    BY <2>1 DEF Control, LastDraws
  <2>6. LastDraws' /\ NotYet'
    BY <1>5, <2>1, <2>3, <2>4 DEF Control, LastDraws, NotYet, CheckMarked
  <2>7. Handshake'
    BY <1>5, <2>4, <2>5 DEF Control, Handshake, CheckMarked, messageVars
  <2> QED BY <2>6, <2>7 DEF Control
<1>6. ASSUME NEW r \in Watches, WakeUp(r) PROVE Control'
  <2>1. r \in Drawing /\ UNCHANGED handshakeVars
    BY <1>6 DEF WakeUp, RendererAt, Drawing
  <2>2. chrono = "started"
    BY <2>1 DEF Control, Handshake
  <2>3. renderers' = [renderers EXCEPT ![r].pc = "read"]
    BY <1>6, <2>2 DEF WakeUp, RendererTo
  <2> QED BY <2>1, <2>3, StillDraws DEF RendererStates
<1>7. ASSUME NEW r \in Watches, LastStore(r) PROVE Control'
  <2>1. renderers' = [renderers EXCEPT ![r].pc = "done"] /\ renderers[r].pc = "last"
    BY <1>7 DEF LastStore, RendererTo
  <2>2. \A q \in Watches : renderers'[q].of = renderers[q].of
                           /\ renderers'[q].pc = IF q = r THEN "done" ELSE renderers[q].pc
    BY <2>1 DEF RendererStates
  <2>3. Drawing' = Drawing
    BY <2>1, <2>2 DEF Drawing
  <2>4. renderers[r].of = manager => Drawing = {}
    BY <1>7 DEF LastStore, Drawing, Control, LastDraws
  <2>5. LastDraws' /\ NotYet'
    BY <1>7, <2>1, <2>2, <2>3 DEF Control, LastDraws, NotYet, LastStore
  <2>6. Handshake'
    BY <1>7, <2>3, <2>4 DEF Control, Handshake, LastStore, messageVars
  <2> QED BY <2>5, <2>6 DEF Control
<1>8. ASSUME (\E s \in Sinks : Give(s)) \/ (\E m \in Messages : PushLog(m)) PROVE Control'
  <2>1. UNCHANGED <<handshakeVars, useBuffer, renderers>>
    BY <1>8 DEF Give, PushLog
  <2> QED BY <2>1 DEF Control, LastDraws, NotYet, Handshake, Drawing, handshakeVars
<1>9. CASE UNCHANGED barsVars
  BY <1>9 DEF barsVars, handshakeVars, messageVars, Control, LastDraws, NotYet, Handshake, Drawing
<1> QED BY <1>1, <1>2, <1>3, <1>4, <1>5, <1>6, <1>7, <1>8, <1>9
        DEF BarsNext, RendererStep, Terminating

\* Steps that leave the messages alone and the threads where they draw.
LEMMA NothingPrinted ==
  ASSUME Printing, UNCHANGED <<unpushed, buffers, given, shown, midPass>>,
         Drawing' = Drawing, \A r \in Drawing : renderers'[r] = renderers[r]
  PROVE  Printing'
<1>1. GivenOnce' /\ PrintedOnce'
  BY DEF Printing, GivenOnce, PrintedOnce
<1>2. \A s \in Sinks : Clearing(s)' = Clearing(s)
  BY DEF Clearing
<1>3. KeptIsUnread'
  BY <1>2 DEF Printing, KeptIsUnread
<1>4. ReadingIsRight' /\ LeftIsMidPass' /\ PassesEnd'
  BY DEF Printing, ReadingIsRight, LeftIsMidPass, PassesEnd
<1> QED BY <1>1, <1>3, <1>4 DEF Printing

\* The only thread that draws does a step in which it clears nothing.
LEMMA PassGoesOn ==
  ASSUME Printing, UNCHANGED <<unpushed, buffers, given, shown, midPass>>, NEW r \in Watches, Drawing' = {r},
         \A s \in Sinks : ~Clearing(s),
         renderers'[r].pc \in {"read", "reading", "sleeping"},
         renderers'[r].pc = "reading" => renderers'[r].sees = buffers[renderers'[r].sink],
         renderers'[r].pc \in {"read", "reading"} /\ renderers'[r].sink = "log" =>
            buffers["console"] \subseteq midPass,
         renderers'[r].pc = "sleeping" => renderers'[r].sink = "console"
  PROVE  Printing'
<1>1. GivenOnce' /\ PrintedOnce'
  BY DEF Printing, GivenOnce, PrintedOnce
<1>2. \A s \in Sinks : ~Clearing(s)'
  BY DEF Clearing
<1>3. KeptIsUnread'
  BY <1>2 DEF Printing, KeptIsUnread
<1>4. ReadingIsRight'
  BY DEF ReadingIsRight
<1>5. LeftIsMidPass' /\ PassesEnd'
  BY DEF LeftIsMidPass, PassesEnd
<1> QED BY <1>1, <1>3, <1>4, <1>5 DEF Printing

\* print_buffer prints what is kept, once, or it was given meanwhile.
LEMMA BufferReadPrints ==
  ASSUME BarsTyped, BarsTyped', Control, Printing, NEW r \in Watches, BufferRead(r)
  PROVE  Printing'
<1> USE DEF BarsTyped, PlacesTyped, MessagesTyped
<1> DEFINE s == renderers[r].sink
<1> DEFINE sees == renderers[r].sees
<1>1. /\ renderers[r].pc = "reading" /\ r \in Drawing /\ Drawing = {r} /\ s \in Sinks
  BY DEF BufferRead, RendererAt, Drawing, Control, LastDraws, RendererStates
<1>2. /\ renderers'[r].pc = "clear" /\ renderers'[r].sink = s
      /\ \A q \in Watches \ {r} : renderers'[q] = renderers[q]
  <2>1. renderers' = [renderers EXCEPT ![r].pc = "clear", ![r].sees = {}]
    BY DEF BufferRead
  <2> QED BY <2>1 DEF RendererStates
<1>3. Drawing' = {r}
  BY <1>1, <1>2 DEF Drawing
<1>4. /\ sees \subseteq buffers[s] /\ buffers[s] \ sees \subseteq midPass
      /\ buffers[s] # sees => sees \subseteq midPass
  BY <1>1 DEF Printing, ReadingIsRight
<1>5. PICK read \in SUBSET sees :
         /\ buffers[s] = sees => read = sees
         /\ shown' = [m \in Messages |-> IF m \in read THEN shown[m] + 1 ELSE shown[m]]
  BY DEF BufferRead
<1>6. UNCHANGED <<unpushed, buffers, given, midPass>>
  BY DEF BufferRead
<1>7. \A t \in Sinks : ~Clearing(t)
  BY <1>1 DEF Clearing
<1>8. \A t \in Sinks : \A m \in buffers[t] : shown[m] = 0 /\ m \in Messages
  BY <1>7 DEF Printing, KeptIsUnread
<1>9. \A m \in Messages : shown'[m] = IF m \in read THEN 1 ELSE shown[m]
  BY <1>4, <1>5, <1>8, <1>1
<1>10. \A t \in Sinks : Clearing(t)' <=> t = s
  BY <1>2, <1>3 DEF Clearing
<1>11. KeptIsUnread'
  <2> SUFFICES ASSUME NEW t \in Sinks, NEW m \in buffers[t]
               PROVE  IF t = s THEN shown'[m] = 1 \/ (shown'[m] = 0 /\ m \in midPass) ELSE shown'[m] = 0
    BY <1>6, <1>10 DEF KeptIsUnread
  <2>1. CASE t = s
    BY <2>1, <1>4, <1>5, <1>8, <1>9
  <2>2. CASE t # s
    <3>1. m \notin buffers[s]
      BY <2>2, <1>1 DEF Printing, GivenOnce, Sinks
    <3> QED BY <2>2, <3>1, <1>4, <1>8, <1>9
  <2> QED BY <2>1, <2>2
<1>12. GivenOnce'
  <2>1. \A m \in read : m \in 1..given
    BY <1>4, <1>1 DEF Printing, GivenOnce
  <2>2. \A m \in unpushed : m \notin read /\ m \in Messages
    BY <1>4, <1>1 DEF Printing, GivenOnce
  <2> QED BY <2>1, <2>2, <1>6, <1>9 DEF Printing, GivenOnce
<1>13. PrintedOnce'
  <2>1. \A m \in 1..given : m \in Messages
    BY BarsConstants DEF Messages
  <2>2. \A m \in 1..given :
          IF shown[m] = 0 THEN m \in unpushed \cup buffers["console"] \cup buffers["log"] \cup midPass
                          ELSE shown[m] = 1
    BY DEF Printing, PrintedOnce
  <2> QED BY <2>1, <2>2, <1>6, <1>9 DEF PrintedOnce
<1>14. ReadingIsRight' /\ PassesEnd'
  BY <1>2, <1>3 DEF ReadingIsRight, PassesEnd
<1>15. LeftIsMidPass'
  BY <1>1, <1>2, <1>3, <1>6 DEF LeftIsMidPass, Printing
<1> QED BY <1>11, <1>12, <1>13, <1>14, <1>15 DEF Printing

\* What is cleared was printed, or given meanwhile.
LEMMA ClearBufferDropsPrinted ==
  ASSUME BarsTyped, BarsTyped', Control, Printing, NEW r \in Watches, ClearBuffer(r)
  PROVE  Printing'
<1> USE DEF BarsTyped, PlacesTyped, MessagesTyped
<1> DEFINE s == renderers[r].sink
<1>1. /\ renderers[r].pc = "clear" /\ r \in Drawing /\ Drawing = {r} /\ s \in Sinks
  BY DEF ClearBuffer, RendererAt, Drawing, Control, LastDraws, RendererStates
<1>2. /\ renderers'[r].pc = (IF s = "console" THEN "read" ELSE "checking")
      /\ renderers'[r].sink = (IF s = "console" THEN "log" ELSE "console")
      /\ \A q \in Watches \ {r} : renderers'[q] = renderers[q]
  BY DEF ClearBuffer, RendererStates
<1>3. Drawing' = {r}
  BY <1>1, <1>2 DEF Drawing
<1>4. /\ buffers'[s] = {} /\ \A t \in Sinks \ {s} : buffers'[t] = buffers[t]
      /\ UNCHANGED <<unpushed, given, shown, midPass>>
  BY <1>1 DEF ClearBuffer, Cleared
<1>5. \A t \in Sinks : (Clearing(t) <=> t = s) /\ ~Clearing(t)'
  BY <1>1, <1>2, <1>3 DEF Clearing
<1>6. GivenOnce'
  BY <1>1, <1>4 DEF Printing, GivenOnce, Sinks
<1>7. KeptIsUnread'
  BY <1>4, <1>5 DEF Printing, KeptIsUnread
<1>8. \A m \in buffers[s] : shown[m] = 1 \/ m \in midPass
  BY <1>1, <1>5 DEF Printing, KeptIsUnread
<1>9. PrintedOnce'
  BY <1>1, <1>4, <1>8 DEF Printing, PrintedOnce, Sinks
<1>10. ReadingIsRight' /\ PassesEnd'
  BY <1>2, <1>3 DEF ReadingIsRight, PassesEnd
<1>11. LeftIsMidPass'
  BY <1>1, <1>2, <1>3, <1>4 DEF LeftIsMidPass, Printing, Sinks
<1> QED BY <1>6, <1>7, <1>9, <1>10, <1>11 DEF Printing

\* A message is kept for a pass to come, or pushed in the middle of one.
LEMMA PushKeeps ==
  ASSUME BarsTyped, BarsTyped', Control, Printing, NEW s \in Sinks, NEW m \in Messages, Push(s, m),
         shown[m] = 0, \A t \in Sinks : m \notin buffers[t],
         given' \in {given, given + 1}, 1..given' = (1..given) \cup {m},
         unpushed' = unpushed \ {m}, UNCHANGED <<shown, renderers, manager>>
  PROVE  Printing'
<1> USE DEF BarsTyped, PlacesTyped, MessagesTyped
<1> DEFINE now == PassUnderWay(s) \/ programPc # "watching"
<1>1. midPass' = IF now THEN midPass \cup {m} \cup ReadNow(s) ELSE midPass
  BY DEF Push
<1>2. \A t \in Sinks : buffers'[t] = IF t = s THEN buffers[s] \cup {m} ELSE buffers[t]
  BY DEF Push
<1>3. midPass \subseteq midPass' /\ (now => m \in midPass' /\ ReadNow(s) \subseteq midPass')
  BY <1>1
<1> HIDE DEF now
<1>4. Drawing' = Drawing /\ \A t \in Sinks : Clearing(t)' = Clearing(t)
  BY DEF Drawing, Clearing
<1>5. GivenOnce'
  <2>1. \A t \in Sinks : buffers'[t] \subseteq 1..given'
    BY <1>2 DEF Printing, GivenOnce
  <2>2. \A n \in Messages : n > given' => shown'[n] = 0
    <3>1. \A n \in Messages : n > given' => n > given
      BY DEF Messages
    <3> QED BY <3>1 DEF Printing, GivenOnce
  <2>3. buffers'["console"] \cap buffers'["log"] = {}
    BY <1>2 DEF Printing, GivenOnce, Sinks
  <2>4. unpushed' \subseteq 1..given'
    BY DEF Printing, GivenOnce
  <2>5. \A n \in unpushed' : shown'[n] = 0 /\ \A t \in Sinks : n \notin buffers'[t]
    BY <1>2 DEF Printing, GivenOnce
  <2> QED BY <2>1, <2>2, <2>3, <2>4, <2>5 DEF GivenOnce
<1>6. KeptIsUnread'
  <2> SUFFICES ASSUME NEW t \in Sinks, NEW n \in buffers'[t]
               PROVE  IF Clearing(t) THEN shown[n] = 1 \/ (shown[n] = 0 /\ n \in midPass')
                                     ELSE shown[n] = 0
    BY <1>4 DEF KeptIsUnread
  <2>1. CASE n \in buffers[t]
    BY <2>1, <1>3 DEF Printing, KeptIsUnread
  <2>2. CASE n \notin buffers[t]
    <3>1. t = s /\ n = m
      BY <2>2, <1>2
    <3>2. Clearing(s) => now
      BY DEF Clearing, PassUnderWay, now
    <3> QED BY <3>1, <3>2, <1>3
  <2> QED BY <2>1, <2>2
<1>7. ReadingIsRight'
  <2> SUFFICES ASSUME NEW r \in Drawing, renderers[r].pc = "reading"
               PROVE  LET t == renderers[r].sink
                      IN  /\ renderers[r].sees \subseteq buffers'[t]
                          /\ buffers'[t] \ renderers[r].sees \subseteq midPass'
                          /\ buffers'[t] # renderers[r].sees => renderers[r].sees \subseteq midPass'
    BY <1>4 DEF ReadingIsRight
  <2>1. /\ renderers[r].sees \subseteq buffers[renderers[r].sink]
        /\ buffers[renderers[r].sink] \ renderers[r].sees \subseteq midPass
        /\ buffers[renderers[r].sink] # renderers[r].sees => renderers[r].sees \subseteq midPass
        /\ r \in Watches /\ renderers[r].of = manager /\ renderers[r].sink \in Sinks
    BY DEF Printing, ReadingIsRight, Drawing, Control, LastDraws, RendererStates
  <2>2. CASE renderers[r].sink # s
    BY <2>1, <2>2, <1>2, <1>3
  <2>3. CASE renderers[r].sink = s
    <3>1. PassUnderWay(s)
      BY <2>3 DEF PassUnderWay
    <3>2. renderers[r].sees \subseteq ReadNow(s)
      BY <2>1, <2>3 DEF ReadNow, RendererAt
    <3> QED BY <2>1, <2>3, <3>1, <3>2, <1>2, <1>3 DEF now
  <2> QED BY <2>2, <2>3
<1>8. LeftIsMidPass'
  <2>1. ASSUME NEW r \in Drawing, renderers[r].pc = "checking"
        PROVE  \A t \in Sinks : buffers'[t] \subseteq midPass'
    BY <2>1, <1>2, <1>3 DEF Printing, LeftIsMidPass, PassUnderWay, now
  <2>2. ASSUME NEW r \in Drawing, renderers[r].pc \in {"read", "reading", "clear"},
               renderers[r].sink = "log"
        PROVE  buffers'["console"] \subseteq midPass'
    BY <2>2, <1>2, <1>3 DEF Printing, LeftIsMidPass, PassUnderWay, now, Sinks
  <2>3. ASSUME Drawing = {} PROVE \A t \in Sinks : buffers'[t] \subseteq midPass'
    <3>1. now
      BY <2>3 DEF now, Control, Handshake
    <3> QED BY <2>3, <3>1, <1>2, <1>3 DEF Printing, LeftIsMidPass
  <2> QED BY <1>4, <2>1, <2>2, <2>3 DEF LeftIsMidPass
<1>9. PrintedOnce'
  BY <1>2, <1>3 DEF Printing, PrintedOnce, Sinks
<1>10. PassesEnd'
  BY <1>4 DEF Printing, PassesEnd
<1> QED BY <1>5, <1>6, <1>7, <1>8, <1>9, <1>10 DEF Printing

LEMMA GiveKeeps ==
  ASSUME BarsTyped, BarsTyped', Control, Printing, NEW s \in Sinks, Give(s)
  PROVE  Printing'
<1> USE DEF BarsTyped, PlacesTyped, MessagesTyped
<1> DEFINE m == given + 1
<1>1. /\ m \in Messages /\ given' = m /\ shown[m] = 0 /\ m \notin 1..given
      /\ UNCHANGED <<renderers, manager>> /\ 1..m = (1..given) \cup {m}
  BY BarsConstants DEF Give, Messages, handshakeVars, Printing, GivenOnce
<1>2. Drawing' = Drawing /\ \A t \in Sinks : Clearing(t)' = Clearing(t)
  BY <1>1 DEF Drawing, Clearing
<1>3. m \notin unpushed /\ \A t \in Sinks : m \notin buffers[t]
  BY <1>1 DEF Printing, GivenOnce
<1>4. \A n \in Messages : n > given' => n > given /\ n # m
  BY <1>1 DEF Messages
<1>5. CASE Push(s, m) /\ UNCHANGED <<unpushed, shown>>
  BY <1>1, <1>3, <1>5, PushKeeps
<1>6. CASE /\ UNCHANGED <<buffers, midPass>>
           /\ \/ unpushed' = unpushed /\ shown' = [shown EXCEPT ![m] = 1]
              \/ unpushed' = unpushed \cup {m} /\ shown' = shown
  <2>1. \A n \in Messages \ {m} : shown'[n] = shown[n]
    BY <1>6
  <2>2. GivenOnce'
    <3>1. \A t \in Sinks : buffers'[t] \subseteq 1..given'
      BY <1>1, <1>6 DEF Printing, GivenOnce
    <3>2. \A n \in Messages : n > given' => shown'[n] = 0
      BY <1>4, <2>1 DEF Printing, GivenOnce
    <3>3. unpushed' \subseteq 1..given'
      BY <1>1, <1>6 DEF Printing, GivenOnce
    <3>4. \A n \in unpushed' : shown'[n] = 0 /\ \A t \in Sinks : n \notin buffers'[t]
      <4> SUFFICES ASSUME NEW n \in unpushed'
                   PROVE  shown'[n] = 0 /\ \A t \in Sinks : n \notin buffers[t]
        BY <1>6
      <4>1. CASE n = m /\ n \notin unpushed
        <5>1. shown' = shown
          BY <1>6, <4>1
        <5> QED BY <1>1, <1>3, <4>1, <5>1
      <4>2. CASE n \in unpushed
        <5>1. n # m /\ n \in Messages
          BY <1>3, <4>2
        <5> QED BY <2>1, <4>2, <5>1 DEF Printing, GivenOnce
      <4> QED BY <1>6, <4>1, <4>2
    <3>5. buffers'["console"] \cap buffers'["log"] = {}
      BY <1>6 DEF Printing, GivenOnce
    <3> QED BY <3>1, <3>2, <3>3, <3>4, <3>5 DEF GivenOnce
  <2>3. KeptIsUnread'
    BY <1>2, <1>3, <1>6, <2>1 DEF Printing, KeptIsUnread
  <2>4. ReadingIsRight' /\ LeftIsMidPass' /\ PassesEnd'
    BY <1>1, <1>2, <1>6 DEF Printing, ReadingIsRight, LeftIsMidPass, PassesEnd
  <2>5. PrintedOnce'
    <3>1. shown'[m] = 1 \/ (shown'[m] = 0 /\ m \in unpushed')
      BY <1>1, <1>6
    <3>2. \A n \in 1..given : n # m /\ n \in Messages
      BY <1>1, BarsConstants DEF Messages
    <3>3. unpushed \subseteq unpushed'
      BY <1>6
    <3>4. \A n \in 1..given :
            IF shown'[n] = 0
            THEN n \in unpushed' \cup buffers'["console"] \cup buffers'["log"] \cup midPass'
            ELSE shown'[n] = 1
      BY <1>6, <2>1, <3>2, <3>3 DEF Printing, PrintedOnce
    <3> QED BY <1>1, <3>1, <3>4 DEF PrintedOnce
  <2> QED BY <2>2, <2>3, <2>4, <2>5 DEF Printing
<1> QED BY <1>5, <1>6 DEF Give

LEMMA PushLogKeeps ==
  ASSUME BarsTyped, BarsTyped', Control, Printing, NEW m \in Messages, PushLog(m)
  PROVE  Printing'
<1>1. shown[m] = 0 /\ m \in 1..given /\ \A t \in Sinks : m \notin buffers[t]
  BY DEF PushLog, Printing, GivenOnce
<1>2. "log" \in Sinks /\ UNCHANGED <<given, shown, renderers, manager>>
  BY DEF PushLog, Sinks, handshakeVars
<1>3. Push("log", m) /\ unpushed' = unpushed \ {m}
  BY DEF PushLog
<1>4. 1..given' = (1..given) \cup {m}
  BY <1>1, <1>2
<1> QED BY <1>1, <1>2, <1>3, <1>4, PushKeeps

LEMMA PrintingStep ==
  ASSUME BarsTyped, BarsTyped', Control, Control', Printing, ~overlooked', [BarsNext]_barsVars
  PROVE  Printing'
<1> USE DEF BarsTyped, PlacesTyped
<1>1. CASE NewManager \/ Terminate \/ Mark \/ Waited \/ StopChrono \/ PostStop
  <2>1. UNCHANGED <<renderers, unpushed, buffers, given, shown, midPass>>
    BY <1>1 DEF NewManager, Terminate, Mark, Waited, StopChrono, PostStop, messageVars
  <2> QED BY <2>1, NothingPrinted DEF Drawing
<1>2. CASE Observe
  <2>1. watches' \in Watches
    BY <1>2 DEF Observe, Watches
  <2>2. renderers'[watches'].pc = "read" /\ renderers'[watches'].sink = "console"
    BY <1>2, <2>1 DEF Observe, NotScheduled
  <2>3. Drawing = {}
    BY <1>2 DEF Observe, ProgramAt, Control, Handshake
  <2>4. Drawing' = {watches'}
    BY <2>1, <2>2 DEF Drawing, Control, LastDraws
  <2>5. UNCHANGED <<unpushed, buffers, given, shown, midPass>> /\ \A s \in Sinks : ~Clearing(s)
    BY <1>2, <2>3 DEF Observe, Clearing
  <2> QED BY <2>1, <2>2, <2>4, <2>5, PassGoesOn
<1>3. ASSUME NEW r \in Watches, ReadBuffer(r) \/ WakeUp(r) \/ CheckMarked(r) PROVE Printing'
  <2>1. r \in Drawing /\ Drawing = {r} /\ UNCHANGED <<unpushed, buffers, given, shown, midPass>>
    BY <1>3 DEF ReadBuffer, WakeUp, CheckMarked, RendererAt, Drawing, Control, LastDraws, messageVars
  <2>2. \A s \in Sinks : ~Clearing(s)
    BY <1>3, <2>1 DEF Clearing, ReadBuffer, WakeUp, CheckMarked, RendererAt
  <2>3. chrono = "started"
    BY <2>1 DEF Control, Handshake
  <2>4. CASE ReadBuffer(r)
    <3>1. /\ renderers'[r].pc = "reading" /\ renderers'[r].sink = renderers[r].sink
          /\ renderers'[r].sees = buffers[renderers[r].sink] /\ renderers[r].pc = "read"
      BY <2>4 DEF ReadBuffer, RendererAt, RendererStates
    <3>2. Drawing' = {r}
      BY <2>1, <2>4, <3>1 DEF Drawing, ReadBuffer
    <3> QED BY <2>1, <2>2, <3>1, <3>2, PassGoesOn DEF Printing, LeftIsMidPass
  <2>5. CASE WakeUp(r)
    <3>1. /\ renderers'[r].pc = "read" /\ renderers'[r].sink = renderers[r].sink
          /\ renderers[r].pc = "sleeping"
      BY <2>5, <2>3 DEF WakeUp, RendererAt, RendererTo, RendererStates
    <3>2. Drawing' = {r}
      BY <2>1, <2>5, <3>1 DEF Drawing, WakeUp, RendererTo
    <3>3. renderers'[r].sink = "console"
      BY <2>1, <3>1 DEF Printing, PassesEnd
    <3> QED BY <2>1, <2>2, <3>1, <3>2, <3>3, PassGoesOn
  <2>6. CASE CheckMarked(r) /\ ~marked
    <3>1. /\ renderers'[r].pc = "sleeping" /\ renderers'[r].sink = renderers[r].sink
          /\ renderers[r].pc = "checking"
      BY <2>6 DEF CheckMarked, RendererAt, RendererTo, RendererStates
    <3>2. Drawing' = {r}
      BY <2>1, <2>6, <3>1 DEF Drawing, CheckMarked, RendererTo
    <3>3. renderers'[r].sink = "console"
      BY <2>1, <3>1 DEF Printing, PassesEnd
    <3> QED BY <2>1, <2>2, <3>1, <3>2, <3>3, PassGoesOn
  <2>7. CASE CheckMarked(r) /\ marked
    <3>1. renderers'[r].pc = "last" /\ renderers[r].pc = "checking"
      BY <2>7 DEF CheckMarked, RendererAt, RendererTo, RendererStates
    <3>2. Drawing' = {}
      BY <2>1, <2>7, <3>1 DEF Drawing, CheckMarked, RendererTo
    <3>3. \A s \in Sinks : buffers[s] \subseteq midPass
      BY <2>1, <3>1 DEF Printing, LeftIsMidPass
    <3>4. GivenOnce' /\ PrintedOnce' /\ ReadingIsRight' /\ LeftIsMidPass' /\ PassesEnd'
      BY <2>1, <3>2, <3>3 DEF Printing, GivenOnce, PrintedOnce, ReadingIsRight, LeftIsMidPass, PassesEnd
    <3>5. KeptIsUnread'
      BY <2>1, <2>2, <3>2 DEF Printing, KeptIsUnread, Clearing
    <3> QED BY <3>4, <3>5 DEF Printing
  <2> QED BY <1>3, <2>4, <2>5, <2>6, <2>7
<1>4. ASSUME NEW r \in Watches, BufferRead(r) PROVE Printing'
  BY <1>4, BufferReadPrints
<1>5. ASSUME NEW r \in Watches, ClearBuffer(r) PROVE Printing'
  BY <1>5, ClearBufferDropsPrinted
<1>6. ASSUME NEW r \in Watches, LastStore(r) PROVE Printing'
  <2>1. UNCHANGED <<unpushed, buffers, given, shown, midPass>> /\ r \notin Drawing
    BY <1>6 DEF LastStore, messageVars, Drawing
  <2>2. \A q \in Watches \ {r} : renderers'[q] = renderers[q]
    BY <1>6 DEF LastStore, RendererTo
  <2>3. renderers'[r].pc = "done"
    BY <1>6 DEF LastStore, RendererTo, RendererStates
  <2>4. Drawing' = Drawing /\ Drawing \subseteq Watches \ {r}
    BY <2>1, <2>2, <2>3 DEF Drawing
  <2> QED BY <2>1, <2>2, <2>4, NothingPrinted
<1>7. ASSUME NEW s \in Sinks, Give(s) PROVE Printing'
  BY <1>7, GiveKeeps
<1>9. ASSUME NEW m \in Messages, PushLog(m) PROVE Printing'
  BY <1>9, PushLogKeeps
<1>8. CASE UNCHANGED barsVars
  BY <1>8, NothingPrinted DEF barsVars, messageVars, Drawing
<1> QED BY <1>1, <1>2, <1>3, <1>4, <1>5, <1>6, <1>7, <1>8, <1>9
        DEF BarsNext, RendererStep, Terminating

LEMMA BarsInitial == BarsInit => BarsInv
<1> SUFFICES ASSUME BarsInit PROVE BarsInv
  OBVIOUS
<1>1. Drawing = {}
  BY DEF BarsInit, Drawing, NotScheduled
<1>2. Control
  BY <1>1 DEF BarsInit, Control, LastDraws, NotYet, Handshake, NotScheduled
<1>3. KeptIsUnread /\ GivenOnce /\ PrintedOnce
  BY DEF BarsInit, KeptIsUnread, GivenOnce, PrintedOnce, Sinks
<1>4. ReadingIsRight /\ LeftIsMidPass /\ PassesEnd
  BY <1>1 DEF BarsInit, ReadingIsRight, LeftIsMidPass, PassesEnd
<1> QED BY <1>2, <1>3, <1>4, BarsTypedInitial DEF BarsInv, Printing

LEMMA BarsInvStep == BarsInv /\ [BarsNext]_barsVars => BarsInv'
<1> SUFFICES ASSUME BarsInv, [BarsNext]_barsVars PROVE BarsInv'
  OBVIOUS
<1>1. BarsTyped /\ BarsTyped'
  BY BarsTypedStep DEF BarsInv
<1>2. ~overlooked' => ~overlooked
  BY DEF BarsNext, RendererStep, Terminating, barsVars, NewManager, Observe, Terminate, Mark, Waited,
         StopChrono, PostStop, Give, PushLog, ReadBuffer, BufferRead, ClearBuffer, CheckMarked, WakeUp, LastStore
<1>3. ~overlooked' => Control'
  BY <1>1, <1>2, ControlStep DEF BarsInv
<1>4. ~overlooked' => Printing'
  BY <1>1, <1>2, <1>3, PrintingStep DEF BarsInv
<1> QED BY <1>1, <1>3, <1>4 DEF BarsInv

\* When terminate returns nobody draws any more, and a message given by
\* whatever thread was printed once, unless it was pushed while a pass was
\* printing or no watch went on (print, ~MessageLogger, terminate): for any
\* number of managers, watches and messages, as long as no thread was
\* overlooked.
THEOREM WatchesEndAndPrint == BarsSpec => []BarsAreRight
<1>1. BarsInv => BarsAreRight
  <2> SUFFICES ASSUME BarsInv, ~overlooked PROVE NobodyDraws /\ MessagesArePrinted
    BY DEF BarsAreRight
  <2>1. programPc = "out" => Drawing = {}
    BY DEF BarsInv, Control, Handshake
  <2> QED BY <2>1 DEF BarsInv, NobodyDraws, MessagesArePrinted, Printing, PrintedOnce, LeftIsMidPass
<1> QED BY <1>1, BarsInitial, BarsInvStep, PTL DEF BarsSpec

-----------------------------------------------------------------------------
(* RunningProcesses *)

\* Who is at work on the files has the directory locked.
AtWork(p) == runPc[p] \in {"naming", "looking", "opening", "writing", "removing"}
AtWorkHasDirectory == \A p \in Pids : AtWork(p) => HasDirectory(p)

HoldersMet ==
    \A p, q \in Pids : HasDirectory(p) /\ HasDirectory(q) => p = q \/ {p, q} \in together

\* A name that was chosen is no other's before its file names it.
Named(p) == Launched(p) \/ runPc[p] \in {"opening", "writing"}
NamedAreUnique ==
    \A p, q \in Pids :
        Named(p) /\ Named(q) /\ processName[p] = processName[q] => p = q \/ {p, q} \in together
NamedHaveNames ==
    \A p \in Pids : /\ Named(p) => processName[p] \in Names
                    /\ runPc[p] = "naming" => asked[p] # PsStop

TornIsExplained ==
    \A p \in Pids : procFile[p] = TornFile => p \in torn \/ runPc[p] = "writing"

DirTyped == dirPc \in [Pids -> Dir!PC]
DirInv == DirTyped /\ AtWorkHasDirectory /\ HoldersMet
FilesInv == NamedAreUnique /\ NamedHaveNames /\ TornIsExplained /\ LaunchedAreListed
ProcessInv == ProcessTypeOK /\ DirInv /\ FilesInv

LEMMA ProcessInitial == ProcessInit => ProcessInv
<1> SUFFICES ASSUME ProcessInit PROVE ProcessInv
  OBVIOUS
<1>1. ProcessTypeOK
  BY ProcessConstants DEF ProcessInit, ProcessTypeOK
<1>2. \A p \in Pids : runPc[p] = "out" /\ procFile[p] = NoFile
  BY DEF ProcessInit
<1>3. dirPc = [p \in Pids |-> "idle"]
  BY DEF ProcessInit, Dir!Init
<1>4. DirInv
  BY <1>2, <1>3 DEF DirInv, DirTyped, AtWorkHasDirectory, AtWork, HoldersMet, HasDirectory, Dir!PC
<1>5. FilesInv
  BY <1>2 DEF FilesInv, NamedAreUnique, NamedHaveNames, Named, TornIsExplained,
              LaunchedAreListed, Launched, NoFile, TornFile
<1> QED BY <1>1, <1>4, <1>5 DEF ProcessInv

\* Only the last step of a lock makes its process have the directory.
LEMMA LockFileSteps ==
    ASSUME DirTyped, NEW p \in Pids, Locking(p) \/ Dir!Grant(p) \/ Unlocking(p)
    PROVE  \E spot \in Dir!PC \ {"holding"} : dirPc' = [dirPc EXCEPT ![p] = spot]
<1>1. Dir!PC = {"idle", "checked", "opened", "waiting", "granted", "holding", "closing", "removing"}
  BY DEF Dir!PC
<1>2. CASE Locking(p)
  BY <1>1, <1>2 DEF Locking, Dir!Check, Dir!Open, Dir!TryLock, Dir!Goto, Dir!LockBlocking
<1>3. CASE Dir!Grant(p)
  BY <1>1, <1>3 DEF Dir!Grant, Dir!Goto
<1>4. CASE Unlocking(p)
  BY <1>1, <1>4 DEF Unlocking, Dir!Drop, Dir!CloseFd, Dir!RemoveFile, Dir!Goto
<1> QED BY <1>2, <1>3, <1>4

\* Steps that are no more than that, outside of any work on files.
LEMMA LockingKeeps ==
    ASSUME ProcessInv, NEW p \in Pids, Locking(p) \/ Dir!Grant(p) \/ Unlocking(p), ~AtWork(p),
           UNCHANGED <<procFile, runPc, nameVars, signalVars, historyVars>>
    PROVE  ProcessInv'
<1> USE DEF ProcessInv, DirInv
<1>1. PICK spot \in Dir!PC \ {"holding"} : dirPc' = [dirPc EXCEPT ![p] = spot]
  BY LockFileSteps
<1>2. UNCHANGED <<procFile, runPc, asked, processName, hasHandler, targets, torn, together, runs>>
  BY DEF nameVars, signalVars, historyVars
<1>3. DirTyped' /\ \A q \in Pids : HasDirectory(q)' <=> q # p /\ HasDirectory(q)
  BY <1>1 DEF DirTyped, HasDirectory, Dir!PC
<1>4. DirInv'
  BY <1>2, <1>3 DEF AtWorkHasDirectory, AtWork, HoldersMet
<1>5. ProcessTypeOK'
  BY <1>2 DEF ProcessTypeOK
<1>6. FilesInv'
  BY <1>2 DEF FilesInv, NamedAreUnique, NamedHaveNames, Named, TornIsExplained,
              LaunchedAreListed, Launched
<1> QED BY <1>4, <1>5, <1>6

\* Steps of a process that leave the directory's lock, its meetings and the
\* names of others alone.
LEMMA DirectoryKept ==
    ASSUME DirInv, UNCHANGED <<dirVars, together>>, NEW p \in Pids, AtWork(p)' => HasDirectory(p),
           \A q \in Pids \ {p} : runPc'[q] = runPc[q]
    PROVE  DirInv'
BY DEF DirInv, DirTyped, AtWorkHasDirectory, AtWork, HoldersMet, HasDirectory, dirVars

\* The process ends without unwinding.
LEMMA EndingKeeps ==
    ASSUME ProcessInv, NEW p \in Pids, EndsWithoutUnwinding(p),
           targets' \in [Pids -> SUBSET Pids]
    PROVE  ProcessInv'
<1> USE DEF ProcessInv
<1>1. /\ runPc' = [runPc EXCEPT ![p] = "out"]
      /\ asked' = [asked EXCEPT ![p] = AnyName]
      /\ processName' = [processName EXCEPT ![p] = AnyName]
      /\ hasHandler' = hasHandler \ {p}
      /\ together' = {pair \in together : p \notin pair}
      /\ torn' = (IF runPc[p] = "writing" THEN torn \cup {p} ELSE torn)
      /\ UNCHANGED <<procFile, runs>>
  BY DEF EndsWithoutUnwinding, Gone, RunTo
<1>2. ProcessTypeOK'
  BY <1>1 DEF ProcessTypeOK
<1>3. DirTyped' /\ \A q \in Pids : q # p => dirPc'[q] = dirPc[q]
  BY DEF EndsWithoutUnwinding, dirVars, DirInv, DirTyped, Dir!Crash, Dir!PC
<1>4. dirPc'[p] = "idle"
  BY DEF EndsWithoutUnwinding, dirVars, DirInv, DirTyped, Dir!Crash, Dir!PC
<1>5. \A q \in Pids : q # p => runPc'[q] = runPc[q] /\ processName'[q] = processName[q]
  BY <1>1 DEF ProcessTypeOK
<1>6. runPc'[p] = "out"
  BY <1>1 DEF ProcessTypeOK
<1>7. \A q, r \in Pids \ {p} : {q, r} \in together => {q, r} \in together'
  BY <1>1
<1>8. AtWorkHasDirectory' /\ HoldersMet'
  BY <1>3, <1>4, <1>5, <1>6, <1>7
  DEF DirInv, AtWorkHasDirectory, AtWork, HoldersMet, HasDirectory
<1>9. NamedAreUnique' /\ NamedHaveNames' /\ LaunchedAreListed'
  BY <1>1, <1>5, <1>6, <1>7
  DEF FilesInv, NamedAreUnique, NamedHaveNames, Named, LaunchedAreListed, Launched
<1>10. TornIsExplained'
  BY <1>1, <1>5, <1>6 DEF FilesInv, TornIsExplained
<1> QED BY <1>2, <1>3, <1>8, <1>9, <1>10 DEF DirInv, FilesInv

\* A process goes on to a spot where nothing new is asked of it.
LEMMA GoingOnKeeps ==
    ASSUME ProcessInv, NEW p \in Pids, NEW spot,
           runPc' = [runPc EXCEPT ![p] = spot],
           spot \in {"logging", "locking", "running", "leaving", "ending"},
           Launched(p) <=> spot \in {"running", "leaving"},
           runPc[p] # "writing",
           UNCHANGED <<procFile, dirVars, processName, torn, together>>,
           asked' \in [Pids -> Labels \cup {AnyName, PsStop}], runs' \in 0..MaxRuns,
           \A q \in Pids \ {p} : asked'[q] = asked[q],
           hasHandler' \subseteq Pids, targets' \in [Pids -> SUBSET Pids]
    PROVE  ProcessInv'
<1>1. ProcessTypeOK'
  BY DEF ProcessInv, ProcessTypeOK
<1>2. /\ \A q \in Pids \ {p} : runPc'[q] = runPc[q]
      /\ runPc'[p] = spot
  BY DEF ProcessInv, ProcessTypeOK
<1>3. ~AtWork(p)'
  BY <1>2 DEF AtWork
<1>4. DirInv'
  BY <1>2, <1>3, DirectoryKept DEF ProcessInv
<1>5. \A q \in Pids : (Named(q)' => Named(q)) /\ (Launched(q)' => Launched(q))
  BY <1>2 DEF Named, Launched
<1>6. FilesInv'
  BY <1>2, <1>5 DEF ProcessInv, FilesInv, NamedAreUnique, NamedHaveNames,
                    LaunchedAreListed, TornIsExplained
<1> QED BY <1>1, <1>4, <1>6 DEF ProcessInv

LEMMA ProcessStepKeeps == ProcessInv /\ [ProcessNext]_procVars => ProcessInv'
<1> SUFFICES ASSUME ProcessInv, [ProcessNext]_procVars PROVE ProcessInv'
  OBVIOUS
<1> USE DEF ProcessInv, RunTo
<1>0. {NoFile, TornFile, AnyName, PsStop} \cap Names = {} /\ MaxRuns \in Nat
  BY ProcessConstants
<1>1. ASSUME NEW p \in Pids, NEW label \in Labels \cup {AnyName, PsStop}, Run(p, label)
      PROVE  ProcessInv'
  <2>1. PICK spot \in {"logging", "locking"} : runPc' = [runPc EXCEPT ![p] = spot]
    BY <1>1 DEF Run
  <2>2. runPc[p] = "out" /\ UNCHANGED <<procFile, dirVars, processName, hasHandler, targets, torn, together>>
    BY <1>1 DEF Run, signalVars
  <2>3. /\ asked' \in [Pids -> Labels \cup {AnyName, PsStop}] /\ runs' \in 0..MaxRuns
        /\ \A q \in Pids \ {p} : asked'[q] = asked[q]
    BY <1>0, <1>1 DEF Run, ProcessTypeOK
  <2> QED BY <2>1, <2>2, <2>3, GoingOnKeeps DEF Launched, ProcessTypeOK
<1>2. ASSUME NEW p \in Pids, LogRunning(p) PROVE ProcessInv'
  <2>1. PICK spot \in {"ending", "locking"} : runPc' = [runPc EXCEPT ![p] = spot]
    BY <1>2 DEF LogRunning
  <2> QED BY <1>2, <2>1, GoingOnKeeps
          DEF LogRunning, Launched, ProcessTypeOK, nameVars, signalVars, historyVars
<1>3. ASSUME NEW p \in Pids, LockDirectory(p) \/ AwaitDirectory(p) \/ UnlockDirectory(p)
      PROVE  ProcessInv'
  <2>1. ~AtWork(p) /\ (Locking(p) \/ Dir!Grant(p) \/ Unlocking(p))
    BY <1>3 DEF LockDirectory, AwaitDirectory, UnlockDirectory, AtWork
  <2>2. UNCHANGED <<procFile, runPc, nameVars, signalVars, historyVars>>
    BY <1>3 DEF LockDirectory, AwaitDirectory, UnlockDirectory
  <2> QED BY <2>1, <2>2, LockingKeeps
<1>4. ASSUME NEW p \in Pids, DirectoryLocked(p) PROVE ProcessInv'
  <2>1. PICK spot \in {"removing", "looking", "naming"} : runPc' = [runPc EXCEPT ![p] = spot]
    BY <1>4 DEF DirectoryLocked
  <2>2. dirPc' = [dirPc EXCEPT ![p] = "holding"]
    BY <1>4 DEF DirectoryLocked, Dir!Acquire, Dir!Publish, Dir!Goto
  <2>3. /\ together' = together \cup {{p, q} : q \in {q \in Pids : HasDirectory(q)}}
        /\ runPc[p] \in {"locking", "leaving"} /\ (spot = "removing" => Launched(p))
        /\ UNCHANGED <<procFile, asked, processName, hasHandler, targets, torn, runs>>
    BY <1>4, <2>1 DEF DirectoryLocked, nameVars, signalVars, Launched, ProcessTypeOK
  <2>4. ProcessTypeOK'
    BY <2>1, <2>3 DEF ProcessTypeOK
  <2>5. DirTyped' /\ \A q \in Pids : HasDirectory(q)' <=> q = p \/ HasDirectory(q)
    BY <2>2 DEF DirInv, DirTyped, HasDirectory, Dir!PC
  <2>6. \A q \in Pids \ {p} : runPc'[q] = runPc[q]
    BY <2>1
  <2>7. AtWorkHasDirectory'
    BY <2>5, <2>6 DEF DirInv, AtWorkHasDirectory, AtWork
  <2>8. HoldersMet'
    <3>1. \A q \in Pids : HasDirectory(q) => {p, q} \in together' /\ {q, p} \in together'
      BY <2>3
    <3>2. together \subseteq together'
      BY <2>3
    <3> QED BY <2>5, <3>1, <3>2 DEF DirInv, HoldersMet
  <2>9. \A q \in Pids : (Named(q)' => Named(q)) /\ (Launched(q)' => Launched(q))
    BY <2>1, <2>3, <2>6 DEF Named, Launched, ProcessTypeOK
  <2>11. spot = "naming" => asked[p] # PsStop
    BY <1>4, <2>1 DEF DirectoryLocked, ProcessTypeOK
  <2>10. FilesInv'
    BY <2>1, <2>3, <2>6, <2>9, <2>11 DEF FilesInv, NamedAreUnique, NamedHaveNames,
       LaunchedAreListed, TornIsExplained, ProcessTypeOK
  <2> QED BY <2>4, <2>5, <2>7, <2>8, <2>10 DEF DirInv
<1>5. ASSUME NEW p \in Pids, ChooseName(p) PROVE ProcessInv'
  <2>1. PICK name \in FreeNames(p) : processName' = [processName EXCEPT ![p] = name]
    BY <1>5 DEF ChooseName
  <2>2. /\ runPc[p] = "naming" /\ runPc' = [runPc EXCEPT ![p] = "opening"]
        /\ UNCHANGED <<procFile, dirVars, asked, hasHandler, targets, torn, together, runs>>
    BY <1>5 DEF ChooseName, signalVars, historyVars
  <2>3. HasDirectory(p)
    BY <2>2 DEF DirInv, AtWorkHasDirectory, AtWork
  <2>13. asked[p] # PsStop
    BY <2>2 DEF FilesInv, NamedHaveNames
  <2>4. name \in Names /\ \A q \in Pids : procFile[q] # name
    BY <2>1, <2>13 DEF FreeNames, IsRunning, Names, ProcessTypeOK
  <2>5. ProcessTypeOK'
    BY <2>1, <2>2, <2>4 DEF ProcessTypeOK
  <2>6. /\ \A q \in Pids \ {p} : runPc'[q] = runPc[q] /\ processName'[q] = processName[q]
        /\ processName'[p] = name /\ runPc'[p] = "opening"
    BY <2>1, <2>2 DEF ProcessTypeOK
  <2>7. DirInv'
    BY <2>2, <2>3, <2>6, DirectoryKept
  <2>8. \A q \in Pids \ {p} : (Named(q)' <=> Named(q)) /\ (Launched(q)' <=> Launched(q))
    BY <2>6 DEF Named, Launched
  <2>9. \A q \in Pids \ {p} : Named(q) /\ processName[q] = name => {p, q} \in together /\ {q, p} \in together
    <3> SUFFICES ASSUME NEW q \in Pids \ {p}, Named(q), processName[q] = name
                 PROVE  {p, q} \in together /\ {q, p} \in together
      OBVIOUS
    <3>1. ~Launched(q)
      BY <2>4 DEF FilesInv, LaunchedAreListed
    <3>2. HasDirectory(q)
      BY <3>1 DEF Named, DirInv, AtWorkHasDirectory, AtWork
    <3> QED BY <2>3, <3>2 DEF DirInv, HoldersMet
  <2>10. NamedAreUnique'
    BY <2>2, <2>6, <2>8, <2>9 DEF FilesInv, NamedAreUnique
  <2>11. NamedHaveNames' /\ LaunchedAreListed'
    BY <2>2, <2>4, <2>6, <2>8 DEF FilesInv, NamedHaveNames, LaunchedAreListed, Launched
  <2>12. TornIsExplained'
    BY <2>2, <2>6 DEF FilesInv, TornIsExplained
  <2> QED BY <2>5, <2>7, <2>10, <2>11, <2>12 DEF FilesInv
<1>6. ASSUME NEW p \in Pids, NameThrows(p) \/ OpenThrows(p) PROVE ProcessInv'
  <2>1. /\ runPc[p] \in {"naming", "looking", "opening"}
        /\ runPc' = [runPc EXCEPT ![p] = "ending"]
        /\ UNCHANGED <<procFile, dirVars, nameVars, signalVars, historyVars>>
    BY <1>6 DEF NameThrows, OpenThrows
  <2> QED BY <2>1, GoingOnKeeps
          DEF Launched, ProcessTypeOK, nameVars, signalVars, historyVars
<1>7. ASSUME NEW p \in Pids, OpenProcFile(p) PROVE ProcessInv'
  <2>1. /\ runPc[p] = "opening" /\ runPc' = [runPc EXCEPT ![p] = "writing"]
        /\ procFile' = [procFile EXCEPT ![p] = TornFile] /\ torn' = torn \ {p}
        /\ UNCHANGED <<dirVars, asked, processName, hasHandler, targets, together, runs>>
    BY <1>7 DEF OpenProcFile, nameVars, signalVars
  <2>2. ProcessTypeOK'
    BY <2>1 DEF ProcessTypeOK
  <2>3. /\ \A q \in Pids \ {p} : runPc'[q] = runPc[q] /\ procFile'[q] = procFile[q]
        /\ runPc'[p] = "writing"
    BY <2>1 DEF ProcessTypeOK
  <2>4. HasDirectory(p)
    BY <2>1 DEF DirInv, AtWorkHasDirectory, AtWork
  <2>5. DirInv'
    BY <2>1, <2>3, <2>4, DirectoryKept
  <2>6. \A q \in Pids : (Named(q)' <=> Named(q)) /\ (Launched(q)' <=> Launched(q))
    BY <2>1, <2>3 DEF Named, Launched
  <2>7. NamedAreUnique' /\ NamedHaveNames'
    BY <2>1, <2>6 DEF FilesInv, NamedAreUnique, NamedHaveNames
  <2>8. ~Launched(p)
    BY <2>1 DEF Launched
  <2>9. LaunchedAreListed'
    BY <2>1, <2>3, <2>6, <2>8 DEF FilesInv, LaunchedAreListed
  <2>10. TornIsExplained'
    BY <2>1, <2>3 DEF FilesInv, TornIsExplained
  <2> QED BY <2>2, <2>5, <2>7, <2>9, <2>10 DEF FilesInv
<1>8. ASSUME NEW p \in Pids, WriteProcFile(p) PROVE ProcessInv'
  <2>1. /\ runPc[p] = "writing" /\ runPc' = [runPc EXCEPT ![p] = "starting"]
        /\ procFile' = [procFile EXCEPT ![p] = processName[p]]
        /\ UNCHANGED <<dirVars, asked, processName, hasHandler, targets, torn, together, runs>>
    BY <1>8 DEF WriteProcFile, nameVars, signalVars, historyVars
  <2>2. processName[p] \in Names
    BY <2>1 DEF FilesInv, NamedHaveNames, Named
  <2>3. ProcessTypeOK'
    BY <2>1, <2>2 DEF ProcessTypeOK
  <2>4. /\ \A q \in Pids \ {p} : runPc'[q] = runPc[q] /\ procFile'[q] = procFile[q]
        /\ runPc'[p] = "starting" /\ procFile'[p] = processName[p]
    BY <2>1 DEF ProcessTypeOK
  <2>5. DirInv'
    BY <2>1, <2>4, DirectoryKept DEF AtWork
  <2>6. \A q \in Pids : Named(q)' <=> Named(q)
    BY <2>1, <2>4 DEF Named, Launched
  <2>7. NamedAreUnique' /\ NamedHaveNames'
    BY <2>1, <2>6 DEF FilesInv, NamedAreUnique, NamedHaveNames
  <2>8. \A q \in Pids \ {p} : Launched(q)' <=> Launched(q)
    BY <2>4 DEF Launched
  <2>9. LaunchedAreListed'
    BY <2>1, <2>4, <2>8 DEF FilesInv, LaunchedAreListed
  <2>10. TornIsExplained'
    BY <1>0, <2>1, <2>2, <2>4 DEF FilesInv, TornIsExplained
  <2> QED BY <2>3, <2>5, <2>7, <2>9, <2>10 DEF FilesInv
<1>9. ASSUME NEW p \in Pids, StartProcess(p) \/ ProgramEnds(p) PROVE ProcessInv'
  <2>1. PICK spot \in {"running", "leaving"} : runPc' = [runPc EXCEPT ![p] = spot]
    BY <1>9 DEF StartProcess, ProgramEnds
  <2>2. /\ runPc[p] \in {"starting", "running"}
        /\ UNCHANGED <<procFile, dirVars, nameVars, signalVars, historyVars>>
    BY <1>9 DEF StartProcess, ProgramEnds
  <2> QED BY <2>1, <2>2, GoingOnKeeps
          DEF Launched, ProcessTypeOK, nameVars, signalVars, historyVars
<1>10. ASSUME NEW p \in Pids, InstallHandler(p) PROVE ProcessInv'
  <2>1. /\ hasHandler' = hasHandler \cup {p}
        /\ UNCHANGED <<procFile, runPc, dirVars, asked, processName, targets, torn, together, runs>>
    BY <1>10 DEF InstallHandler, nameVars, historyVars
  <2>2. DirInv'
    BY <2>1 DEF DirInv, DirTyped, AtWorkHasDirectory, AtWork, HoldersMet, HasDirectory, dirVars
  <2>3. FilesInv'
    BY <2>1 DEF FilesInv, NamedAreUnique, NamedHaveNames, Named, TornIsExplained,
                LaunchedAreListed, Launched
  <2> QED BY <2>1, <2>2, <2>3 DEF ProcessTypeOK
<1>11. ASSUME NEW p \in Pids, RemoveProcFile(p) PROVE ProcessInv'
  <2>1. /\ runPc[p] = "removing" /\ runPc' = [runPc EXCEPT ![p] = "ending"]
        /\ procFile' = [procFile EXCEPT ![p] = NoFile]
        /\ UNCHANGED <<dirVars, asked, processName, hasHandler, targets, torn, together, runs>>
    BY <1>11 DEF RemoveProcFile, nameVars, signalVars, historyVars
  <2>2. ProcessTypeOK'
    BY <2>1 DEF ProcessTypeOK
  <2>3. /\ \A q \in Pids \ {p} : runPc'[q] = runPc[q] /\ procFile'[q] = procFile[q]
        /\ runPc'[p] = "ending" /\ procFile'[p] = NoFile
    BY <2>1 DEF ProcessTypeOK
  <2>4. DirInv'
    BY <2>1, <2>3, DirectoryKept DEF AtWork
  <2>5. \A q \in Pids : /\ Named(q)' => q # p /\ Named(q)
                        /\ Launched(q)' => q # p /\ Launched(q)
    BY <2>3 DEF Named, Launched
  <2>6. NamedAreUnique' /\ NamedHaveNames' /\ LaunchedAreListed'
    BY <2>1, <2>3, <2>5 DEF FilesInv, NamedAreUnique, NamedHaveNames, LaunchedAreListed
  <2>7. TornIsExplained'
    BY <2>1, <2>3 DEF FilesInv, TornIsExplained, NoFile, TornFile
  <2> QED BY <2>2, <2>4, <2>6, <2>7 DEF FilesInv
<1>12. ASSUME NEW p \in Pids, Exit(p) PROVE ProcessInv'
  <2>1. EndsWithoutUnwinding(p)
    BY <1>12 DEF Exit, EndsWithoutUnwinding
  <2>2. targets' \in [Pids -> SUBSET Pids]
    BY <1>12 DEF Exit, ProcessTypeOK
  <2> QED BY <2>1, <2>2, EndingKeeps
<1>13. ASSUME NEW p \in Pids, Dies(p) PROVE ProcessInv'
  <2>1. targets' \in [Pids -> SUBSET Pids]
    BY <1>13 DEF Dies, ProcessTypeOK
  <2> QED BY <1>13, <2>1, EndingKeeps DEF Dies
<1>14. ASSUME NEW p \in Pids, NEW name \in Names, StopLookup(p, name) PROVE ProcessInv'
  <2>1. /\ runPc[p] = "looking" /\ runPc' = [runPc EXCEPT ![p] = "signalling"]
        /\ targets' \in [Pids -> SUBSET Pids]
        /\ UNCHANGED <<procFile, dirVars, asked, processName, hasHandler, torn, together, runs>>
    BY <1>14 DEF StopLookup, nameVars, historyVars, ProcessTypeOK
  <2>2. ProcessTypeOK'
    BY <2>1 DEF ProcessTypeOK
  <2>3. (\A q \in Pids \ {p} : runPc'[q] = runPc[q]) /\ runPc'[p] = "signalling"
    BY <2>1 DEF ProcessTypeOK
  <2>4. DirInv'
    BY <2>1, <2>3, DirectoryKept DEF AtWork
  <2>5. \A q \in Pids : /\ (Named(q)' => Named(q)) /\ (Launched(q)' => Launched(q))
                        /\ (runPc'[q] = "writing" <=> runPc[q] = "writing")
                        /\ (runPc'[q] = "naming" => runPc[q] = "naming")
    BY <2>1, <2>3 DEF Named, Launched
  <2>6. FilesInv'
    BY <2>1, <2>5 DEF FilesInv, NamedAreUnique, NamedHaveNames, LaunchedAreListed, TornIsExplained
  <2> QED BY <2>2, <2>4, <2>6
<1>15. ASSUME NEW p \in Pids, NEW q \in Pids, StopProcess(p, q) PROVE ProcessInv'
  <2>1. targets' \in [Pids -> SUBSET Pids]
    BY <1>15 DEF StopProcess, Signalled, ProcessTypeOK
  <2>2. CASE EndsWithoutUnwinding(q)
    BY <2>1, <2>2, EndingKeeps
  <2>3. CASE ~EndsWithoutUnwinding(q)
    <3>1. UNCHANGED <<procFile, dirVars, asked, processName, hasHandler, torn, together, runs>>
      BY <1>15, <2>3 DEF StopProcess, nameVars, historyVars
    <3>2. \/ UNCHANGED runPc
          \/ runPc[q] = "running" /\ runPc' = [runPc EXCEPT ![q] = "leaving"]
      BY <1>15, <2>3 DEF StopProcess
    <3>3. CASE UNCHANGED runPc
      <4>1. DirInv'
        BY <3>1, <3>3 DEF DirInv, DirTyped, AtWorkHasDirectory, AtWork, HoldersMet,
                          HasDirectory, dirVars
      <4>2. FilesInv'
        BY <3>1, <3>3 DEF FilesInv, NamedAreUnique, NamedHaveNames, Named, TornIsExplained,
                          LaunchedAreListed, Launched
      <4> QED BY <2>1, <3>1, <3>3, <4>1, <4>2 DEF ProcessTypeOK
    <3>4. CASE runPc[q] = "running" /\ runPc' = [runPc EXCEPT ![q] = "leaving"]
      BY <2>1, <3>1, <3>4, GoingOnKeeps DEF Launched, ProcessTypeOK
    <3> QED BY <3>2, <3>3, <3>4
  <2> QED BY <2>2, <2>3
<1>16. CASE UNCHANGED procVars
  <2>1. UNCHANGED <<procFile, runPc, dirVars, asked, processName, hasHandler, targets, torn, together, runs>>
    BY <1>16 DEF procVars, nameVars, signalVars, historyVars
  <2>2. DirInv'
    BY <2>1 DEF DirInv, DirTyped, AtWorkHasDirectory, AtWork, HoldersMet, HasDirectory, dirVars
  <2>3. FilesInv'
    BY <2>1 DEF FilesInv, NamedAreUnique, NamedHaveNames, Named, TornIsExplained,
                LaunchedAreListed, Launched
  <2> QED BY <2>1, <2>2, <2>3 DEF ProcessTypeOK
<1> QED
  BY <1>1, <1>2, <1>3, <1>4, <1>5, <1>6, <1>7, <1>8, <1>9, <1>10, <1>11, <1>12, <1>13, <1>14,
     <1>15, <1>16
  DEF ProcessNext

\* Every process that was launched is listed, under a name that no other has
\* and with files that are whole under the lock, except for processes that had
\* the directory locked at the same time: for any pids and labels, however
\* processes are killed, over the lock file as it is (run_in_environment,
\* ScopedProcFile, LockFile).
THEOREM LaunchedAreKnown == ProcessSpec => []ProcessesAreKnown
<1>1. ProcessInv => ProcessesAreKnown
  <2> SUFFICES ASSUME ProcessInv PROVE LaunchedAreListed /\ NamesAreUnique /\ WholeUnderLock
    BY DEF ProcessInv, ProcessesAreKnown, ProcessesAreListed
  <2>1. NamesAreUnique
    BY DEF ProcessInv, FilesInv, NamedAreUnique, Named, NamesAreUnique
  <2>2. WholeUnderLock
    BY DEF ProcessInv, FilesInv, DirInv, TornIsExplained, AtWorkHasDirectory, AtWork,
           HoldersMet, WholeUnderLock
  <2> QED BY <2>1, <2>2 DEF ProcessInv, FilesInv
<1> QED BY <1>1, ProcessInitial, ProcessStepKeeps, PTL DEF ProcessSpec

-----------------------------------------------------------------------------
(* EnvironmentsList *)

EnvironmentsTyped ==
    /\ environments \subseteq EnvPrefixes
    /\ envFile \in Seq(EnvPrefixes)
    /\ envPc \in [Mambas -> {"idle", "registering", "appending", "registered",
                             "unregistering", "listing", "rewriting", "writing"}]
    /\ location \in [Mambas -> EnvPrefixes \cup {NoLocation}]
    /\ linesLeft \in [Mambas -> SUBSET EnvPrefixes]

Registering(e) == \E m \in Mambas : envPc[m] \in {"registering", "appending"} /\ location[m] = e
Owed == environments \ unsure

\* A line that is missing is one that somebody is about to write.
IsListedOrWill ==
    \A e \in Owed :
        \/ e \in ToSet(envFile) \/ Registering(e)
        \/ \E m \in Mambas : envPc[m] = "writing" /\ e \in linesLeft[m]

\* Who is about to empty the file has all lines that are owed.
RewriterHasAll ==
    \A m \in Mambas : envPc[m] = "rewriting" =>
        \A e \in Owed : e \in linesLeft[m] \/ Registering(e)

\* Nothing is owed while two rewrite.
OneRewriter ==
    \A m \in Mambas :
        envPc[m] \in {"rewriting", "writing"} /\ Rewriting(m) # {} => EnvPrefixes \subseteq unsure

\* Who takes a line out owes none for it.
RemovedIsNotOwed ==
    \A m \in Mambas :
        envPc[m] = "unregistering" /\ location[m] \in Owed => Registering(location[m])

\* A process at work on one prefix has one, which a listing has not.
LocationsKnown ==
    \A m \in Mambas :
        /\ envPc[m] \in {"registering", "appending", "registered"} => location[m] \in EnvPrefixes
        /\ envPc[m] = "listing" => location[m] = NoLocation

EnvironmentsInv ==
    /\ EnvironmentsTyped /\ IsListedOrWill /\ RewriterHasAll /\ OneRewriter
    /\ RemovedIsNotOwed /\ LocationsKnown

LEMMA EnvironmentsInitial == EnvironmentsInit => EnvironmentsInv
BY DEF EnvironmentsInit, EnvironmentsInv, EnvironmentsTyped, IsListedOrWill, RewriterHasAll,
   OneRewriter, RemovedIsNotOwed, LocationsKnown, Owed

LEMMA LineAppended ==
    ASSUME NEW e, NEW lines \in Seq(EnvPrefixes), e \in EnvPrefixes
    PROVE  /\ Append(lines, e) \in Seq(EnvPrefixes)
           /\ ToSet(Append(lines, e)) = ToSet(lines) \cup {e}
<1> DEFINE after == Append(lines, e)
<1>1. /\ after \in Seq(EnvPrefixes) /\ Len(after) = Len(lines) + 1 /\ Len(lines) \in Nat
      /\ \A i \in 1..Len(lines) : after[i] = lines[i]
      /\ after[Len(lines) + 1] = e
  OBVIOUS
<1>2. DOMAIN after = 1..(Len(lines) + 1) /\ DOMAIN lines = 1..Len(lines)
  BY <1>1
<1> HIDE DEF after
<1>3. ToSet(after) \subseteq ToSet(lines) \cup {e}
  BY <1>1, <1>2 DEF ToSet
<1>4. ToSet(lines) \cup {e} \subseteq ToSet(after)
  BY <1>1, <1>2 DEF ToSet
<1> QED BY <1>1, <1>3, <1>4 DEF after

LEMMA EnvironmentsStep == EnvironmentsInv /\ [EnvironmentsNext]_envVars => EnvironmentsInv'
<1> SUFFICES ASSUME EnvironmentsInv, [EnvironmentsNext]_envVars PROVE EnvironmentsInv'
  OBVIOUS
<1> USE DEF EnvironmentsInv, EnvironmentsTyped, IsListedOrWill, RewriterHasAll, OneRewriter,
            RemovedIsNotOwed, LocationsKnown, Registering, Owed, Rewriting, TakingOut, EnvTo
<1>0. NoLocation \notin EnvPrefixes
  BY EnvironmentConstants
<1>1. ASSUME NEW m \in Mambas, NEW e \in EnvPrefixes, Create(m, e) PROVE EnvironmentsInv'
  <2>1. /\ envPc[m] = "idle" /\ envPc' = [envPc EXCEPT ![m] = "registering"]
        /\ location' = [location EXCEPT ![m] = e] /\ environments' = environments \cup {e}
        /\ UNCHANGED <<envFile, linesLeft, unsure>>
    BY <1>1 DEF Create, Begin
  <2>2. Registering(e)' /\ Owed' \subseteq Owed \cup {e}
    BY <2>1
  <2>3. \A d \in EnvPrefixes : Registering(d) => Registering(d)'
    BY <2>1
  <2>4. EnvironmentsTyped' /\ LocationsKnown'
    BY <2>1
  <2>5. IsListedOrWill' /\ RewriterHasAll'
    BY <2>1, <2>2, <2>3
  <2>6. RemovedIsNotOwed'
    BY <2>1, <2>2, <2>3
  <2>7. OneRewriter'
    BY <2>1
  <2> QED BY <2>4, <2>5, <2>6, <2>7
<1>2. ASSUME NEW m \in Mambas, NEW e \in EnvPrefixes, RemovePrefix(m, e) PROVE EnvironmentsInv'
  BY <1>2 DEF RemovePrefix, Begin
<1>3. ASSUME NEW m \in Mambas, List(m) PROVE EnvironmentsInv'
  BY <1>0, <1>3 DEF List, Begin
<1>4. ASSUME NEW m \in Mambas, Register(m) PROVE EnvironmentsInv'
  BY <1>4 DEF Register
<1>5. ASSUME NEW m \in Mambas, AppendLine(m) PROVE EnvironmentsInv'
  <2> DEFINE e == location[m]
             met == Rewriting(m) \cup TakingOut(m, e) # {}
  <2>1. /\ envPc[m] = "appending" /\ envPc' = [envPc EXCEPT ![m] = "registered"]
        /\ envFile' = Append(envFile, e)
        /\ unsure' = (IF met THEN unsure \cup {e} ELSE unsure \ {e})
        /\ UNCHANGED <<environments, location, linesLeft>>
    BY <1>5 DEF AppendLine
  <2>2. e \in EnvPrefixes
    BY <2>1
  <2>3. envFile' \in Seq(EnvPrefixes) /\ ToSet(envFile') = ToSet(envFile) \cup {e}
    BY <2>1, <2>2, LineAppended
  <2>4. EnvironmentsTyped' /\ LocationsKnown'
    BY <2>1, <2>3
  <2>5. \A d \in EnvPrefixes \ {e} :
            (d \in Owed' => d \in Owed) /\ (Registering(d) => Registering(d)')
    BY <2>1
  <2>6. IsListedOrWill'
    BY <2>1, <2>2, <2>3, <2>5
  <2>7. CASE met
    <3>1. e \notin Owed'
      BY <2>1, <2>7
    <3>2. RewriterHasAll' /\ OneRewriter' /\ RemovedIsNotOwed'
      BY <2>1, <2>2, <2>5, <2>7, <3>1
    <3> QED BY <2>4, <2>6, <3>2
  <2>8. CASE ~met
    <3>1. \A n \in Mambas : /\ envPc'[n] \notin {"rewriting", "writing"}
                            /\ envPc'[n] = "unregistering" => location[n] # e
      BY <2>1, <2>8
    <3>2. RewriterHasAll' /\ OneRewriter' /\ RemovedIsNotOwed'
      BY <2>1, <2>2, <2>5, <3>1
    <3> QED BY <2>4, <2>6, <3>2
  <2> QED BY <2>7, <2>8
<1>6. ASSUME NEW m \in Mambas, Populate(m) PROVE EnvironmentsInv'
  BY <1>6 DEF Populate
<1>7. ASSUME NEW m \in Mambas, Clean(m) PROVE EnvironmentsInv'
  BY <1>0, <1>7 DEF Clean, IsKept
<1>8. ASSUME NEW m \in Mambas, Truncate(m) PROVE EnvironmentsInv'
  BY <1>8 DEF Truncate
<1>9. ASSUME NEW m \in Mambas, NEW e \in EnvPrefixes, WriteLine(m, e) PROVE EnvironmentsInv'
  BY <1>9, LineAppended DEF WriteLine
<1>10. ASSUME NEW m \in Mambas, Cleaned(m) PROVE EnvironmentsInv'
  BY <1>10 DEF Cleaned
<1>11. ASSUME NEW m \in Mambas, EndOfMamba(m) PROVE EnvironmentsInv'
  BY <1>11 DEF EndOfMamba
<1>12. CASE UNCHANGED envVars
  BY <1>12 DEF envVars
<1> QED
  BY <1>1, <1>2, <1>3, <1>4, <1>5, <1>6, <1>7, <1>8, <1>9, <1>10, <1>11, <1>12
  DEF EnvironmentsNext

\* The list has each environment that was registered, for any environments and
\* processes, but for the lines over which two of them met or one ended
\* (register_env, clean_environments_txt).
THEOREM RegisteredAreListed == EnvironmentsSpec => []EnvironmentsAreListed
<1>1. EnvironmentsInv => EnvironmentsAreListed
  BY DEF EnvironmentsInv, EnvironmentsAreListed, IsListedOrWill, Registering, Owed
<1> QED BY <1>1, EnvironmentsInitial, EnvironmentsStep, PTL DEF EnvironmentsSpec

-----------------------------------------------------------------------------
(* TrashFiles *)

NotForgotten == trash \ forgotten
DeepWillWrite == IF deepPc = "rewriting" THEN deepRemaining ELSE {}

\* Trash that the index does not name will be named by who is at work.
IndexedOrWill ==
    NotForgotten \subseteq trashIndex \cup renamed \cup DeepWillWrite
                          \cup (IF trashPc = "rewriting" THEN remaining ELSE {})

\* What the index is emptied of is in the lists of who empties it.
CleaningSees ==
    trashPc = "cleaning" => NotForgotten \subseteq toClean \cup remaining \cup DeepWillWrite
DeepSees ==
    deepPc = "removing" => NotForgotten \subseteq deepToClean \cup deepRemaining \cup renamed

TrashInv ==
    /\ IndexedOrWill /\ CleaningSees /\ DeepSees
    /\ trashPc # "noting" => renamed = {}

LEMMA TrashInitial == TrashInit => TrashInv
BY DEF TrashInit, TrashInv, IndexedOrWill, CleaningSees, DeepSees, NotForgotten

LEMMA TrashStep == TrashInv /\ [TrashNext]_trashVars => TrashInv'
<1> SUFFICES ASSUME TrashInv, [TrashNext]_trashVars PROVE TrashInv'
  OBVIOUS
<1> USE DEF TrashInv, IndexedOrWill, CleaningSees, DeepSees, NotForgotten, DeepWillWrite,
            filesVars, deepVars, transactionVars
<1>1. ASSUME BeginTransaction \/ DropIndex \/ EndTransaction PROVE TrashInv'
  BY <1>1 DEF BeginTransaction, DropIndex, EndTransaction
<1>2. ASSUME WriteIndex PROVE TrashInv'
  BY <1>2 DEF WriteIndex, WriteOver
<1>3. ASSUME NoteTrash PROVE TrashInv'
  BY <1>3 DEF NoteTrash
<1>4. ASSUME TransactionKilled PROVE TrashInv'
  BY <1>4 DEF TransactionKilled
<1>5. ASSUME NEW f \in PrefixFiles, Unlink(f) PROVE TrashInv'
  BY <1>5 DEF Unlink
<1>6. ASSUME NEW f \in PrefixFiles, UnlinkThrows(f) \/ LinkFile(f) \/ Opens(f) PROVE TrashInv'
  BY <1>6 DEF UnlinkThrows, LinkFile, Opens
<1>7. ASSUME DeepFind \/ DeepDrop PROVE TrashInv'
  BY <1>7 DEF DeepFind, DeepDrop
<1>8. ASSUME DeepWrite PROVE TrashInv'
  BY <1>8 DEF DeepWrite, WriteOver
<1>9. ASSUME DeepKilled PROVE TrashInv'
  BY <1>9 DEF DeepKilled
<1>10. ASSUME NEW t \in FilesOfPrefix, RemoveIndexed(t) PROVE TrashInv'
  BY <1>10 DEF RemoveIndexed, RemoveFile, IsLeft
<1>11. ASSUME NEW t \in FilesOfPrefix, DeepRemove(t) PROVE TrashInv'
  BY <1>11 DEF DeepRemove, RemoveFile
<1>12. ASSUME NEW t \in FilesOfPrefix, Closes(t) PROVE TrashInv'
  BY <1>12 DEF Closes
<1>13. CASE UNCHANGED trashVars
  BY <1>13 DEF trashVars
<1> QED
  BY <1>1, <1>2, <1>3, <1>4, <1>5, <1>6, <1>7, <1>8, <1>9, <1>10, <1>11, <1>12, <1>13
  DEF TrashNext

\* The index names all trash, however often files are renamed and whatever is
\* in use, but for what a killed process or two at once left (remove_or_rename,
\* clean_trash_files).
THEOREM TrashIsKnown == TrashSpec => []TrashIsIndexed
<1>1. TrashInv => TrashIsIndexed
  BY DEF TrashInv, TrashIsIndexed, IndexedOrWill, NotForgotten, DeepWillWrite
<1> QED BY <1>1, TrashInitial, TrashStep, PTL DEF TrashSpec

\* Both lists, whatever commands of several processes wrote to them.
THEOREM SharedFilesKept == EnvironmentsSpec /\ TrashSpec => []SharedFilesAreRight
<1>1. EnvironmentsAreListed /\ TrashIsIndexed => SharedFilesAreRight
  BY DEF SharedFilesAreRight
<1> QED BY <1>1, RegisteredAreListed, TrashIsKnown, PTL

=============================================================================
