---------------------------- MODULE LockFileProofs ----------------------------
(* What LockFile guarantees for any number of processes and threads: no record
   lock is ever left behind; and, with one locking thread per process and no
   timeout, a lock that is believed is real, and excludes as long as the lock
   file was there from the start. *)
EXTENDS LockFile, TLAPS

Making == {"checked", "opened", "waiting", "granted"}

\* The registry's mutex: whoever makes an owner has it, and meanwhile there is none.
MutexInv ==
    /\ \A t \in Threads : pc[t] \in Making => registry[ProcessOf[t]] = t
    /\ \A p \in Processes : registry[p] # None => shared[p].refs = {}

\* The references the registry counts are those of holding threads of its process.
RefsInv ==
    \A p \in Processes : \A t \in shared[p].refs : ProcessOf[t] = p /\ pc[t] = "holding"

\* A record lock is backed by a descriptor of its process.
BackedInv ==
    \A i \in Inodes, p \in Processes :
        lockOf[i] = p => \/ shared[p].ino = i
                         \/ \E t \in Threads : ProcessOf[t] = p /\ fd[t] = i

\* The owner when thread t lets go of it and others do not.
Without(o, t) ==
    [ino |-> o.ino, existed |-> o.existed, refs |-> o.refs \ {t}, pending |-> o.pending]

Owners == [ino : Inodes \cup {None}, existed : BOOLEAN,
           refs : SUBSET Threads, pending : BOOLEAN]

LEMMA WithoutIsExcept ==
  ASSUME NEW o \in Owners, NEW t
  PROVE  [o EXCEPT !.refs = @ \ {t}] = Without(o, t)
BY DEF Owners, Without

LastDrop(t) ==
    /\ shared[ProcessOf[t]].refs = {t}
    /\ shared' = [shared EXCEPT ![ProcessOf[t]] = NoOwner]
    /\ fd' = [fd EXCEPT ![t] = shared[ProcessOf[t]].ino]
    /\ existed' = [existed EXCEPT ![t] = shared[ProcessOf[t]].existed]
    /\ pc' = [pc EXCEPT ![t] = "closing"]

OtherDrop(t) ==
    /\ shared[ProcessOf[t]].refs # {t}
    /\ shared' = [shared EXCEPT ![ProcessOf[t]] = Without(shared[ProcessOf[t]], t)]
    /\ pc' = [pc EXCEPT ![t] = "idle"]
    /\ UNCHANGED <<fd, existed>>

\* A drop is the last one or not, and leaves the rest alone.
LEMMA DropEffect ==
  ASSUME TypeOK, NEW t \in Threads, Drop(t)
  PROVE  /\ pc[t] = "holding" /\ fd[t] = None /\ ProcessOf[t] \in Processes
         /\ UNCHANGED <<registry, file, lockOf>>
         /\ LastDrop(t) \/ OtherDrop(t)
<1> DEFINE p == ProcessOf[t]
<1>1. p \in Processes
  BY LockFileConstants
<1>2. pc[t] = "holding" /\ UNCHANGED <<registry, file, lockOf>>
  BY DEF Drop
<1>3. fd[t] = None
  BY <1>2 DEF TypeOK
<1>4. CASE shared[p].refs = {t}
  BY <1>1, <1>2, <1>3, <1>4 DEF Drop, LastDrop, Goto
<1>5. CASE shared[p].refs # {t}
  <2>1. [shared[p] EXCEPT !.refs = @ \ {t}] = Without(shared[p], t)
    <3>1. shared[p] \in Owners
      BY <1>1 DEF TypeOK, Owners
    <3> QED BY <3>1, WithoutIsExcept
  <2>2. shared' = [shared EXCEPT ![p] = [shared[p] EXCEPT !.refs = @ \ {t}]]
    BY <1>5 DEF Drop
  <2>3. /\ pc' = [pc EXCEPT ![t] = "idle"]
        /\ UNCHANGED <<fd, existed>>
    BY <1>5 DEF Drop, Goto
  <2> QED BY <1>1, <1>2, <1>3, <1>5, <2>1, <2>2, <2>3 DEF OtherDrop
<1> QED BY <1>1, <1>2, <1>3, <1>4, <1>5

\* Type correctness of the lock, whatever the threads, processes and timeouts.
THEOREM TypeCorrect == Spec => []TypeOK
<1>1. Init => TypeOK
  BY LockFileConstants DEF Init, TypeOK, PC, NoOwner
<1>2. TypeOK /\ [Next]_vars => TypeOK'
  <2> SUFFICES ASSUME TypeOK, [Next]_vars PROVE TypeOK'
    OBVIOUS
  <2> USE LockFileConstants DEF TypeOK, PC, Goto
  <2>1. ASSUME NEW t \in Threads, Share(t) PROVE TypeOK'
    BY <2>1 DEF Share
  <2>2. ASSUME NEW t \in Threads, Check(t) PROVE TypeOK'
    BY <2>2 DEF Check
  <2>3. ASSUME NEW t \in Threads, Open(t) PROVE TypeOK'
    BY <2>3 DEF Open
  <2>4. ASSUME NEW t \in Threads, OpenFails(t) PROVE TypeOK'
    BY <2>4 DEF OpenFails
  <2>5. ASSUME NEW t \in Threads, TryLock(t) PROVE TypeOK'
    <3>1. CASE Grantable(ProcessOf[t], fd[t])
      <4>1. lockOf' = [lockOf EXCEPT ![fd[t]] = ProcessOf[t]] /\ pc' = [pc EXCEPT ![t] = "granted"]
        BY <2>5, <3>1 DEF TryLock
      <4>2. pc[t] = "opened" /\ UNCHANGED <<fd, existed, shared, registry, file>>
        BY <2>5 DEF TryLock
      <4> QED BY <4>1, <4>2
    <3>2. CASE ~Grantable(ProcessOf[t], fd[t])
      BY <2>5, <3>2 DEF TryLock, LockBlocking
    <3> QED BY <3>1, <3>2
  <2>6. ASSUME NEW t \in Threads, Grant(t) PROVE TypeOK'
    BY <2>6 DEF Grant
  <2>7. ASSUME NEW t \in Threads, NEW b \in BOOLEAN, Publish(t, b),
               pc[t] \in {"waiting", "granted"}
        PROVE  TypeOK'
    BY <2>7 DEF Publish, NoDescriptor
  <2>8. ASSUME NEW t \in Threads, TimesOut(t) PROVE TypeOK'
    BY <2>8 DEF TimesOut
  <2>9. ASSUME NEW p \in Processes, LateGrant(p) PROVE TypeOK'
    BY <2>9 DEF LateGrant
  <2>10. ASSUME NEW t \in Threads, Drop(t) PROVE TypeOK'
    <3>1. /\ pc[t] = "holding" /\ fd[t] = None /\ ProcessOf[t] \in Processes
          /\ UNCHANGED <<registry, file, lockOf>>
          /\ LastDrop(t) \/ OtherDrop(t)
      BY <2>10, DropEffect
    <3>2. CASE LastDrop(t)
      BY <3>1, <3>2 DEF LastDrop, NoOwner
    <3>3. CASE OtherDrop(t)
      BY <3>1, <3>3 DEF OtherDrop, Without
    <3> QED BY <3>1, <3>2, <3>3
  <2>11. ASSUME NEW t \in Threads, CloseFd(t) PROVE TypeOK'
    BY <2>11 DEF CloseFd, AfterClose, NoDescriptor
  <2>12. ASSUME NEW t \in Threads, RemoveFile(t) PROVE TypeOK'
    BY <2>12 DEF RemoveFile
  <2>13. ASSUME NEW p \in Processes, Crash(p) PROVE TypeOK'
    BY <2>13 DEF Crash, NoOwner
  <2>14. CASE UNCHANGED vars
    BY <2>14 DEF vars
  <2> QED
    BY <2>1, <2>2, <2>3, <2>4, <2>5, <2>6, <2>7, <2>8, <2>9, <2>10, <2>11, <2>12, <2>13, <2>14
       DEF Next, Acquire, WokenForNothing
<1> QED BY <1>1, <1>2, PTL DEF Spec

\* The mutex and the references stay what the registry takes them for.
LEMMA RegistryStep ==
  ASSUME TypeOK, MutexInv, RefsInv, [Next]_vars
  PROVE  MutexInv' /\ RefsInv'
<1> USE LockFileConstants DEF TypeOK, MutexInv, RefsInv, Making, Goto
<1>1. ASSUME NEW t \in Threads, Share(t) PROVE MutexInv' /\ RefsInv'
  BY <1>1 DEF Share
<1>2. ASSUME NEW t \in Threads, Check(t) PROVE MutexInv' /\ RefsInv'
  BY <1>2 DEF Check
<1>3. ASSUME NEW t \in Threads, Open(t) \/ OpenFails(t) \/ TryLock(t) \/ Grant(t) \/ TimesOut(t)
      PROVE  MutexInv' /\ RefsInv'
  BY <1>3 DEF Open, OpenFails, TryLock, Grant, TimesOut, LockBlocking
<1>4. ASSUME NEW t \in Threads, NEW b \in BOOLEAN, Publish(t, b),
             pc[t] \in {"waiting", "granted"}
      PROVE  MutexInv' /\ RefsInv'
  BY <1>4 DEF Publish
<1>5. ASSUME NEW t \in Threads, Drop(t) PROVE MutexInv' /\ RefsInv'
  <2>1. /\ pc[t] = "holding" /\ fd[t] = None /\ ProcessOf[t] \in Processes
        /\ UNCHANGED <<registry, file, lockOf>>
        /\ LastDrop(t) \/ OtherDrop(t)
    BY <1>5, DropEffect
  <2>2. CASE LastDrop(t)
    BY <2>1, <2>2 DEF LastDrop, NoOwner
  <2>3. CASE OtherDrop(t)
    BY <2>1, <2>3 DEF OtherDrop, Without
  <2> QED BY <2>1, <2>2, <2>3
<1>6. ASSUME NEW t \in Threads, CloseFd(t) \/ RemoveFile(t) PROVE MutexInv' /\ RefsInv'
  BY <1>6 DEF CloseFd, RemoveFile
<1>7. ASSUME NEW p \in Processes, LateGrant(p) PROVE MutexInv' /\ RefsInv'
  BY <1>7 DEF LateGrant
<1>8. ASSUME NEW p \in Processes, Crash(p) PROVE MutexInv' /\ RefsInv'
  BY <1>8 DEF Crash, NoOwner
<1>9. CASE UNCHANGED vars
  BY <1>9 DEF vars
<1> QED BY <1>1, <1>2, <1>3, <1>4, <1>5, <1>6, <1>7, <1>8, <1>9
           DEF Next, Acquire, WokenForNothing

LEMMA RegistryRight == Spec => [](TypeOK /\ MutexInv /\ RefsInv)
<1>1. Init => MutexInv /\ RefsInv
  BY LockFileConstants DEF Init, MutexInv, RefsInv, Making, NoOwner
<1> QED BY <1>1, RegistryStep, TypeCorrect, PTL DEF Spec

LEMMA BackedStep ==
  ASSUME TypeOK, MutexInv, RefsInv, BackedInv, [Next]_vars
  PROVE  BackedInv'
<1> USE LockFileConstants DEF TypeOK, BackedInv, Goto
<1>1. ASSUME NEW t \in Threads,
             Share(t) \/ Check(t) \/ OpenFails(t) \/ TimesOut(t) \/ RemoveFile(t)
      PROVE  BackedInv'
  <2>1. /\ UNCHANGED <<fd, lockOf>>
        /\ \A p \in Processes : shared'[p].ino = shared[p].ino
    BY <1>1 DEF Share, Check, OpenFails, TimesOut, RemoveFile
  <2> QED BY <2>1
<1>2. ASSUME NEW t \in Threads, Open(t) PROVE BackedInv'
  BY <1>2 DEF Open
<1>3. ASSUME NEW t \in Threads, TryLock(t) \/ Grant(t) PROVE BackedInv'
  BY <1>3 DEF TryLock, Grant, Grantable
<1>4. ASSUME NEW t \in Threads, NEW b \in BOOLEAN, Publish(t, b),
             pc[t] \in {"waiting", "granted"}
      PROVE  BackedInv'
  BY <1>4 DEF Publish, NoDescriptor, MutexInv, Making
<1>5. ASSUME NEW t \in Threads, Drop(t) PROVE BackedInv'
  <2>1. /\ pc[t] = "holding" /\ fd[t] = None /\ ProcessOf[t] \in Processes
        /\ UNCHANGED <<registry, file, lockOf>>
        /\ LastDrop(t) \/ OtherDrop(t)
    BY <1>5, DropEffect
  <2>2. CASE LastDrop(t)
    BY <2>1, <2>2 DEF LastDrop, NoOwner, RefsInv
  <2>3. CASE OtherDrop(t)
    BY <2>1, <2>3 DEF OtherDrop, Without, RefsInv
  <2> QED BY <2>1, <2>2, <2>3
<1>6. ASSUME NEW t \in Threads, CloseFd(t) PROVE BackedInv'
  BY <1>6 DEF CloseFd, AfterClose, NoDescriptor
<1>7. ASSUME NEW p \in Processes, LateGrant(p) PROVE BackedInv'
  BY <1>7 DEF LateGrant, Grantable
<1>8. ASSUME NEW p \in Processes, Crash(p) PROVE BackedInv'
  BY <1>8 DEF Crash, NoOwner
<1>9. CASE UNCHANGED vars
  BY <1>9 DEF vars
<1> QED BY <1>1, <1>2, <1>3, <1>4, <1>5, <1>6, <1>7, <1>8, <1>9
           DEF Next, Acquire, WokenForNothing

\* No way of ending a lock or an attempt (release, failure, timeout, crash)
\* leaves a record lock behind.
THEOREM LocksGoWithDescriptors == Spec => []NoStrayLock
<1>1. Init => BackedInv
  BY LockFileConstants DEF Init, BackedInv
<1>2. TypeOK /\ BackedInv => NoStrayLock
  BY LockFileConstants DEF TypeOK, BackedInv, NoStrayLock, Locked
<1> QED BY <1>1, <1>2, BackedStep, RegistryRight, PTL DEF Spec

-----------------------------------------------------------------------------
OneThreadEach == \A t, u \in Threads : ProcessOf[t] = ProcessOf[u] => t = u

RealInv ==
    /\ \A t \in Threads : pc[t] = "granted" => lockOf[fd[t]] = ProcessOf[t]
    /\ LockIsReal

LEMMA RealStep ==
  ASSUME ~Timed, OneThreadEach, TypeOK, MutexInv, RefsInv, RealInv, [Next]_vars
  PROVE  RealInv'
<1> USE LockFileConstants DEF TypeOK, RealInv, LockIsReal, Locked, Goto
<1>1. ASSUME NEW t \in Threads,
             Share(t) \/ Check(t) \/ OpenFails(t) \/ RemoveFile(t)
      PROVE  RealInv'
  <2>1. CASE Share(t)
    BY <2>1 DEF Share
  <2>2. CASE Check(t)
    BY <2>2 DEF Check
  <2>3. CASE OpenFails(t)
    BY <2>3 DEF OpenFails
  <2>4. CASE RemoveFile(t)
    BY <2>4 DEF RemoveFile
  <2> QED BY <1>1, <2>1, <2>2, <2>3, <2>4
<1>2. ASSUME NEW t \in Threads, Open(t) PROVE RealInv'
  BY <1>2 DEF Open
<1>3. ASSUME NEW t \in Threads, TryLock(t) \/ Grant(t) PROVE RealInv'
  BY <1>3 DEF TryLock, Grant, Grantable, LockBlocking
<1>4. ASSUME NEW t \in Threads, Acquire(t) PROVE RealInv'
  BY <1>4 DEF Acquire, Publish, NoDescriptor
<1>5. ASSUME NEW t \in Threads, Drop(t) PROVE RealInv'
  <2>1. /\ pc[t] = "holding" /\ fd[t] = None /\ ProcessOf[t] \in Processes
        /\ UNCHANGED <<registry, file, lockOf>>
        /\ LastDrop(t) \/ OtherDrop(t)
    BY <1>5, DropEffect
  <2>2. CASE LastDrop(t)
    BY <2>1, <2>2 DEF LastDrop, NoOwner
  <2>3. CASE OtherDrop(t)
    BY <2>1, <2>3 DEF OtherDrop, Without
  <2> QED BY <2>1, <2>2, <2>3
<1>6. ASSUME NEW t \in Threads, CloseFd(t) PROVE RealInv'
  <2>1. ~Locked(ProcessOf[t])
    BY <1>6, OneThreadEach DEF CloseFd, RefsInv, OneThreadEach
  <2>2. \A u \in Threads : pc[u] = "granted" => ProcessOf[u] # ProcessOf[t]
    BY <1>6 DEF CloseFd, OneThreadEach
  <2> QED BY <1>6, <2>1, <2>2 DEF CloseFd, AfterClose, NoDescriptor
<1>7. ASSUME NEW p \in Processes, LateGrant(p) PROVE RealInv'
  BY <1>7 DEF LateGrant, Grantable
<1>8. ASSUME NEW p \in Processes, Crash(p) PROVE RealInv'
  BY <1>8 DEF Crash, NoOwner
<1>9. CASE UNCHANGED vars
  BY <1>9 DEF vars
<1> QED BY <1>1, <1>2, <1>3, <1>4, <1>5, <1>6, <1>7, <1>8, <1>9
           DEF Next, TimesOut, WokenForNothing

\* With one locking thread per process and no timeout (the default), a process
\* that believes it has the lock has it on the file it opened.
THEOREM BelievedLockIsReal ==
  ASSUME ~Timed, OneThreadEach
  PROVE  Spec => []LockIsReal
<1>1. Init => RealInv
  BY LockFileConstants DEF Init, RealInv, LockIsReal, Locked, NoOwner
<1>2. RealInv => LockIsReal
  BY DEF RealInv
<1>3. TypeOK /\ MutexInv /\ RefsInv /\ RealInv /\ [Next]_vars => RealInv'
  BY RealStep
<1> QED BY <1>1, <1>2, <1>3, RegistryRight, PTL DEF Spec

\* The file found at the start keeps its name, and everybody uses it.
KeptInv ==
    /\ file # None
    /\ \A t \in Threads : fd[t] \in {None, file}
    /\ \A t \in Threads : pc[t] \notin {"idle", "holding"} => existed[t]
    /\ \A p \in Processes : Locked(p) => shared[p].existed /\ shared[p].ino = file

LEMMA KeptStep ==
  ASSUME TypeOK, RefsInv, KeptInv, [Next]_vars
  PROVE  KeptInv'
<1> USE LockFileConstants DEF TypeOK, KeptInv, Locked, Goto
<1>1. ASSUME NEW t \in Threads, Share(t) PROVE KeptInv'
  BY <1>1 DEF Share
<1>2. ASSUME NEW t \in Threads, Check(t) PROVE KeptInv'
  BY <1>2 DEF Check
<1>3. ASSUME NEW t \in Threads, Open(t) PROVE KeptInv'
  BY <1>3 DEF Open
<1>4. ASSUME NEW t \in Threads, OpenFails(t) \/ TryLock(t) \/ Grant(t) \/ TimesOut(t)
      PROVE  KeptInv'
  <2>1. UNCHANGED <<fd, existed, shared, file>>
    BY <1>4 DEF OpenFails, TryLock, Grant, TimesOut
  <2>2. \A u \in Threads : pc'[u] \notin {"idle", "holding"} => pc[u] \notin {"idle", "holding"}
    BY <1>4 DEF OpenFails, TryLock, Grant, TimesOut, LockBlocking
  <2> QED BY <2>1, <2>2
<1>5. ASSUME NEW t \in Threads, NEW b \in BOOLEAN, Publish(t, b),
             pc[t] \in {"waiting", "granted"}
      PROVE  KeptInv'
  BY <1>5 DEF Publish, NoDescriptor
<1>6. ASSUME NEW t \in Threads, Drop(t) PROVE KeptInv'
  <2>1. /\ pc[t] = "holding" /\ fd[t] = None /\ ProcessOf[t] \in Processes
        /\ UNCHANGED <<registry, file, lockOf>>
        /\ LastDrop(t) \/ OtherDrop(t)
    BY <1>6, DropEffect
  <2>2. CASE LastDrop(t)
    <3>1. Locked(ProcessOf[t]) /\ shared[ProcessOf[t]].ino = file
          /\ shared[ProcessOf[t]].existed
      BY <2>1, <2>2 DEF LastDrop
    <3>2. \A u \in Threads : fd'[u] \in {None, file}
      BY <2>1, <2>2, <3>1 DEF LastDrop
    <3>3. \A u \in Threads : pc'[u] \notin {"idle", "holding"} => existed'[u]
      BY <2>1, <2>2, <3>1 DEF LastDrop
    <3>4. \A q \in Processes : Locked(q)' => shared'[q].existed /\ shared'[q].ino = file
      BY <2>1, <2>2 DEF LastDrop, NoOwner
    <3> QED BY <2>1, <3>2, <3>3, <3>4
  <2>3. CASE OtherDrop(t)
    BY <2>1, <2>3 DEF OtherDrop, Without
  <2> QED BY <2>1, <2>2, <2>3
<1>7. ASSUME NEW t \in Threads, CloseFd(t) PROVE KeptInv'
  BY <1>7 DEF CloseFd, NoDescriptor
<1>8. ASSUME NEW t \in Threads, RemoveFile(t) PROVE KeptInv'
  BY <1>8 DEF RemoveFile, KeepsFile
<1>9. ASSUME NEW p \in Processes, LateGrant(p) PROVE KeptInv'
  BY <1>9 DEF LateGrant
<1>10. ASSUME NEW p \in Processes, Crash(p) PROVE KeptInv'
  BY <1>10 DEF Crash, NoOwner
<1>11. CASE UNCHANGED vars
  BY <1>11 DEF vars
<1> QED BY <1>1, <1>2, <1>3, <1>4, <1>5, <1>6, <1>7, <1>8, <1>9, <1>10, <1>11
           DEF Next, Acquire, WokenForNothing

LEMMA FileKept ==
  ASSUME FileAtStart
  PROVE  Spec => []KeptInv
<1>1. Init => KeptInv
  BY LockFileConstants DEF Init, KeptInv, Locked, NoOwner
<1> QED BY <1>1, KeptStep, RegistryRight, PTL DEF Spec

\* A lock file that is there from the start is never replaced under its holder.
THEOREM FoundFileIsKept ==
  ASSUME FileAtStart
  PROVE  Spec => []FoundFileStays
<1>1. KeptInv => FoundFileStays
  BY DEF KeptInv, FoundFileStays
<1> QED BY <1>1, FileKept, PTL

\* Mutual exclusion, where it holds: the lock file is there from the start,
\* each process locks from one thread, and no lock times out.
THEOREM LockExcludes ==
  ASSUME ~Timed, OneThreadEach, FileAtStart
  PROVE  Spec => []Exclusion
<1>1. KeptInv /\ LockIsReal => Exclusion
  BY DEF KeptInv, LockIsReal, Exclusion
<1> QED BY <1>1, FileKept, BelievedLockIsReal, PTL
=============================================================================
