------------------------------- MODULE LockFile -------------------------------
(***************************************************************************)
(* The inter-process lock of libmamba (LockFile, LockFileOwner and          *)
(* LockedFilesRegistry in libmamba/src/core/util.cpp), for one path that    *)
(* the threads of several processes lock, on POSIX.                         *)
(*                                                                          *)
(* The operating system's part is modelled as fcntl(2) defines it: a record *)
(* lock belongs to a process and an inode, and closing any descriptor of    *)
(* the inode drops every lock the process has on it.  A name can be removed *)
(* while its inode is open, and another file created under that name.       *)
(***************************************************************************)
EXTENDS Naturals, FiniteSets

CONSTANTS
    Threads,
    Processes,
    ProcessOf,      \* the process of each thread
    Inodes,         \* inode numbers, reused once nothing refers to the inode
    FileAtStart,    \* a lock file was left behind by an earlier run
    Timed,          \* lock_timeout is not zero
    OpenMayFail,    \* the lock file may be one this user cannot open
    None

ASSUME LockFileConstants ==
    /\ ProcessOf \in [Threads -> Processes]
    /\ FileAtStart \in BOOLEAN /\ Timed \in BOOLEAN /\ OpenMayFail \in BOOLEAN
    /\ None \notin Inodes \cup Processes \cup Threads

VARIABLES
    pc,         \* where each thread is
    fd,         \* the inode behind m_fd of the owner a thread makes or destroys
    existed,    \* m_lockfile_existed of that owner
    shared,     \* the owner the registry knows: its inode, m_lockfile_existed,
                \* the threads that refer to it, an fcntl of it still pending
    registry,   \* the thread of each process that has the registry's mutex
    file,       \* the inode under the name of the lock file
    lockOf      \* the process that has the record lock on each inode

vars == <<pc, fd, existed, shared, registry, file, lockOf>>

NoOwner == [ino |-> None, existed |-> FALSE, refs |-> {}, pending |-> FALSE]

PC == {"idle", "checked", "opened", "waiting", "granted", "holding", "closing", "removing"}

Init ==
    /\ pc = [t \in Threads |-> "idle"]
    /\ fd = [t \in Threads |-> None]
    /\ existed = [t \in Threads |-> FALSE]
    /\ shared = [p \in Processes |-> NoOwner]
    /\ registry = [p \in Processes |-> None]
    /\ IF FileAtStart THEN file \in Inodes ELSE file = None
    /\ lockOf = [i \in Inodes |-> None]

Goto(t, place) == pc' = [pc EXCEPT ![t] = place]

-----------------------------------------------------------------------------
(* LockedFilesRegistry::acquire_lock *)

\* An owner of this process is alive: the new LockFile shares it.
Share(t) ==
    LET p == ProcessOf[t] IN
    /\ pc[t] = "idle" /\ registry[p] = None /\ shared[p].refs # {}
    /\ shared' = [shared EXCEPT ![p].refs = @ \cup {t}]
    /\ Goto(t, "holding")
    /\ UNCHANGED <<fd, existed, registry, file, lockOf>>

\* None is: LockFileOwner's constructor looks for the lock file, with the mutex.
Check(t) ==
    LET p == ProcessOf[t] IN
    /\ pc[t] = "idle" /\ registry[p] = None /\ shared[p].refs = {}
    /\ registry' = [registry EXCEPT ![p] = t]
    /\ existed' = [existed EXCEPT ![t] = file # None]
    /\ Goto(t, "checked")
    /\ UNCHANGED <<fd, shared, file, lockOf>>

Unreferenced(i) ==
    i # file /\ (\A t \in Threads : fd[t] # i) /\ (\A p \in Processes : shared[p].ino # i)

\* open(O_RDWR | O_CREAT) opens the file under the name now, or makes one.
Open(t) ==
    /\ pc[t] = "checked"
    /\ \E i \in Inodes :
         /\ IF file = None THEN Unreferenced(i) ELSE i = file
         /\ file' = i
         /\ fd' = [fd EXCEPT ![t] = i]
    /\ Goto(t, "opened")
    /\ UNCHANGED <<existed, shared, registry, lockOf>>

\* open() fails: throw_lock_error unlocks, there is no descriptor to close.
OpenFails(t) ==
    /\ OpenMayFail /\ pc[t] = "checked"
    /\ Goto(t, "removing")
    /\ UNCHANGED <<fd, existed, shared, registry, file, lockOf>>

\* fcntl never blocks a process on a lock of its own.
Grantable(p, i) == lockOf[i] \in {None, p}

\* Where a thread goes whose first, non-blocking fcntl is refused.
GoOnUnlocked == "granted"
LockBlocking == "waiting"

TryLock(t) ==
    LET p == ProcessOf[t] IN
    /\ pc[t] = "opened"
    /\ IF Grantable(p, fd[t])
       THEN lockOf' = [lockOf EXCEPT ![fd[t]] = p] /\ Goto(t, "granted")
       ELSE UNCHANGED lockOf /\ Goto(t, LockBlocking)
    /\ UNCHANGED <<fd, existed, shared, registry, file>>

\* F_SETLKW returns.
Grant(t) ==
    LET p == ProcessOf[t] IN
    /\ pc[t] = "waiting" /\ Grantable(p, fd[t])
    /\ lockOf' = [lockOf EXCEPT ![fd[t]] = p]
    /\ Goto(t, "granted")
    /\ UNCHANGED <<fd, existed, shared, registry, file>>

\* m_fd = -1, or the owner and its descriptor are the registry's now.
NoDescriptor(t) == [fd EXCEPT ![t] = None]

\* The owner is made, known to the registry and returned.
Publish(t, pending) ==
    LET p == ProcessOf[t] IN
    /\ shared' = [shared EXCEPT ![p] = [ino |-> fd[t], existed |-> existed[t],
                                       refs |-> {t}, pending |-> pending]]
    /\ fd' = NoDescriptor(t)
    /\ registry' = [registry EXCEPT ![p] = None]
    /\ Goto(t, "holding")
    /\ UNCHANGED <<existed, file, lockOf>>

Acquire(t) == pc[t] = "granted" /\ Publish(t, FALSE)

\* timedout_set_fd_lock: the wait ends by the clock, even when the lock was
\* granted (cv.notify_one came before cv.wait_for); throw_lock_error unlocks.
TimesOut(t) ==
    /\ Timed /\ pc[t] \in {"waiting", "granted"}
    /\ Goto(t, "closing")
    /\ UNCHANGED <<fd, existed, shared, registry, file, lockOf>>

\* cv.wait_for has no predicate: woken for no reason it returns an
\* uninitialised ret, which the constructor may take for a lock (or not: then
\* it goes as in TimesOut).  The thread that waits in fcntl is still there.
WokenForNothing(t) ==
    /\ Timed /\ pc[t] = "waiting"
    /\ Publish(t, TRUE)

LateGrant(p) ==
    /\ shared[p].pending /\ Grantable(p, shared[p].ino)
    /\ lockOf' = [lockOf EXCEPT ![shared[p].ino] = p]
    /\ shared' = [shared EXCEPT ![p].pending = FALSE]
    /\ UNCHANGED <<pc, fd, existed, registry, file>>

-----------------------------------------------------------------------------
(* ~LockFile, ~LockFileOwner, and the end of a failed constructor *)

\* The last reference takes the owner with it, without the registry's mutex.
Drop(t) ==
    LET p == ProcessOf[t]
        o == shared[p]
    IN  /\ pc[t] = "holding"
        /\ IF o.refs = {t}
           THEN /\ shared' = [shared EXCEPT ![p] = NoOwner]
                /\ fd' = [fd EXCEPT ![t] = o.ino]
                /\ existed' = [existed EXCEPT ![t] = o.existed]
                /\ Goto(t, "closing")
           ELSE /\ shared' = [shared EXCEPT ![p].refs = @ \ {t}]
                /\ Goto(t, "idle")
                /\ UNCHANGED <<fd, existed>>
        /\ UNCHANGED <<registry, file, lockOf>>

\* The locks left on inode i once a descriptor of p on it is closed.
AfterClose(p, i) == [lockOf EXCEPT ![i] = IF @ = p THEN None ELSE @]

\* As CloseFd, but m_fd is only forgotten.
CloseFdLeaks(t) ==
    /\ pc[t] = "closing"
    /\ fd' = NoDescriptor(t)
    /\ Goto(t, "removing")
    /\ UNCHANGED <<existed, shared, registry, file, lockOf>>

CloseFd(t) ==
    /\ pc[t] = "closing"
    /\ lockOf' = AfterClose(ProcessOf[t], fd[t])
    /\ fd' = NoDescriptor(t)
    /\ Goto(t, "removing")
    /\ UNCHANGED <<existed, shared, registry, file>>

NeverKeepsFile(t) == FALSE
KeepsFile(t) == existed[t]

\* remove_lockfile removes whatever has the name now.  A constructor that
\* failed leaves acquire_lock, and with it the mutex.
RemoveFile(t) ==
    LET p == ProcessOf[t] IN
    /\ pc[t] = "removing"
    /\ file' = IF KeepsFile(t) THEN file ELSE None
    /\ registry' = [registry EXCEPT ![p] = IF @ = t THEN None ELSE @]
    /\ existed' = [existed EXCEPT ![t] = FALSE]
    /\ Goto(t, "idle")
    /\ UNCHANGED <<fd, shared, lockOf>>

-----------------------------------------------------------------------------
(* The process is killed: the system closes its descriptors, the file stays. *)
Crash(p) ==
    LET mine == {t \in Threads : ProcessOf[t] = p} IN
    /\ \E t \in mine : pc[t] # "idle"
    /\ pc' = [t \in Threads |-> IF t \in mine THEN "idle" ELSE pc[t]]
    /\ fd' = [t \in Threads |-> IF t \in mine THEN None ELSE fd[t]]
    /\ existed' = [t \in Threads |-> IF t \in mine THEN FALSE ELSE existed[t]]
    /\ shared' = [shared EXCEPT ![p] = NoOwner]
    /\ registry' = [registry EXCEPT ![p] = None]
    /\ lockOf' = [i \in Inodes |-> IF lockOf[i] = p THEN None ELSE lockOf[i]]
    /\ UNCHANGED file

Proceed(t) ==
    Open(t) \/ TryLock(t) \/ Acquire(t) \/ Drop(t) \/ CloseFd(t) \/ RemoveFile(t)

Next ==
    \/ \E t \in Threads :
         \/ Share(t) \/ Check(t)
         \/ Open(t) \/ OpenFails(t) \/ TryLock(t) \/ Grant(t) \/ Acquire(t)
         \/ TimesOut(t) \/ WokenForNothing(t)
         \/ Drop(t) \/ CloseFd(t) \/ RemoveFile(t)
    \/ \E p \in Processes : LateGrant(p) \/ Crash(p)

Spec == Init /\ [][Next]_vars

\* A thread in the middle of a call goes on, a holder lets go, and the kernel
\* grants a lock to a waiter that could have it again and again.
FairSpec ==
    /\ Spec
    /\ \A t \in Threads : WF_vars(Proceed(t)) /\ SF_vars(Grant(t))

-----------------------------------------------------------------------------
TypeOK ==
    /\ pc \in [Threads -> PC]
    /\ fd \in [Threads -> Inodes \cup {None}]
    /\ existed \in [Threads -> BOOLEAN]
    /\ shared \in [Processes -> [ino : Inodes \cup {None}, existed : BOOLEAN,
                                 refs : SUBSET Threads, pending : BOOLEAN]]
    /\ registry \in [Processes -> Threads \cup {None}]
    /\ file \in Inodes \cup {None}
    /\ lockOf \in [Inodes -> Processes \cup {None}]
    /\ \A t \in Threads :
         fd[t] # None <=> pc[t] \in {"opened", "waiting", "granted", "closing"}
    /\ \A p \in Processes : shared[p].ino # None <=> shared[p].refs # {}

Locked(p) == shared[p].refs # {}

\* A process that believes it has the path locked has the record lock on the
\* file it opened, so two of them are never locked through the same file.
LockIsReal == \A p \in Processes : Locked(p) => lockOf[shared[p].ino] = p

\* Two processes never have the path locked at the same time.
Exclusion == \A p, q \in Processes : Locked(p) /\ Locked(q) => p = q

\* Whatever the way a lock or an attempt ends, a process that has no
\* descriptor left has no record lock left: nobody waits for it for nothing.
NoStrayLock ==
    \A p \in Processes :
        /\ ~Locked(p)
        /\ \A t \in Threads : ProcessOf[t] = p => fd[t] = None
        => \A i \in Inodes : lockOf[i] # p

\* A lock file found in place is still there when its finder has it locked,
\* and is the one it has locked: nobody has removed it or made another.
FoundFileStays ==
    \A p \in Processes : Locked(p) /\ shared[p].existed => shared[p].ino = file

\* An attempt to lock does not wait for ever, as long as holders let go.
AttemptEnds == \A t \in Threads : pc[t] = "checked" ~> pc[t] \in {"holding", "idle"}
=============================================================================
