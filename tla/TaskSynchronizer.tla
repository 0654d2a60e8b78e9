--------------------------- MODULE TaskSynchronizer ---------------------------
(***************************************************************************)
(* mamba's TaskSynchronizer (include/mamba/core/tasksync.hpp): callables    *)
(* wrapped by synchronized() are called by other threads while the owner of *)
(* the synchronizer joins, resets and at last destroys it.  A wrapped       *)
(* callable finds out whether the object is there by locking a weak_ptr to  *)
(* its Status; the owner waits until no body runs and the Status is gone.   *)
(***************************************************************************)
EXTENDS Naturals, FiniteSets

CONSTANTS
    Callables,  \* the wrapped callables, each called by one thread at a time
    MaxEpoch    \* bound on the calls of reset()

ASSUME TaskSynchronizerConstants == IsFiniteSet(Callables) /\ MaxEpoch \in Nat

VARIABLES
    place,      \* where the call of each task is
    remote,     \* the Status its remote_status refers to, by number
    owner,      \* where the owner is
    epoch,      \* the number of the Status that is, or was last, m_status
    requested,  \* its join_requested
    kept,       \* m_status still refers to it
    running,    \* m_running_tasks
    mutex       \* whether the owner has m_mutex; tasks take it only for a moment

syncVars == <<place, remote, owner, epoch, requested, kept, running, mutex>>

PC == {"out", "locked", "dropping", "entering", "body", "resetting", "ending", "notifying"}
OwnerPC == {"using", "requesting", "checking", "waiting", "woken", "joined", "destroyed"}

SyncInit ==
    /\ place = [t \in Callables |-> "out"]
    /\ remote = [t \in Callables |-> 0]
    /\ owner = "using"
    /\ epoch = 0 /\ requested = FALSE /\ kept = TRUE
    /\ running = 0
    /\ mutex = FALSE

Move(t, from, to) == place[t] = from /\ place' = [place EXCEPT ![t] = to]

\* The tasks that have a strong reference to the Status.
Holders == {t \in Callables : place[t] \in {"locked", "dropping", "entering", "body", "resetting"}}
Expired == ~kept /\ Holders = {}

-----------------------------------------------------------------------------
(* A call of a wrapped callable *)

\* While its owner uses it, another callable replaces an old one.
Wrap(t) ==
    /\ place[t] = "out" /\ owner = "using" /\ remote[t] # epoch
    /\ remote' = [remote EXCEPT ![t] = epoch]
    /\ UNCHANGED <<place, owner, epoch, requested, kept, running, mutex>>

\* remote_status.lock(); with no Status left the call does nothing.
Lock(t) ==
    /\ Move(t, "out", "locked")
    /\ remote[t] = epoch /\ ~Expired
    /\ UNCHANGED <<remote, owner, epoch, requested, kept, running, mutex>>

\* A call that comes too late leaves: its status goes at the end of the block.
CheckJoin(t) ==
    /\ IF requested THEN Move(t, "locked", "dropping") ELSE Move(t, "locked", "entering")
    /\ UNCHANGED <<remote, owner, epoch, requested, kept, running, mutex>>

Drop(t) ==
    /\ Move(t, "dropping", "out")
    /\ UNCHANGED <<remote, owner, epoch, requested, kept, running, mutex>>

Counted == running + 1

NotifyBegin(t) ==
    /\ Move(t, "entering", "body")
    /\ running' = Counted
    /\ UNCHANGED <<remote, owner, epoch, requested, kept, mutex>>

\* The body returns or throws: the scope guard runs either way.
EndBody(t) ==
    /\ Move(t, "body", "resetting")
    /\ UNCHANGED <<remote, owner, epoch, requested, kept, running, mutex>>

ResetStatus(t) ==
    /\ Move(t, "resetting", "ending")
    /\ UNCHANGED <<remote, owner, epoch, requested, kept, running, mutex>>

\* notify_end_execution, first with the mutex and then without.
NotifyEnd(t) ==
    /\ Move(t, "ending", "notifying")
    /\ ~mutex
    /\ running' = running - 1
    /\ UNCHANGED <<remote, owner, epoch, requested, kept, mutex>>

Notify(t) ==
    /\ Move(t, "notifying", "out")
    /\ owner' = IF owner = "waiting" THEN "woken" ELSE owner
    /\ UNCHANGED <<remote, epoch, requested, kept, running, mutex>>

-----------------------------------------------------------------------------
(* join_tasks, reset and the destructor; a second join finds no m_status *)

Join ==
    /\ owner = "using"
    /\ mutex' = TRUE
    /\ owner' = "requesting"
    /\ UNCHANGED <<place, remote, epoch, requested, kept, running>>

RequestJoin ==
    /\ owner = "requesting" /\ ~requested
    /\ requested' = TRUE
    /\ UNCHANGED <<place, remote, owner, epoch, kept, running, mutex>>

DropStatus ==
    /\ owner = "requesting" /\ requested
    /\ kept' = FALSE
    /\ owner' = "checking"
    /\ UNCHANGED <<place, remote, epoch, requested, running, mutex>>

NoneRunning == running = 0
AllDone == running = 0 /\ Expired

MutexKept == TRUE
MutexReleased == FALSE

\* The predicate of the wait, with the mutex, which waiting gives up.
CheckDone ==
    /\ owner = "checking"
    /\ owner' = IF AllDone THEN "joined" ELSE "waiting"
    /\ mutex' = MutexReleased
    /\ UNCHANGED <<place, remote, epoch, requested, kept, running>>

Relock ==
    /\ owner = "woken"
    /\ mutex' = TRUE
    /\ owner' = "checking"
    /\ UNCHANGED <<place, remote, epoch, requested, kept, running>>

\* Condition variables may wake for no reason; nothing makes them.
WakeSpuriously ==
    /\ owner = "waiting"
    /\ owner' = "woken"
    /\ UNCHANGED <<place, remote, epoch, requested, kept, running, mutex>>

Reset ==
    /\ owner = "joined" /\ epoch < MaxEpoch
    /\ epoch' = epoch + 1
    /\ requested' = FALSE /\ kept' = TRUE
    /\ owner' = "using"
    /\ UNCHANGED <<place, remote, running, mutex>>

Destroy ==
    /\ owner = "joined"
    /\ owner' = "destroyed"
    /\ UNCHANGED <<place, remote, epoch, requested, kept, running, mutex>>

TaskStep(t) ==
    \/ CheckJoin(t) \/ Drop(t) \/ NotifyBegin(t) \/ EndBody(t)
    \/ ResetStatus(t) \/ NotifyEnd(t) \/ Notify(t)

OwnerStep == RequestJoin \/ DropStatus \/ CheckDone \/ Relock

SyncNext ==
    \/ \E t \in Callables :
         \/ Wrap(t) \/ Lock(t)
         \/ CheckJoin(t) \/ Drop(t) \/ NotifyBegin(t) \/ EndBody(t)
         \/ ResetStatus(t) \/ NotifyEnd(t) \/ Notify(t)
    \/ Join \/ RequestJoin \/ DropStatus \/ CheckDone \/ Relock
    \/ WakeSpuriously \/ Reset \/ Destroy

SyncSpec == SyncInit /\ [][SyncNext]_syncVars

\* Calls that have begun go on, and so does a join; the mutex is given to a
\* task that finds it free again and again.
SyncFairSpec ==
    /\ SyncSpec
    /\ \A t \in Callables : WF_syncVars(TaskStep(t)) /\ SF_syncVars(NotifyEnd(t))
    /\ WF_syncVars(OwnerStep)

-----------------------------------------------------------------------------
SyncTypeOK ==
    /\ place \in [Callables -> PC]
    /\ remote \in [Callables -> 0..MaxEpoch]
    /\ owner \in OwnerPC
    /\ epoch \in 0..MaxEpoch
    /\ requested \in BOOLEAN /\ kept \in BOOLEAN /\ mutex \in BOOLEAN
    /\ running \in Nat

Executing == {t \in Callables : place[t] \in {"body", "resetting", "ending"}}

\* The count of running tasks is exact, and never goes below zero.
RunningCountExact == running = Cardinality(Executing)

\* No body begins, runs or is still being accounted for once a join has
\* returned: the callable never executes outside the object's lifetime.
NoBodyAfterJoin ==
    owner \in {"joined", "destroyed"} =>
        \A t \in Callables : place[t] \notin {"entering", "body", "resetting", "ending"}

\* A callable wrapped before a reset does not run after it.
BodiesAreCurrent ==
    \A t \in Callables : place[t] \in {"entering", "body", "resetting", "ending"} => remote[t] = epoch

\* Bodies run in the lifetime that their callable was wrapped in.
BodiesAreRight == NoBodyAfterJoin /\ BodiesAreCurrent

\* A thread that has run a body does not use the synchronizer, its mutex or
\* its condition variable, once it is destroyed.
AliveWhenUsed ==
    owner = "destroyed" => \A t \in Callables : place[t] \notin {"ending", "notifying"}

\* A join comes back once the bodies have ended.
JoinReturns == owner = "requesting" ~> owner = "joined"

\* A call comes back, a join that waits does not keep it from ending.
CallsReturn == \A t \in Callables : place[t] = "locked" ~> place[t] = "out"
=============================================================================
