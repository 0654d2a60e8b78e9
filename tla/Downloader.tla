----------------------------- MODULE Downloader -----------------------------
(***************************************************************************)
(* The download loop of libmamba (libmamba/src/download/downloader.cpp):    *)
(* one DownloadTracker per request, which runs a MirrorAttempt (a sequence  *)
(* of requests to one mirror) and, when that fails, another one, against    *)
(* mirrors whose statistics all trackers share.  The loop is one thread;    *)
(* what is concurrent is the transfers curl runs, the clock and SIGINT.     *)
(*                                                                          *)
(* A transfer ends in one of four ways (Outcomes): it is complete; it is    *)
(* complete but its on_success callback reports an error; it failed and     *)
(* may be retried after a wait (DownloadAttempt::can_retry); or it failed   *)
(* for good.  Trackers are started in any order; the code scans a vector.   *)
(***************************************************************************)
EXTENDS Integers, FiniteSets

CONSTANTS
    Requests,
    Mirrors,
    MirrorsOf,      \* the mirrors configured for each request's mirror name
    Rank,           \* the position of a mirror in that list
    Steps,          \* number of request generators of a mirror (HTTP 1, OCI 2 or 3)
    MaxRetries,     \* Mirror::max_retries
    MaxMirrorTries, \* remote_fetch_params.max_retries
    Parallel,       \* threads_params.download_threads
    CheckOnly,      \* requests that only ask whether the file exists
    LocalFile,      \* requests for a file:// URL
    IgnoreFailure,  \* requests with ignore_failure
    FailFast,       \* Options::fail_fast
    PastTransfers,  \* bound on what earlier downloads left in a mirror's counters
    None

ASSUME DownloaderConstants ==
    /\ IsFiniteSet(Requests)
    /\ MirrorsOf \in [Requests -> SUBSET Mirrors]
    /\ Rank \in [Mirrors -> Nat]
    /\ \A S \in SUBSET Mirrors : S # {} => \E m \in S : \A n \in S : Rank[m] <= Rank[n]
    /\ Steps \in [Mirrors -> Nat \ {0}]
    /\ MaxRetries \in [Mirrors -> Nat]
    /\ MaxMirrorTries \in Nat /\ Parallel \in Nat \ {0} /\ PastTransfers \in Nat
    /\ CheckOnly \cup LocalFile \cup IgnoreFailure \subseteq Requests
    /\ FailFast \in BOOLEAN
    /\ None \notin Mirrors

VARIABLES
    phase,        \* where download() is
    interrupted,  \* is_sig_interrupted()
    waitingCount, \* m_waiting_count
    inFlight,     \* the keys of m_completion_map
    tracker,      \* DownloadTracker::m_state
    tried,        \* m_tried_mirrors
    attempt,      \* the MirrorAttempt of each tracker
    last,         \* m_attempt_results.back()
    running,      \* m_running_transfers of each mirror
    succeeded,    \* m_successful_transfers
    failed        \* m_failed_transfers

loop == <<phase, interrupted, waitingCount, inFlight>>
trackers == <<tracker, tried, attempt, last>>
stats == <<running, succeeded, failed>>
vars == <<loop, trackers, stats>>

AttemptStates == {"none", "start", "running", "reqDone", "reqFailed", "seqDone", "seqFailed"}
Outcomes == {"ok", "badCallback", "retryable", "fatal"}
Decided == {r \in Requests : tracker[r] \in {"FINISHED", "FAILED"}}
Ended == phase \in {"done", "interrupted", "threw"}

-----------------------------------------------------------------------------
(* Choosing a mirror *)

First(S) == CHOOSE m \in S : \A n \in S : Rank[m] <= Rank[n]

BadMirror(m, ok, ko) == ok[m] = 0 /\ ko[m] >= MaxRetries[m]

\* First a mirror this request has not tried; else, round after round, one
\* that has failed less often than the number of the round, tried or not.
SelectMirror(r, seen, ok, ko) ==
    LET fresh  == {m \in MirrorsOf[r] : m \notin seen /\ ~BadMirror(m, ok, ko)}
        fewest == {m \in MirrorsOf[r] : /\ ko[m] + 1 < MaxMirrorTries
                                        /\ \A n \in MirrorsOf[r] : ko[m] <= ko[n]}
    IN  IF fresh # {} THEN First(fresh)
        ELSE IF fewest # {} THEN First(fewest) ELSE None

NewAttempt(m) ==
    [mirror |-> m, state |-> IF m = None THEN "none" ELSE "start",
     step |-> 0, retries |-> 0, wait |-> FALSE]

CanTryOtherMirror(r, seen) ==
    r \notin LocalFile \cup CheckOnly /\ Cardinality(seen) < MaxMirrorTries

\* DownloadTracker::set_error_state, given the attempt that has just failed.
SetErrorState(r, a, ok, ko) ==
    LET m == SelectMirror(r, tried[r], ok, ko)
    IN  IF a.state # "seqFailed"
        THEN [tracker |-> "WAITING", attempt |-> a, tried |-> tried[r]]
        ELSE IF ~CanTryOtherMirror(r, tried[r]) \/ m = None
        THEN [tracker |-> "FAILED", attempt |-> a, tried |-> tried[r]]
        ELSE [tracker |-> "WAITING", attempt |-> NewAttempt(m), tried |-> tried[r] \cup {m}]

-----------------------------------------------------------------------------
Init ==
    /\ phase = "top"
    /\ interrupted = FALSE
    /\ running = [m \in Mirrors |-> 0]
    /\ succeeded \in [Mirrors -> 0..PastTransfers]
    /\ failed \in [Mirrors -> 0..PastTransfers]
    /\ inFlight = {}
    /\ LET chosen == [r \in Requests |-> SelectMirror(r, {}, succeeded, failed)]
       IN  /\ attempt = [r \in Requests |-> NewAttempt(chosen[r])]
           /\ tried = [r \in Requests |-> {chosen[r]} \ {None}]
           /\ tracker = [r \in Requests |-> IF chosen[r] = None THEN "FAILED" ELSE "WAITING"]
           /\ last = [r \in Requests |-> IF chosen[r] = None THEN "error" ELSE "none"]
           /\ waitingCount = Cardinality({r \in Requests : chosen[r] # None})

\* The top of the loop of Downloader::download.
Iterate ==
    /\ phase = "top"
    /\ phase' = IF waitingCount = 0 THEN "done"
                ELSE IF interrupted THEN "interrupted" ELSE "prepare"
    /\ UNCHANGED <<interrupted, waitingCount, inFlight, trackers, stats>>

AttemptCanStart(a) ==
    \/ a.state \in {"start", "reqDone"}
    \/ a.state = "reqFailed" /\ ~a.wait

CanStartAnyTime(r) ==
    AttemptCanStart(attempt[r]) \/ CanTryOtherMirror(r, tried[r])

CanStartTransfer(r) ==
    /\ tracker[r] = "WAITING"
    /\ AttemptCanStart(attempt[r]) \/ CanTryOtherMirror(r, tried[r])

HasRoomForOneMore == Cardinality(inFlight) <= Parallel
HasRoom == Cardinality(inFlight) < Parallel

\* MirrorAttempt::prepare_request and set_transfer_started.
Started(a) ==
    IF a.state = "reqFailed"
    THEN [a EXCEPT !.state = "running", !.wait = FALSE, !.retries = @ + 1]
    ELSE [a EXCEPT !.state = "running", !.step = @ + 1]

Start(r) ==
    /\ phase = "prepare"
    /\ HasRoom /\ CanStartTransfer(r)
    /\ tracker' = [tracker EXCEPT ![r] = "RUNNING"]
    /\ attempt' = [attempt EXCEPT ![r] = Started(@)]
    /\ running' = [running EXCEPT ![attempt[r].mirror] = @ + 1]
    /\ inFlight' = inFlight \cup {r}
    /\ UNCHANGED <<phase, interrupted, waitingCount, tried, last, succeeded, failed>>

\* A generator of an authenticated mirror throws when its token is missing.
GeneratorThrows(r) ==
    /\ phase = "prepare"
    /\ HasRoom /\ CanStartTransfer(r)
    /\ attempt[r].state # "reqFailed" /\ Steps[attempt[r].mirror] > 1
    /\ phase' = "threw"
    /\ UNCHANGED <<interrupted, waitingCount, inFlight, trackers, stats>>

Prepared ==
    /\ phase = "prepare"
    /\ ~HasRoom \/ \A r \in Requests : ~CanStartTransfer(r)
    /\ phase' = "update"
    /\ UNCHANGED <<interrupted, waitingCount, inFlight, trackers, stats>>

-----------------------------------------------------------------------------
(* The end of a transfer *)

MayRetry(a) == a.retries < MaxRetries[a.mirror]

\* MirrorAttempt::set_state for each way a transfer ends.
AfterTransfer(a, outcome) ==
    LET again == MayRetry(a)
    IN  CASE outcome = "ok" ->
                [a EXCEPT !.state = IF a.step = Steps[a.mirror] THEN "seqDone" ELSE "reqDone"]
          [] outcome = "badCallback" ->
                [a EXCEPT !.state = IF again THEN "reqFailed" ELSE "seqFailed"]
          [] outcome = "retryable" ->
                IF again THEN [a EXCEPT !.state = "reqFailed", !.wait = TRUE]
                         ELSE [a EXCEPT !.state = "seqFailed"]
          [] outcome = "fatal" ->
                [a EXCEPT !.state = "seqFailed"]

\* DownloadTracker::set_state: what the tracker becomes.
AfterOutcome(r, outcome, ok, ko) ==
    LET a == AfterTransfer(attempt[r], outcome)
    IN  IF outcome = "ok"
        THEN [tracker |-> IF a.state = "seqDone" THEN "FINISHED" ELSE "WAITING",
              attempt |-> a, tried |-> tried[r]]
        ELSE SetErrorState(r, a, ok, ko)

NeverThrow(r, outcome, state) == FALSE

\* A failed download throws, a failed callback only with fail_fast.
MustThrow(r, outcome, state) ==
    /\ state = "FAILED" /\ r \notin IgnoreFailure
    /\ outcome = "badCallback" => FailFast

\* A local file is never retried (DownloadAttempt::can_retry).
PossibleOutcomes(r) == IF r \in LocalFile THEN Outcomes \ {"retryable"} ELSE Outcomes

Counted(r, counter, m, yes) == IF yes /\ r \notin CheckOnly THEN [counter EXCEPT ![m] = @ + 1] ELSE counter

\* The mirror whose transfer ended: not the one chosen next.
MirrorChosenNext(r, new) == new.attempt.mirror
MirrorUsed(r, new) == attempt[r].mirror

AlwaysWaiting(state) == TRUE
\* What the completion callback returns: whether the request is to go on.
StillWaiting(state) == state = "WAITING"

\* One message of update_downloads: the completion callback of DownloadTracker.
Complete(r, outcome) ==
    LET m  == attempt[r].mirror
        ok == Counted(r, succeeded, m, outcome = "ok")
        ko == Counted(r, failed, m, outcome # "ok")
        new == AfterOutcome(r, outcome, ok, ko)
        throws == MustThrow(r, outcome, new.tracker)
    IN  /\ phase = "update" /\ r \in inFlight
        /\ outcome \in PossibleOutcomes(r)
        /\ running' = [running EXCEPT ![MirrorUsed(r, new)] = @ - 1]
        /\ succeeded' = ok
        /\ failed' = ko
        /\ tracker' = [tracker EXCEPT ![r] = new.tracker]
        /\ attempt' = [attempt EXCEPT ![r] = new.attempt]
        /\ tried' = [tried EXCEPT ![r] = new.tried]
        /\ IF throws
           THEN phase' = "threw" /\ UNCHANGED <<last, inFlight, waitingCount>>
           ELSE /\ last' = [last EXCEPT ![r] = IF outcome \in {"ok", "badCallback"} THEN "success" ELSE "error"]
                /\ inFlight' = inFlight \ {r}
                /\ waitingCount' = IF StillWaiting(new.tracker) THEN waitingCount ELSE waitingCount - 1
                /\ UNCHANGED phase
        /\ UNCHANGED interrupted

\* No further message: back to the top of the loop.
Updated ==
    /\ phase = "update"
    /\ phase' = "top"
    /\ UNCHANGED <<interrupted, waitingCount, inFlight, trackers, stats>>

-----------------------------------------------------------------------------
(* The environment *)

RetryTimeComes(r) ==
    /\ attempt[r].wait /\ ~Ended
    /\ attempt' = [attempt EXCEPT ![r].wait = FALSE]
    /\ UNCHANGED <<loop, tracker, tried, last, stats>>

Interrupt ==
    /\ ~interrupted /\ ~Ended
    /\ interrupted' = TRUE
    /\ UNCHANGED <<phase, waitingCount, inFlight, trackers, stats>>

\* download() returned or threw.
Over == Ended /\ UNCHANGED vars

LoopStep == Iterate \/ Prepared \/ Updated \/ \E r \in Requests : Start(r)

Next ==
    \/ LoopStep
    \/ \E r \in Requests : GeneratorThrows(r)
    \/ \E r \in Requests, outcome \in Outcomes : Complete(r, outcome)
    \/ \E r \in Requests : RetryTimeComes(r)
    \/ Interrupt
    \/ Over

\* The loop keeps running, curl ends every transfer (it has time-outs and a
\* minimum speed), and time passes.
Fairness ==
    /\ WF_vars(LoopStep)
    /\ \A r \in Requests : /\ SF_vars(\E outcome \in Outcomes : Complete(r, outcome))
                           /\ WF_vars(RetryTimeComes(r))

Spec == Init /\ [][Next]_vars
FairSpec == Spec /\ Fairness

-----------------------------------------------------------------------------
Attempts == [mirror : Mirrors \cup {None}, state : AttemptStates, step : Nat,
             retries : Nat, wait : BOOLEAN]

TypeOK ==
    /\ phase \in {"top", "prepare", "update", "done", "interrupted", "threw"}
    /\ interrupted \in BOOLEAN
    /\ waitingCount \in Int
    /\ inFlight \in SUBSET Requests
    /\ tracker \in [Requests -> {"WAITING", "RUNNING", "FINISHED", "FAILED"}]
    /\ tried \in [Requests -> SUBSET Mirrors]
    /\ attempt \in [Requests -> Attempts]
    /\ last \in [Requests -> {"none", "success", "error"}]
    /\ running \in [Mirrors -> Int]
    /\ succeeded \in [Mirrors -> Nat]
    /\ failed \in [Mirrors -> Nat]

RunningOn(m) == {r \in Requests : tracker[r] = "RUNNING" /\ attempt[r].mirror = m}

\* m_waiting_count, which ends the loop and is unsigned, is exactly the number
\* of requests with no final state: decremented once for each, never for a
\* request that waits for a retry (downloader.cpp:1018-1029, 1099-1104).
WaitingCountExact == phase # "threw" => waitingCount = Cardinality(Requests \ Decided)

\* The unsigned count of transfers of a mirror that all requests share is
\* exactly the number of requests running on it, through retries and changes
\* of mirror (downloader.cpp:669-673, mirror.cpp:127-157).
MirrorLoadExact == phase # "threw" => \A m \in Mirrors : running[m] = Cardinality(RunningOn(m))

\* At most download_threads transfers run, and curl has a callback for each
\* (downloader.cpp:1047-1069).
TransfersTracked ==
    phase # "threw" => /\ inFlight = {r \in Requests : tracker[r] = "RUNNING"}
                       /\ Cardinality(inFlight) <= Parallel

\* A mirror is never asked for more requests than it generates, nor retried
\* more than its max_retries (downloader.cpp:615-629, 675-716).
AttemptBounded ==
    \A r \in Requests : attempt[r].mirror # None =>
        /\ attempt[r].step <= Steps[attempt[r].mirror]
        /\ attempt[r].retries <= MaxRetries[attempt[r].mirror]

\* With fail_fast, download() returns normally only with a result for every
\* request, and an error only for one whose failure is ignored or that never
\* had a mirror; a success is the outcome of a complete sequence of requests.
ResultsHonest ==
    phase = "done" => \A r \in Requests :
        /\ last[r] # "none"
        /\ tracker[r] = "FINISHED" => last[r] = "success"
        /\ tracker[r] = "FAILED" /\ FailFast => r \in IgnoreFailure \/ attempt[r].mirror = None

\* A request that is refused for good does not go back to work, and one that
\* finished is not downloaded again.
DecidedForever == [][\A r \in Decided : tracker'[r] = tracker[r] /\ attempt'[r].step = attempt[r].step]_vars

\* Whatever fails, retries and switches of mirror come to an end.
DownloadEnds == <>Ended

\* "Retry HTTP request on 413 & 429, respect Retry-After header"
\* (libmamba/CHANGELOG.md:1002): no transfer starts before its wait is over.
RetryAfterRespected ==
    [][\A r \in Requests : attempt[r].wait /\ phase = "prepare" => tracker'[r] # "RUNNING"]_vars

(* The inductive invariant behind the safety properties. *)

AttemptInv ==
    \A r \in Requests :
        LET a == attempt[r]
        IN  /\ tracker[r] \in {"WAITING", "RUNNING"} => a.mirror \in Mirrors
            /\ a.mirror # None =>
                  /\ a.step <= Steps[a.mirror] /\ a.retries <= MaxRetries[a.mirror]
                  /\ a.state \in {"start", "reqDone"} => a.step < Steps[a.mirror]
                  /\ a.state = "reqFailed" => a.retries < MaxRetries[a.mirror]

\* Only the states from which can_start_transfer may let an attempt go.
StateInv ==
    \A r \in Requests :
        /\ tracker[r] = "WAITING" => attempt[r].state \in {"start", "reqDone", "reqFailed"}
        /\ tracker[r] = "RUNNING" => attempt[r].state = "running"

IInv == TypeOK /\ AttemptInv /\ StateInv /\ TransfersTracked /\ WaitingCountExact /\ MirrorLoadExact

\* download() implements DownloadContract: in particular the results it returns
\* are the fates of the requests, each decided once, where a failure that is not
\* ignored throws.
Contract == INSTANCE DownloadContract WITH
    Lenient <- IF FailFast THEN IgnoreFailure ELSE Requests,
    outcome <- [r \in Requests |-> CASE tracker[r] = "FINISHED" -> "success"
                                     [] tracker[r] = "FAILED" -> "error"
                                     [] OTHER -> "pending"],
    call <- CASE phase = "done" -> "returned"
              [] phase \in {"threw", "interrupted"} -> "abandoned"
              [] OTHER -> "running",
    result <- [r \in Requests |-> IF phase = "done" THEN last[r] ELSE "pending"]

KeepsContract == Contract!Spec
=============================================================================
