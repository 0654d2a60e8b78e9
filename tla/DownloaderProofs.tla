-------------------------- MODULE DownloaderProofs --------------------------
(* The books of Downloader stay right for any number of requests, mirrors,
   steps and retries: types, retry bounds, transfer limit, and the two counts
   the code keeps in unsigned integers. *)
EXTENDS Downloader, FiniteSetTheorems, TLAPS

\* The mirror scanned first is one of those that qualify.
LEMMA FirstChosen ==
  ASSUME NEW S \in SUBSET Mirrors, S # {}
  PROVE  First(S) \in S
BY DownloaderConstants DEF First

\* A selection is a configured mirror or none at all.
LEMMA SelectionTyped ==
  ASSUME NEW r \in Requests, NEW seen, NEW ok, NEW ko
  PROVE  SelectMirror(r, seen, ok, ko) \in Mirrors \cup {None}
<1> DEFINE fresh  == {m \in MirrorsOf[r] : m \notin seen /\ ~BadMirror(m, ok, ko)}
           fewest == {m \in MirrorsOf[r] : /\ ko[m] + 1 < MaxMirrorTries
                                           /\ \A n \in MirrorsOf[r] : ko[m] <= ko[n]}
<1>1. fresh \in SUBSET Mirrors /\ fewest \in SUBSET Mirrors
  BY DownloaderConstants
<1>2. /\ fresh # {} => First(fresh) \in Mirrors
      /\ fewest # {} => First(fewest) \in Mirrors
  BY <1>1, FirstChosen
<1>3. SelectMirror(r, seen, ok, ko) =
        IF fresh # {} THEN First(fresh) ELSE IF fewest # {} THEN First(fewest) ELSE None
  BY DEF SelectMirror
<1> HIDE DEF fresh, fewest
<1> QED BY <1>2, <1>3

\* What holds of one attempt, for a tracker in a given state.
AttemptOK(a, state) ==
    /\ a \in Attempts
    /\ state = "WAITING" => a.mirror \in Mirrors /\ a.state \in {"start", "reqDone", "reqFailed"}
    /\ a.mirror # None =>
         /\ a.step <= Steps[a.mirror] /\ a.retries <= MaxRetries[a.mirror]
         /\ a.state \in {"start", "reqDone"} => a.step < Steps[a.mirror]
         /\ a.state = "reqFailed" => a.retries < MaxRetries[a.mirror]

\* A new attempt on a mirror starts from nothing.
LEMMA NewAttemptOK ==
  ASSUME NEW m \in Mirrors
  PROVE  AttemptOK(NewAttempt(m), "WAITING")
BY DownloaderConstants DEF NewAttempt, AttemptOK, Attempts, AttemptStates

\* The end of a transfer leaves an attempt within its bounds.
LEMMA TransferEnd ==
  ASSUME NEW a \in Attempts, a.mirror \in Mirrors, a.state = "running",
         a.step <= Steps[a.mirror], a.retries <= MaxRetries[a.mirror],
         NEW outcome \in Outcomes
  PROVE  LET b == AfterTransfer(a, outcome)
         IN  /\ b \in Attempts /\ b.mirror = a.mirror
             /\ b.state = "reqFailed" => b.retries < MaxRetries[b.mirror]
             /\ b.state = "reqDone" => b.step < Steps[b.mirror]
             /\ b.step <= Steps[b.mirror] /\ b.retries <= MaxRetries[b.mirror]
             /\ b.state \in IF outcome = "ok" THEN {"seqDone", "reqDone"} ELSE {"reqFailed", "seqFailed"}
<1>1. Steps[a.mirror] \in Nat /\ MaxRetries[a.mirror] \in Nat
  BY DownloaderConstants
<1>2. CASE outcome = "ok"
  BY <1>1, <1>2 DEF AfterTransfer, Attempts, AttemptStates, MayRetry
<1>3. CASE outcome = "badCallback"
  BY <1>1, <1>3 DEF AfterTransfer, Attempts, AttemptStates, MayRetry
<1>4. CASE outcome = "retryable"
  BY <1>1, <1>4 DEF AfterTransfer, Attempts, AttemptStates, MayRetry
<1>5. CASE outcome = "fatal"
  BY <1>1, <1>5 DEF AfterTransfer, Attempts, AttemptStates, MayRetry
<1> QED BY <1>2, <1>3, <1>4, <1>5 DEF Outcomes

\* The end of a transfer leaves its tracker waiting with a usable attempt, or decided.
LEMMA OutcomeOK ==
  ASSUME TypeOK, AttemptInv, StateInv, NEW r \in Requests, tracker[r] = "RUNNING",
         NEW outcome \in Outcomes, NEW ok, NEW ko
  PROVE  LET new == AfterOutcome(r, outcome, ok, ko)
         IN  /\ new.tracker \in {"WAITING", "FINISHED", "FAILED"}
             /\ AttemptOK(new.attempt, new.tracker)
             /\ new.tried \in SUBSET Mirrors
<1> DEFINE a == AfterTransfer(attempt[r], outcome)
           m == SelectMirror(r, tried[r], ok, ko)
<1>1. /\ attempt[r] \in Attempts /\ attempt[r].mirror \in Mirrors /\ attempt[r].mirror # None
      /\ attempt[r].state = "running"
      /\ attempt[r].step <= Steps[attempt[r].mirror]
      /\ attempt[r].retries <= MaxRetries[attempt[r].mirror]
      /\ tried[r] \in SUBSET Mirrors
  BY DownloaderConstants DEF TypeOK, AttemptInv, StateInv
<1>2. /\ a \in Attempts /\ a.mirror = attempt[r].mirror
      /\ a.state = "reqFailed" => a.retries < MaxRetries[a.mirror]
      /\ a.state = "reqDone" => a.step < Steps[a.mirror]
      /\ a.step <= Steps[a.mirror] /\ a.retries <= MaxRetries[a.mirror]
      /\ a.state \in IF outcome = "ok" THEN {"seqDone", "reqDone"} ELSE {"reqFailed", "seqFailed"}
  BY <1>1, TransferEnd
<1>3. m \in Mirrors \cup {None} /\ None \notin Mirrors
  BY SelectionTyped, DownloaderConstants
<1>4. m # None => AttemptOK(NewAttempt(m), "WAITING")
  BY <1>3, NewAttemptOK
<1> HIDE DEF a, m
<1>5. CASE outcome = "ok"
  BY <1>1, <1>2, <1>5 DEF a, AfterOutcome, AttemptOK
<1>6. CASE outcome # "ok"
  <2>1. AfterOutcome(r, outcome, ok, ko) =
          IF a.state # "seqFailed"
          THEN [tracker |-> "WAITING", attempt |-> a, tried |-> tried[r]]
          ELSE IF ~CanTryOtherMirror(r, tried[r]) \/ m = None
          THEN [tracker |-> "FAILED", attempt |-> a, tried |-> tried[r]]
          ELSE [tracker |-> "WAITING", attempt |-> NewAttempt(m), tried |-> tried[r] \cup {m}]
    BY <1>6 DEF AfterOutcome, SetErrorState, a, m
  <2> QED BY <1>1, <1>2, <1>3, <1>4, <1>6, <2>1 DEF AttemptOK
<1> QED BY <1>5, <1>6

\* The start of a transfer takes a step of the sequence, or a retry.
LEMMA StartedOK ==
  ASSUME NEW a \in Attempts, AttemptOK(a, "WAITING")
  PROVE  /\ AttemptOK(Started(a), "RUNNING")
         /\ Started(a).state = "running" /\ Started(a).mirror = a.mirror /\ a.mirror \in Mirrors
<1>1. /\ Steps[a.mirror] \in Nat /\ MaxRetries[a.mirror] \in Nat
      /\ a.mirror # None /\ a.mirror \in Mirrors
  BY DownloaderConstants DEF AttemptOK
<1>2. CASE a.state = "reqFailed"
  <2>1. Started(a) = [a EXCEPT !.state = "running", !.wait = FALSE, !.retries = a.retries + 1]
    BY <1>2 DEF Started
  <2>0. a.step + 1 \in Nat /\ a.retries + 1 \in Nat /\ "running" \in AttemptStates
    BY DEF Attempts, AttemptStates
  <2>2. Started(a) \in Attempts
    BY <2>0, <2>1 DEF Attempts
  <2>3. /\ Started(a).mirror = a.mirror /\ Started(a).state = "running"
        /\ Started(a).step = a.step /\ Started(a).retries = a.retries + 1
    BY <2>1 DEF Attempts
  <2>4. a.step \in Nat /\ a.retries \in Nat
    BY DEF Attempts
  <2> QED BY <1>1, <1>2, <2>2, <2>3, <2>4 DEF AttemptOK
<1>3. CASE a.state # "reqFailed"
  <2>1. Started(a) = [a EXCEPT !.state = "running", !.step = a.step + 1]
    BY <1>3 DEF Started
  <2>0. a.step + 1 \in Nat /\ a.retries + 1 \in Nat /\ "running" \in AttemptStates
    BY DEF Attempts, AttemptStates
  <2>2. Started(a) \in Attempts
    BY <2>0, <2>1 DEF Attempts
  <2>3. /\ Started(a).mirror = a.mirror /\ Started(a).state = "running"
        /\ Started(a).step = a.step + 1 /\ Started(a).retries = a.retries
    BY <2>1 DEF Attempts
  <2>4. a.step \in Nat /\ a.retries \in Nat
    BY DEF Attempts
  <2> QED BY <1>1, <1>3, <2>2, <2>3, <2>4 DEF AttemptOK
<1> QED BY <1>2, <1>3

LEMMA StartOK ==
  ASSUME TypeOK, AttemptInv, StateInv, NEW r \in Requests, tracker[r] = "WAITING"
  PROVE  /\ attempt[r].mirror \in Mirrors
         /\ AttemptOK(Started(attempt[r]), "RUNNING")
         /\ Started(attempt[r]).state = "running"
         /\ Started(attempt[r]).mirror = attempt[r].mirror
<1>1. attempt[r] \in Attempts /\ AttemptOK(attempt[r], "WAITING")
  BY DEF TypeOK, AttemptInv, StateInv, AttemptOK
<1> QED BY <1>1, StartedOK

\* The parts of the invariant that speak of one request at a time.
LocalInv == TypeOK /\ AttemptInv /\ StateInv

\* A step that gives one request an attempt in order keeps all of them in order.
LEMMA LocalUpdate ==
  ASSUME LocalInv, NEW r \in Requests, NEW a, NEW st \in {"WAITING", "RUNNING", "FINISHED", "FAILED"},
         AttemptOK(a, st), st = "RUNNING" => a.state = "running" /\ a.mirror \in Mirrors,
         attempt' = [attempt EXCEPT ![r] = a],
         tracker' = [tracker EXCEPT ![r] = st]
  PROVE  AttemptInv' /\ StateInv' /\ attempt' \in [Requests -> Attempts]
BY DEF LocalInv, TypeOK, AttemptInv, StateInv, AttemptOK

LEMMA LocalStep ==
  ASSUME LocalInv, [Next]_vars, TransfersTracked
  PROVE  LocalInv'
<1> USE DEF LocalInv
<1>1. CASE UNCHANGED vars \/ Over
  BY <1>1 DEF Over, vars, loop, trackers, stats, TypeOK, AttemptInv, StateInv
<1>2. CASE Iterate \/ Prepared \/ Updated \/ Interrupt \/ \E r \in Requests : GeneratorThrows(r)
  BY <1>2 DEF Iterate, Prepared, Updated, Interrupt, GeneratorThrows, trackers, stats,
     TypeOK, AttemptInv, StateInv
<1>3. ASSUME NEW r \in Requests, Start(r) PROVE LocalInv'
  <2>1. tracker[r] = "WAITING"
    BY <1>3 DEF Start, CanStartTransfer
  <2>2. AttemptInv' /\ StateInv' /\ attempt' \in [Requests -> Attempts]
    <3>1. /\ attempt' = [attempt EXCEPT ![r] = Started(attempt[r])]
          /\ tracker' = [tracker EXCEPT ![r] = "RUNNING"]
      BY <1>3 DEF Start
    <3> QED BY <2>1, <3>1, StartOK, LocalUpdate
  <2>3. running' \in [Mirrors -> Int]
    BY <1>3, <2>1, StartOK DEF Start, TypeOK
  <2> QED BY <1>3, <2>2, <2>3 DEF Start, TypeOK
<1>4. ASSUME NEW r \in Requests, NEW outcome \in Outcomes, Complete(r, outcome), tracker[r] = "RUNNING"
      PROVE  LocalInv'
  <2> DEFINE m  == attempt[r].mirror
             ok == Counted(r, succeeded, m, outcome = "ok")
             ko == Counted(r, failed, m, outcome # "ok")
             new == AfterOutcome(r, outcome, ok, ko)
  <2>1. m \in Mirrors
    BY <1>4 DEF AttemptInv
  <2>2. /\ new.tracker \in {"WAITING", "FINISHED", "FAILED"}
        /\ AttemptOK(new.attempt, new.tracker)
        /\ new.tried \in SUBSET Mirrors
    BY <1>4, OutcomeOK
  <2>3. ok \in [Mirrors -> Nat] /\ ko \in [Mirrors -> Nat]
    BY <2>1 DEF Counted, TypeOK
  <2>4. /\ attempt' = [attempt EXCEPT ![r] = new.attempt]
        /\ tracker' = [tracker EXCEPT ![r] = new.tracker]
        /\ tried' = [tried EXCEPT ![r] = new.tried]
        /\ succeeded' = ok /\ failed' = ko
        /\ running' = [running EXCEPT ![m] = @ - 1]
        /\ UNCHANGED interrupted
        /\ \/ phase' = "threw" /\ UNCHANGED <<last, inFlight, waitingCount>>
           \/ /\ last' = [last EXCEPT ![r] = IF outcome \in {"ok", "badCallback"} THEN "success" ELSE "error"]
              /\ inFlight' = inFlight \ {r}
              /\ waitingCount' \in {waitingCount, waitingCount - 1}
              /\ UNCHANGED phase
    BY <1>4 DEF Complete, MirrorUsed
  <2> HIDE DEF m, ok, ko, new
  <2>5. AttemptInv' /\ StateInv' /\ attempt' \in [Requests -> Attempts]
    <3>1. LocalInv /\ new.tracker # "RUNNING"
      BY <2>2
    <3>2. new.tracker \in {"WAITING", "RUNNING", "FINISHED", "FAILED"}
      BY <2>2
    <3> HIDE DEF LocalInv
    <3> QED BY <2>2, <2>4, <3>1, <3>2, LocalUpdate
  <2>6. tracker' \in [Requests -> {"WAITING", "RUNNING", "FINISHED", "FAILED"}]
        /\ tried' \in [Requests -> SUBSET Mirrors]
    BY <2>2, <2>4 DEF TypeOK
  <2>7. running' \in [Mirrors -> Int]
    BY <2>1, <2>4 DEF TypeOK
  <2>8. /\ phase' \in {"top", "prepare", "update", "done", "interrupted", "threw"}
        /\ last' \in [Requests -> {"none", "success", "error"}]
        /\ inFlight' \in SUBSET Requests /\ waitingCount' \in Int
    BY <2>4 DEF TypeOK
  <2> QED BY <2>3, <2>4, <2>5, <2>6, <2>7, <2>8 DEF TypeOK
<1>5. ASSUME NEW r \in Requests, RetryTimeComes(r) PROVE LocalInv'
  <2>1. attempt' = [attempt EXCEPT ![r] = [attempt[r] EXCEPT !.wait = FALSE]]
    BY <1>5 DEF RetryTimeComes
  <2>2. attempt[r] \in Attempts
    BY DEF TypeOK
  <2>3. attempt' \in [Requests -> Attempts]
    BY <2>1, <2>2 DEF TypeOK, Attempts
  <2>4. UNCHANGED <<phase, interrupted, waitingCount, inFlight, tracker, tried, last,
                    running, succeeded, failed>>
    BY <1>5 DEF RetryTimeComes, loop, stats
  <2>5. \A s \in Requests : /\ attempt'[s].mirror = attempt[s].mirror
                           /\ attempt'[s].state = attempt[s].state
                           /\ attempt'[s].step = attempt[s].step
                           /\ attempt'[s].retries = attempt[s].retries
    BY <2>1, <2>2 DEF TypeOK, Attempts
  <2> QED BY <2>3, <2>4, <2>5 DEF TypeOK, AttemptInv, StateInv
<1>6. ASSUME NEW r \in Requests, NEW outcome \in Outcomes, Complete(r, outcome)
      PROVE  tracker[r] = "RUNNING"
  BY <1>6 DEF Complete, TransfersTracked
<1> QED BY <1>1, <1>2, <1>3, <1>4, <1>5, <1>6 DEF Next, LoopStep

\* The books of the whole loop.
Books == TransfersTracked /\ WaitingCountExact /\ MirrorLoadExact

\* Starting one transfer adds it to the books, once.
LEMMA BooksStart ==
  ASSUME LocalInv, Books, NEW r \in Requests, Start(r)
  PROVE  Books'
<1> DEFINE m == attempt[r].mirror
<1>1. /\ tracker[r] = "WAITING" /\ phase = "prepare" /\ m \in Mirrors /\ r \notin inFlight
      /\ tracker' = [tracker EXCEPT ![r] = "RUNNING"]
      /\ attempt' = [attempt EXCEPT ![r] = Started(attempt[r])]
      /\ Started(attempt[r]).mirror = m
      /\ running' = [running EXCEPT ![m] = running[m] + 1]
      /\ inFlight' = inFlight \cup {r}
      /\ UNCHANGED <<phase, waitingCount>>
  BY StartOK DEF LocalInv, Books, TransfersTracked, Start, CanStartTransfer
<1>2. IsFiniteSet(Requests) /\ IsFiniteSet(inFlight) /\ Parallel \in Nat
  BY FS_Subset, DownloaderConstants DEF LocalInv, TypeOK
<1> HIDE DEF m
<1>3. TransfersTracked'
  <2>1. inFlight' = {s \in Requests : tracker'[s] = "RUNNING"}
    BY <1>1 DEF Books, TransfersTracked, LocalInv, TypeOK
  <2>2. Cardinality(inFlight') = Cardinality(inFlight) + 1
    BY <1>1, <1>2, FS_AddElement
  <2>3. Cardinality(inFlight) < Parallel /\ Cardinality(inFlight) \in Nat
    BY <1>2, FS_CardinalityType DEF Start, HasRoom
  <2> QED BY <1>2, <2>1, <2>2, <2>3 DEF TransfersTracked
<1>4. WaitingCountExact'
  <2>1. Decided' = Decided
    BY <1>1 DEF Decided, LocalInv, TypeOK
  <2> QED BY <1>1, <2>1 DEF Books, WaitingCountExact
<1>5. MirrorLoadExact'
  <2> SUFFICES ASSUME NEW n \in Mirrors PROVE running'[n] = Cardinality(RunningOn(n)')
    BY DEF MirrorLoadExact
  <2>1. running[n] = Cardinality(RunningOn(n)) /\ IsFiniteSet(RunningOn(n))
    BY <1>1, <1>2, FS_Subset DEF Books, MirrorLoadExact, RunningOn
  <2>2. CASE n = m
    <3>1. RunningOn(n)' = RunningOn(n) \cup {r} /\ r \notin RunningOn(n)
      BY <1>1, <2>2 DEF RunningOn, LocalInv, TypeOK
    <3>2. Cardinality(RunningOn(n) \cup {r}) = Cardinality(RunningOn(n)) + 1
      BY <2>1, <3>1, FS_AddElement
    <3> QED BY <1>1, <2>1, <2>2, <3>1, <3>2 DEF LocalInv, TypeOK
  <2>3. CASE n # m
    <3>1. RunningOn(n)' = RunningOn(n)
      BY <1>1, <2>3 DEF RunningOn, LocalInv, TypeOK
    <3> QED BY <1>1, <2>1, <2>3, <3>1 DEF LocalInv, TypeOK
  <2> QED BY <2>2, <2>3
<1> QED BY <1>3, <1>4, <1>5 DEF Books

\* The end of one transfer takes it off the books, and off the waiting count
\* only when the request is decided.
LEMMA BooksComplete ==
  ASSUME LocalInv, Books, NEW r \in Requests, NEW outcome \in Outcomes, Complete(r, outcome)
  PROVE  Books'
<1> DEFINE m  == attempt[r].mirror
           ok == Counted(r, succeeded, m, outcome = "ok")
           ko == Counted(r, failed, m, outcome # "ok")
           new == AfterOutcome(r, outcome, ok, ko)
<1>1. /\ tracker[r] = "RUNNING" /\ r \in inFlight /\ phase = "update" /\ m \in Mirrors
  BY DEF LocalInv, AttemptInv, Books, TransfersTracked, Complete
<1>2. new.tracker \in {"WAITING", "FINISHED", "FAILED"}
  BY <1>1, OutcomeOK DEF LocalInv
<1>3. /\ attempt' = [attempt EXCEPT ![r] = new.attempt]
      /\ tracker' = [tracker EXCEPT ![r] = new.tracker]
      /\ running' = [running EXCEPT ![m] = running[m] - 1]
      /\ \/ phase' = "threw"
         \/ /\ inFlight' = inFlight \ {r}
            /\ waitingCount' = IF new.tracker = "WAITING" THEN waitingCount ELSE waitingCount - 1
            /\ UNCHANGED phase
  BY DEF Complete, MirrorUsed, StillWaiting
<1>4. IsFiniteSet(Requests) /\ IsFiniteSet(inFlight) /\ Parallel \in Nat
  BY FS_Subset, DownloaderConstants DEF LocalInv, TypeOK
<1> HIDE DEF m, ok, ko, new
<1>5. CASE phase' = "threw"
  BY <1>5 DEF Books, TransfersTracked, WaitingCountExact, MirrorLoadExact
<1>6. ASSUME phase' # "threw" PROVE Books'
  <2>1. /\ inFlight' = inFlight \ {r}
        /\ waitingCount' = IF new.tracker = "WAITING" THEN waitingCount ELSE waitingCount - 1
    BY <1>3, <1>6
  <2>2. TransfersTracked'
    <3>1. inFlight' = {s \in Requests : tracker'[s] = "RUNNING"}
      BY <1>1, <1>2, <1>3, <2>1 DEF Books, TransfersTracked, LocalInv, TypeOK
    <3>2. Cardinality(inFlight') <= Cardinality(inFlight)
          /\ Cardinality(inFlight') \in Nat /\ Cardinality(inFlight) \in Nat
      BY <1>4, <2>1, FS_Subset, FS_CardinalityType
    <3> QED BY <1>1, <1>4, <3>1, <3>2 DEF Books, TransfersTracked
  <2>3. WaitingCountExact'
    <3>1. waitingCount = Cardinality(Requests \ Decided)
      BY <1>1 DEF Books, WaitingCountExact
    <3>2. CASE new.tracker = "WAITING"
      <4>1. Decided' = Decided
        BY <1>1, <1>3, <3>2 DEF Decided, LocalInv, TypeOK
      <4> QED BY <2>1, <3>1, <3>2, <4>1 DEF WaitingCountExact
    <3>3. CASE new.tracker # "WAITING"
      <4>1. (Requests \ Decided)' = (Requests \ Decided) \ {r} /\ r \in Requests \ Decided
        BY <1>1, <1>2, <1>3, <3>3 DEF Decided, LocalInv, TypeOK
      <4>2. IsFiniteSet(Requests \ Decided)
        BY <1>4, FS_Subset
      <4>3. Cardinality((Requests \ Decided) \ {r}) = Cardinality(Requests \ Decided) - 1
        BY <4>1, <4>2, FS_RemoveElement
      <4> QED BY <2>1, <3>1, <3>3, <4>1, <4>3 DEF WaitingCountExact
    <3> QED BY <3>2, <3>3
  <2>4. MirrorLoadExact'
    <3> SUFFICES ASSUME NEW n \in Mirrors PROVE running'[n] = Cardinality(RunningOn(n)')
      BY DEF MirrorLoadExact
    <3>1. running[n] = Cardinality(RunningOn(n)) /\ IsFiniteSet(RunningOn(n))
      BY <1>1, <1>4, FS_Subset DEF Books, MirrorLoadExact, RunningOn
    <3>2. CASE n = m
      <4>1. RunningOn(n)' = RunningOn(n) \ {r} /\ r \in RunningOn(n)
        BY <1>1, <1>2, <1>3, <3>2 DEF RunningOn, LocalInv, TypeOK, m
      <4>2. Cardinality(RunningOn(n) \ {r}) = Cardinality(RunningOn(n)) - 1
        BY <3>1, <4>1, FS_RemoveElement
      <4> QED BY <1>1, <1>3, <3>1, <3>2, <4>1, <4>2 DEF LocalInv, TypeOK
    <3>3. CASE n # m
      <4>1. RunningOn(n)' = RunningOn(n)
        BY <1>1, <1>2, <1>3, <3>3 DEF RunningOn, LocalInv, TypeOK, m
      <4> QED BY <1>1, <1>3, <3>1, <3>3, <4>1 DEF LocalInv, TypeOK
    <3> QED BY <3>2, <3>3
  <2> QED BY <2>2, <2>3, <2>4 DEF Books
<1> QED BY <1>5, <1>6

\* Every other step leaves the books alone.
LEMMA BooksStep ==
  ASSUME LocalInv, Books, [Next]_vars
  PROVE  Books'
<1> USE DEF Books, TransfersTracked, WaitingCountExact, MirrorLoadExact, RunningOn, Decided
<1>1. CASE UNCHANGED vars \/ Over
  BY <1>1 DEF Over, vars, loop, trackers, stats
<1>2. CASE Iterate \/ Prepared \/ Updated \/ Interrupt \/ \E r \in Requests : GeneratorThrows(r)
  BY <1>2 DEF Iterate, Prepared, Updated, Interrupt, GeneratorThrows, trackers, stats
<1>3. ASSUME NEW r \in Requests, Start(r) PROVE Books'
  BY <1>3, BooksStart
<1>4. ASSUME NEW r \in Requests, NEW outcome \in Outcomes, Complete(r, outcome) PROVE Books'
  BY <1>4, BooksComplete
<1>5. ASSUME NEW r \in Requests, RetryTimeComes(r) PROVE Books'
  <2>1. \A s \in Requests : attempt'[s].mirror = attempt[s].mirror
    BY <1>5 DEF RetryTimeComes, LocalInv, TypeOK, Attempts
  <2>2. \A n \in Mirrors : RunningOn(n)' = RunningOn(n)
    BY <1>5, <2>1 DEF RetryTimeComes
  <2> QED BY <1>5, <2>2 DEF RetryTimeComes, loop, stats
<1> QED BY <1>1, <1>2, <1>3, <1>4, <1>5 DEF Next, LoopStep

LEMMA InitiallyOK == Init => LocalInv /\ Books
<1> SUFFICES ASSUME Init PROVE LocalInv /\ Books
  OBVIOUS
<1> DEFINE chosen == [r \in Requests |-> SelectMirror(r, {}, succeeded, failed)]
<1>1. \A r \in Requests : chosen[r] \in Mirrors \cup {None}
  BY SelectionTyped
<1>2. /\ phase = "top" /\ interrupted = FALSE /\ inFlight = {}
      /\ running = [m \in Mirrors |-> 0]
      /\ succeeded \in [Mirrors -> 0..PastTransfers] /\ failed \in [Mirrors -> 0..PastTransfers]
      /\ attempt = [r \in Requests |-> NewAttempt(chosen[r])]
      /\ tried = [r \in Requests |-> {chosen[r]} \ {None}]
      /\ tracker = [r \in Requests |-> IF chosen[r] = None THEN "FAILED" ELSE "WAITING"]
      /\ last = [r \in Requests |-> IF chosen[r] = None THEN "error" ELSE "none"]
      /\ waitingCount = Cardinality({r \in Requests : chosen[r] # None})
  BY DEF Init
<1>3. IsFiniteSet(Requests) /\ None \notin Mirrors /\ PastTransfers \in Nat /\ Parallel \in Nat
  BY DownloaderConstants
<1> HIDE DEF chosen
<1>4. \A r \in Requests : /\ NewAttempt(chosen[r]) \in Attempts
                          /\ chosen[r] # None => AttemptOK(NewAttempt(chosen[r]), "WAITING")
  BY <1>1, NewAttemptOK DEF NewAttempt, Attempts, AttemptStates
<1>5. waitingCount \in Nat
  <2>1. IsFiniteSet({r \in Requests : chosen[r] # None})
    BY <1>3, FS_Subset
  <2> QED BY <1>2, <2>1, FS_CardinalityType
<1>6. TypeOK
  <2>1. succeeded \in [Mirrors -> Nat] /\ failed \in [Mirrors -> Nat] /\ running \in [Mirrors -> Int]
    BY <1>2, <1>3
  <2>2. tried \in [Requests -> SUBSET Mirrors] /\ attempt \in [Requests -> Attempts]
    BY <1>1, <1>2, <1>3, <1>4
  <2>3. /\ tracker \in [Requests -> {"WAITING", "RUNNING", "FINISHED", "FAILED"}]
        /\ last \in [Requests -> {"none", "success", "error"}]
    BY <1>2
  <2>4. phase \in {"top", "prepare", "update", "done", "interrupted", "threw"}
        /\ interrupted \in BOOLEAN /\ inFlight \in SUBSET Requests
    BY <1>2, Zenon
  <2>5. waitingCount \in Int
    BY <1>5
  <2> QED BY <2>1, <2>2, <2>3, <2>4, <2>5 DEF TypeOK
<1>7. AttemptInv /\ StateInv
  <2> SUFFICES ASSUME NEW r \in Requests
               PROVE  LET a == attempt[r]
                      IN  /\ tracker[r] \in {"WAITING", "RUNNING"} => a.mirror \in Mirrors
                          /\ a.mirror # None =>
                                /\ a.step <= Steps[a.mirror] /\ a.retries <= MaxRetries[a.mirror]
                                /\ a.state \in {"start", "reqDone"} => a.step < Steps[a.mirror]
                                /\ a.state = "reqFailed" => a.retries < MaxRetries[a.mirror]
                          /\ tracker[r] = "WAITING" => a.state \in {"start", "reqDone", "reqFailed"}
                          /\ tracker[r] = "RUNNING" => a.state = "running"
    BY DEF AttemptInv, StateInv
  <2>1. CASE chosen[r] = None
    BY <1>2, <2>1 DEF NewAttempt
  <2>2. CASE chosen[r] # None
    BY <1>2, <1>4, <2>2 DEF AttemptOK
  <2> QED BY <2>1, <2>2
<1>8. TransfersTracked
  BY <1>2, <1>3, FS_EmptySet DEF TransfersTracked
<1>9. WaitingCountExact
  <2>1. Requests \ Decided = {r \in Requests : chosen[r] # None}
    BY <1>2 DEF Decided
  <2> QED BY <1>2, <2>1 DEF WaitingCountExact
<1>10. MirrorLoadExact
  <2>1. \A m \in Mirrors : RunningOn(m) = {}
    BY <1>2 DEF RunningOn
  <2> QED BY <1>2, <2>1, FS_EmptySet DEF MirrorLoadExact
<1> QED BY <1>6, <1>7, <1>8, <1>9, <1>10 DEF LocalInv, Books

\* The inductive invariant: each attempt within its bounds, and the books right.
THEOREM Inductive == Spec => [](LocalInv /\ Books)
<1>1. LocalInv /\ Books /\ [Next]_vars => LocalInv' /\ Books'
  BY LocalStep, BooksStep DEF Books
<1> QED BY <1>1, InitiallyOK, PTL DEF Spec

\* Every variable of the download loop keeps its type.
THEOREM TypeCorrect == Spec => []TypeOK
<1>1. LocalInv => TypeOK
  BY DEF LocalInv
<1> QED BY <1>1, Inductive, PTL

\* m_waiting_count is the number of undecided requests: the loop ends when it
\* should and the unsigned count never wraps.
THEOREM WaitingCountRight == Spec => []WaitingCountExact
<1>1. Books => WaitingCountExact
  BY DEF Books
<1> QED BY <1>1, Inductive, PTL

\* The load the requests share for each mirror is right: it never wraps either.
THEOREM MirrorLoadRight == Spec => []MirrorLoadExact
<1>1. Books => MirrorLoadExact
  BY DEF Books
<1> QED BY <1>1, Inductive, PTL

\* No more than download_threads transfers run, each with its callback.
THEOREM TransferLimit == Spec => []TransfersTracked
<1>1. Books => TransfersTracked
  BY DEF Books
<1> QED BY <1>1, Inductive, PTL

\* No attempt exceeds the steps or the retries of its mirror.
THEOREM RetriesBounded == Spec => []AttemptBounded
<1>1. LocalInv => AttemptBounded
  BY DEF LocalInv, AttemptInv, AttemptBounded
<1> QED BY <1>1, Inductive, PTL

\* A decided request stays decided and is not downloaded again.
THEOREM DecisionsFinal == Spec => DecidedForever
<1> DEFINE A == \A r \in Decided : tracker'[r] = tracker[r] /\ attempt'[r].step = attempt[r].step
<1>1. LocalInv /\ Books /\ [Next]_vars => [A]_vars
  <2> SUFFICES ASSUME LocalInv, Books, Next, NEW d \in Decided
               PROVE  tracker'[d] = tracker[d] /\ attempt'[d].step = attempt[d].step
    OBVIOUS
  <2>1. CASE Iterate \/ Prepared \/ Updated \/ Interrupt \/ Over \/ \E r \in Requests : GeneratorThrows(r)
    BY <2>1 DEF Iterate, Prepared, Updated, Interrupt, GeneratorThrows, Over, vars, trackers, stats
  <2>2. ASSUME NEW r \in Requests, Start(r) PROVE tracker'[d] = tracker[d] /\ attempt'[d].step = attempt[d].step
    BY <2>2 DEF Start, CanStartTransfer, Decided, LocalInv, TypeOK
  <2>3. ASSUME NEW r \in Requests, NEW outcome \in Outcomes, Complete(r, outcome)
        PROVE  tracker'[d] = tracker[d] /\ attempt'[d].step = attempt[d].step
    <3>1. tracker[r] = "RUNNING" /\ d # r
      BY <2>3 DEF Complete, Books, TransfersTracked, Decided
    <3>2. /\ \E st : tracker' = [tracker EXCEPT ![r] = st]
          /\ \E a : attempt' = [attempt EXCEPT ![r] = a]
      BY <2>3 DEF Complete
    <3> QED BY <3>1, <3>2 DEF Decided, LocalInv, TypeOK
  <2>4. ASSUME NEW r \in Requests, RetryTimeComes(r)
        PROVE  tracker'[d] = tracker[d] /\ attempt'[d].step = attempt[d].step
    BY <2>4 DEF RetryTimeComes, Decided, LocalInv, TypeOK, Attempts
  <2> QED BY <2>1, <2>2, <2>3, <2>4 DEF Next, LoopStep
<1> QED BY <1>1, Inductive, PTL DEF Spec, DecidedForever
-----------------------------------------------------------------------------
(* What download() returns *)

\* The saved result of a decided request says how it ended, but for a failure
\* that is ignored; one that never had a mirror has an error from the start.
ResultsRight ==
    /\ phase # "threw" => \A r \in Requests :
         /\ tracker[r] = "FINISHED" => last[r] = "success"
         /\ tracker[r] = "FAILED" => /\ last[r] # "none"
                                     /\ FailFast => r \in IgnoreFailure \/ attempt[r].mirror = None
         /\ attempt[r].mirror = None => tracker[r] = "FAILED" /\ last[r] = "error"
    /\ phase = "done" => waitingCount = 0

\* One transfer ends without an exception: what is saved is right for the tracker.
LEMMA CompleteResult ==
  ASSUME LocalInv, Books, ResultsRight, NEW r \in Requests, NEW o \in Outcomes, Complete(r, o),
         phase' # "threw"
  PROVE  /\ ResultsRight'
         /\ tracker[r] = "RUNNING" /\ tracker'[r] \in {"WAITING", "FINISHED", "FAILED"}
         /\ \A s \in Requests \ {r} : tracker'[s] = tracker[s]
         /\ phase = "update" /\ phase' = "update"
<1> DEFINE m  == attempt[r].mirror
           ok == Counted(r, succeeded, m, o = "ok")
           ko == Counted(r, failed, m, o # "ok")
           new == AfterOutcome(r, o, ok, ko)
           res == IF o \in {"ok", "badCallback"} THEN "success" ELSE "error"
<1>1. tracker[r] = "RUNNING" /\ m \in Mirrors /\ phase = "update"
  BY DEF LocalInv, AttemptInv, Books, TransfersTracked, Complete
<1>2. /\ new.tracker \in {"WAITING", "FINISHED", "FAILED"}
      /\ AttemptOK(new.attempt, new.tracker)
  BY <1>1, OutcomeOK DEF LocalInv
<1>3. /\ attempt' = [attempt EXCEPT ![r] = new.attempt]
      /\ tracker' = [tracker EXCEPT ![r] = new.tracker]
      /\ last' = [last EXCEPT ![r] = res]
      /\ ~MustThrow(r, o, new.tracker)
      /\ UNCHANGED phase
  BY DEF Complete
<1>4. /\ new.tracker = "FINISHED" => o = "ok"
      /\ new.attempt.mirror \in Mirrors
  <2> DEFINE a == AfterTransfer(attempt[r], o)
             n == SelectMirror(r, tried[r], ok, ko)
  <2>1. attempt[r] \in Attempts
    BY DEF LocalInv, TypeOK
  <2>2. a.mirror = m
    BY <2>1 DEF AfterTransfer, Attempts, Outcomes
  <2>3. n \in Mirrors \cup {None}
    BY SelectionTyped
  <2> HIDE DEF a, n, ok, ko, m
  <2>4. new = IF o = "ok"
              THEN [tracker |-> IF a.state = "seqDone" THEN "FINISHED" ELSE "WAITING",
                    attempt |-> a, tried |-> tried[r]]
              ELSE IF a.state # "seqFailed"
              THEN [tracker |-> "WAITING", attempt |-> a, tried |-> tried[r]]
              ELSE IF ~CanTryOtherMirror(r, tried[r]) \/ n = None
              THEN [tracker |-> "FAILED", attempt |-> a, tried |-> tried[r]]
              ELSE [tracker |-> "WAITING", attempt |-> NewAttempt(n), tried |-> tried[r] \cup {n}]
    BY DEF AfterOutcome, SetErrorState, a, n
  <2>5. NewAttempt(n).mirror = n
    BY DEF NewAttempt
  <2> HIDE DEF new
  <2> QED BY <1>1, <2>2, <2>3, <2>4, <2>5
<1> HIDE DEF m, ok, ko, new
<1>5. new.tracker = "FAILED" /\ FailFast => r \in IgnoreFailure
  BY <1>3 DEF MustThrow
<1>7. new.attempt.mirror # None
  BY <1>4, DownloaderConstants
<1>8. ResultsRight'
  <2>1. \A s \in Requests \ {r} : /\ attempt'[s] = attempt[s] /\ tracker'[s] = tracker[s]
                                  /\ last'[s] = last[s]
    BY <1>3 DEF LocalInv, TypeOK
  <2>2. attempt'[r] = new.attempt /\ tracker'[r] = new.tracker /\ last'[r] = res
    BY <1>3 DEF LocalInv, TypeOK
  <2>3. phase' = "update" /\ phase # "threw"
    BY <1>1, <1>3
  <2> QED BY <1>4, <1>5, <1>7, <2>1, <2>2, <2>3 DEF ResultsRight
<1> QED BY <1>1, <1>2, <1>3, <1>8 DEF LocalInv, TypeOK

LEMMA ResultsStep ==
  ASSUME LocalInv, Books, ResultsRight, [Next]_vars
  PROVE  ResultsRight'
<1>1. CASE UNCHANGED vars \/ Over
  BY <1>1 DEF Over, vars, loop, trackers, stats, ResultsRight
<1>2. CASE Iterate \/ Prepared \/ Updated \/ Interrupt \/ \E r \in Requests : GeneratorThrows(r)
  BY <1>2 DEF Iterate, Prepared, Updated, Interrupt, GeneratorThrows, trackers, stats,
     Ended, ResultsRight
<1>3. ASSUME NEW r \in Requests, Start(r) PROVE ResultsRight'
  <2>1. tracker[r] = "WAITING" /\ phase = "prepare"
    BY <1>3 DEF Start, CanStartTransfer
  <2>2. Started(attempt[r]).mirror = attempt[r].mirror /\ attempt[r].mirror \in Mirrors
    BY <2>1, StartOK DEF LocalInv
  <2>3. /\ attempt' = [attempt EXCEPT ![r] = Started(attempt[r])]
        /\ tracker' = [tracker EXCEPT ![r] = "RUNNING"]
        /\ UNCHANGED <<phase, last, waitingCount>>
    BY <1>3 DEF Start
  <2> QED BY <2>1, <2>2, <2>3, DownloaderConstants DEF ResultsRight, LocalInv, TypeOK
<1>4. ASSUME NEW r \in Requests, NEW o \in Outcomes, Complete(r, o) PROVE ResultsRight'
  <2>1. CASE phase' = "threw"
    BY <2>1 DEF ResultsRight
  <2>2. CASE phase' # "threw"
    BY <1>4, <2>2, CompleteResult
  <2> QED BY <2>1, <2>2
<1>5. ASSUME NEW r \in Requests, RetryTimeComes(r) PROVE ResultsRight'
  <2>1. \A s \in Requests : attempt'[s].mirror = attempt[s].mirror
    BY <1>5 DEF RetryTimeComes, LocalInv, TypeOK, Attempts
  <2> QED BY <1>5, <2>1 DEF RetryTimeComes, ResultsRight, loop
<1> QED BY <1>1, <1>2, <1>3, <1>4, <1>5 DEF Next, LoopStep

LEMMA ResultsInit == Init => ResultsRight
<1> SUFFICES ASSUME Init PROVE ResultsRight
  OBVIOUS
<1> DEFINE chosen == [r \in Requests |-> SelectMirror(r, {}, succeeded, failed)]
<1>1. /\ phase = "top"
      /\ attempt = [r \in Requests |-> NewAttempt(chosen[r])]
      /\ tracker = [r \in Requests |-> IF chosen[r] = None THEN "FAILED" ELSE "WAITING"]
      /\ last = [r \in Requests |-> IF chosen[r] = None THEN "error" ELSE "none"]
  BY DEF Init
<1> HIDE DEF chosen
<1> QED BY <1>1 DEF ResultsRight, NewAttempt

\* Nobody is left undecided once the count is zero.
LEMMA ZeroIsDecided ==
  ASSUME LocalInv, Books, phase # "threw", waitingCount = 0
  PROVE  \A r \in Requests : tracker[r] \in {"FINISHED", "FAILED"}
<1>1. Cardinality(Requests \ Decided) = 0
  BY DEF Books, WaitingCountExact
<1>2. IsFiniteSet(Requests \ Decided)
  BY FS_Subset, DownloaderConstants
<1>3. Requests \ Decided = {}
  BY <1>1, <1>2, FS_EmptySet
<1> QED BY <1>3 DEF Decided

THEOREM ResultsInductive == Spec => []ResultsRight
<1>1. LocalInv /\ Books /\ ResultsRight /\ [Next]_vars => ResultsRight'
  BY ResultsStep
<1> QED BY <1>1, ResultsInit, Inductive, PTL DEF Spec

\* A normal return has an honest result for every request.
THEOREM ReturnIsHonest == Spec => []ResultsHonest
<1>1. LocalInv /\ Books /\ ResultsRight => ResultsHonest
  <2> SUFFICES ASSUME LocalInv, Books, ResultsRight, phase = "done", NEW r \in Requests
               PROVE  /\ last[r] # "none"
                      /\ tracker[r] = "FINISHED" => last[r] = "success"
                      /\ tracker[r] = "FAILED" /\ FailFast => r \in IgnoreFailure \/ attempt[r].mirror = None
    BY DEF ResultsHonest
  <2> QED BY ZeroIsDecided DEF ResultsRight
<1> QED BY <1>1, Inductive, ResultsInductive, PTL

-----------------------------------------------------------------------------
(* The refinement *)

LEMMA ContractInit == Init => Contract!Init
<1> SUFFICES ASSUME Init PROVE Contract!Init
  OBVIOUS
<1> DEFINE chosen == [r \in Requests |-> SelectMirror(r, {}, succeeded, failed)]
<1>1. /\ phase = "top"
      /\ tracker = [r \in Requests |-> IF chosen[r] = None THEN "FAILED" ELSE "WAITING"]
  BY DEF Init
<1> HIDE DEF chosen
<1>2. \A r \in Requests : tracker[r] \in {"FAILED", "WAITING"}
  BY <1>1
<1> QED BY <1>1, <1>2 DEF Contract!Init, Contract!Pending

\* What the contract sees of a request, and of the call.
Fate(t) == CASE t = "FINISHED" -> "success" [] t = "FAILED" -> "error" [] OTHER -> "pending"
CallAt(p) == CASE p = "done" -> "returned" [] p \in {"threw", "interrupted"} -> "abandoned" [] OTHER -> "running"

LEMMA ContractStep ==
  ASSUME LocalInv, Books, ResultsRight, [Next]_vars
  PROVE  [Contract!Next]_(Contract!vars)
<1> USE DEF Fate, CallAt
<1>1. ASSUME UNCHANGED <<tracker, last>>, CallAt(phase') = CallAt(phase), phase' = "done" <=> phase = "done"
      PROVE  UNCHANGED Contract!vars
  BY <1>1 DEF Contract!vars
<1>2. CASE UNCHANGED vars \/ Over
  BY <1>2, <1>1 DEF Over, vars, loop, trackers
<1>3. CASE Prepared \/ Updated \/ Interrupt
  BY <1>3, <1>1 DEF Prepared, Updated, Interrupt, trackers
<1>4. ASSUME NEW r \in Requests, RetryTimeComes(r) PROVE UNCHANGED Contract!vars
  BY <1>4, <1>1 DEF RetryTimeComes, loop
<1>5. ASSUME NEW r \in Requests, GeneratorThrows(r) PROVE Contract!GiveUp
  BY <1>5 DEF GeneratorThrows, trackers, Contract!GiveUp
<1>6. ASSUME NEW r \in Requests, Start(r) PROVE UNCHANGED Contract!vars
  <2>1. /\ tracker[r] = "WAITING" /\ phase = "prepare" /\ UNCHANGED phase
        /\ tracker' = [tracker EXCEPT ![r] = "RUNNING"]
    BY <1>6 DEF Start, CanStartTransfer
  <2>2. \A s \in Requests : Fate(tracker'[s]) = Fate(tracker[s])
    BY <2>1 DEF LocalInv, TypeOK
  <2> QED BY <2>1, <2>2 DEF Contract!vars
<1>7. CASE Iterate
  <2>1. phase = "top" /\ UNCHANGED <<tracker, last, attempt>>
    BY <1>7 DEF Iterate, trackers
  <2>2. CASE phase' = "prepare"
    BY <2>1, <2>2, <1>1
  <2>3. CASE phase' = "interrupted"
    BY <2>1, <2>3 DEF Contract!GiveUp, Contract!Next
  <2>4. CASE phase' = "done"
    <3>1. waitingCount = 0 /\ phase' = "done"
      BY <1>7, <2>4 DEF Iterate
    <3>2. \A r \in Requests : tracker[r] \in {"FINISHED", "FAILED"}
      BY <2>1, <3>1, ZeroIsDecided
    <3>3. last \in [Requests -> {"none", "success", "error"}]
      BY DEF LocalInv, TypeOK
    <3>4. \A r \in Requests :
            /\ last[r] \in {"success", "error"}
            /\ r \notin (IF FailFast THEN IgnoreFailure ELSE Requests) => last[r] = Fate(tracker[r])
      BY <2>1, <3>2, <3>3 DEF ResultsRight
    <3> QED BY <2>1, <2>4, <3>2, <3>3, <3>4 DEF Contract!Return, Contract!Next
  <2> QED BY <1>7, <2>2, <2>3, <2>4 DEF Iterate
<1>8. ASSUME NEW r \in Requests, NEW o \in Outcomes, Complete(r, o)
      PROVE  [Contract!Next]_(Contract!vars)
  <2>1. CASE phase' # "threw"
    <3>1. /\ tracker[r] = "RUNNING" /\ tracker'[r] \in {"WAITING", "FINISHED", "FAILED"}
          /\ \A s \in Requests \ {r} : tracker'[s] = tracker[s]
          /\ phase = "update" /\ phase' = "update"
      BY <1>8, <2>1, CompleteResult
    <3>2. CASE tracker'[r] = "WAITING"
      <4>1. \A s \in Requests : Fate(tracker'[s]) = Fate(tracker[s])
        BY <3>1, <3>2
      <4> QED BY <3>1, <4>1 DEF Contract!vars
    <3>3. CASE tracker'[r] # "WAITING"
      <4>1. Contract!Decide(r)
        BY <3>1, <3>3 DEF Contract!Decide
      <4> QED BY <4>1 DEF Contract!Next
    <3> QED BY <3>2, <3>3
  <2>2. CASE phase' = "threw"
    <3>1. tracker[r] = "RUNNING" /\ phase = "update"
      BY <1>8 DEF Books, TransfersTracked, Complete
    <3>2. tracker'[r] = "FAILED" /\ \A s \in Requests \ {r} : tracker'[s] = tracker[s]
      BY <1>8, <2>2, <3>1 DEF Complete, MustThrow, LocalInv, TypeOK
    <3>3. Contract!GiveUp
      BY <2>2, <3>1, <3>2 DEF Contract!GiveUp
    <3> QED BY <3>3 DEF Contract!Next
  <2> QED BY <2>1, <2>2
<1> QED BY <1>2, <1>3, <1>4, <1>5, <1>6, <1>7, <1>8 DEF Next, LoopStep, Contract!Next

\* download() implements its contract: every step of the loop, of a mirror's
\* retry or of a transfer is a step of the contract or none, for any requests,
\* mirrors and options.
THEOREM Refinement == Spec => KeepsContract
<1>1. LocalInv /\ Books /\ ResultsRight /\ [Next]_vars => [Contract!Next]_(Contract!vars)
  BY ContractStep
<1> QED BY <1>1, ContractInit, Inductive, ResultsInductive, PTL DEF Spec, KeepsContract, Contract!Spec
=============================================================================
