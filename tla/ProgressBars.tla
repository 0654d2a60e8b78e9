----------------------------- MODULE ProgressBars -----------------------------
(***************************************************************************)
(* progress_bar_impl.cpp and output.cpp: a thread draws the bars of the     *)
(* manager that the console has, from watch_print to terminate, and prints  *)
(* what the console and the logger keep in their buffers meanwhile.  The    *)
(* program thread watches for each set of downloads and may get another     *)
(* manager in between; any thread may give a message at any time.  What the *)
(* bars look like is left out.                                              *)
(***************************************************************************)
EXTENDS Integers, FiniteSets

CONSTANTS MaxManagers,     \* bound: managers made
          MaxWatches,      \* bound: calls of watch_print
          MaxMessages      \* bound: messages given

ASSUME BarsConstants == MaxManagers \in Nat /\ MaxWatches \in Nat /\ MaxMessages \in Nat

VARIABLES manager,         \* the manager that the console has
          chrono,          \* its m_state
          marked,          \* its m_marked_to_terminate
          watchStarted,    \* its m_watch_print_started
          useBuffer,       \* MessageLoggerData::use_buffer
          programPc,       \* where the program thread is
          watches,         \* calls of watch_print so far
          renderers,       \* the run() of each of them
          unpushed,        \* messages for the log on their way to its buffer
          buffers,         \* the messages each sink keeps
          given,           \* messages given so far
          shown,           \* how often each of them was printed
          midPass,         \* history: pushed while a pass prints, or no watch goes on
          overlooked       \* history: some thread is not known to be drawing

handshakeVars == <<manager, chrono, marked, watchStarted, programPc, watches>>
messageVars == <<useBuffer, unpushed, buffers, given, shown, midPass>>
barsVars == <<handshakeVars, messageVars, renderers, overlooked>>

Watches == 1..MaxWatches
Messages == 1..MaxMessages
Sinks == {"console", "log"}
NotScheduled == [of |-> 0, pc |-> "none", sink |-> "console", sees |-> {}]

ProgramAt(p, q) == programPc = p /\ programPc' = q
\* A thread whose manager is no more has nothing to stand on.
RendererAt(r, p) == renderers[r].pc = p /\ renderers[r].of = manager
RendererTo(r, p) == renderers' = [renderers EXCEPT ![r].pc = p]
Drawing == {r \in Watches : renderers[r].pc \notin {"none", "last", "done"}}

-----------------------------------------------------------------------------
(* Messages *)

\* Console::print asks the manager, ~MessageLogger the flag.
Buffered(s) == IF s = "console" THEN chrono = "started" ELSE useBuffer

\* A pass that has read the buffer of s and has not come to its end.
PassUnderWay(s) ==
    \E r \in Drawing : \/ renderers[r].pc \in {"checking"}
                       \/ renderers[r].pc \in {"reading", "clear"} /\ renderers[r].sink = s
                       \/ renderers[r].pc \in {"read", "reading", "clear"}
                             /\ s = "console" /\ renderers[r].sink = "log"
\* push_back while print_buffer goes through the vector.
ReadNow(s) == UNION {renderers[r].sees : r \in {r \in Watches : RendererAt(r, "reading")
                                                              /\ renderers[r].sink = s}}

Push(s, m) ==
    /\ buffers' = [buffers EXCEPT ![s] = @ \cup {m}]
    /\ midPass' = IF PassUnderWay(s) \/ programPc # "watching"
                  THEN midPass \cup {m} \cup ReadNow(s) ELSE midPass

\* Console::print reads and pushes with its mutex; ~MessageLogger takes one
\* only to push.
Give(s) ==
    LET m == given + 1
    IN  /\ given < MaxMessages /\ given' = m
        /\ \/ /\ ~Buffered(s)
              /\ shown' = [shown EXCEPT ![m] = 1]
              /\ UNCHANGED <<unpushed, buffers, midPass>>
           \/ /\ Buffered(s) /\ s = "console"
              /\ Push(s, m)
              /\ UNCHANGED <<unpushed, shown>>
           \/ /\ Buffered(s) /\ s = "log"
              /\ unpushed' = unpushed \cup {m}
              /\ UNCHANGED <<buffers, midPass, shown>>
        /\ UNCHANGED <<handshakeVars, useBuffer, renderers, overlooked>>

\* It may get the mutex when the watch is long over.
PushLog(m) ==
    /\ m \in unpushed
    /\ unpushed' = unpushed \ {m}
    /\ Push("log", m)
    /\ UNCHANGED <<handshakeVars, useBuffer, given, shown, renderers, overlooked>>

-----------------------------------------------------------------------------
(* The program thread *)

\* init_progress_bar_manager.  The old one is destroyed: its watch is over.
NewManager ==
    /\ ProgramAt("out", "out") /\ manager < MaxManagers
    /\ manager' = manager + 1
    /\ chrono' = "unset" /\ marked' = FALSE /\ watchStarted' = FALSE
    /\ UNCHANGED <<watches, messageVars, renderers, overlooked>>

\* A monitor's observe: watch_print, whose start first lets the logger buffer.
Observe ==
    /\ ProgramAt("out", "watching") /\ watches < MaxWatches
    /\ watches' = watches + 1
    /\ useBuffer' = TRUE /\ chrono' = "started"
    /\ marked' = FALSE /\ watchStarted' = TRUE
    /\ renderers' = [renderers EXCEPT ![watches'] = [NotScheduled EXCEPT !.of = manager, !.pc = "read"]]
    /\ UNCHANGED <<manager, unpushed, buffers, given, shown, midPass, overlooked>>

\* on_done, on_unexpected_termination, end_monitoring: terminate.
Terminate ==
    /\ ProgramAt("watching", IF watchStarted THEN "marking" ELSE "ending")
    /\ UNCHANGED <<manager, chrono, marked, watchStarted, watches, messageVars, renderers, overlooked>>

Mark ==
    /\ ProgramAt("marking", "waiting")
    /\ marked' = TRUE
    /\ UNCHANGED <<manager, chrono, watchStarted, watches, messageVars, renderers, overlooked>>

DoesNotWait == TRUE
MayGoOn == ~marked
Waited ==
    /\ ProgramAt("waiting", "ending") /\ MayGoOn
    /\ UNCHANGED <<manager, chrono, marked, watchStarted, watches, messageVars, renderers, overlooked>>

StopChrono ==
    /\ ProgramAt("ending", "unhooking")
    /\ chrono' = "terminated"
    /\ UNCHANGED <<manager, marked, watchStarted, watches, messageVars, renderers, overlooked>>

PostStop ==
    /\ ProgramAt("unhooking", "out")
    /\ useBuffer' = FALSE
    /\ UNCHANGED <<manager, chrono, marked, watchStarted, watches, unpushed, buffers, given, shown,
                   midPass, renderers, overlooked>>

-----------------------------------------------------------------------------
(* run *)

\* call_print_hooks: the console's print_buffer, then the logger's.
ReadBuffer(r) ==
    /\ RendererAt(r, "read")
    /\ renderers' = [renderers EXCEPT ![r].pc = "reading", ![r].sees = buffers[renderers[r].sink]]
    /\ UNCHANGED <<handshakeVars, messageVars, overlooked>>

\* Without the lock: when the vector has grown, what it held may not be there
\* any more.
BufferRead(r) ==
    LET s == renderers[r]
    IN  /\ RendererAt(r, "reading")
        /\ \E read \in IF buffers[s.sink] = s.sees THEN {s.sees} ELSE SUBSET s.sees :
              shown' = [m \in Messages |-> IF m \in read THEN shown[m] + 1 ELSE shown[m]]
        /\ renderers' = [renderers EXCEPT ![r].pc = "clear", ![r].sees = {}]
        /\ UNCHANGED <<handshakeVars, useBuffer, unpushed, buffers, given, midPass, overlooked>>

Kept(s) == buffers[s]
Cleared(s) == {}

ClearBuffer(r) ==
    LET s == renderers[r]
    IN  /\ RendererAt(r, "clear")
        /\ buffers' = [buffers EXCEPT ![s.sink] = Cleared(s.sink)]
        /\ renderers' = IF s.sink = "console"
                        THEN [renderers EXCEPT ![r].pc = "read", ![r].sink = "log"]
                        ELSE [renderers EXCEPT ![r].pc = "checking", ![r].sink = "console"]
        /\ UNCHANGED <<handshakeVars, useBuffer, unpushed, given, shown, midPass, overlooked>>

CheckMarked(r) ==
    /\ RendererAt(r, "checking")
    /\ RendererTo(r, IF marked THEN "last" ELSE "sleeping")
    /\ marked' = FALSE
    /\ UNCHANGED <<manager, chrono, watchStarted, programPc, watches, messageVars, overlooked>>

\* A thread that is overlooked may find the watch ended.
WakeUp(r) ==
    /\ RendererAt(r, "sleeping")
    /\ RendererTo(r, IF chrono = "started" THEN "read" ELSE "last")
    /\ UNCHANGED <<handshakeVars, messageVars, overlooked>>

\* The last line of run: after terminate may have returned, and the manager
\* may have a new watch, or be gone.
LastStore(r) ==
    /\ renderers[r].pc = "last"
    /\ watchStarted' = IF renderers[r].of = manager THEN FALSE ELSE watchStarted
    /\ overlooked' = (overlooked \/ \E q \in Watches : renderers[q].of = manager
                                                       /\ renderers[q].pc \notin {"last", "done"}
                                                       /\ renderers[r].of = manager)
    /\ RendererTo(r, "done")
    /\ UNCHANGED <<manager, chrono, marked, programPc, watches, messageVars>>

-----------------------------------------------------------------------------
BarsInit ==
    /\ manager = 1 /\ chrono = "unset" /\ marked = FALSE /\ watchStarted = FALSE
    /\ useBuffer = FALSE /\ programPc = "out" /\ watches = 0
    /\ renderers = [r \in Watches |-> NotScheduled]
    /\ unpushed = {} /\ buffers = [s \in Sinks |-> {}]
    /\ given = 0 /\ shown = [m \in Messages |-> 0]
    /\ midPass = {} /\ overlooked = FALSE

RendererStep(r) ==
    \/ ReadBuffer(r) \/ BufferRead(r) \/ ClearBuffer(r) \/ CheckMarked(r) \/ WakeUp(r)
    \/ LastStore(r)
Terminating == Mark \/ Waited \/ StopChrono \/ PostStop
BarsNext ==
    \/ NewManager \/ Observe \/ Terminate \/ Terminating
    \/ \E r \in Watches : RendererStep(r)
    \/ \E s \in Sinks : Give(s)
    \/ \E m \in Messages : PushLog(m)

BarsFairness == WF_barsVars(Terminating) /\ \A r \in Watches : WF_barsVars(RendererStep(r))
BarsSpec == BarsInit /\ [][BarsNext]_barsVars /\ BarsFairness

-----------------------------------------------------------------------------
\* When terminate returns the thread has nothing left to do but its last store,
\* so that the bars and the manager may go.
NobodyDraws == programPc = "out" => Drawing = {}

\* A message is printed once, at the latest when terminate returns, whoever
\* gives it.  One that is pushed in the middle of a pass, or when it was decided
\* to end or the watch is over, may be kept or lost.
MessagesArePrinted ==
    /\ \A m \in 1..given :
         IF shown[m] = 0 THEN m \in unpushed \cup buffers["console"] \cup buffers["log"] \cup midPass
                         ELSE shown[m] = 1
    /\ programPc = "out" => \A s \in Sinks : buffers[s] \subseteq midPass

\* watch_print and terminate go together, unless the last store of the thread
\* of one watch comes after watch_print for the next: nobody waits for the
\* thread of that one.
BarsAreRight == ~overlooked => NobodyDraws /\ MessagesArePrinted

\* terminate returns even then.
TerminateReturns == programPc = "marking" ~> programPc = "out"
=============================================================================
