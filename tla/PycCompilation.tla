---------------------------- MODULE PycCompilation ----------------------------
(***************************************************************************)
(* transaction_context.cpp: the packages that are linked write the names of *)
(* their Python files to one child process, which compiles them.  The child *)
(* writes to pipes that the parent reads only at the end, when it waits.    *)
(***************************************************************************)
EXTENDS Sequences, Integers, FiniteSets

CONSTANTS PyPackages,      \* the Python files of the packages that have some, in the
                           \* order of linking
          BadFiles,        \* files that do not compile: the child prints a line
          PipeRoom         \* bound: what each pipe holds

PyNames == UNION {{PyPackages[i][j] : j \in 1..Len(PyPackages[i])} : i \in 1..Len(PyPackages)}

ASSUME PycConstants == PyPackages \in Seq(Seq(PyNames))

VARIABLES pycParent,       \* "linking", "writing", "waiting", "stopping", "done", or
                           \* "undefined" once the null process is used
          pycPackages,     \* the packages still to be linked
          pyFiles,         \* the names still to be written for this one
          pycProcess,      \* m_pyc_process: "none" or "running"
          pycInput,        \* the names in the child's stdin
          pycInputOpen,
          pycOutput,       \* the lines in the child's output pipes
          pycChild,        \* "reading", "joining", or "ended"
          submitted,       \* the files being compiled
          handedOver,      \* the files written without an error
          compiled,
          pycKilled,       \* the child ended before its work did
          pycScript        \* the child runs compile_pyc.py: Python is later than 3.5;
                           \* otherwise compileall, which reads every name first

pycVars == <<pycParent, pycPackages, pyFiles, pycProcess, pycInput, pycInputOpen, pycOutput,
             pycChild, submitted, handedOver, compiled, pycKilled, pycScript>>
parentVars == <<pycParent, pycPackages, pyFiles, pycProcess, pycInputOpen, handedOver,
                pycScript>>
childVars == <<pycChild, submitted, compiled, pycKilled, pycScript>>

-----------------------------------------------------------------------------
(* The parent *)

\* compile_pyc_files of the next package; the first one starts the process.
\* When Python is not found start_pyc_compilation_process returns false, and
\* try_pyc_compilation goes on with no process.
TryPycCompilation ==
    /\ pycParent = "linking" /\ pycPackages # <<>>
    /\ pycPackages' = Tail(pycPackages)
    /\ pyFiles' = Head(pycPackages)
    /\ \/ /\ pycProcess' = IF pycProcess = "none" THEN "running" ELSE pycProcess
          /\ pycParent' = "writing"
       \/ /\ pycProcess = "none" /\ pycProcess' = "none"
          /\ pycParent' = "undefined"
    /\ UNCHANGED <<pycInput, pycInputOpen, pycOutput, handedOver, childVars>>

\* reproc::process::write blocks while the pipe is full, and fails when the
\* child is gone: the other files of the package are left out.
WriteName ==
    /\ pycParent = "writing" /\ pyFiles # <<>>
    /\ \/ /\ pycChild # "ended" /\ Len(pycInput) < PipeRoom
          /\ pycInput' = Append(pycInput, Head(pyFiles))
          /\ handedOver' = handedOver \cup {Head(pyFiles)}
          /\ pyFiles' = Tail(pyFiles)
       \/ /\ pycChild = "ended"
          /\ pyFiles' = <<>>
          /\ UNCHANGED <<pycInput, handedOver>>
    /\ UNCHANGED <<pycParent, pycPackages, pycProcess, pycInputOpen, pycOutput, childVars>>

PackageWritten ==
    /\ pycParent = "writing" /\ pyFiles = <<>>
    /\ pycParent' = "linking"
    /\ UNCHANGED <<pycPackages, pyFiles, pycProcess, pycInput, pycInputOpen, pycOutput,
                   handedOver, childVars>>

\* wait_for_pyc_compilation: the child sees the end of its input
WaitForPycCompilation ==
    /\ pycParent = "linking" /\ pycPackages = <<>>
    /\ pycInputOpen' = FALSE
    /\ pycParent' = IF pycProcess = "none" THEN "done" ELSE "waiting"
    /\ UNCHANGED <<pycPackages, pyFiles, pycProcess, pycInput, pycOutput, handedOver, childVars>>

\* reproc::drain reads what there is until the child has closed its ends.
Drain ==
    /\ pycParent = "waiting"
    /\ pycOutput > 0 \/ pycChild = "ended"
    /\ pycOutput' = 0
    /\ pycParent' = IF pycChild = "ended" THEN "stopping" ELSE "waiting"
    /\ UNCHANGED <<pycPackages, pyFiles, pycProcess, pycInput, pycInputOpen, handedOver,
                   childVars>>

\* reproc::stop waits for the child, and kills it after a time.
StopChild ==
    /\ pycParent = "stopping"
    /\ pycProcess' = "none" /\ pycParent' = "done"
    /\ pycKilled' = (pycKilled \/ pycChild # "ended")
    /\ pycChild' = "ended"
    /\ UNCHANGED <<pycPackages, pyFiles, pycInput, pycInputOpen, pycOutput, handedOver,
                   submitted, compiled, pycScript>>

-----------------------------------------------------------------------------
(* The child *)

\* The main process of compile_pyc.py gives a name to the pool and reads on.
MayReadWhenIdle == pycChild = "reading" /\ submitted = {}
MayRead == pycChild = "reading"

ReadName ==
    /\ pycProcess = "running" /\ MayRead /\ pycInput # <<>>
    /\ submitted' = submitted \cup {Head(pycInput)}
    /\ pycInput' = Tail(pycInput)
    /\ UNCHANGED <<parentVars, pycOutput, pycChild, compiled, pycKilled>>

InputClosed == ~pycInputOpen
\* sys.stdin has no more lines: those in the pipe come first.
InputOver == pycInput = <<>> /\ ~pycInputOpen

ReadEnd ==
    /\ pycProcess = "running" /\ pycChild = "reading" /\ InputOver
    /\ pycChild' = "joining"
    /\ UNCHANGED <<parentVars, pycInput, pycOutput, submitted, compiled, pycKilled>>

\* A worker compiles a file, or reports that it cannot: it blocks while the
\* pipe is full.
CompileFile(f) ==
    /\ f \in submitted /\ pycChild # "ended"
    /\ pycScript \/ pycChild = "joining"
    /\ IF f \in BadFiles
       THEN pycOutput < PipeRoom /\ pycOutput' = pycOutput + 1 /\ UNCHANGED compiled
       ELSE compiled' = compiled \cup {f} /\ UNCHANGED pycOutput
    /\ submitted' = submitted \ {f}
    /\ UNCHANGED <<parentVars, pycInput, pycChild, pycKilled>>

ChildEnds ==
    /\ pycChild = "joining" /\ submitted = {}
    /\ pycChild' = "ended"
    /\ UNCHANGED <<parentVars, pycInput, pycOutput, submitted, compiled, pycKilled>>

ChildDies ==
    /\ pycProcess = "running" /\ pycChild # "ended"
    /\ pycChild' = "ended" /\ pycKilled' = TRUE
    /\ UNCHANGED <<parentVars, pycInput, pycOutput, submitted, compiled>>

-----------------------------------------------------------------------------
PycInit ==
    /\ pycParent = "linking" /\ pycPackages = PyPackages /\ pyFiles = <<>>
    /\ pycProcess = "none" /\ pycInput = <<>> /\ pycInputOpen = TRUE /\ pycOutput = 0
    /\ pycChild = "reading" /\ submitted = {} /\ handedOver = {} /\ compiled = {}
    /\ pycKilled = FALSE /\ pycScript \in BOOLEAN

PycParentNext ==
    \/ TryPycCompilation \/ WriteName \/ PackageWritten \/ WaitForPycCompilation
    \/ Drain \/ StopChild
PycChildNext == ReadName \/ ReadEnd \/ (\E f \in submitted : CompileFile(f)) \/ ChildEnds
PycNext == PycParentNext \/ PycChildNext \/ ChildDies

\* Each process is scheduled; nothing ends the child.
PycFairness == WF_pycVars(PycParentNext) /\ WF_pycVars(PycChildNext)
PycSpec == PycInit /\ [][PycNext]_pycVars /\ PycFairness

-----------------------------------------------------------------------------
PyFilesMade == handedOver \ BadFiles \subseteq compiled

\* When the transaction goes on, every file that it handed over is compiled,
\* unless somebody else ended the child: none is left in a pipe or with a
\* worker (wait_for_pyc_compilation, compile_pyc.py).
HandedOverAreCompiled == pycParent = "done" => PyFilesMade \/ pycKilled

\* The parent never waits for a child that waits for it, however full the
\* pipes are: a transaction that began to compile ends (try_pyc_compilation,
\* wait_for_pyc_compilation).
PycCompilationEnds == pycParent = "writing" ~> pycParent = "done"
=============================================================================
