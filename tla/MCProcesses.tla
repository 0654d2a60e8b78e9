----------------------------- MODULE MCProcesses -----------------------------
(* An instance of RunningProcesses for TLC. *)
EXTENDS RunningProcesses

CONSTANTS p1, p2

\* Two pids, a label that could be generated as well, and a name to generate
\* whatever two files have.
MCPids == {p1, p2}
MCLabels == {"web"}
MCGeneratedNames == {"web", "app", "bin"}

MCOver == runs = MaxRuns /\ (\A p \in Pids : runPc[p] = "out") /\ UNCHANGED procVars

MCSpecification == ProcessInit /\ [][ProcessNext \/ MCOver]_procVars
=============================================================================
