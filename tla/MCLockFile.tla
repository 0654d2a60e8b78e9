------------------------------ MODULE MCLockFile ------------------------------
(* Instances of LockFile for TLC. *)
EXTENDS LockFile

CONSTANTS t1, t2, t3, p1, p2, p3, i1, i2, i3, i4

MCThreads == {t1, t2, t3}
MCProcesses == {p1, p2, p3}
MCTwoProcesses == {p1, p2}
MCAlone == [t \in Threads |-> IF t = t1 THEN p1 ELSE IF t = t2 THEN p2 ELSE p3]
\* The first two threads are of the same process.
MCTogether == [t \in Threads |-> IF t = t3 THEN p2 ELSE p1]
MCInodes == {i1, i2, i3, i4}
=============================================================================
