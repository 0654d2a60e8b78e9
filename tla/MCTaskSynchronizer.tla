-------------------------- MODULE MCTaskSynchronizer --------------------------
(* An instance of TaskSynchronizer for TLC, whose owner never gets on. *)
EXTENDS TaskSynchronizer

CONSTANTS t1, t2

MCCallables == {t1, t2}
=============================================================================
