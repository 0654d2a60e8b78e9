----------------------------- MODULE SharedFiles -----------------------------
(***************************************************************************)
(* The two lists of files that several processes of one user keep in the    *)
(* home directory and in a root prefix without a lock: the environments     *)
(* (EnvironmentsList) and the trash (TrashFiles).                           *)
(***************************************************************************)
EXTENDS EnvironmentsList, TrashFiles

\* The list of environments has a line for each that was registered, and the
\* index of the trash one for each file, whatever order commands made, listed,
\* removed and cleaned them in (environments_manager.cpp, clean_trash_files).
SharedFilesAreRight == EnvironmentsAreListed /\ TrashIsIndexed
=============================================================================
