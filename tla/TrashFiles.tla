------------------------------ MODULE TrashFiles ------------------------------
(***************************************************************************)
(* util.cpp: a file that cannot be removed, being in use, is renamed to     *)
(* trash, and named in conda-meta/mamba_trash.txt, so that a later           *)
(* transaction removes it.  Transactions hold the lock of the prefix;        *)
(* `clean --trash` looks for the files themselves and takes no lock.         *)
(***************************************************************************)
EXTENDS Integers, FiniteSets

CONSTANTS PrefixFiles,     \* paths of a prefix
          MaxTrash,        \* bound: trash of one path (100 in the code)
          MaxUnlinks       \* bound: files removed in one behaviour

ASSUME TrashConstants == MaxTrash \in Nat /\ MaxUnlinks \in Nat

\* A file is a path and a number: 0 for the path itself, the others for what
\* it was renamed to.
VARIABLES linkedFiles,     \* the paths that are there
          trash,           \* the trash that is there
          inUse,           \* files that some program has open
          trashIndex,      \* the lines of mamba_trash.txt
          trashPc,         \* the transaction: "out", "cleaning", "rewriting", "linking",
                           \* or "noting" a file it has renamed
          renamed,         \* that file, or none
          toClean,         \* the lines not gone through
          remaining,       \* remaining_files
          deepPc,          \* clean --trash: "out", "removing" or "rewriting"
          deepToClean,     \* what it found and has not gone through
          deepRemaining,
          forgotten,       \* history: trash that the index may not name, since a process
                           \* ended in the middle, or since the two met
          unlinks

transactionVars == <<trashPc, renamed, toClean, remaining>>
deepVars == <<deepPc, deepToClean, deepRemaining>>
filesVars == <<linkedFiles, trash, inUse, unlinks>>
trashVars == <<filesVars, trashIndex, transactionVars, deepVars, forgotten>>

Path(f) == <<f, 0>>
FilesOfPrefix == PrefixFiles \X (0..MaxTrash)

\* fs::remove fails for what is in use.
RemoveFile(t) == trash' = IF t \in inUse THEN trash ELSE trash \ {t}
IsLeft(t) == t \in trash /\ t \in inUse

\* Two that write from the start of the file at once overwrite each other.
WriteOver(lines) ==
    \E lost \in SUBSET (trashIndex \ lines) :
        trashIndex' = lines \cup (trashIndex \ lost)

-----------------------------------------------------------------------------
(* MTransaction::execute: clean_trash_files, and unlink_path *)

BeginTransaction ==
    /\ trashPc = "out"
    /\ toClean' = trashIndex
    /\ trashPc' = "cleaning"
    /\ UNCHANGED <<filesVars, trashIndex, renamed, remaining, deepVars, forgotten>>

RemoveIndexed(t) ==
    /\ trashPc = "cleaning" /\ t \in toClean
    /\ RemoveFile(t)
    /\ remaining' = IF IsLeft(t) THEN remaining \cup {t} ELSE remaining
    /\ toClean' = toClean \ {t}
    /\ UNCHANGED <<linkedFiles, inUse, unlinks, trashIndex, trashPc, renamed, deepVars, forgotten>>

\* The index is removed, or truncated to be written again.
DropIndex ==
    /\ trashPc = "cleaning" /\ toClean = {}
    /\ trashIndex' = {}
    /\ trashPc' = "rewriting"
    /\ UNCHANGED <<filesVars, renamed, toClean, remaining, deepVars, forgotten>>

\* As WriteIndex, but what is left is not written.
WriteNothing ==
    /\ trashPc = "rewriting"
    /\ trashPc' = "linking" /\ remaining' = {}
    /\ UNCHANGED <<filesVars, trashIndex, renamed, toClean, deepVars, forgotten>>

WriteIndex ==
    /\ trashPc = "rewriting"
    /\ WriteOver(remaining)
    /\ forgotten' = forgotten \cup (trashIndex \ trashIndex')
    /\ trashPc' = "linking" /\ remaining' = {}
    /\ UNCHANGED <<filesVars, renamed, toClean, deepVars>>

\* remove_or_rename: the first number that is not taken.
FreeNumbers(f) == {k \in 1..MaxTrash : <<f, k>> \notin trash}
FirstFree(f) == {k \in FreeNumbers(f) : \A j \in FreeNumbers(f) : k <= j}

Unlink(f) ==
    /\ trashPc = "linking" /\ f \in linkedFiles /\ unlinks < MaxUnlinks
    /\ unlinks' = unlinks + 1
    /\ linkedFiles' = linkedFiles \ {f}
    /\ IF Path(f) \in inUse
       THEN \E k \in FirstFree(f) :
              /\ trash' = trash \cup {<<f, k>>}
              /\ inUse' = (inUse \ {Path(f)}) \cup {<<f, k>>}
              /\ renamed' = {<<f, k>>} /\ trashPc' = "noting"
       ELSE UNCHANGED <<trash, inUse, renamed, trashPc>>
    /\ UNCHANGED <<trashIndex, toClean, remaining, deepVars, forgotten>>

\* It cannot be renamed, or no number is left.
UnlinkThrows(f) ==
    /\ trashPc = "linking" /\ f \in linkedFiles /\ Path(f) \in inUse
    /\ trashPc' = "out"
    /\ UNCHANGED <<filesVars, trashIndex, renamed, toClean, remaining, deepVars, forgotten>>

\* A line that is added while clean --trash is at work may be lost.
NoteTrash ==
    /\ trashPc = "noting"
    /\ trashIndex' = trashIndex \cup renamed
    /\ forgotten' = IF deepPc = "out" THEN forgotten \ renamed ELSE forgotten \cup renamed
    /\ renamed' = {} /\ trashPc' = "linking"
    /\ UNCHANGED <<filesVars, toClean, remaining, deepVars>>

LinkFile(f) ==
    /\ trashPc = "linking" /\ f \notin linkedFiles
    /\ linkedFiles' = linkedFiles \cup {f}
    /\ UNCHANGED <<trash, inUse, unlinks, trashIndex, transactionVars, deepVars, forgotten>>

EndTransaction ==
    /\ trashPc = "linking"
    /\ trashPc' = "out"
    /\ UNCHANGED <<filesVars, trashIndex, renamed, toClean, remaining, deepVars, forgotten>>

\* The process ends: what it had to write is lost, and its lock is free.
TransactionKilled ==
    /\ trashPc # "out"
    /\ forgotten' = forgotten \cup renamed
                    \cup (IF trashPc = "rewriting" THEN remaining ELSE {})
    /\ trashPc' = "out" /\ renamed' = {} /\ toClean' = {} /\ remaining' = {}
    /\ UNCHANGED <<filesVars, trashIndex, deepVars>>

-----------------------------------------------------------------------------
(* clean --trash: clean_trash_files, deep *)

DeepFind ==
    /\ deepPc = "out"
    /\ deepToClean' = trash
    /\ deepPc' = "removing"
    /\ UNCHANGED <<filesVars, trashIndex, transactionVars, deepRemaining, forgotten>>

\* What has gone meanwhile counts as left.
DeepRemove(t) ==
    /\ deepPc = "removing" /\ t \in deepToClean
    /\ RemoveFile(t)
    /\ deepRemaining' = IF t \in trash /\ t \notin inUse THEN deepRemaining
                        ELSE deepRemaining \cup {t}
    /\ deepToClean' = deepToClean \ {t}
    /\ UNCHANGED <<linkedFiles, inUse, unlinks, trashIndex, transactionVars, deepPc, forgotten>>

DeepDrop ==
    /\ deepPc = "removing" /\ deepToClean = {}
    /\ trashIndex' = {}
    /\ deepPc' = "rewriting"
    /\ UNCHANGED <<filesVars, transactionVars, deepToClean, deepRemaining, forgotten>>

\* The index is complete again, unless a transaction is about to drop it.
DeepWrite ==
    /\ deepPc = "rewriting"
    /\ WriteOver(deepRemaining)
    /\ forgotten' = IF trashPc \in {"cleaning", "rewriting"}
                    THEN forgotten \cup deepRemaining \cup (trashIndex \ trashIndex')
                    ELSE (forgotten \ deepRemaining) \cup (trashIndex \ trashIndex')
    /\ deepPc' = "out" /\ deepRemaining' = {}
    /\ UNCHANGED <<filesVars, transactionVars, deepToClean>>

DeepKilled ==
    /\ deepPc # "out"
    /\ forgotten' = IF deepPc = "rewriting" THEN forgotten \cup deepRemaining ELSE forgotten
    /\ deepPc' = "out" /\ deepToClean' = {} /\ deepRemaining' = {}
    /\ UNCHANGED <<filesVars, trashIndex, transactionVars>>

-----------------------------------------------------------------------------
(* Programs of the environment open its files, and close them in the end. *)

Opens(f) ==
    /\ f \in linkedFiles
    /\ inUse' = inUse \cup {Path(f)}
    /\ UNCHANGED <<linkedFiles, trash, unlinks, trashIndex, transactionVars, deepVars, forgotten>>

Closes(t) ==
    /\ t \in inUse
    /\ inUse' = inUse \ {t}
    /\ UNCHANGED <<linkedFiles, trash, unlinks, trashIndex, transactionVars, deepVars, forgotten>>

-----------------------------------------------------------------------------
TrashInit ==
    /\ linkedFiles = PrefixFiles /\ trash = {} /\ inUse = {} /\ trashIndex = {}
    /\ trashPc = "out" /\ renamed = {} /\ toClean = {} /\ remaining = {}
    /\ deepPc = "out" /\ deepToClean = {} /\ deepRemaining = {}
    /\ forgotten = {} /\ unlinks = 0

TrashNext ==
    \/ BeginTransaction \/ DropIndex \/ WriteIndex \/ NoteTrash \/ EndTransaction
    \/ TransactionKilled
    \/ \E f \in PrefixFiles : Unlink(f) \/ UnlinkThrows(f) \/ LinkFile(f) \/ Opens(f)
    \/ DeepFind \/ DeepDrop \/ DeepWrite \/ DeepKilled
    \/ \E t \in FilesOfPrefix : RemoveIndexed(t) \/ DeepRemove(t) \/ Closes(t)

TrashSpec == TrashInit /\ [][TrashNext]_trashVars

-----------------------------------------------------------------------------
\* While neither is at work, the index names all trash that is there, so that
\* the next transaction removes what is in use no longer.  Only what a killed
\* process, or the two at once, left is missing, until clean --trash runs alone.
TrashIsIndexed == trashPc = "out" /\ deepPc = "out" => trash \ forgotten \subseteq trashIndex
=============================================================================
