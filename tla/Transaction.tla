----------------------------- MODULE Transaction -----------------------------
(***************************************************************************)
(* MTransaction::execute (transaction.cpp): fetch the packages, unlink the  *)
(* old ones, link the new ones, and undo all of it after a SIGINT.  With it *)
(* the memory of the package cache (package_cache.cpp), whose answers       *)
(* decide what is fetched and what is linked, and UnlinkPackage and         *)
(* LinkPackage (link.cpp), path by path.                                    *)
(*                                                                          *)
(* The memory and the file names are keyed by PackageInfo::str(), which     *)
(* names no channel: several packages may share a key.  One cache is        *)
(* modelled.  An exception and the end of the process leave the same behind *)
(* and are one action: nothing is undone after either.                      *)
(***************************************************************************)
EXTENDS Integers, SequencesExt

CONSTANTS
    Packages,
    Str,        \* PackageInfo::str() of a package
    Paths,
    PathsOf,    \* the paths of a package in the prefix
    Installed,  \* what the prefix holds at first
    Unlinks,    \* the packages to remove, in the order of the actions
    Links,      \* the packages to install, in the order of the actions
    None

Keys == {Str[p] : p \in Packages}
ToInstall == Range(Links)

ASSUME TransactionConstants ==
    /\ PathsOf \in [Packages -> SUBSET Paths]
    /\ Installed \subseteq Packages
    /\ Unlinks \in Seq(Installed) /\ IsInjective(Unlinks)
    /\ Links \in Seq(Packages) /\ IsInjective(Links)
    /\ None \notin Packages \cup Keys

VARIABLES
    phase,       \* where execute() is
    interrupted, \* is_sig_interrupted()
    options,     \* dry_run, download_only or neither
    content,     \* the package whose extracted directory has this name
    memo,        \* m_valid_extracted_dir
    found,       \* the keys of m_cached_extracted_dirs
    need,        \* the packages whose fetchers need to extract
    files,       \* the package a path of the prefix comes from
    records,     \* the package the conda-meta file of this name describes
    op,          \* the package being linked or unlinked, and the paths left
    unlinked,    \* m_unlink_stack
    linked,      \* m_link_stack
    entry        \* the history entry written

cache == <<content, memo, found, need>>
prefix == <<files, records>>
stacks == <<unlinked, linked>>
vars == <<phase, interrupted, options, cache, prefix, op, stacks, entry>>

Phases == {"begin", "fetching", "unlinking", "linking", "linked", "finishing", "undoLinks",
           "undoUnlinks", "done", "rolledBack", "nothing", "downloaded", "threw"}
Ended == phase \in {"done", "rolledBack", "nothing", "downloaded", "threw"}

NoOp == [kind |-> "none", pkg |-> None, left |-> {}]

FilesAtStart ==
    [f \in Paths |-> IF \E p \in Installed : f \in PathsOf[p]
                     THEN CHOOSE p \in Installed : f \in PathsOf[p] ELSE None]
RecordsAtStart ==
    [k \in Keys |-> IF \E p \in Installed : Str[p] = k
                    THEN CHOOSE p \in Installed : Str[p] = k ELSE None]

Init ==
    /\ phase = "begin"
    /\ interrupted = FALSE
    /\ options \in {"dry_run", "download_only", "neither"}
    /\ content \in [Keys -> Packages \cup {None}]
    /\ \A k \in Keys : content[k] # None => Str[content[k]] = k
    /\ memo = [k \in Keys |-> "unknown"]
    /\ found = {}
    /\ need = {}
    /\ files = FilesAtStart
    /\ records = RecordsAtStart
    /\ op = NoOp
    /\ unlinked = <<>> /\ linked = <<>>
    /\ entry = None

-----------------------------------------------------------------------------
(* The package cache *)

AnyDir(p) == content[Str[p]] # None
ValidDir(p) == content[Str[p]] = p

FoundByPackage(p) == p
\* The key in m_cached_extracted_dirs.
FoundKey(p) == Str[p]

\* has_valid_extracted_dir and get_extracted_dir_path: the answer ...
Held(p) ==
    \/ FoundKey(p) \in found
    \/ memo[Str[p]] = "yes"
    \/ memo[Str[p]] = "unknown" /\ ValidDir(p)

\* ... and what is remembered of it.
Remember(p) ==
    /\ memo' = IF FoundKey(p) \notin found /\ memo[Str[p]] = "unknown"
               THEN [memo EXCEPT ![Str[p]] = IF ValidDir(p) THEN "yes" ELSE "no"]
               ELSE memo
    /\ found' = IF Held(p) THEN found \cup {FoundKey(p)} ELSE found
    /\ UNCHANGED <<content, need>>

ForgetNothing(S) == {}
\* clear_query_cache, in the constructors of these fetchers.
Forgotten(S) == {Str[p] : p \in S}

\* Dry run; or the lock, and build_fetchers.
Begin ==
    /\ phase = "begin"
    /\ IF options = "dry_run"
       THEN phase' = "nothing" /\ UNCHANGED cache
       ELSE /\ phase' = "fetching"
            /\ need' = {p \in ToInstall : ~Held(p)}
            /\ found' = found \cup {FoundKey(p) : p \in ToInstall \ need'}
            /\ memo' = [k \in Keys |->
                          IF k \in Forgotten(need') THEN "unknown"
                          ELSE IF \E p \in ToInstall : Str[p] = k
                          THEN IF \E p \in need' : Str[p] = k THEN "no" ELSE "yes"
                          ELSE memo[k]]
            /\ UNCHANGED content
    /\ UNCHANGED <<interrupted, options, prefix, op, stacks, entry>>

AfterFetch == IF options = "download_only" THEN "downloaded" ELSE "unlinking"

Extracted(S) == [k \in Keys |-> IF \E p \in S : Str[p] = k
                                THEN CHOOSE p \in S : Str[p] = k ELSE content[k]]

\* fetch_extract_packages has returned true (FetchedIsUsable in FetchExtract).
Fetched ==
    /\ phase = "fetching"
    /\ content' = Extracted(need)
    /\ need' = {}
    /\ phase' = AfterFetch
    /\ UNCHANGED <<interrupted, options, memo, found, prefix, op, stacks, entry>>

\* It has returned false, which nobody looks at.
FetchInterrupted ==
    /\ phase = "fetching" /\ interrupted
    /\ \E S \in SUBSET need : content' = Extracted(S) /\ need' = need \ S
    /\ phase' = AfterFetch
    /\ UNCHANGED <<interrupted, options, memo, found, prefix, op, stacks, entry>>

-----------------------------------------------------------------------------
(* UnlinkPackage::execute and LinkPackage::execute *)

\* The json file of this name is read; without it parsing throws.
StartUnlink(p) ==
    /\ records[Str[p]] # None
    /\ op' = [kind |-> "unlink", pkg |-> p, left |-> PathsOf[records[Str[p]]]]

\* The directory of this name is read, whatever package it holds.
StartLink(p) ==
    /\ content[Str[p]] # None
    /\ op' = [kind |-> "link", pkg |-> p, left |-> PathsOf[content[Str[p]]]]

\* link_path, which removes what it finds there, prefix and mode aside ...
LinkedPath(f) == [files EXCEPT ![f] = content[Str[op.pkg]]]

\* ... and unlink_path, which only logs a path that it cannot remove.
UnlinkedPath(f) == [files EXCEPT ![f] = None]

\* The next path, an entry point among them.
NextPath ==
    /\ ~Ended /\ op # NoOp
    /\ \E f \in op.left :
         /\ op' = [op EXCEPT !.left = @ \ {f}]
         /\ files' = IF op.kind = "link" THEN LinkedPath(f) ELSE UnlinkedPath(f)
    /\ UNCHANGED <<phase, interrupted, options, cache, records, stacks, entry>>

AnyPaths == TRUE
AllPaths == op.left = {}

\* The json file is removed, or written, after all paths; then the operation
\* is recorded for the rollback, or popped by it.
EndOp ==
    /\ ~Ended /\ op # NoOp /\ AllPaths
    /\ op' = NoOp
    /\ records' = [records EXCEPT ![Str[op.pkg]] =
                     IF op.kind = "link" THEN content[Str[op.pkg]] ELSE None]
    /\ CASE phase = "unlinking"   -> unlinked' = Append(unlinked, [pkg |-> op.pkg,
                                                  cached |-> FoundKey(op.pkg) \in found])
                                     /\ UNCHANGED linked
         [] phase = "linking"     -> linked' = Append(linked, op.pkg) /\ UNCHANGED unlinked
         [] phase = "undoLinks"   -> linked' = Front(linked) /\ UNCHANGED unlinked
         [] phase = "undoUnlinks" -> unlinked' = Front(unlinked) /\ UNCHANGED linked
    /\ UNCHANGED <<phase, interrupted, options, cache, files, entry>>

-----------------------------------------------------------------------------
(* execute *)

Goto(place) == phase' = place /\ UNCHANGED <<cache, op>>

\* The lambda unlink, for the next package.  The path may come back empty.
Unlink ==
    /\ phase = "unlinking" /\ op = NoOp
    /\ IF interrupted \/ Len(unlinked) = Len(Unlinks)
       THEN Goto("linking")
       ELSE LET p == Unlinks[Len(unlinked) + 1]
            IN  /\ Remember(p)
                /\ \/ StartUnlink(p) /\ UNCHANGED phase
                   \/ records[Str[p]] = None /\ phase' = "threw" /\ UNCHANGED op
    /\ UNCHANGED <<interrupted, options, prefix, stacks, entry>>

\* The lambda link: "Package cache error." when the directory is not found.
Link ==
    /\ phase = "linking" /\ op = NoOp
    /\ IF interrupted \/ Len(linked) = Len(Links)
       THEN Goto("linked")
       ELSE LET p == Links[Len(linked) + 1]
            IN  /\ Remember(p)
                /\ IF Held(p) THEN StartLink(p) /\ UNCHANGED phase
                   ELSE phase' = "threw" /\ UNCHANGED op
    /\ UNCHANGED <<interrupted, options, prefix, stacks, entry>>

NeverRollsBack == FALSE
RollsBack == interrupted

AllLinked ==
    /\ phase = "linked"
    /\ Goto(IF RollsBack THEN "undoLinks" ELSE "finishing")
    /\ UNCHANGED <<interrupted, options, prefix, stacks, entry>>

\* The pyc compilation has been waited for; History::add_entry.
Finish ==
    /\ phase = "finishing"
    /\ Goto("done")
    /\ entry' = [unlinked |-> {unlinked[i].pkg : i \in DOMAIN unlinked}, linked |-> Range(linked)]
    /\ UNCHANGED <<interrupted, options, prefix, stacks>>

UndoneAtOnce(stack) == TRUE
Undone(stack) == stack = <<>>

\* TransactionRollback::rollback: the links first, last in first out ...
UndoLinks ==
    /\ phase = "undoLinks" /\ op = NoOp
    /\ IF Undone(linked) THEN Goto("undoUnlinks")
       ELSE UNCHANGED <<phase, cache>> /\ StartUnlink(Last(linked))
    /\ UNCHANGED <<interrupted, options, prefix, stacks, entry>>

\* ... then the packages that were unlinked, from the cache if it has them.
UndoUnlinks ==
    /\ phase = "undoUnlinks" /\ op = NoOp
    /\ IF Undone(unlinked) THEN Goto("rolledBack")
       ELSE IF ~Last(unlinked).cached THEN Goto("threw")
       ELSE UNCHANGED <<phase, cache>> /\ StartLink(Last(unlinked).pkg)
    /\ UNCHANGED <<interrupted, options, prefix, stacks, entry>>

\* An exception (a download, a file that cannot be made, a post-link script),
\* or the end of the process.
Stop ==
    /\ ~Ended
    /\ phase' = "threw"
    /\ UNCHANGED <<interrupted, options, cache, prefix, op, stacks, entry>>

Interrupt ==
    /\ ~Ended /\ ~interrupted
    /\ interrupted' = TRUE
    /\ UNCHANGED <<phase, options, cache, prefix, op, stacks, entry>>

Over == Ended /\ UNCHANGED vars

Next ==
    \/ Begin \/ Fetched \/ FetchInterrupted
    \/ Unlink \/ Link \/ NextPath \/ EndOp
    \/ AllLinked \/ Finish \/ UndoLinks \/ UndoUnlinks
    \/ Stop \/ Interrupt \/ Over

Spec == Init /\ [][Next]_vars

-----------------------------------------------------------------------------
TypeOK ==
    /\ phase \in Phases
    /\ interrupted \in BOOLEAN
    /\ options \in {"dry_run", "download_only", "neither"}
    /\ content \in [Keys -> Packages \cup {None}]
    /\ memo \in [Keys -> {"unknown", "yes", "no"}]
    /\ found \subseteq Keys /\ need \subseteq ToInstall
    /\ files \in [Paths -> Packages \cup {None}]
    /\ records \in [Keys -> Packages \cup {None}]
    /\ op \in [kind : {"link", "unlink"}, pkg : Packages, left : SUBSET Paths] \cup {NoOp}
    /\ unlinked \in Seq([pkg : Packages, cached : BOOLEAN])
    /\ linked \in Seq(Packages)
    /\ entry = None \/ entry \in [unlinked : SUBSET Packages, linked : SUBSET Packages]

\* Wherever the transaction is or has stopped, a package has its files in the
\* prefix if and only if conda-meta says that it is installed, but for the one
\* that was being linked or unlinked.
PrefixMatchesRecords ==
    \A p \in Packages : op.pkg # p =>
        \A f \in PathsOf[p] : files[f] = p <=> records[Str[p]] = p

\* When the rollback comes to its end the prefix is what it was.
RollbackRestores ==
    phase = "rolledBack" => files = FilesAtStart /\ records = RecordsAtStart /\ entry = None

\* When execute returns with success all that the solution asks is done, and
\* the history says so.
DoneIsComplete ==
    phase = "done" =>
        /\ entry = [unlinked |-> Range(Unlinks), linked |-> ToInstall]
        /\ \A p \in ToInstall : records[Str[p]] = p
        /\ \A p \in Range(Unlinks) \ ToInstall : records[Str[p]] # p

\* Once the fetch has succeeded, no package that is to be linked is refused
\* because of what the cache remembers from before: the old packages are not
\* unlinked for nothing.
FetchedCanBeLinked ==
    phase \in {"unlinking", "linking"} /\ need = {} => \A p \in ToInstall : Held(p)

\* A package is linked from a directory that holds that package, and not from
\* another channel's package of the same name, version and build.
LinkedFromItsOwn ==
    op.kind = "link" => content[Str[op.pkg]] = op.pkg
=============================================================================
