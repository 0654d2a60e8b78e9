----------------------------- MODULE FetchExtract -----------------------------
(***************************************************************************)
(* MTransaction::fetch_extract_packages (transaction.cpp) with the          *)
(* PackageFetchers and PackageExtractTasks it makes (package_fetcher.cpp):  *)
(* the main thread downloads; each package is validated and extracted by a  *)
(* thread of MainExecutor, a bounded number of them at a time; the main     *)
(* thread waits for all of them and clears what turned out to be wrong.     *)
(*                                                                          *)
(* The download is what DownloadContract promises with fail_fast: packages  *)
(* come one by one, and any failure throws.  Each package has a tarball and *)
(* a directory in the cache; content is good, or bad (bytes other than the  *)
(* repodata's).  Validation of a tarball without size or checksum accepts   *)
(* anything (Unverifiable).                                                 *)
(***************************************************************************)
EXTENDS Integers, FiniteSets

CONSTANTS
    Packages,
    Unverifiable,   \* packages whose size and checksums are unknown
    Elsewhere,      \* a cached tarball lies in another cache than the first writable one
    ExtractThreads, \* threads_params.extract_threads
    Cores,          \* std::thread::hardware_concurrency()
    None

VARIABLES
    main,           \* where fetch_extract_packages is
    interrupted,    \* is_sig_interrupted()
    need,           \* what the fetcher of each package has to do
    tarball,        \* the tarball of each package
    dir,            \* the extracted directory of each package
    task,           \* where the task of each package is
    noting,         \* the package whose on_success has scheduled and not yet noted
    url,            \* m_downloaded_url is set
    listed,         \* what the task appended to urls.txt
    slots,          \* m_value of the semaphore
    cleared,        \* the packages clear_invalid_caches is done with
    allValid        \* its result so far

fetcher == <<need, noting, url>>
disk == <<tarball, dir, listed>>
vars == <<main, interrupted, fetcher, disk, task, slots, cleared, allValid>>

Needs == {"download", "extract", "nothing"}
Contents == {"none", "good", "bad"}
Dirs == {"none", "partial", "good", "bad"}
TaskPC == {"none", "scheduled", "valid", "queueing", "extracting", "recording",
           "ok", "invalid", "failed", "threw"}

\* counting_semaphore::set_max
Limit == IF ExtractThreads > 0 THEN ExtractThreads ELSE Cores + ExtractThreads

ASSUME FetchExtractConstants ==
    /\ IsFiniteSet(Packages)
    /\ Unverifiable \cup Elsewhere \subseteq Packages
    /\ ExtractThreads \in Int /\ Cores \in Nat /\ Limit > 0
    /\ None \notin Packages

ToDo == {p \in Packages : need[p] # "nothing"}
ToDownload == {p \in Packages : need[p] = "download"}

\* What has_valid_extracted_dir makes of a directory.
Believed(p) == dir[p] = "good" \/ (dir[p] = "bad" /\ p \in Unverifiable)

\* The constructors of the fetchers have looked into the caches; a tarball or
\* a directory in use there was found valid.  The tasks of packages that need
\* no download are scheduled before the download begins.
Init ==
    /\ main = "downloading"
    /\ interrupted = FALSE
    /\ need \in [Packages -> Needs]
    /\ tarball = [p \in Packages |-> IF need[p] = "extract" THEN "good" ELSE "none"]
    /\ dir \in [Packages -> {"none", "good", "bad"}]
    /\ \A p \in Packages : need[p] = "nothing" <=> Believed(p)
    /\ task = [p \in Packages |-> IF need[p] = "extract" THEN "valid" ELSE "none"]
    /\ noting = None
    /\ url = [p \in Packages |-> FALSE]
    /\ listed = [p \in Packages |-> "nothing"]
    /\ slots = Limit
    /\ cleared = {}
    /\ allValid = TRUE

Goto(p, place) == task' = [task EXCEPT ![p] = place]

-----------------------------------------------------------------------------
(* The main thread: the download *)

\* request.on_success: first the callback, which schedules the task ...
Downloaded(p) ==
    /\ main = "downloading" /\ noting = None
    /\ need[p] = "download" /\ task[p] = "none"
    /\ \E c \in {"good", "bad"} : tarball' = [tarball EXCEPT ![p] = c]
    /\ Goto(p, "scheduled")
    /\ noting' = p
    /\ UNCHANGED <<main, interrupted, need, url, dir, listed, slots, cleared, allValid>>

\* ... then m_needs_download and m_downloaded_url are assigned.
NoteDownload ==
    /\ main = "downloading" /\ noting # None
    /\ url' = [url EXCEPT ![noting] = TRUE]
    /\ noting' = None
    /\ UNCHANGED <<main, interrupted, need, disk, task, slots, cleared, allValid>>

\* A download fails: download() throws, and the fetchers go.
DownloadFails ==
    /\ main = "downloading" /\ noting = None
    /\ \E p \in ToDownload : task[p] = "none"
    /\ main' = "threw"
    /\ UNCHANGED <<interrupted, fetcher, disk, task, slots, cleared, allValid>>

\* The loop of the downloader sees the signal: "Download didn't finish!".  Or
\* what build_result finds for the others is a success (the last step of an
\* attempt that has more of them, or the last element of an empty vector):
\* their tasks are destroyed with the requests, and the futures hold a
\* broken_promise.
DownloadInterrupted ==
    /\ main = "downloading" /\ noting = None /\ interrupted
    /\ \E p \in ToDownload : task[p] = "none"
    /\ \/ main' = "unfinished" /\ UNCHANGED task
       \/ /\ main' = "waiting"
          /\ task' = [p \in Packages |->
                        IF p \in ToDownload /\ task[p] = "none" THEN "threw" ELSE task[p]]
    /\ UNCHANGED <<interrupted, fetcher, disk, slots, cleared, allValid>>

AllDownloaded ==
    /\ main = "downloading" /\ noting = None
    /\ \A p \in ToDownload : task[p] # "none"
    /\ main' = "waiting"
    /\ UNCHANGED <<interrupted, fetcher, disk, task, slots, cleared, allValid>>

-----------------------------------------------------------------------------
(* A task: PackageExtractTask::run *)

AcceptsAny(p) == TRUE
Accepts(p) == tarball[p] = "good" \/ p \in Unverifiable

\* validate: the size, interruption_point, then a checksum.
Validate(p) ==
    /\ task[p] = "scheduled"
    /\ \/ ~interrupted /\ Goto(p, IF Accepts(p) THEN "valid" ELSE "invalid")
       \/ interrupted /\ Goto(p, "threw")
       \/ interrupted /\ ~Accepts(p) /\ Goto(p, "invalid")
    /\ UNCHANGED <<main, interrupted, fetcher, disk, slots, cleared, allValid>>

\* extract: interruption_point before the semaphore.
Extract(p) ==
    /\ task[p] = "valid"
    /\ Goto(p, IF interrupted THEN "threw" ELSE "queueing")
    /\ UNCHANGED <<main, interrupted, fetcher, disk, slots, cleared, allValid>>

SlotFree == slots > 0
UnlockLost == slots
Unlock == slots + 1

\* counting_semaphore::lock, and an interruption_point that gives it back.
TakeSlot(p) ==
    /\ task[p] = "queueing" /\ SlotFree
    /\ IF interrupted
       THEN Goto(p, "threw") /\ UNCHANGED slots
       ELSE Goto(p, "extracting") /\ slots' = slots - 1
    /\ UNCHANGED <<main, interrupted, fetcher, disk, cleared, allValid>>

\* clear_extract_path and extract_impl; anything in here may throw.
Unpack(p) ==
    /\ task[p] = "extracting"
    /\ Goto(p, "recording")
    /\ dir' = [dir EXCEPT ![p] = "partial"]
    /\ UNCHANGED <<main, interrupted, fetcher, tarball, listed, slots, cleared, allValid>>

\* catch (std::exception&), which an interruption is too, in either step.
ExtractFails(p) ==
    /\ task[p] \in {"extracting", "recording"}
    /\ Goto(p, "failed")
    /\ \/ UNCHANGED dir
       \/ task[p] = "extracting" /\ dir' = [dir EXCEPT ![p] = "partial"]
    /\ slots' = Unlock
    /\ UNCHANGED <<main, interrupted, fetcher, tarball, listed, cleared, allValid>>

\* write_repodata_record makes the directory one that is believed.
Record(p) ==
    /\ task[p] = "recording" /\ ~interrupted
    /\ dir' = [dir EXCEPT ![p] = tarball[p]]
    /\ listed' = [listed EXCEPT ![p] = IF url[p] THEN "url" ELSE "empty"]
    /\ slots' = Unlock
    /\ Goto(p, "ok")
    /\ UNCHANGED <<main, interrupted, fetcher, tarball, cleared, allValid>>

-----------------------------------------------------------------------------
(* The main thread: waiting and clearing *)

TaskEnded(p) == task[p] \in {"ok", "invalid", "failed", "threw"}

TasksOut == \A p \in ToDo : task[p] # "none"
TasksEnded == \A p \in ToDo : TaskEnded(p)

Waited ==
    /\ main = "waiting" /\ TasksEnded
    /\ main' = "clearing"
    /\ UNCHANGED <<interrupted, fetcher, disk, task, slots, cleared, allValid>>

WrongIfInvalid(p) == task[p] = "invalid"
Wrong(p) == task[p] \in {"invalid", "failed"}

\* clear_invalid_caches takes the packages one by one, in the fetchers' order,
\* which a std::partition leaves unspecified.  clear_cache removes the tarball
\* and the directory beside it.
ClearNext(p) ==
    /\ main = "clearing" /\ p \in ToDo \ cleared /\ task[p] # "threw"
    /\ cleared' = cleared \cup {p}
    /\ IF Wrong(p)
       THEN /\ allValid' = FALSE
            /\ tarball' = [tarball EXCEPT ![p] = "none"]
            /\ dir' = IF p \in Elsewhere /\ need[p] = "extract" THEN dir
                      ELSE [dir EXCEPT ![p] = "none"]
       ELSE UNCHANGED <<allValid, tarball, dir>>
    /\ UNCHANGED <<main, interrupted, fetcher, listed, task, slots>>

\* eit->get() rethrows what ended the task, or remove_all fails in a cache that
\* is not ours: the rest is not looked at.
ClearThrows ==
    /\ main = "clearing"
    /\ \E p \in ToDo \ cleared : task[p] = "threw" \/ (Wrong(p) /\ p \in Elsewhere)
    /\ main' = "threw"
    /\ UNCHANGED <<interrupted, fetcher, disk, task, slots, cleared, allValid>>

\* "Found incorrect downloads. Aborting", or the return, interrupted or not.
Finish ==
    /\ main = "clearing" /\ cleared = ToDo
    /\ main' = IF ~allValid THEN "aborted" ELSE IF interrupted THEN "unfinished" ELSE "fetched"
    /\ UNCHANGED <<interrupted, fetcher, disk, task, slots, cleared, allValid>>

\* SIGINT, as default_signal_handler takes it.
Interrupt ==
    /\ ~interrupted
    /\ interrupted' = TRUE
    /\ UNCHANGED <<main, fetcher, disk, task, slots, cleared, allValid>>

MainEnded == main \in {"fetched", "aborted", "unfinished", "threw"}

\* Nothing is left to do, nor can be.
Over ==
    /\ MainEnded /\ \A p \in Packages : task[p] = "none" \/ TaskEnded(p)
    /\ interrupted
    /\ UNCHANGED vars

MainStep ==
    \/ (\E p \in Packages : Downloaded(p) \/ ClearNext(p))
    \/ NoteDownload \/ DownloadFails \/ DownloadInterrupted \/ AllDownloaded
    \/ Waited \/ ClearThrows \/ Finish

TaskStep(p) ==
    Validate(p) \/ Extract(p) \/ TakeSlot(p) \/ Unpack(p) \/ ExtractFails(p) \/ Record(p)

Next ==
    \/ \E p \in Packages :
         \/ Downloaded(p) \/ ClearNext(p)
         \/ Validate(p) \/ Extract(p) \/ TakeSlot(p) \/ Unpack(p) \/ ExtractFails(p) \/ Record(p)
    \/ NoteDownload \/ DownloadFails \/ DownloadInterrupted \/ AllDownloaded
    \/ Waited \/ ClearThrows \/ Finish
    \/ Interrupt \/ Over

Spec == Init /\ [][Next]_vars

\* Threads run, and the download ends somehow (DownloadEnds in Downloader).  No
\* task takes a slot twice, so that no fairness is asked of the semaphore.
FairSpec ==
    /\ Spec
    /\ WF_vars(MainStep)
    /\ \A p \in Packages : WF_vars(TaskStep(p))

-----------------------------------------------------------------------------
TypeOK ==
    /\ main \in {"downloading", "waiting", "clearing", "fetched", "aborted", "unfinished", "threw"}
    /\ interrupted \in BOOLEAN /\ allValid \in BOOLEAN
    /\ need \in [Packages -> Needs]
    /\ tarball \in [Packages -> Contents]
    /\ dir \in [Packages -> Dirs]
    /\ task \in [Packages -> TaskPC]
    /\ noting \in Packages \cup {None}
    /\ url \in [Packages -> BOOLEAN]
    /\ listed \in [Packages -> {"nothing", "url", "empty"}]
    /\ slots \in 0..Limit
    /\ cleared \in SUBSET Packages

InSlot == {p \in Packages : task[p] \in {"extracting", "recording"}}

\* The semaphore's value is what its holders leave: no slot is lost by an
\* exception or an interruption, and no more than Limit extract at a time.
SlotsExact == slots = Limit - Cardinality(InSlot)

\* When the fetch succeeds, every verifiable package has a complete directory
\* made from the tarball the repodata describes, whatever the order of tasks.
FetchedIsUsable ==
    main = "fetched" => \A p \in Packages \ Unverifiable : dir[p] = "good"

\* When it aborts for wrong downloads, nothing of a package whose tarball or
\* extraction was wrong is left that a later run would take for that package.
AbortLeavesNoTrap ==
    main = "aborted" => \A p \in ToDo : task[p] \in {"invalid", "failed"} =>
                            tarball[p] = "none" /\ ~Believed(p)

\* A task uses its fetcher only as long as fetch_extract_packages is there.
FetcherOutlivesTask ==
    MainEnded => \A p \in ToDo : task[p] = "none" \/ TaskEnded(p)

\* fetch_extract_packages comes back.
FetchEnds == <>MainEnded
=============================================================================
