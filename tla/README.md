# A verification project for libmamba

TLA+ models of the concurrent and failure-prone core of mamba (the library
`libmamba` and what its command lines drive through it), the TLC runs that check
them on small instances, and TLAPS proofs of their main properties for every
value of the constants. `PROJECT.json` maps every definition to the source
lines it stands for.

1. [The system](#the-system) · 2. [The modules](#the-modules) ·
3. [The runs](#the-runs) · 4. [Fairness](#fairness) ·
5. [The proofs](#the-proofs) · 6. [Where code and documentation disagree](#where-code-and-documentation-disagree) ·
7. [What is left out](#what-is-left-out) · 8. [The plan](#the-plan)

## The system

mamba installs packages into an environment (a *prefix*). A command reads the
configuration, loads the index of every channel, has libsolv compute a solution,
and executes it as a transaction: packages are downloaded, validated and
extracted into a cache shared by all environments, old packages are unlinked
from the prefix, new ones linked, and a line is added to the prefix's history.
Downloads and the transaction run on the main thread, extractions on threads of
an executor, other processes may work on the same cache and prefix, and SIGINT
sets a flag that some steps look at.

```
 micromamba, libmambapy, mamba_package
        |
 api (install, update, create, ...) -- configuration, activation
        |
 solver -- database (solv-cpp, libsolv)        subdir index -- repodata cache
        |                                           |
 MTransaction::execute ----------------------- download::download -- curl
        |     |      \                              |
        |     |       fetch_extract_packages -------+
        |     |         PackageFetcher, PackageExtractTask -- MainExecutor
        |     +-- package cache (answers remembered per name)
        +-- LinkPackage, UnlinkPackage, TransactionRollback -- prefix, history
 LockFile: around the prefix, the cache, the repodata cache
 TaskSynchronizer: callables of objects that other threads call
```

### Components whose logic is the program's own, and hard

| component | state | operations | what is hard | what makes it correct |
|---|---|---|---|---|
| **MainExecutor** `execution.hpp`, `execution.cpp` | `is_open`, the threads it owns, the close handlers, two mutexes | `schedule`, `take_ownership`, `on_close`, `close` | `is_open` is read without a lock and again under one; `close` joins while it holds the mutex others want | no thread outlives `close`; no handler is missed; `close` returns |
| **TaskSynchronizer** `tasksync.hpp` | a shared `Status`, the count of running bodies, a mutex and a condition variable | `synchronized`, `join_tasks`, `reset`, destruction | wake-ups, a weak pointer locked by threads the owner does not know | no body runs outside the object's life; the join returns |
| **LockFile** `util.cpp` | per process a registry of owners; in the system the lock file and its record locks | construct (blocking, timed), share, release, remove | several processes and threads, crashes, timeouts, names that are removed | two processes never hold it together; it is what its holder believes; nothing stays behind |
| **Downloader** `downloader.cpp` with the mirrors of `mirror.cpp` | a tracker and a mirror attempt per request, `m_waiting_count`, the completion map, statistics of the mirrors | prepare, start, complete, retry, switch mirror, throw | callbacks in any order, retries over several steps and mirrors, the fail-fast options | the counts are exact; retries are bounded; it ends; each request has one fate |
| **Package fetch and extraction** `transaction.cpp`, `package_fetcher.cpp`, `thread_utils.hpp` | per package what is needed, tarball, directory and task; the extraction semaphore | download, validate, extract, record, wait, clear | tasks run while the main thread downloads, throws or is interrupted | slots are exact; what is called fetched is usable; what is wrong is gone |
| **Transaction execution**, **Package cache**, **Link and unlink** `transaction.cpp`, `package_cache.cpp`, `link.cpp` | phase, stacks for the rollback, remembered answers, paths of the prefix and conda-meta | `execute`, its link and unlink lambdas, the rollback | SIGINT, exceptions and crashes between any two paths; stale answers | prefix and records agree; a rollback restores; success is complete |
| **Subdir index and repodata cache** `subdirdata.cpp` | index files, state files, etags in several caches | load, check, download, refresh | a 304 about another file; a crash between two renames | a cache used is the one the server confirmed |
| **Content trust** `repo_checker.cpp`, `update_framework.cpp` | the chain of root roles, its persisted copy | update by one version at a time | crash while persisting | versions never go back |
| **pyc compilation** `transaction_context.cpp` | a child process and its pipes | start, feed, wait | pipes that fill up; a child that could not start | it ends; nothing of it is left after a rollback |
| **Executor singleton** `singletons.cpp` | one atomic pointer | construct, `instance`, destroy | destruction against a late caller | a caller never gets a dead executor |
| **Running processes** `run.cpp` | a file per process of `mamba run`, under a lock; the lock's and the program's state | launch, list, stop, end | names chosen by looking at files, pids that come back, a reader without the lock, kills | who was launched is listed, under a name of its own |
| **List of environments** `environments_manager.cpp` | the lines of `environments.txt` | register, unregister, list | several processes rewrite the file without a lock, and may end in the middle | what was registered is listed |
| **Trash** `util.cpp` | renamed files, and their index | `remove_or_rename`, `clean_trash_files`, shallow and deep | the index is emptied and filled again; two at once; the end of a process in between | the index names all trash |
| **Signals and threads** `thread_utils.cpp` | the interruption flag, thread count, the signal thread | set, test, wait for all threads | counting threads that never started | waiting ends |

All rows are modelled but the last: signals appear in the other rows as a flag that
rises at any moment, and the rest of `thread_utils.cpp` (the thread that waits for
the signal, the counter of threads, `interruption_guard`) is called by the
repository's tests alone.

### The components that are sequential

| component | what can go wrong | what makes it correct |
|---|---|---|
| **Commands of the API**, **solver** `install.cpp`, `update.cpp`, `remove.cpp`, `solver/libsolv/helpers.cpp` | the request made of specs, history, pins and flags; the answer turned into actions; noarch packages linked again for another python | a command that succeeds meets its specs and takes nothing else the user asked for; the actions are those of the answer |
| **Problems graph** `unsolvable.cpp`, `problems_graph.cpp` | merging, splitting and visiting nodes of a graph that was acyclic | every explanation names a real reason, and ends |
| **History and prefix data** `history.cpp`, `prefix_data.cpp`, `graph.hpp` | an append-only log whose writer may end in the middle; a graph with cycles (python and pip) | what was written is read; the last request counts; dependencies come first |
| **Versions and match specs** `version.cpp`, `version_spec.cpp` | trailing zeros, literals with a rank, predicates that compare prefixes, an expression parser with two stacks | one order; equal versions match alike; what is written is what was read (but for `~=`) |
| **Configuration** `configuration.cpp` | configurables that need each other, and values that outlive one operation | every operation gets what it was given, and nothing of the last one |
| **Activation and shell initialisation** `activation.cpp`, `shell_init.cpp` | nested activations; blocks rewritten in files the user edits | deactivation restores; `PATH` is the stack; the user's text is kept, byte for byte |
| **Progress bars and output** `progress_bar_impl.cpp`, `output.cpp` | a thread that draws while managers are replaced and messages buffered | nobody draws after `terminate`; a message pushed in time is printed, once |

Other specs, channels and queries, package handling, the rest of the utilities, the
curl and libsolv wrappers and the three front ends are parsing, formatting, input
and output, lookups, or calls into the components above; no module is meant for
them. `PROJECT.json` lists all 31 with their status. Its `hazards` list 40 places
where something could go wrong that a test would hardly reach, each with the
properties that cover it or the reason why none does.

## The modules

A call is split into actions where another thread, process, callback or signal
can come in between, and nowhere else. Operators whose comment begins "As X,
but" (and one-line alternatives such as `DoesNotWait` beside `MayGoOn`) are plausible
bugs: no action uses them; each shows that a property notices its bug
(`mutants` in `PROJECT.json`).

| module | stands for |
|---|---|
| `MainExecutor` | `execution.hpp`: every call split at its unlocked and its locked read of `is_open`; `close` at each handler and each join |
| `TaskSynchronizer` | `tasksync.hpp`: a wrapped call split at `weak_ptr::lock`, the test of `join_requested`, the two sides of the mutex and `notify_one`; the owner at each step of `join_tasks` |
| `LockFile` | `util.cpp` 690-1130 on POSIX, for one path |
| `Downloader` | `downloader.cpp` from `MirrorAttempt` to `Downloader::download`, with the statistics of `mirror.cpp` |
| `DownloadContract` | what the callers of `download()` rely on; abstract |
| `FetchExtract` | `fetch_extract_packages`, `PackageFetcher`, `PackageExtractTask`, `counting_semaphore` |
| `Transaction` | `MTransaction::execute`, the rollback, the cache's memory, link and unlink |
| `SubdirIndex` | `subdirdata.cpp`, and what `package_database_loader.cpp` and `channel_loader.cpp` make of it |
| `RootUpdates` | the chain of root roles of `update_framework.cpp` with its copy in the cache (`repo_checker.cpp`) |
| `PycCompilation` | `transaction_context.cpp` and the script it starts, `compile_pyc.py` |
| `ExecutorInstance` | `singletons.cpp`: the pointer to the executor, and the default one |
| `ProgressBars` | the thread of `progress_bar_impl.cpp`, with the buffers of `output.cpp` |
| `Configuration` | `configuration.cpp`: the declarations, the loading sequence, the sources of a value, over several operations |
| `PackageRequests` | `install.cpp`, `update.cpp`, `remove.cpp`, `pinning.cpp`, and from the jobs to the actions in `solver/libsolv` |
| `ProblemsGraph` | `unsolvable.cpp`, `problems_graph.cpp` |
| `History`, `PythonicList` | `history.cpp`: the log and its requests; the lists of specs within it |
| `PrefixRecords`, `Digraph` | `prefix_data.cpp`; `util/graph.hpp` |
| `PrefixData`, `SharedFiles`, `Settings` | what is stated of several of them: the files in conda-meta; the files that processes share; what the user writes and libmamba reads (`Configuration`, `ShellInit`, `SpecExpression`) |
| `Versions`, `SpecExpression` | `version.cpp` and the predicates of `version_spec.cpp`; the parser and tree of expressions (`flat_bool_expr_tree.hpp`, `flat_binary_tree.hpp`) |
| `Activation`, `ShellInit` | `activation.cpp`; `shell_init.cpp` |
| `RunningProcesses` | `run.cpp` with `ps` of `micromamba/src/run.cpp` |
| `EnvironmentsList` | `environments_manager.cpp`, and the commands that call it |
| `TrashFiles` | `remove_or_rename` and `clean_trash_files` of `util.cpp` |
| `MCDownloader`, `MCFetchExtract`, `MCLockFile`, `MCTaskSynchronizer`, `MCProblems`, `MCProcesses` | instances for TLC |
| `MCThreads` | instances of `MainExecutor`, `TaskSynchronizer`, `ProgressBars`, `ProblemsGraph`, `LockFile`, `EnvironmentsList` and `TrashFiles` |
| `MCParts` | instances of `Transaction` and of the other modules from `SubdirIndex` to `ShellInit` |
| `ThreadProofs` | theorems and proofs about `MainExecutor`, `TaskSynchronizer`, `ProgressBars`, `RunningProcesses` and the shared files |
| `LockFileProofs`, `DownloaderProofs`, `FetchExtractProofs` | those about the module each is named after |
| `PartProofs` | those about `ExecutorInstance`, `RootUpdates`, `PycCompilation`, `PackageRequests`, `Versions`, `SubdirIndex` and `Transaction` |
| `PrefixProofs` | those about `Digraph`, `PrefixRecords`, `History`, `PythonicList` and `Activation` |
| `ExpressionProofs` | those about `SpecExpression` |
| `SettingsProofs` | those about `ShellInit`, `Configuration` and `Settings` |

**How they compose.** `Downloader` implements `DownloadContract` (checked as
`KeepsContract`, with the refinement mapping at the end of `Downloader`).
`FetchExtract` has the download of a transaction as the contract gives it:
packages arrive one by one, any failure throws, an interruption leaves early.
`Transaction` has the fetch as one action, whose success is what
`FetchedIsUsable` states. `FetchExtract` needs of the executor only that a
scheduled task runs; `fetch_abandoned` is about what the transaction does with
that. The modules are not joined into one state machine: what they exchange is
one call and its outcome, and a product would multiply states without new
interleavings. For the same reason `MCThreads` and `MCParts` put parts side by
side: `part`, chosen at first, says which one a behaviour is of, and the others
stay in one of their first states. `RunningProcesses` has an instance of `LockFile` in it, as
the code has: what that lock does not exclude, the processes meet. `PrefixRecords` extends `Digraph`, whose graph it
builds; `PackageRequests` is about one environment from command to command, with
`History` as the map of requested specs and `Transaction` as one step that succeeds.

**MainExecutor.** `threads` and `closeHandlers` are the vectors, as sets: their
order is not observable by the properties. `pc` says where a thread is, and `arg`
what its call carries. `accepted`, `winner` and `returned` are history
that no action reads; `winner` is the `close()` that closed the executor, of which the
properties speak. Another returns at once. `terminated` is `std::terminate` by a joinable thread that
is destroyed.

**TaskSynchronizer.** `remote` is the Status a callable was wrapped with, `epoch`
the number of the current one; `place` says where a callable is; `Holders` are the strong references that tasks
have, so that `Expired` is `weak_ptr::expired()`. `MaxEpoch` bounds `reset()`.

**LockFile.** `file` is the inode under the lock file's name and `lockOf` the
kernel's record locks, with the rules of fcntl(2): a lock belongs to a process
and an inode, closing any descriptor of the inode drops it, an unlinked inode
lives on. `shared` is the owner the registry's weak pointer leads to, `registry`
its mutex, which is held while the constructor waits in fcntl. `TimesOut` and
`WokenForNothing` are the ends of the timed wait, whose `ret` is uninitialised and whose
`cv.wait_for` has no predicate.

**Downloader.** `phase` is the place in the loop. `tracker`, `tried` and
`attempt` are `DownloadTracker::m_state`, `m_tried_mirrors` and the current
`MirrorAttempt`; `running`, `succeeded` and `failed` are the counters of each
mirror, which start with anything earlier downloads may have left (bound
`PastTransfers`). `Complete(r, outcome)` is a whole completion callback: the
mirror's counters, the attempt's and the tracker's new state, a possible new
mirror, a possible exception and the result that is saved. Clock and server
are the flag `wait`, set with a retryable failure and cleared by `RetryTimeComes`.

**FetchExtract.** `need` is what the fetcher found out, `tarball` and `dir` what
the disk holds, `task` where a package's task is. `Downloaded` and
`NoteDownload` are the two halves of the success callback, between which the task
may already run. A half extracted directory is `"partial"`; `Believed` is what
`has_valid_extracted_dir` makes of a directory.

**Transaction.** Every path of a package is a step (`NextPath`) and the conda-meta
file is written or removed last (`EndOp`), so that SIGINT, an exception or the
end of the process (`Stop`) can come between any two. `memo` and `found` are the
two maps of `PackageCacheData`, keyed by `PackageInfo::str()`, which has no
channel; the constant `Str` gives packages the same key where the code would.

**SubdirIndex.** An index is its version, and a file is the version it holds with
what the code asks of times (`young`, `agrees`, `newer`): the steps are the reads,
renames and writes, after each of which the process may end. `store` is what the disks
hold in each cache, `sub` the `SubdirData` of the run. `relabelled` is history: the
caches whose file was confirmed by the etag of another cache, which `load_cache`
allows (hazard at `subdirdata.cpp:647`), and so is `mixed`, those whose serialized
form was given such an etag (`ReadJson`); the properties are about the rest.

**RootUpdates.** Each version of the server's root has a name and a content that may
be bad; between `CopyRoot` and `RootCopied` the cached copy is torn, or not there. The loop
also ends without an error when an update is there but its check or its download fails
(`repo_checker.cpp:222-248`), so that `EndRun` may come at any time. `fellBack` is history:
a process ended between the removal of the cached root and the copy of the next
(`repo_checker.cpp:173-175`), from which point a run begins at the reference again and may end
below what an earlier one accepted, until that much was accepted again.

**PycCompilation.** The two processes with the names in the pipe to the child and the
lines in the pipe back, each with room for `PipeRoom`; `Drain` is the parent's wait,
which reads. `pycKilled` is history.

**ExecutorInstance.** One action per access of the atomic pointer and of the mutex;
`taskOf` says in which executor's task a thread is.

**ProgressBars.** `programPc` is the thread that calls `watch_print` and
`terminate`; a renderer per watch is a task of the executor, with its load and its
store of `m_state` apart. `~MessageLogger` reads `use_buffer` without the lock
(`output.cpp:570`) and takes it only to push: `unpushed` is what is on its way (`Give`, then
`PushLog`), and may come when the watch is long over. `midPass` is history: the messages pushed
while a pass goes over the buffers, or once the watch has been told to end. `overlooked` is history: the renderer's last store came
after the handshake, which the code does not prevent.

**Configuration.** `Configurables` lists every configurable with its needs; the loading
sequence is computed as in the code (`Once` is a recursive function) and each value by `Compute`
(`Merged` and the hooks) from the sources in their rank, a step each, in that sequence: `computed`
says how far the loading has come, so that a hook sees what was computed before it and what an
earlier load left. Values are followed for the configurables that decide the target
prefix and the channels.

**PackageRequests.** A command is a request, the jobs made of it, any answer libsolv
may give to these jobs (`IsAnswer`), the actions and what the history then says.

**ProblemsGraph.** libsolv's rules come one by one in any order (`ParseProblem`); then
the conflicts are simplified, the graph compressed, and walked, a step each.

**RunningProcesses.** `procFile` is the file of each pid, torn while it is written;
a pid may be used again. A signal ends a process wherever it is, unless the handler is
installed. The directory's lock is an instance of `LockFile` without a timeout, whose file is
made and removed by those that lock it; opening it does not fail. That lock lets two processes in at a time
(`lock_fresh`), and so it does here: `together` is history, the pairs of processes that
had the directory locked at once, and the properties are about all the others.

**EnvironmentsList, TrashFiles.** A step per read, write and rename of a file, between
which the process may end or another come in. `unsure` and `forgotten` are history: the
lines and files that two processes met over, or a killed one left, until a command that
puts them right has run alone. The properties are about the rest: the code does lose those.

**Versions, SpecExpression, PythonicList, Digraph.** The algorithm step by step or as
operators, against a definition that a reader can check at sight (`Before` on parts,
the value of an expression, what was written, the paths of the graph). In
`SpecExpression` the parser pops by a recursive function over the stack (`PoppedTo`), trees are
evaluated and written by one over their nodes, and the grammar and the meaning of tokens
(`WellFormed`, `Means`) are functions of the intervals of the text. In `PythonicList` a character is a
double quote, a backslash or any other: `std::quoted` puts a backslash before the first two
(`EscapedSpec`), the parser takes none away. The specs with two bounds on a version, as
`python[version=">=3.8,<3.9"]`, have quotes in them, and the parser stays at the first it meets.

**Activation, ShellInit, History.** One action per command, with the user, or the end of the
process, in between. `Activation` takes `Actives`, `Stack` and what is kept of a path
(`Without`, `Unique`) as recursive functions, `History` the lines read (`EntriesOf`) and the
specs set one by one (`Overwritten`, `SpecsMap`): so they can be proved about.
In `ShellInit` a start-up file is a sequence of lines, line ends and the block's two marks; `Replaced` is
what `std::regex_replace` does with the block's expression from the left, another
recursive function; `hooks` is the set of the hook files that exist. The user
may write below a block at any time, in the middle of a line too. What is stated is that the
user's bytes stay, in their order: the two line ends around a block are the block's own, and
when it goes the user's lines on both sides of it may have become one.

## The runs

`tlc -config <run>.cfg <module>`; every run takes about a minute or less, but for
`parts_calls`, which takes three. Where a property was about several parts of a
suite, its conjuncts are guarded by `part`.

| run | instance | states | shows |
|---|---|---|---|
| `threads_calls` | *executor*: 2 program threads that call and close; 2 tasks, 1 handler | 52 180 | the `close` that closes takes or drops every racing call cleanly, joins all it accepted, and returns |
| | *synchronizer*: 3 callables, each called again and again; join, reset, join, destruction | | no body runs after a join; calls come back |
| | *bars*: 2 managers, 2 watches, 2 messages | | nobody draws after `terminate`; messages pushed in time are printed; `terminate` returns |
| | *problems*: 11 minimal sets of rules, in any order | | the explanation names every reason once, in a graph that stays acyclic |
| | *lock*: 3 processes of one thread, the lock file there at the start, no timeout, failing opens, crashes | | mutual exclusion; attempts end |
| | *environments*: 2 prefixes, 2 processes, 3 commands | | what was registered is listed |
| | *trash*: 1 path, removed twice, a program that keeps it open, a deep clean beside the transaction | | the index names all trash |
| `tasksync_lost_wakeup` | 2 callables | | **violation** of `JoinReturns` |
| `lock_timed` | 2 threads of one process and one of another, timeouts, spurious wake-ups, crashes | 257 345 | no way out leaves a record lock behind |
| `processes_known` | 2 pids, 3 runs, a label that may be generated too, kills, `ps stop`, no lock file at first | 752 476 | the launched are listed, under names of their own but for two that the lock let in together |
| `lock_fresh` | 3 processes, no lock file yet | | **violation** of `Exclusion` |
| `downloader_calls` | 3 requests: a check whose failure is ignored, a local file, one with a plain and an authenticated (two-step) mirror; 2 at a time, `fail_fast`, any small mirror history | 228 232 | exact loads, the transfer limit, honest results, end, `DownloadContract` |
| `downloader_retry_after` | 2 requests | | **violation** of `RetryAfterRespected` |
| `fetch_calls` | 3 packages, one unverifiable, one in another cache; 2 slots out of `extract_threads = -2` on 4 cores | 321 322 | slots, usable packages, no traps, end |
| `fetch_abandoned` | the same | | **violation** of `FetcherOutlivesTask` |
| `parts_calls` | *transaction*: upgrade `a1` to `a2`, reinstall `d`, remove `b`, install `c`, keep `e`; `a2Other` has the key of `a2`; any cache contents | 225 446 | prefix and records, rollback, completeness, the cache's answers |
| | *subdir*: 2 caches, the second writable, 2 versions of the index | | an index that is used was named or confirmed by the server |
| | *roots*: 3 versions, any of them badly named or signed, or not downloaded | | the cached root was accepted; a run ends with the latest, but after a fall back |
| | *pyc*: 2 packages of 5 files, 3 of them bad, pipes for one line | | every compilation ends, and all that was handed over is compiled |
| | *instance*: 3 threads, 2 executors | | an instance outlives its tasks; calls return |
| | *configuration*: 2 environments, rc files at home and in one of them, 2 values, 2 operations | | an operation gets what it was given |
| | *requests*: python of 3 versions, a noarch package and one that depends on it | | specs are met, the rest is kept, actions are those of the answer |
| | *list*: specs with and without quotes and backslashes; *history*, *records*, *digraph* | | specs are read as they were quoted, or not at all; the last request counts; sorted records |
| | *versions*, *expression* | | one order; predicates; parsing |
| | *activation*, *shells* | | restoration, `PATH`, start-up files |
| `history_quoted` | 2 specs of up to 3 characters, double quotes or others | | **violation** of `WrittenAgainTheSame` |
| `problems_cycle` | one package that needs another version of itself | | **violation** of `PathFits` |

**Why the bounds are enough.** Each is the least at which the case of interest
arises, mostly with one more actor than it needs.

- *Executor*: one task inside `schedule` while another is being joined and a
  closer races both. More callers add repetitions of the same pair of reads, and
  the safety properties are proved for any number.
- *TaskSynchronizer*: one body running, one call that comes late, one call
  between its check and its count, at a second epoch as well.
- *ProgressBars*: a second watch after the first was ended, a manager that is replaced
  while the old one's thread still has its last store to do, and a message before
  and after either.
- *ProblemsGraph*: the sets of `MCProblems` have each type of rule, conflicts that are
  simplified or not, nodes that merge or split, a node met twice and leaves told
  together.
- *RunningProcesses*: a process that runs while another chooses its name and a third run
  takes the pid of one that was killed. Two processes are enough for both to be let in: one
  makes the lock file and removes it under the other, and comes back with the third run.
- *EnvironmentsList*: a command between the read and the rewrite of another, and one
  after both.
- *TrashFiles*: a file that is renamed while the index is written; `MaxTrash` 1 makes a
  second removal find its number taken.
- *LockFile*: holder, waiter and newcomer, the three that the failure in
  `lock_fresh` takes. Four inodes: the one under the name and one more for each
  thread, numbers being reused when nothing refers to them.
- *Downloader*: `MaxRetries` 1 and `MaxMirrorTries` 2 reach the last retry and the
  last mirror; a two-step mirror fails in its first or second step; `Parallel` 2 of
  3 makes one request wait. `PastTransfers` 1 makes a mirror bad
  (1 failure, no success) or good.
- *FetchExtract*: three packages over two slots, so that one waits for a slot.
- *Transaction*: every kind of change once, a path shared by the old and the new
  version, a path only the old version has, and a package of another channel with
  the same key.
- *SubdirIndex*: a cache that can be read only before one that can be written, and
  two versions, so that the server publishes between the read of an etag and the
  answer. That `IndexIsTrusted` is proved for any caches and versions
  took three caches to find out what `mixed` has to say (see the proofs).
- *RootUpdates*: three versions, so that one run accepts two and ends between them, and the
  next may end with less.
- *PycCompilation*: more bad files than the pipe has room for lines, in two packages.
- *ExecutorInstance*: one thread in `instance()`, one that destroys, one in a task.
- *Configuration*: a value for one operation and none for the next, of each source.
- *PackageRequests*: a new patch and a new minor version of python, a noarch package
  that is or is not linked again, a dependency that an update makes superfluous; one
  option at a time, commands one after another without bound.
- *PythonicList*: two specs of two characters, so that each kind of character is first and
  last in a spec, before another spec or at the end. *SpecExpression*: eight tokens, the least
  with a parenthesis nested in one and an operator on either side.
- *History*: three entries, the last of them torn or followed by a good one.
- *PrefixRecords*, *Digraph*: three nodes, which make every shape of cycle and diamond's half.
- *Versions*: any three of twelve versions: each rank of literal, zeros at the end, a
  local version and an epoch.
- *Activation*: three environments over each other and one reactivated or replaced, from a
  `PATH` with and without a directory twice and one of mamba;
  *ShellInit*: two prefixes, and a line of the user before the block, with or without a
  line end, and after it.

**Deadlock** is checked in every run but three. An owner that lost its wake-up
(`tasksync_lost_wakeup`) and the walk that fails (`problems_cycle`) really stop; so do most parts of `parts_calls` at their bounds.
`threads_calls` checks it for the executor and the lock: `MCEnded` lets only the other parts,
which come to the end of their bounds, stop. The other modules end in an explicit `Over` step.

**Narrower than the code on purpose.** Two properties hold only in the setting
of their run, and the hazard list says so: `CloseReturns` with
`Callers <- MCAllThreads` in `threads_calls.cfg` (a task that calls back: deadlock)
and `LockIsReal` in `lock_timed.cfg`, with or without a timeout (closing one
descriptor drops the other thread's lock), are violated. No part of libmamba schedules
from a task, but the documentation allows it. `NoTaskOutlivesClose` speaks of the
`close()` that closed the executor: a second one that comes meanwhile returns before the tasks
have ended. `AliveWhenUsed` in `TaskSynchronizer` is violated too (the
condition variable is notified after the mutex was released, when the object may be
gone); it is stated for the reader and listed in no run. Other properties name their own
exception in the formula, and what the code does there is in the hazard list:
`PycCompilationEnds` (a child that somebody else ends), `BarsAreRight` (a late store, and
messages that are pushed while a pass goes on or the watch ends), `IndexIsTrusted` (a cache
confirmed by another's etag), `ProcessesAreKnown` (two processes that the lock let in together),
`RootMovesOn` (an end between the removal and the copy), `SharedFilesAreRight` (what two
processes met over), `HistoryIsRight` (specs with a quote in them, or a backslash at their end, are not
gone past) and `VersionsAgree` (`~=` written and read again).

## Fairness

| module | assumed | justified by |
|---|---|---|
| `MainExecutor` | each call in progress goes on; each task ends | scheduling; the documentation of `close()` makes its return depend on the tasks (`execution.hpp:103-107`). Nothing makes anyone call anything |
| `TaskSynchronizer` | a begun call and a begun join go on; strong fairness for taking the mutex at the end of a body | scheduling; the owner gives the mutex up in every wait. Spurious wake-ups are possible, never assumed |
| `LockFile` | a call in progress, and a holder, goes on; strong fairness of the kernel's grant | a lock that is free again and again is given to each waiter in the end. Nothing forces a crash or a timeout |
| `Downloader` | the loop goes on; every transfer ends (strong: it is only seen in the update phase); the time of a retry comes | one thread; curl has a timeout and a minimum speed; time passes |
| `FetchExtract` | the main thread and each task go on | scheduling, and `DownloadEnds`. No task takes a slot twice, so that weak fairness is enough for the semaphore |
| `PycCompilation` | each of the two processes goes on | scheduling; both block only on pipes |
| `ExecutorInstance` | a call goes on; strong fairness for the end of a task | scheduling; a task that waits for the default executor's mutex gets it in the end |
| `ProgressBars` | `terminate` goes on, and so does each renderer | scheduling: renderers are threads of the executor, which is open |
| `PythonicList` | the parser goes on | one thread |
| `Transaction` | none | a crash or an exception may end it anywhere; only safety is stated |

In the suites the same fairness is stated for the steps of the part that was chosen.
The other modules state none: they are sequences of commands that nobody has to give.

## The proofs

54 theorems in eight modules (the three that state an inductive invariant alone are not listed in
`PROJECT.json`), proved by tlapm for every value of the constants
under the assumption named in each module (`DownloaderConstants`, ...), which
only gives the constants their kinds and is evaluated by TLC in every run. The
one assumption with content there is `Limit > 0` in `FetchExtractConstants`: the
code does not check that `extract_threads` leaves a slot (hazard at
`thread_utils.hpp:220`). Every proof has the shape `Init => IInv`,
`IInv /\ [Next]_vars => IInv'`, `IInv => Inv`, with one step per action.

**MainExecutor.** `TypeOK`, `NoTaskOutlivesClose`, `NoHandlerMissed`,
`JoinLoopUndisturbed`, for any threads, also with tasks that call back and any
number of closers. Why the race is won: a thread that read `is_open` before it
was cleared must read it again under the mutex that `close` takes afterwards.
`ThreadsInv` and `HandlersInv` say where `close` may still be while a caller is
past its second read; for this they need `LockInv` (a mutex is held exactly by
the thread in its critical section) and `CloserInv` (only one closer gets past
the compare-exchange). `PendingInv` keeps two calls from carrying one task.

**TaskSynchronizer.** The type, `RunningCountExact`, and `BodiesAreRight` (no body runs
after a join, and each is of the current epoch). `StatusInv` is the reason: whoever is inside a call holds a
reference to the current Status, so that a join which has seen the Status expire
and the count at zero has nobody inside, and a reset finds none to carry over. That `m_running_tasks`
never goes below zero follows from its being exactly a cardinality.

**ProgressBars.** `WatchesEndAndPrint` (`BarsAreRight`), for any watches and messages. `Control`
says where the program is in its handshake with the renderer: nobody but the thread of the
last watch draws, and only while the chrono says so (`LastDraws`, `Handshake`). `Printing`
follows a message from the read of the flag through the two buffers: it is given to one of them
(`GivenOnce`), what is in one was not printed (`KeptIsUnread`), and
what a pass left behind was pushed in the middle of it or afterwards (`LeftIsMidPass`), so that each is
printed once, still on its way, or excused by `midPass`. All of it holds only until a late store
(`overlooked`), after which nothing but the types is left.

**LockFile.** `TypeOK` and `NoStrayLock` without further assumption: a record
lock is always backed by a descriptor of its process (`BackedInv`), through every
failure, timeout and crash. `LockIsReal` if no two threads of a process lock
and there is no timeout (`OneThreadEach`, `~Timed`); `FoundFileStays` if the
file was there at the start (`FileAtStart`); `Exclusion` under all three. None of
these can be dropped for `Exclusion`: TLC refutes it with `FileAtStart = FALSE`
(the run `lock_fresh`), and in `lock_fresh.cfg` with `FileAtStart = TRUE` it
holds until `Timed = TRUE` or `ProcessOf <- MCTogether` is added.

**Downloader.** `TypeOK`, `WaitingCountExact`, `MirrorLoadExact`,
`TransfersTracked`, `AttemptBounded`, `DecidedForever`, for any finite set of
requests and any mirrors. The counts are exact only together with `StateInv`
(which attempt states a waiting tracker can have: otherwise a decided request
could start) and `AttemptInv` (an attempt that may start has a step or a retry
left).

**FetchExtract.** `TypeOK` and `SlotsExact` by counting the holders of slots
(`Accounting`). `FetchedIsUsable` by following one package through: validated
means good, made means complete (`ValidatedIsGood`, `MadeIsGood`), no task is
under way once the trackers were waited for (`Settled`), and what is cleared with
`allValid` still true has succeeded (`ClearedIsRight`).

**Transaction.** `TypeOK` without assumption. With `KeysApart` (no two packages
removed or installed share name, version and build) `LinkedFromItsOwn` and
`FetchedCanBeLinked`, by `CacheIsRight`: a remembered yes is about the right
package, a remembered no never survives the fetch. With `SolutionApart` besides
(packages that end up installed together share no path or key)
`PrefixMatchesRecords`, `RollbackRestores`, `DoneIsComplete`, for a solution of
any length: `Present` is what the two stacks alone say is installed; records
and paths follow it but for the operation in hand (`RecordsRight`,
`FilesRight`), and that operation is the next of the solution or the last of a
stack (`OpRight`), so that empty stacks mean the first state. Both assumptions
are needed: the hazard list has what happens without.

**Further theorems of these modules.** `AbortIsClean`: whatever way a fetch is
left, no directory remains that would be believed and is not whole. `ReturnIsHonest` and
`Refinement`: what `download()` gives back is what happened (`ResultsRight` follows each
result from the tracker to the answer), and `Downloader` implements
`DownloadContract`, initial states and every step.

**SubdirIndex.** The type, and `IndexesAreTrusted` (`IndexIsTrusted`): an index with a state
file that is believed is at least as new as its etag, and what the solver is given is at least as
new as what the server confirmed, for any caches, writable or not.
The induction needs what the run holds between its steps: that the cache it asks about
was believed (`AskedIsBelieved`), that the file it got is that of the etag it got
(`AnswerIsRight`), that a copy is made into the first writable cache
(`CopyIsRight`), and that the file whose state is about to be written is what the state will
say (`NotedIsRight`). For the solver's part it needs the history of each serialized form
(`SolvIsRight`, `KeptIsRight`) and that what was confirmed is what the state says
(`ConfirmedIsNamed`). This attempt found that a wrong etag spreads: the serialized form made of a
`repodata` file is written to `Home`, wherever the file is, with the etag of the cache that
was read last, from which point that of `Home` is not to be trusted either. With three caches TLC
shows it; the history variable `mixed` says which caches these are. `SubdirConstants`
asks for one writable cache, without which the code throws before.

**RootUpdates, ExecutorInstance, PycCompilation.** `RootsMoveOn`: a whole cached root was
accepted, and so was every version below it; a run that ends has its root in the cache, and no run
accepted a later one but for a fall back; for any number of versions, crashes and downloads that fail. `OneExecutorForItsTasks`: there
is at most one executor and a task's instance is the one it runs on, for any threads.
`CompiledBeforeGoingOn`: for any packages and any room in the pipes, a name that was handed over is in
the pipe, with a worker, compiled or one that cannot be (`NoneIsLost`); the child ends by
itself only with nothing left (`ChildIsDone`), and the parent goes on only then.

**PackageRequests.** `CommandsAnswered` (`CommandsDoAsAsked`), for any packages, dependencies and specs,
and any answer libsolv may give to the jobs. The lemmas follow an answer to its actions, one per
name (`AtMostOne`), through the filter and the relinked noarch packages, back to what is installed
(`AfterwardsIs`); then each command from its jobs (`WellAsked`) to what they leave.

**Versions.** `VersionsCompareAsMeant` (`VersionsAgree`): any three versions are in one order,
equal ones match alike under every operator, `~=` is as documented, and what is written with any other
operator is read as the same predicate. Comparing is stated as in
`version.cpp`, by the first position that differs (`FirstDifferenceIs`), at
three levels: atoms, parts and versions. An order of the elements, shown first for atoms, makes an order of
the sequences padded with the neutral element; the induction is over the least position.

**Digraph, PrefixRecords.** `GraphsAreSorted` and `RecordsSorted` (`RecordsAreRight`), for any graph, with
cycles. `WalkInv` is depth-first search: what is begun is on the stack, once
(`StatesAreKept`), the stack is a path (`StackIsAPath`), and what is done came
after its predecessors or is on a cycle with them (`DoneAfterPredecessors`). `PrefixInv` ties
the nodes to the names and the edges to what the records need.

**History, PythonicList.** `HistoryReadsWhatWasWritten` (`HistoryIsRight`), for any requests
and any number of transactions, each cut short anywhere or not; for lists of specs of any
number and length, whatever quotes and backslashes are in them. `HistoryInv` counts the lines of the last entry that are written and says that what is read of them
is what the log has (`WrittenSoFar`). `SpecsMapIs` says what the map has after any
requests: of those that mention a name the last one counts. `LaidOut` is where the
quotes are in what add_entry writes, and `ListInv` that the parser has, after k specs, these k as
they were quoted, and is at the quote that begins the next one (`NextQuote`) or, if that spec
has a quote in it or ends with a backslash, at a quote after a backslash for ever (`StuckAt`). A quote that
closes a spec that is found is not after a backslash, since in an escaped text without quotes
backslashes come in pairs.

**Activation.** `ShellsAreAlwaysRight` (`ShellsAreRight`, an invariant and an action
property), for any environments, start paths and number of levels. `Undone` keeps, for every level,
that deactivation makes of it the shell from before; `PathInv` that `PATH` is the
stack before what the first activation left, which is `Unique(WithCondabin(path))`: the
proof attempt showed that the first activation also drops a directory that the user's `PATH` has twice in a
row (`std::unique`, `activation.cpp`), and that deactivation does not bring it back.

What `Stack`, `Kept`, `EntriesOf` or `FlattenSeq` compute is shown without the library's induction theorems: a
recursive function has a solution because its steps go on (`StepsGoOn`), the solution is
unique (`RunIs`), and what it gives is right at every position because there is no
least one at which it is wrong (`LeastOf`).

**RunningProcesses, EnvironmentsList, TrashFiles.** `LaunchedAreKnown` (`ProcessesAreKnown`), for any pids,
labels and names, over the steps of `LockFile` itself. A process that is between the choice of
its name and the end of its file has the directory locked (`AtWorkHasDirectory`); any other that has it
too was met (`HoldersMet`), so that the name it chose is nobody else's (`NamedAreUnique`) and a
torn file is that of a process at work or of one that was killed (`TornIsExplained`). `RegisteredAreListed`: a line that is not
`unsure` is in the file or about to be (`IsListedOrWill`), since a rewriter alone has
read them all (`RewriterHasAll`, `OneRewriter`). `TrashIsKnown`: a file that is not
`forgotten` is in the index, or owed to it by the transaction or the deep clean
(`IndexedOrWill`), which still hold it (`CleaningSees`, `DeepSees`). `SharedFilesKept` is both (`SharedFilesAreRight`).

**ShellInit.** `StartUpFilesStayRight` (`StartUpFilesAreRight`), for any shells, prefixes and number of
inits, deinits, dry runs and lines of the user, below a block as well. `FileInv` says that a file is the user's
text with at most one block somewhere in it (`IsPlain`, `IsWith`); what the regular expression
finds in such a file is that block and nothing of the user's, so that replacing it leaves the rest.
That the hook of a block exists is proved of csh and powershell, whose hooks are their own. For
bash and zsh it is not stated, since it is false: the two share a hook file, and
deinit of either removes it while the other's block still names it.

**Configuration.** `OperationsStayIndependent` and `ConfigurationStaysRight`
(`ConfigurationIsRight`), for any environments, rc files, values and number of operations:
the first load after a teardown gives the prefix and the channels that the operation was asked for,
and fails only when it was given both a name and a prefix. `ConfigInv` has one
predicate per stage of the loading (`Fresh`, `AfterFile`, `AfterFileName`, `AfterName`,
`AfterPrefix`, `AfterChannels`), which says what every hook up to there has read and
left; `ListStays` that a list of channels set through the API stays at the head of the configured one. The hypothesis `[]LoadingIsInOrder` is that the loading sequence
has each of these hooks after those it needs. It is a calculation from the some ninety
declarations, with no variable of the user's in it: TLC does it in full, as a
conjunct of `SettingsAreRight`, in `parts_calls`.

**SpecExpression.** `ExpressionsAreUnderstood` (`ExpressionUnderstood`), for texts of any length: the parser accepts
exactly the grammar, and what it has built, and what is written of it, mean what the tokens say.
In `ExprInv` every entry of the stack of operators stands for an operand that was read in full (`StackEntry`, in
the `Frame` of the whole stack); popping one makes the operand of two (`Understands`). There are
always as many orphans as the frame needs (`Counts`), which is why the `return false` of
`push_operator` and `finalize` for want of orphans is never taken. A text
that is rejected goes on in no expression: the grammar fixes which token may come after which
(`GoesOn`), and at which depth.

**Settings.** `SettingsStayRight` (`SettingsAreRight`) is the three together, under `[]LoadingIsInOrder`.

**Only model-checked.** Liveness (`CallsEnd`, with the returns of calls, of `close` and of `terminate`;
`PartsEnd`, with the end of the parser of lists; `AttemptEnds`, `DownloadEnds`, `FetchEnds`), which needs
fairness and `ENABLED`, out of this prover's reach. `ExplanationIsRight`: the module behind it
walks a graph by `RECURSIVE` operators, which this prover cannot take, and its last part
(`PathFits`) is false for other rules than those of the run, as `problems_cycle` shows;
it is stated of the sets of rules that `MCProblems` lists. `LoadingIsInOrder`: a calculation
over constants, see above.

## Where code and documentation disagree

Each is a run that TLC finds violated; `PROJECT.json` quotes the documentation.

1. `downloader_retry_after`: `Retry-After` is ignored while another mirror might
   still be tried, which with one or two mirrors is always (`downloader.cpp:798`
   against `CHANGELOG.md:1002`).
2. `fetch_abandoned`: a failed or interrupted download ends the function that owns
   the fetchers while extraction threads use them (`transaction.cpp:797` against
   `package_fetcher.hpp:94-95`).
3. `lock_fresh`: the lock file is unlocked before it is removed, so that its
   removal can take the file from under the next holder, and a third process makes
   and locks another (`util.cpp:792` against `util.hpp:203-204`).
4. `tasksync_lost_wakeup`: a call that comes after the join request lets go of the
   last reference to the Status without a notification (`tasksync.hpp:118`
   against `tasksync.hpp:133-134`).
5. `history_quoted`: a spec with two bounds on a version is written with its quotes escaped,
   and the parser of the history, at a quote after a backslash, begins its next search at that same
   quote, for ever: `list`, `update` and `remove` in that prefix do not end (`history.cpp:137`
   against `test_history.cpp:78-79`).
6. `problems_cycle`: merging two versions of a package closes a cycle in a graph that had
   none, and the walk, which notes a node as visited after its children only, goes past
   the end of a vector whose size is called enough (`problems_graph.cpp:1162` against
   `problems_graph.cpp:978`).

**Observed without a run.** Read while modelling. But for the first two no document or test says
otherwise, so that no run claims them.

- *Executor*: a `close()` that comes while another still joins returns at once, when tasks it should
  have waited for still run (`execution.hpp:103-104`, `113`).
- *Versions*: `~=1.8` is written as `~=1`, since the formatter takes the level
  (the number of parts less one) for the number of parts to write
  (`version_spec.cpp:269` against `version_spec.hpp:177-178`); `ReparsingGivesTheSame`
  leaves `~=` out.
- *History*: backslashes within a spec come back doubled.
- *Configuration*: after an operation that succeeds there is no teardown, so that a
  second one of the same `Configuration` may end with "Cannot set both prefix and env
  name"; lists set through the API absorb the values of command line and rc files;
  an explicit spec file sets a configurable through the API that survives the teardown;
  `m_load_lock` stays true after an exception.
- *Commands*: `python_binary_compatible` is called with its arguments swapped;
  `--force-reinstall` of a spec that the installed version does not match reinstalls that
  version; `update` of a package that is not installed is recorded as requested;
  `remove` adds no pins and solves with the installed packages alone; `update <spec>`
  cleans dependencies without jobs that keep the requested ones; the constructor of
  `MTransaction` for explicit removals builds the history's specs from packages it has moved
  from; filtered changes become two `Omit` actions, of which the relink takes the first.
- *Problems graph*: ids of solvables and of dependencies are keys of one map;
  `default_merge_criteria` is not transitive; in dense graphs the split nodes may
  outnumber the nodes; leaves of two kinds told in one entry are a `bad_variant_access`.
- *Start-up files*: bash and zsh share `etc/profile.d/mamba.sh`, which deinit of either
  removes while the other's start-up file may still have its block (`shell_init.cpp`); deinit
  takes both line ends around its block, so that a user's line without a line end before it and one
  written after it become one line (`shell_init.cpp:38-40`, `614`).
- *Activation*: `build_activate` calls `std::remove_if` on the variables marked `***unset***` without
  erasing anything, so that such a variable may be exported with that text (`activation.cpp:568-572`).
- *Link*: a path that two packages share belongs to the one linked last, and goes with
  either (`link.cpp:608`).
- *Threads*: `extract_threads` of `-n` on fewer than n cores makes a limit of zero
  or less (`thread_utils.hpp:220`); `default_executor` is made without looking at what a
  program's executor does between the check and the construction; the null process when python
  cannot be started is used (`transaction_context.cpp:271`).
- *Signals*: `reset_sig_interrupted` clears the flag and then replaces the signal
  handler, which sends SIGINT to the old receiver, which raises the flag again.
- *Processes*: a torn file that a killed writer left makes every later `run` and `ps`
  throw; `ps stop` may signal a pid that is another's by then (`micromamba/src/run.cpp:115`);
  `-a name` is put into `command` after `wrapped_command` was made from it, so that the name
  never reaches the process.
- *Environments and trash*: an environment that cannot be removed whole is renamed, and the
  line about that goes to an index within the directory whose name is gone; `clean --trash`
  says all environments, and looks under the root prefix only; `clean` collects before its
  prompt and takes no lock, and `clean --locks` removes lock files that are in use.
- *Bars*: the message vector is moved without its lock in `print_buffer`; `watch_print` on an
  executor that is closed leaves `terminate` waiting for ever; a log message that read the flag
  in time and is pushed after the last print is kept until the next watch, or not printed at all (`output.cpp:570-577`); the subtraction of
  aggregated bars wraps when a total is unknown.

## What is left out

- *Of modelled components*: the Windows lock, `allow_file_locking(false)`, and
  locks on several paths; contents of transfers and requests, curl handles and
  progress; several package caches at once in `Transaction` (`FetchExtract` has
  the tarball in another cache), answers about tarballs;
  prefix replacement, entry points, menus and scripts, except that a script may
  throw; waiting for the pyc compilation.
- *Merged*: in `Transaction` an exception and the end of the process are one
  action, because both leave the same behind and nothing undoes either. In
  `FetchExtract` every exception inside an extraction is one step.
- *External*: curl, libsolv, libarchive, the kernel and the C++ library are seen
  as their outcomes; fcntl and unlink as their documented effects.
- *Undefined behaviour* is a choice of outcomes where the code meets it: the
  uninitialised `ret` of the timed lock, the torn `m_downloaded_url`,
  `build_result` on an empty vector.
- *Of the later components*: the zst and shards variants of an index; the roles other
  than root; the zip and text of scripts, the Windows registry; explicit and lock file
  installs; match specs but for their version part; validation of values of
  configurables; `nodefaults` in the hook of the channels; the exported variables that are
  empty and so unset (`get_export_unset_vars`), and a variable that an environment's state file marks
  `***unset***`; what bars and tables look like.
- *Of `mamba run`*: an error of the lock itself, which ends the run (`lock_proc_dir`).
- *Components without a module* are listed in `PROJECT.json` with the reason.

## The plan

Done, in this order: MainExecutor, Downloader and its contract, FetchExtract,
LockFile, TaskSynchronizer, Transaction, and their proofs; then the index, the root
role, pyc compilation, the executor's instance, the sequential components, the
problems graph, the progress bars and the files that processes share; then the refinement, and the
proofs of every safety property that a run checks, but for one.

What remains worth doing:

1. Proofs: `ExplanationIsRight`, with recursive functions in place of the operators and the
   property of libsolv's rules that keeps its graphs acyclic; `LoadingIsInOrder` from the
   declarations.
2. Match specs: what `str` writes is what `parse` reads, and the precedence of their
   setters; explicit and lock file installs as commands of `PackageRequests`.
3. Several package caches in `Transaction`, with tarball answers and prefix
   replacement.
