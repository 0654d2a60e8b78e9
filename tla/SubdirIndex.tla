---------------------------- MODULE SubdirIndex ----------------------------
(***************************************************************************)
(* SubdirData (subdirdata.cpp): the index of a channel's platform, found in *)
(* the caches of the package directories or asked of the server with the    *)
(* etag that was kept, and read into the solver (package_database_loader,   *)
(* channel_loader).  A cache holds the repodata file, its state file, which *)
(* names the etag and the size and time of the repodata file that it is     *)
(* about, and the serialized form of libsolv.                               *)
(*                                                                          *)
(* Versions of the index are numbers and the etag of a version is the       *)
(* version.  Times are kept as what is asked of them: whether the repodata  *)
(* file is younger than the allowed age (or may be used whatever its age:   *)
(* offline, use_index_cache), whether the state file agrees with it, and    *)
(* whether the serialized form is not older.  One process at a time; it may *)
(* end anywhere, and another starts from the files it left.                 *)
(***************************************************************************)
EXTENDS Integers

CONSTANTS
    CacheCount,      \* pkgs_dirs, in their order
    WritableCaches,  \* those this user can write
    MaxVersion       \* bounds what the server publishes

Caches == 1..CacheCount
Versions == 1..MaxVersion
Absent == 0
NoEtag == 0
NoCache == 0
Broken == -1     \* served, but no index
Partial == -2    \* half copied

ASSUME SubdirConstants ==
    /\ CacheCount \in Nat /\ MaxVersion \in Nat \ {0}
    /\ WritableCaches \subseteq Caches
    /\ \E c \in WritableCaches : \A d \in WritableCaches : c <= d   \* not empty

Home == CHOOSE c \in WritableCaches : \A d \in WritableCaches : c <= d

VARIABLES
    published,  \* the version the server has
    store,      \* the files of each cache
    sub,        \* the SubdirData, and what load_channels makes of it
    relabelled, \* history: the caches whose file was confirmed by the etag of another
    mixed       \* history: the caches whose serialized form was given such an etag

subdirVars == <<published, store, sub, relabelled, mixed>>

NoFiles == [json |-> Absent, young |-> FALSE, note |-> "none", etag |-> NoEtag,
            agrees |-> FALSE, solv |-> Absent, origin |-> NoEtag, newer |-> FALSE]
FirstIndex == [NoFiles EXCEPT !.json = 1, !.note = "whole", !.etag = 1, !.agrees = TRUE]

\* A SubdirData as its constructor begins.
Fresh(again) ==
    [pc |-> "scan", at |-> 1, etag |-> NoEtag, expired |-> NoCache, valid |-> NoCache,
     jsonOK |-> FALSE, solvOK |-> FALSE, solvKept |-> FALSE, temp |-> Absent,
     confirmed |-> Absent, again |-> again, got |-> Absent]
NotRunning == [Fresh(FALSE) EXCEPT !.pc = "idle"]

SubdirInit ==
    /\ published = 1
    /\ \E held \in SUBSET Caches :
         store = [c \in Caches |-> IF c \in held THEN FirstIndex ELSE NoFiles]
    /\ sub = NotRunning
    /\ relabelled = {} /\ mixed = {}

-----------------------------------------------------------------------------
(* load_cache *)

AlwaysAgrees(c) == TRUE
\* check_valid_metadata: the size and the time are those in the state file.
Agrees(c) == store[c].agrees

\* SubdirMetadata::read.  The server's file carries no header of its own, so
\* without a state file it is ignored.
Believed(c) == store[c].note = "whole" /\ Agrees(c)

Next1(s) == [s EXCEPT !.at = @ + 1]

\* A valid repodata file: the first one is used, unless a later cache also has
\* a serialized form, which ends the search.
Found(c) ==
    LET s == [sub EXCEPT !.etag = store[c].etag, !.jsonOK = TRUE,
                         !.valid = IF sub.jsonOK THEN @ ELSE c]
    IN  IF store[c].solv # Absent /\ store[c].newer
        THEN [s EXCEPT !.solvOK = TRUE, !.valid = c, !.at = CacheCount + 1]
        ELSE Next1(s)

\* One that has to be asked about: the first such cache is kept, with the
\* metadata of the last.
Expired(c) ==
    Next1([sub EXCEPT !.etag = store[c].etag,
                      !.expired = IF @ = NoCache THEN c ELSE @])

\* A state file that is no json throws out of the constructor: the channel is
\* left out (create_subdirs).
Scan ==
    /\ sub.pc = "scan" /\ sub.at <= CacheCount
    /\ LET c == sub.at
       IN  sub' = IF store[c].json = Absent THEN Next1(sub)
                  ELSE IF store[c].note = "torn" THEN [sub EXCEPT !.pc = "ended"]
                  ELSE IF ~Believed(c) THEN Next1(sub)
                  ELSE IF store[c].young THEN Found(c)
                  ELSE Expired(c)
    /\ UNCHANGED <<published, store, relabelled, mixed>>

Scanned ==
    /\ sub.pc = "scan" /\ sub.at > CacheCount
    /\ sub' = [sub EXCEPT !.pc = IF sub.jsonOK THEN "read" ELSE "ask"]
    /\ UNCHANGED <<published, store, relabelled, mixed>>

-----------------------------------------------------------------------------
(* The answers to build_index_request *)

\* Neither loaded nor, for noarch, without an error; offline nothing is asked.
NoAnswer ==
    /\ sub.pc = "ask"
    /\ sub' = [sub EXCEPT !.pc = "ended"]
    /\ UNCHANGED <<published, store, relabelled, mixed>>

\* 200: finalize_transfer, where the etag is that of the answer.
Answered ==
    /\ sub.pc = "ask"
    /\ \/ sub' = [sub EXCEPT !.pc = "rename", !.temp = published, !.etag = published,
                             !.confirmed = published]
       \/ sub' = [sub EXCEPT !.pc = "rename", !.temp = Broken, !.etag = NoEtag]
    /\ UNCHANGED <<published, store, relabelled, mixed>>

WroteStillAgrees(c, content) ==
    [store EXCEPT ![c].json = content, ![c].young = TRUE, ![c].newer = FALSE]
\* The repodata file is another now: the state file and the serialized form
\* are about the old one.
Wrote(c, content) ==
    [store EXCEPT ![c].json = content, ![c].young = TRUE, ![c].newer = FALSE,
                  ![c].agrees = FALSE]

Rename ==
    /\ sub.pc = "rename"
    /\ store' = Wrote(Home, sub.temp)
    /\ sub' = [sub EXCEPT !.pc = "note", !.valid = Home, !.jsonOK = TRUE]
    /\ relabelled' = relabelled \ {Home}
    /\ UNCHANGED <<published, mixed>>

\* 304: use_existing_cache.  In place if it can be written, or else copied.
NotModified ==
    /\ sub.pc = "ask" /\ sub.etag = published
    /\ LET c == sub.expired
       IN  /\ sub' = [sub EXCEPT !.confirmed = published,
                     !.pc = IF c \in WritableCaches THEN "refresh" ELSE "copy",
                     !.valid = IF c \in WritableCaches THEN c ELSE Home]
           /\ relabelled' = IF c \in WritableCaches /\ store[c].etag # sub.etag
                            THEN relabelled \cup {c} ELSE relabelled
    /\ UNCHANGED <<published, store, mixed>>

\* replace_file removes, then copies.
CopyBegins ==
    /\ sub.pc = "copy"
    /\ store' = Wrote(Home, Partial)
    /\ sub' = [sub EXCEPT !.pc = "copying"]
    /\ UNCHANGED <<published, relabelled, mixed>>

CopyEnds ==
    /\ sub.pc = "copying"
    /\ store' = Wrote(Home, store[sub.expired].json)
    /\ sub' = [sub EXCEPT !.pc = "copySolv"]
    /\ relabelled' = IF store[sub.expired].etag = sub.etag THEN relabelled \ {Home}
                     ELSE relabelled \cup {Home}
    /\ UNCHANGED <<published, mixed>>

\* The copy has the time of the copy.
CopySolv ==
    /\ sub.pc = "copySolv"
    /\ store' = IF store[sub.expired].solv = Absent THEN store
                ELSE [store EXCEPT ![Home].solv = store[sub.expired].solv,
                                   ![Home].origin = store[sub.expired].origin,
                                   ![Home].newer = TRUE]
    /\ sub' = [sub EXCEPT !.pc = "refresh"]
    /\ mixed' = IF store[sub.expired].solv = Absent THEN mixed ELSE mixed \ {Home}
    /\ UNCHANGED <<published, relabelled>>

\* refresh_last_write_time: the repodata file; the serialized form, if it was
\* not older; then the state file.
Refresh ==
    /\ sub.pc = "refresh"
    /\ store' = Wrote(sub.valid, store[sub.valid].json)
    /\ sub' = [sub EXCEPT !.pc = "refreshSolv", !.jsonOK = TRUE,
                          !.solvKept = store[sub.valid].solv # Absent /\ store[sub.valid].newer]
    /\ UNCHANGED <<published, relabelled, mixed>>

RefreshSolv ==
    /\ sub.pc = "refreshSolv"
    /\ store' = [store EXCEPT ![sub.valid].newer = sub.solvKept]
    /\ sub' = [sub EXCEPT !.pc = "note", !.solvOK = sub.solvKept]
    /\ UNCHANGED <<published, relabelled, mixed>>

\* SubdirMetadata::write truncates, then writes.
Truncate ==
    /\ sub.pc = "note"
    /\ store' = [store EXCEPT ![sub.valid].note = "torn"]
    /\ sub' = [sub EXCEPT !.pc = "noting"]
    /\ UNCHANGED <<published, relabelled, mixed>>

WriteState ==
    /\ sub.pc = "noting"
    /\ store' = [store EXCEPT ![sub.valid].note = "whole", ![sub.valid].etag = sub.etag,
                              ![sub.valid].agrees = TRUE]
    /\ sub' = [sub EXCEPT !.pc = "read"]
    /\ UNCHANGED <<published, relabelled, mixed>>

-----------------------------------------------------------------------------
(* load_subdir_in_database *)

AnySolv(c) == store[c].solv # Absent
\* valid_solv_cache; and read_solv: the origin the file was written with is the
\* one that is expected.
UsableSolv(c) == sub.solvOK /\ store[c].solv # Absent /\ store[c].origin = sub.etag

ReadSolv ==
    /\ sub.pc = "read" /\ UsableSolv(sub.valid)
    /\ sub' = [sub EXCEPT !.pc = "loaded", !.got = store[sub.valid].solv]
    /\ UNCHANGED <<published, store, relabelled, mixed>>

\* The serialized form goes to the writable directory, wherever the repodata
\* file is, and with the etag of the cache that was read last.
ReadJson ==
    /\ sub.pc = "read" /\ ~UsableSolv(sub.valid) /\ store[sub.valid].json \in Versions
    /\ store' = [store EXCEPT ![Home].solv = store[sub.valid].json, ![Home].origin = sub.etag,
                              ![Home].newer = TRUE]
    /\ sub' = [sub EXCEPT !.pc = "loaded", !.got = store[sub.valid].json]
    /\ mixed' = IF store[sub.valid].etag = sub.etag /\ sub.valid \notin relabelled
                THEN mixed \ {Home} ELSE mixed \cup {Home}
    /\ UNCHANGED <<published, relabelled>>

\* SubdirData::clear_cache looks for the names of the files without their
\* directory: nothing is removed.
Cleared(c) == store

\* load_channels_impl starts again, once, unless it is offline.
ReadFails ==
    /\ sub.pc = "read" /\ ~UsableSolv(sub.valid) /\ store[sub.valid].json \notin Versions
    /\ store' = IF sub.again THEN store ELSE Cleared(sub.valid)
    /\ \/ sub' = [sub EXCEPT !.pc = "ended"]
       \/ ~sub.again /\ sub' = Fresh(TRUE)
    /\ UNCHANGED <<published, relabelled, mixed>>

-----------------------------------------------------------------------------
(* Around it *)

Create ==
    /\ sub.pc \in {"idle", "ended", "loaded"}
    /\ sub' = Fresh(FALSE)
    /\ UNCHANGED <<published, store, relabelled, mixed>>

\* The process ends anywhere.
EndOfProcess ==
    /\ sub.pc # "idle"
    /\ sub' = NotRunning
    /\ UNCHANGED <<published, store, relabelled, mixed>>

Publish ==
    /\ published < MaxVersion
    /\ published' = published + 1
    /\ UNCHANGED <<store, sub, relabelled, mixed>>

\* Time passes.
GrowsOld(c) ==
    /\ store[c].young
    /\ store' = [store EXCEPT ![c].young = FALSE]
    /\ UNCHANGED <<published, sub, relabelled, mixed>>

\* Another user's mamba updates a cache that this one cannot write, and has
\* read it or not.
OtherUser(c) ==
    /\ c \notin WritableCaches /\ store[c].json # published
    /\ \E solv \in {Absent, published} :
         store' = [store EXCEPT ![c] = [FirstIndex EXCEPT !.json = published, !.etag = published,
                                          !.young = TRUE, !.solv = solv, !.origin = solv,
                                          !.newer = solv # Absent]]
    /\ UNCHANGED <<published, sub, relabelled, mixed>>

SubdirNext ==
    \/ Scan \/ Scanned \/ NoAnswer \/ Answered \/ Rename
    \/ NotModified \/ CopyBegins \/ CopyEnds \/ CopySolv \/ Refresh \/ RefreshSolv
    \/ Truncate \/ WriteState
    \/ ReadSolv \/ ReadJson \/ ReadFails
    \/ Create \/ EndOfProcess \/ Publish
    \/ \E c \in Caches : GrowsOld(c) \/ OtherUser(c)

SubdirSpec == SubdirInit /\ [][SubdirNext]_subdirVars

-----------------------------------------------------------------------------
Contents == Versions \cup {Absent, Broken, Partial}
SubdirTypeOK ==
    /\ published \in Versions
    /\ store \in [Caches ->
          [json : Contents, young : BOOLEAN, note : {"none", "torn", "whole"},
           etag : Versions \cup {NoEtag}, agrees : BOOLEAN, solv : Versions \cup {Absent},
           origin : Versions \cup {NoEtag}, newer : BOOLEAN]]
    /\ sub \in
          [pc : {"idle", "scan", "ask", "rename", "copy", "copying", "copySolv", "refresh",
                 "refreshSolv", "note", "noting", "read", "loaded", "ended"},
           at : 1..(CacheCount + 1), etag : Versions \cup {NoEtag},
           expired : Caches \cup {NoCache}, valid : Caches \cup {NoCache},
           jsonOK : BOOLEAN, solvOK : BOOLEAN, solvKept : BOOLEAN,
           temp : Contents, confirmed : Versions \cup {Absent}, again : BOOLEAN,
           got : Versions \cup {Absent}]

\* A repodata file that is believed is the version its etag names or a later
\* one, wherever an earlier process ended: half a copy is never believed, a
\* new file never with the state of an old one, and no 304 can make an old
\* file pass for a new one, but for the files in relabelled.
EtagNamesIndex ==
    \A c \in Caches \ relabelled : Believed(c) =>
        IF store[c].etag = NoEtag THEN store[c].json = Broken
                                  ELSE store[c].json >= store[c].etag

\* What the solver is given is what the server has confirmed, or newer, whether
\* it comes from the repodata file or from the serialized form, but for the
\* caches in relabelled and mixed.
SolverGetsConfirmed ==
    sub.pc = "loaded" /\ sub.valid \notin relabelled \cup mixed => sub.got >= sub.confirmed

\* What a run takes for the index of a platform is what the server has named
\* or confirmed, across caches, conditional requests and ends of the process.
IndexIsTrusted == SubdirTypeOK /\ EtagNamesIndex /\ SolverGetsConfirmed

\* use_existing_cache, "Cache is still valid": the file that is kept after a
\* 304 is the one that the server has confirmed.
ConfirmedIsKept == relabelled = {}

\* "Deleting cache, and retrying": the retry does not find what has failed.
RetryStartsClean ==
    sub.again => \A c \in Caches : store[c].json = Broken => sub.temp = Broken
=============================================================================
