-------------------------- MODULE FetchExtractProofs --------------------------
(***************************************************************************)
(* Proofs about FetchExtract, for any packages and any number of slots.     *)
(* Typed types every variable but bounds slots only as an integer: its      *)
(* bounds are a consequence of Accounting, which counts the holders.        *)
(***************************************************************************)
EXTENDS FetchExtract, FiniteSetTheorems, TLAPS

Typed ==
    /\ main \in {"downloading", "waiting", "clearing", "fetched", "aborted", "unfinished", "threw"}
    /\ interrupted \in BOOLEAN /\ allValid \in BOOLEAN
    /\ need \in [Packages -> Needs]
    /\ tarball \in [Packages -> Contents]
    /\ dir \in [Packages -> Dirs]
    /\ task \in [Packages -> TaskPC]
    /\ noting \in Packages \cup {None}
    /\ url \in [Packages -> BOOLEAN]
    /\ listed \in [Packages -> {"nothing", "url", "empty"}]
    /\ slots \in Int
    /\ cleared \in SUBSET Packages

Accounting == slots = Limit - Cardinality(InSlot) /\ slots >= 0

\* What is being extracted has passed validation, in the fetcher's constructor
\* or in the task.
ValidatedIsGood ==
    \A p \in Packages \ Unverifiable :
        task[p] \in {"valid", "queueing", "extracting", "recording", "ok"} => tarball[p] = "good"

MadeIsGood ==
    \A p \in Packages \ Unverifiable :
        task[p] = "ok" \/ need[p] = "nothing" => dir[p] = "good"

Idle == \A p \in Packages : need[p] = "nothing" => task[p] = "none"

ClearedIsRight ==
    \A p \in cleared : /\ p \in ToDo
                       /\ task[p] \in {"ok", "invalid", "failed"}
                       /\ allValid => task[p] = "ok"

FetchedIsCleared == main = "fetched" => allValid /\ cleared = ToDo

\* Once the trackers have been waited for, no task is under way.
Settled == main \in {"clearing", "fetched"} => TasksEnded

-----------------------------------------------------------------------------
LEMMA LimitIsPositive == Limit \in Int /\ Limit > 0 /\ IsFiniteSet(Packages)
BY FetchExtractConstants DEF FetchExtractConstants, Limit

LEMMA TypedInit == Init => Typed
<1>1. SUFFICES ASSUME Init PROVE Typed OBVIOUS
<1>2. Limit \in Int BY LimitIsPositive
<1> QED BY <1>1, <1>2 DEF Init, Typed, Needs, Contents, Dirs, TaskPC

LEMMA TypedNext == Typed /\ [Next]_vars => Typed'
<1>1. SUFFICES ASSUME Typed, [Next]_vars PROVE Typed' OBVIOUS
<1> USE <1>1
<1>2. ASSUME NEW p \in Packages, Downloaded(p) PROVE Typed'
  BY <1>2 DEF Downloaded, Goto, Typed, Contents, TaskPC
<1>3. CASE NoteDownload BY <1>3 DEF NoteDownload, Typed, disk
<1>4. CASE DownloadFails BY <1>4 DEF DownloadFails, Typed, disk, fetcher
<1>5. CASE DownloadInterrupted
  <2>1. task' \in [Packages -> TaskPC]
    BY <1>5 DEF DownloadInterrupted, Typed, TaskPC
  <2> QED BY <1>5, <2>1 DEF DownloadInterrupted, Typed, disk, fetcher
<1>6. CASE AllDownloaded BY <1>6 DEF AllDownloaded, Typed, disk, fetcher
<1>7. ASSUME NEW p \in Packages, Validate(p) PROVE Typed'
  BY <1>7 DEF Validate, Goto, Typed, disk, fetcher, TaskPC
<1>8. ASSUME NEW p \in Packages, Extract(p) PROVE Typed'
  BY <1>8 DEF Extract, Goto, Typed, disk, fetcher, TaskPC
<1>9. ASSUME NEW p \in Packages, TakeSlot(p) PROVE Typed'
  BY <1>9 DEF TakeSlot, Goto, Typed, disk, fetcher, TaskPC
<1>10. ASSUME NEW p \in Packages, Unpack(p) PROVE Typed'
  BY <1>10 DEF Unpack, Goto, Typed, fetcher, TaskPC, Dirs
<1>11. ASSUME NEW p \in Packages, ExtractFails(p) PROVE Typed'
  BY <1>11 DEF ExtractFails, Goto, Typed, fetcher, TaskPC, Dirs, Unlock
<1>12. ASSUME NEW p \in Packages, Record(p) PROVE Typed'
  BY <1>12 DEF Record, Goto, Typed, fetcher, TaskPC, Dirs, Contents, Unlock
<1>13. CASE Waited BY <1>13 DEF Waited, Typed, disk, fetcher
<1>14. ASSUME NEW p \in Packages, ClearNext(p) PROVE Typed'
  <2>1. CASE Wrong(p)
    <3>1. dir' \in [Packages -> Dirs]
      BY <1>14, <2>1 DEF ClearNext, Typed, Dirs
    <3> QED BY <1>14, <2>1, <3>1 DEF ClearNext, Typed, fetcher, Contents
  <2>2. CASE ~Wrong(p)
    BY <1>14, <2>2 DEF ClearNext, Typed, fetcher
  <2> QED BY <2>1, <2>2
<1>15. CASE ClearThrows BY <1>15 DEF ClearThrows, Typed, disk, fetcher
<1>16. CASE Finish BY <1>16 DEF Finish, Typed, disk, fetcher
<1>17. CASE Interrupt BY <1>17 DEF Interrupt, Typed, disk, fetcher
<1>18. CASE UNCHANGED vars BY <1>18 DEF vars, Typed, disk, fetcher
<1> QED BY <1>2, <1>3, <1>4, <1>5, <1>6, <1>7, <1>8, <1>9, <1>10, <1>11, <1>12, <1>13,
        <1>14, <1>15, <1>16, <1>17, <1>18 DEF Next, Over

-----------------------------------------------------------------------------
(* The semaphore *)

LEMMA AccountingInit == Init => Accounting
<1>1. SUFFICES ASSUME Init PROVE Accounting OBVIOUS
<1>2. InSlot = {} BY <1>1 DEF Init, InSlot
<1>3. Cardinality(InSlot) = 0 BY <1>2, FS_EmptySet
<1> QED BY <1>1, <1>3, LimitIsPositive DEF Init, Accounting

\* Steps that take no slot and give none back.
LEMMA SameHolders ==
    ASSUME Accounting, InSlot' = InSlot, UNCHANGED slots
    PROVE  Accounting'
BY DEF Accounting

LEMMA AccountingNext == Typed /\ Accounting /\ [Next]_vars => Accounting'
<1>1. SUFFICES ASSUME Typed, Accounting, [Next]_vars PROVE Accounting' OBVIOUS
<1> USE <1>1
<1> DEFINE Here(p) == task[p] \in {"extracting", "recording"}
<1>2. IsFiniteSet(InSlot) BY LimitIsPositive, FS_Subset DEF InSlot
<1>3. ASSUME NEW p \in Packages, NEW c \in TaskPC, task' = [task EXCEPT ![p] = c],
             UNCHANGED slots, Here(p) <=> c \in {"extracting", "recording"}
      PROVE  Accounting'
  <2>1. InSlot' = InSlot BY <1>3 DEF InSlot, Typed
  <2> QED BY <1>3, <2>1, SameHolders
<1>4. ASSUME UNCHANGED <<task, slots>> PROVE Accounting'
  <2>1. InSlot' = InSlot BY <1>4 DEF InSlot
  <2> QED BY <1>4, <2>1, SameHolders
<1>5. ASSUME NEW p \in Packages, NEW c \in {"failed", "ok"}, task' = [task EXCEPT ![p] = c],
             slots' = slots + 1, Here(p)
      PROVE  Accounting'
  <2>1. InSlot' = InSlot \ {p} /\ p \in InSlot BY <1>5 DEF InSlot, Typed
  <2>2. Cardinality(InSlot') = Cardinality(InSlot) - 1
    BY <1>2, <2>1, FS_RemoveElement
  <2>3. Cardinality(InSlot) \in Nat BY <1>2, FS_CardinalityType
  <2> QED BY <1>5, <2>2, <2>3, LimitIsPositive DEF Accounting, Typed
<1>6. ASSUME NEW p \in Packages, Downloaded(p) PROVE Accounting'
  BY <1>6, <1>3 DEF Downloaded, Goto, TaskPC
<1>7. CASE DownloadInterrupted
  <2>1. InSlot' = InSlot BY <1>7 DEF DownloadInterrupted, InSlot, ToDownload, Typed
  <2>2. UNCHANGED slots BY <1>7 DEF DownloadInterrupted
  <2> QED BY <2>1, <2>2, SameHolders
<1>8. ASSUME NEW p \in Packages, Validate(p) PROVE Accounting'
  <2>1. UNCHANGED slots /\ ~Here(p) BY <1>8 DEF Validate
  <2>2. PICK c \in {"valid", "invalid", "threw"} : task' = [task EXCEPT ![p] = c]
    BY <1>8 DEF Validate, Goto
  <2> QED BY <2>1, <2>2, <1>3 DEF TaskPC
<1>9. ASSUME NEW p \in Packages, Extract(p) PROVE Accounting'
  <2>1. UNCHANGED slots /\ ~Here(p) BY <1>9 DEF Extract
  <2>2. PICK c \in {"queueing", "threw"} : task' = [task EXCEPT ![p] = c]
    BY <1>9 DEF Extract, Goto
  <2> QED BY <2>1, <2>2, <1>3 DEF TaskPC
<1>10. ASSUME NEW p \in Packages, TakeSlot(p) PROVE Accounting'
  <2>1. CASE interrupted
    BY <1>10, <2>1, <1>3 DEF TakeSlot, Goto, TaskPC
  <2>2. CASE ~interrupted
    <3>1. task' = [task EXCEPT ![p] = "extracting"] /\ slots' = slots - 1 /\ slots > 0
      BY <1>10, <2>2 DEF TakeSlot, Goto, SlotFree
    <3>2. InSlot' = InSlot \cup {p} /\ p \notin InSlot
      BY <1>10, <3>1 DEF TakeSlot, InSlot, Typed
    <3>3. Cardinality(InSlot') = Cardinality(InSlot) + 1
      BY <1>2, <3>2, FS_AddElement
    <3>4. Cardinality(InSlot) \in Nat BY <1>2, FS_CardinalityType
    <3> QED BY <3>1, <3>3, <3>4, LimitIsPositive DEF Accounting, Typed
  <2> QED BY <2>1, <2>2
<1>11. ASSUME NEW p \in Packages, Unpack(p) PROVE Accounting'
  BY <1>11, <1>3 DEF Unpack, Goto, TaskPC
<1>12. ASSUME NEW p \in Packages, ExtractFails(p) PROVE Accounting'
  BY <1>12, <1>5 DEF ExtractFails, Goto, Unlock
<1>13. ASSUME NEW p \in Packages, Record(p) PROVE Accounting'
  BY <1>13, <1>5 DEF Record, Goto, Unlock
<1>14. ASSUME NEW p \in Packages, ClearNext(p) PROVE Accounting'
  BY <1>14, <1>4 DEF ClearNext
<1>15. CASE NoteDownload \/ DownloadFails \/ AllDownloaded \/ Waited \/ ClearThrows \/ Finish
            \/ Interrupt \/ UNCHANGED vars
  BY <1>15, <1>4 DEF NoteDownload, DownloadFails, AllDownloaded, Waited, ClearThrows, Finish,
                     Interrupt, vars
<1> QED BY <1>6, <1>7, <1>8, <1>9, <1>10, <1>11, <1>12, <1>13, <1>14, <1>15 DEF Next, Over

LEMMA AccountingBounds == Typed /\ Accounting => TypeOK
<1>1. SUFFICES ASSUME Typed, Accounting PROVE TypeOK OBVIOUS
<1>2. IsFiniteSet(InSlot) BY LimitIsPositive, FS_Subset DEF InSlot
<1>3. Cardinality(InSlot) \in Nat BY <1>2, FS_CardinalityType
<1>4. slots \in 0..Limit BY <1>1, <1>3, LimitIsPositive DEF Accounting, Typed
<1> QED BY <1>1, <1>4 DEF Typed, TypeOK

\* Type correctness; the value of the semaphore stays between 0 and its
\* maximum whatever is interrupted or throws.
THEOREM TypeCorrect == Spec => []TypeOK
<1>1. Init => Typed /\ Accounting BY TypedInit, AccountingInit
<1>2. Typed /\ Accounting /\ [Next]_vars => Typed' /\ Accounting'
  BY TypedNext, AccountingNext
<1> QED BY <1>1, <1>2, AccountingBounds, PTL DEF Spec

\* No slot of the extraction semaphore is lost or handed out twice, for any
\* number of packages and any limit.
THEOREM SlotsAreExact == Spec => []SlotsExact
<1>1. Init => Typed /\ Accounting BY TypedInit, AccountingInit
<1>2. Typed /\ Accounting /\ [Next]_vars => Typed' /\ Accounting'
  BY TypedNext, AccountingNext
<1>3. Accounting => SlotsExact BY DEF Accounting, SlotsExact
<1> QED BY <1>1, <1>2, <1>3, PTL DEF Spec

-----------------------------------------------------------------------------
(* What a successful fetch leaves *)

Usable ==
    ValidatedIsGood /\ MadeIsGood /\ Idle /\ ClearedIsRight /\ FetchedIsCleared /\ Settled

\* Steps of one task, up to the point where it holds a slot.
LEMMA UsableUntouched ==
    ASSUME Typed, Usable, NEW p \in Packages, NEW c \in TaskPC,
           task' = [task EXCEPT ![p] = c], task[p] # "none", ~TaskEnded(p), c # "ok",
           c \in {"valid", "queueing", "extracting", "recording"} =>
               task[p] \in {"valid", "queueing", "extracting", "recording"}
                   \/ p \in Unverifiable \/ tarball[p] = "good",
           UNCHANGED <<main, need, tarball, cleared, allValid>>,
           \A q \in Packages \ {p} : dir'[q] = dir[q]
    PROVE  Usable'
<1>1. need[p] # "nothing" /\ p \notin cleared
  BY DEF Usable, Idle, ClearedIsRight, TaskEnded
<1>2. ValidatedIsGood' BY DEF ValidatedIsGood, Usable, Typed, TaskPC
<1>3. MadeIsGood' BY <1>1 DEF MadeIsGood, Usable, Typed
<1>4. Idle' BY <1>1 DEF Idle, Usable, Typed
<1>5. ToDo' = ToDo BY DEF ToDo
<1>6. ClearedIsRight'
  BY <1>1, <1>5 DEF ClearedIsRight, Usable, Typed
<1>7. FetchedIsCleared' BY <1>5 DEF FetchedIsCleared, Usable
<1>8. main \notin {"clearing", "fetched"}
  BY <1>1 DEF Settled, Usable, TasksEnded, ToDo
<1>9. Settled' BY <1>8 DEF Settled
<1> QED BY <1>2, <1>3, <1>4, <1>6, <1>7, <1>9 DEF Usable

\* Steps of the main thread that only change where it is.
LEMMA UsableElsewhere ==
    ASSUME Usable, UNCHANGED <<need, tarball, dir, task, cleared, allValid>>,
           main' = "fetched" => main = "fetched" \/ (allValid /\ cleared = ToDo),
           main' \in {"clearing", "fetched"} => TasksEnded
    PROVE  Usable'
<1>1. ToDo' = ToDo BY DEF ToDo
<1>2. ValidatedIsGood' /\ MadeIsGood' /\ Idle'
  BY DEF Usable, ValidatedIsGood, MadeIsGood, Idle
<1>3. ClearedIsRight' BY <1>1 DEF Usable, ClearedIsRight
<1>4. FetchedIsCleared' BY <1>1 DEF Usable, FetchedIsCleared
<1>5. Settled' BY <1>1 DEF Settled, TasksEnded, TaskEnded
<1> QED BY <1>2, <1>3, <1>4, <1>5 DEF Usable

LEMMA UsableInit == Init => Usable
<1>1. SUFFICES ASSUME Init PROVE Usable OBVIOUS
<1>2. ValidatedIsGood BY <1>1 DEF Init, ValidatedIsGood
<1>3. MadeIsGood BY <1>1 DEF Init, MadeIsGood, Believed
<1>4. Idle BY <1>1 DEF Init, Idle
<1>5. ClearedIsRight BY <1>1 DEF Init, ClearedIsRight
<1>6. FetchedIsCleared BY <1>1 DEF Init, FetchedIsCleared
<1>7. Settled BY <1>1 DEF Init, Settled
<1> QED BY <1>2, <1>3, <1>4, <1>5, <1>6, <1>7 DEF Usable

LEMMA UsableNext == Typed /\ Usable /\ [Next]_vars => Usable'
<1>1. SUFFICES ASSUME Typed, Usable, [Next]_vars PROVE Usable' OBVIOUS
<1> USE <1>1
<1>2. ASSUME NEW p \in Packages, Downloaded(p) PROVE Usable'
  <2>1. /\ need[p] = "download" /\ task[p] = "none" /\ main = "downloading"
        /\ task' = [task EXCEPT ![p] = "scheduled"]
        /\ \A q \in Packages \ {p} : tarball'[q] = tarball[q]
        /\ UNCHANGED <<main, need, dir, cleared, allValid>>
    BY <1>2 DEF Downloaded, Goto, Typed
  <2>2. p \notin cleared BY <2>1 DEF Usable, ClearedIsRight
  <2>3. ToDo' = ToDo BY <2>1 DEF ToDo
  <2>4. ValidatedIsGood' BY <2>1 DEF ValidatedIsGood, Usable, Typed
  <2>5. MadeIsGood' BY <2>1 DEF MadeIsGood, Usable, Typed
  <2>6. Idle' BY <2>1 DEF Idle, Usable, Typed
  <2>7. ClearedIsRight' BY <2>1, <2>2, <2>3 DEF ClearedIsRight, Usable, Typed
  <2>8. FetchedIsCleared' /\ Settled' BY <2>1 DEF FetchedIsCleared, Settled
  <2> QED BY <2>4, <2>5, <2>6, <2>7, <2>8 DEF Usable
<1>3. CASE NoteDownload BY <1>3, UsableElsewhere DEF NoteDownload, disk
<1>4. CASE DownloadFails BY <1>4, UsableElsewhere DEF DownloadFails, disk, fetcher
<1>5. CASE DownloadInterrupted
  <2>1. /\ UNCHANGED <<need, tarball, dir, cleared, allValid>>
        /\ main' \notin {"clearing", "fetched"}
        /\ \A q \in Packages : task'[q] = task[q]
                \/ (need[q] = "download" /\ task[q] = "none" /\ task'[q] = "threw")
    BY <1>5 DEF DownloadInterrupted, disk, fetcher, ToDownload
  <2>2. ToDo' = ToDo BY <2>1 DEF ToDo
  <2>3. ValidatedIsGood' BY <2>1 DEF ValidatedIsGood, Usable
  <2>4. MadeIsGood' BY <2>1 DEF MadeIsGood, Usable
  <2>5. Idle' BY <2>1 DEF Idle, Usable
  <2>6. ClearedIsRight' BY <2>1, <2>2 DEF ClearedIsRight, Usable, ToDo
  <2>7. FetchedIsCleared' /\ Settled' BY <2>1 DEF FetchedIsCleared, Settled
  <2> QED BY <2>3, <2>4, <2>5, <2>6, <2>7 DEF Usable
<1>6. CASE AllDownloaded BY <1>6, UsableElsewhere DEF AllDownloaded, disk, fetcher
<1>7. ASSUME NEW p \in Packages, Validate(p) PROVE Usable'
  <2>1. /\ task[p] = "scheduled" /\ UNCHANGED <<main, need, tarball, dir, cleared, allValid>>
    BY <1>7 DEF Validate, disk, fetcher
  <2>2. PICK c \in {"valid", "invalid", "threw"} :
          /\ task' = [task EXCEPT ![p] = c]
          /\ c = "valid" => Accepts(p)
    BY <1>7 DEF Validate, Goto
  <2>3. c = "valid" => p \in Unverifiable \/ tarball[p] = "good"
    BY <2>2 DEF Accepts
  <2>4. task[p] # "none" /\ ~TaskEnded(p) /\ c \in TaskPC /\ c # "ok"
    BY <2>1, <2>2 DEF TaskEnded, TaskPC
  <2>5. c \in {"valid", "queueing", "extracting", "recording"} =>
            task[p] \in {"valid", "queueing", "extracting", "recording"}
                \/ p \in Unverifiable \/ tarball[p] = "good"
    BY <2>2, <2>3
  <2>6. \A q \in Packages \ {p} : dir'[q] = dir[q] BY <2>1
  <2> QED BY <2>1, <2>2, <2>4, <2>5, <2>6, UsableUntouched
<1>8. ASSUME NEW p \in Packages, Extract(p) PROVE Usable'
  <2>1. /\ task[p] = "valid" /\ UNCHANGED <<main, need, tarball, dir, cleared, allValid>>
    BY <1>8 DEF Extract, disk, fetcher
  <2>2. PICK c \in {"queueing", "threw"} : task' = [task EXCEPT ![p] = c]
    BY <1>8 DEF Extract, Goto
  <2> QED BY <2>1, <2>2, UsableUntouched DEF TaskEnded, TaskPC
<1>9. ASSUME NEW p \in Packages, TakeSlot(p) PROVE Usable'
  <2>1. /\ task[p] = "queueing" /\ UNCHANGED <<main, need, tarball, dir, cleared, allValid>>
    BY <1>9 DEF TakeSlot, disk, fetcher
  <2>2. PICK c \in {"extracting", "threw"} : task' = [task EXCEPT ![p] = c]
    BY <1>9 DEF TakeSlot, Goto
  <2> QED BY <2>1, <2>2, UsableUntouched DEF TaskEnded, TaskPC
<1>10. ASSUME NEW p \in Packages, Unpack(p) PROVE Usable'
  <2>1. /\ task[p] = "extracting" /\ UNCHANGED <<main, need, tarball, cleared, allValid>>
        /\ \A q \in Packages \ {p} : dir'[q] = dir[q]
        /\ task' = [task EXCEPT ![p] = "recording"]
    BY <1>10 DEF Unpack, Goto, fetcher, Typed
  <2> QED BY <2>1, UsableUntouched DEF TaskEnded, TaskPC
<1>11. ASSUME NEW p \in Packages, ExtractFails(p) PROVE Usable'
  <2>1. /\ task[p] \in {"extracting", "recording"}
        /\ UNCHANGED <<main, need, tarball, cleared, allValid>>
        /\ \A q \in Packages \ {p} : dir'[q] = dir[q]
        /\ task' = [task EXCEPT ![p] = "failed"]
    BY <1>11 DEF ExtractFails, Goto, fetcher, Typed
  <2> QED BY <2>1, UsableUntouched DEF TaskEnded, TaskPC
<1>12. ASSUME NEW p \in Packages, Record(p) PROVE Usable'
  <2>1. /\ task[p] = "recording" /\ UNCHANGED <<main, need, tarball, cleared, allValid>>
        /\ dir' = [dir EXCEPT ![p] = tarball[p]]
        /\ task' = [task EXCEPT ![p] = "ok"]
    BY <1>12 DEF Record, Goto, fetcher
  <2>2. need[p] # "nothing" /\ p \notin cleared
    BY <2>1 DEF Usable, Idle, ClearedIsRight
  <2>3. ToDo' = ToDo BY <2>1 DEF ToDo
  <2>4. ValidatedIsGood' BY <2>1 DEF ValidatedIsGood, Usable, Typed
  <2>5. MadeIsGood' BY <2>1, <2>2 DEF MadeIsGood, ValidatedIsGood, Usable, Typed
  <2>6. Idle' BY <2>1, <2>2 DEF Idle, Usable, Typed
  <2>7. ClearedIsRight' BY <2>1, <2>2, <2>3 DEF ClearedIsRight, Usable, Typed
  <2>8. main \notin {"clearing", "fetched"}
    BY <2>1, <2>2 DEF Settled, Usable, TasksEnded, TaskEnded, ToDo
  <2>9. FetchedIsCleared' /\ Settled' BY <2>1, <2>8 DEF FetchedIsCleared, Settled
  <2> QED BY <2>4, <2>5, <2>6, <2>7, <2>9 DEF Usable
<1>13. CASE Waited BY <1>13, UsableElsewhere DEF Waited, disk, fetcher
<1>14. ASSUME NEW p \in Packages, ClearNext(p) PROVE Usable'
  <2>1. /\ main = "clearing" /\ p \in ToDo /\ cleared' = cleared \cup {p}
        /\ UNCHANGED <<main, need, task>>
    BY <1>14 DEF ClearNext, fetcher
  <2>2. ToDo' = ToDo BY <2>1 DEF ToDo
  <2>3. Idle' BY <2>1 DEF Idle, Usable
  <2>4. FetchedIsCleared' /\ Settled'
    BY <2>1, <2>2 DEF FetchedIsCleared, Settled, Usable, TasksEnded, TaskEnded
  <2>5. CASE Wrong(p)
    <3>1. /\ task[p] \in {"invalid", "failed"} /\ allValid' = FALSE
          /\ \A q \in Packages \ {p} : tarball'[q] = tarball[q] /\ dir'[q] = dir[q]
      BY <1>14, <2>5 DEF ClearNext, Wrong, Typed
    <3>2. ValidatedIsGood' BY <2>1, <3>1 DEF ValidatedIsGood, Usable
    <3>3. MadeIsGood' BY <2>1, <3>1 DEF MadeIsGood, Usable, ToDo
    <3>4. ClearedIsRight' BY <2>1, <2>2, <3>1 DEF ClearedIsRight, Usable
    <3> QED BY <2>3, <2>4, <3>2, <3>3, <3>4 DEF Usable
  <2>6. CASE ~Wrong(p)
    <3>1. UNCHANGED <<allValid, tarball, dir>> BY <1>14, <2>6 DEF ClearNext
    <3>2. ValidatedIsGood' /\ MadeIsGood'
      BY <2>1, <3>1 DEF ValidatedIsGood, MadeIsGood, Usable
    <3>3. task[p] = "ok"
      BY <1>14, <2>1, <2>6 DEF ClearNext, Wrong, Settled, Usable, TasksEnded, TaskEnded
    <3>4. ClearedIsRight' BY <2>1, <2>2, <3>1, <3>3 DEF ClearedIsRight, Usable
    <3> QED BY <2>3, <2>4, <3>2, <3>4 DEF Usable
  <2> QED BY <2>5, <2>6
<1>15. CASE ClearThrows BY <1>15, UsableElsewhere DEF ClearThrows, disk, fetcher
<1>16. CASE Finish
  BY <1>16, UsableElsewhere DEF Finish, disk, fetcher, Usable, Settled
<1>17. CASE Interrupt
  BY <1>17, UsableElsewhere DEF Interrupt, disk, fetcher, Usable, Settled
<1>18. CASE UNCHANGED vars
  BY <1>18, UsableElsewhere DEF vars, disk, fetcher, Usable, Settled
<1> QED BY <1>2, <1>3, <1>4, <1>5, <1>6, <1>7, <1>8, <1>9, <1>10, <1>11, <1>12, <1>13,
        <1>14, <1>15, <1>16, <1>17, <1>18 DEF Next, Over

LEMMA UsableMeansFetched == Typed /\ Usable => FetchedIsUsable
<1>1. SUFFICES ASSUME Typed, Usable, main = "fetched", NEW p \in Packages \ Unverifiable
               PROVE  dir[p] = "good"
  BY DEF FetchedIsUsable
<1>2. CASE need[p] = "nothing" BY <1>1, <1>2 DEF Usable, MadeIsGood
<1>3. CASE need[p] # "nothing"
  <2>1. cleared = ToDo /\ allValid BY <1>1 DEF Usable, FetchedIsCleared
  <2>2. p \in cleared BY <2>1, <1>3 DEF ToDo
  <2>3. task[p] = "ok" BY <1>1, <2>1, <2>2 DEF Usable, ClearedIsRight
  <2> QED BY <1>1, <2>3 DEF Usable, MadeIsGood
<1> QED BY <1>2, <1>3

\* After a successful fetch every package whose repodata says what it is has a
\* complete directory of exactly that, whichever tasks ran at once and
\* wherever a signal came.
THEOREM FetchedPackagesAreUsable == Spec => []FetchedIsUsable
<1>1. Init => Typed /\ Usable BY TypedInit, UsableInit
<1>2. Typed /\ Usable /\ [Next]_vars => Typed' /\ Usable' BY TypedNext, UsableNext
<1> QED BY <1>1, <1>2, UsableMeansFetched, PTL DEF Spec
-----------------------------------------------------------------------------
(* What an aborted fetch leaves *)

\* A directory is believed again only when its task has made it, a wrong
\* tarball is gone once it was cleared, and an abort comes after all clearing.
NoTrap ==
    /\ \A p \in ToDo : task[p] # "ok" => ~Believed(p)
    /\ \A p \in cleared : task[p] \in {"invalid", "failed"} => tarball[p] = "none"
    /\ main = "aborted" => cleared = ToDo

\* Steps of one task that make no directory.
LEMMA NoTrapTask ==
    ASSUME Typed, Usable, NoTrap, NEW p \in Packages, NEW c \in TaskPC \ {"ok"},
           task' = [task EXCEPT ![p] = c], ~TaskEnded(p), task[p] # "none",
           UNCHANGED <<main, need, tarball, cleared>>,
           \A q \in Packages : dir'[q] = dir[q] \/ dir'[q] = "partial"
    PROVE  NoTrap'
<1>1. ToDo' = ToDo BY DEF ToDo
<1>2. p \notin cleared BY DEF Usable, ClearedIsRight, TaskEnded
<1>3. task[p] # "ok" BY DEF TaskEnded
<1>4. \A q \in ToDo : task'[q] # "ok" => ~Believed(q)'
  BY <1>1, <1>3 DEF NoTrap, Believed, Typed, ToDo
<1>5. \A q \in cleared : task'[q] = task[q] BY <1>2 DEF Typed
<1> QED BY <1>1, <1>4, <1>5 DEF NoTrap

LEMMA NoTrapNext == Typed /\ Usable /\ NoTrap /\ [Next]_vars => NoTrap'
<1>1. SUFFICES ASSUME Typed, Usable, NoTrap, [Next]_vars PROVE NoTrap' OBVIOUS
<1> USE <1>1
<1>2. ASSUME UNCHANGED <<need, tarball, dir, task, cleared>>,
             main' = "aborted" => main = "aborted" \/ cleared = ToDo
      PROVE  NoTrap'
  BY <1>2 DEF NoTrap, ToDo, Believed
<1>3. ASSUME NEW p \in Packages, Downloaded(p) PROVE NoTrap'
  <2>1. /\ task[p] = "none" /\ main = "downloading" /\ task' = [task EXCEPT ![p] = "scheduled"]
        /\ \A q \in Packages \ {p} : tarball'[q] = tarball[q]
        /\ UNCHANGED <<main, need, dir, cleared>>
    BY <1>3 DEF Downloaded, Goto, Typed
  <2>2. p \notin cleared BY <2>1 DEF Usable, ClearedIsRight
  <2> QED BY <2>1, <2>2 DEF NoTrap, ToDo, Believed, Typed
<1>4. CASE DownloadInterrupted
  <2>1. /\ UNCHANGED <<need, tarball, dir, cleared>> /\ main' # "aborted"
        /\ \A q \in Packages : task'[q] = task[q] \/ (task[q] = "none" /\ task'[q] = "threw")
    BY <1>4 DEF DownloadInterrupted, disk, fetcher
  <2> QED BY <2>1 DEF NoTrap, ToDo, Believed, Typed
<1>5. ASSUME NEW p \in Packages, Validate(p) \/ Extract(p) \/ TakeSlot(p) PROVE NoTrap'
  <2>1. /\ task[p] \in {"scheduled", "valid", "queueing"}
        /\ UNCHANGED <<main, need, tarball, dir, cleared>>
    BY <1>5 DEF Validate, Extract, TakeSlot, disk, fetcher
  <2>2. PICK c \in {"valid", "invalid", "threw", "queueing", "extracting"} :
          task' = [task EXCEPT ![p] = c]
    BY <1>5 DEF Validate, Extract, TakeSlot, Goto
  <2> QED BY <2>1, <2>2, NoTrapTask DEF TaskEnded, TaskPC
<1>6. ASSUME NEW p \in Packages, Unpack(p) \/ ExtractFails(p) PROVE NoTrap'
  <2>1. /\ task[p] \in {"extracting", "recording"} /\ UNCHANGED <<main, need, tarball, cleared>>
        /\ \A q \in Packages : dir'[q] = dir[q] \/ dir'[q] = "partial"
    BY <1>6 DEF Unpack, ExtractFails, fetcher, Typed
  <2>2. PICK c \in {"recording", "failed"} : task' = [task EXCEPT ![p] = c]
    BY <1>6 DEF Unpack, ExtractFails, Goto
  <2> QED BY <2>1, <2>2, NoTrapTask DEF TaskEnded, TaskPC
<1>7. ASSUME NEW p \in Packages, Record(p) PROVE NoTrap'
  <2>1. /\ task[p] = "recording" /\ task' = [task EXCEPT ![p] = "ok"]
        /\ \A q \in Packages \ {p} : dir'[q] = dir[q]
        /\ UNCHANGED <<main, need, tarball, cleared>>
    BY <1>7 DEF Record, Goto, fetcher, Typed
  <2>2. \A q \in ToDo : task'[q] # "ok" => ~Believed(q)'
    BY <2>1 DEF NoTrap, ToDo, Believed, Typed
  <2>3. \A q \in cleared : task'[q] \in {"invalid", "failed"} => tarball'[q] = "none"
    BY <2>1 DEF NoTrap, Typed
  <2> QED BY <2>1, <2>2, <2>3 DEF NoTrap, ToDo
<1>8. ASSUME NEW p \in Packages, ClearNext(p) PROVE NoTrap'
  <2>1. main = "clearing" /\ cleared' = cleared \cup {p} /\ UNCHANGED <<main, need, task>>
    BY <1>8 DEF ClearNext, fetcher
  <2>2. CASE Wrong(p)
    <3>1. /\ tarball' = [tarball EXCEPT ![p] = "none"]
          /\ \A q \in Packages : dir'[q] = dir[q] \/ dir'[q] = "none"
      BY <1>8, <2>2 DEF ClearNext, Typed
    <3>2. \A q \in ToDo : task'[q] # "ok" => ~Believed(q)'
      BY <2>1, <3>1 DEF NoTrap, ToDo, Believed
    <3>3. \A q \in cleared' : task'[q] \in {"invalid", "failed"} => tarball'[q] = "none"
      BY <2>1, <3>1 DEF NoTrap, Typed
    <3> QED BY <2>1, <3>2, <3>3 DEF NoTrap, ToDo
  <2>3. CASE ~Wrong(p)
    <3>1. UNCHANGED <<tarball, dir>> BY <1>8, <2>3 DEF ClearNext
    <3> QED BY <2>1, <2>3, <3>1 DEF NoTrap, ToDo, Believed, Wrong
  <2> QED BY <2>2, <2>3
<1>9. CASE Finish BY <1>9, <1>2 DEF Finish, disk, fetcher
<1>10. CASE NoteDownload \/ DownloadFails \/ AllDownloaded \/ Waited \/ ClearThrows
            \/ Interrupt \/ UNCHANGED vars
  BY <1>10, <1>2 DEF NoteDownload, DownloadFails, AllDownloaded, Waited, ClearThrows,
                     Interrupt, vars, disk, fetcher
<1> QED BY <1>3, <1>4, <1>5, <1>6, <1>7, <1>8, <1>9, <1>10 DEF Next, Over

\* When a fetch is aborted for wrong downloads, no tarball or directory of a
\* wrong package is left that a later run would take for it, in any cache.
THEOREM AbortIsClean == Spec => []AbortLeavesNoTrap
<1>1. Init => Typed /\ Usable BY TypedInit, UsableInit
<1>2. Init => NoTrap BY DEF Init, NoTrap, ToDo
<1>3. Typed /\ Usable /\ NoTrap /\ [Next]_vars => Typed' /\ Usable' /\ NoTrap'
  BY TypedNext, UsableNext, NoTrapNext
<1>4. NoTrap => AbortLeavesNoTrap BY DEF NoTrap, AbortLeavesNoTrap
<1> QED BY <1>1, <1>2, <1>3, <1>4, PTL DEF Spec
=============================================================================
