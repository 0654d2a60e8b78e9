------------------------------ MODULE History ------------------------------
(***************************************************************************)
(* conda-meta/history (history.cpp): MTransaction appends an entry when it  *)
(* has ended, line by line; update, remove and list read all of it to know  *)
(* which packages the user has asked for.  A spec is a name and which of    *)
(* its specs it is; a list of them is read for what was written, as of the  *)
(* lists that PythonicList finds readable and without a backslash.  The     *)
(* process may end between two lines, or before the specs, which nothing    *)
(* flushes, are in the file.                                                *)
(***************************************************************************)
EXTENDS Integers, SequencesExt

CONSTANTS
    Requests,    \* the entries: [update, remove : sequences of [name, of],
                 \* unlinked, linked : sets of distributions]
    MaxEntries   \* bounds the transactions

Asked == UNION {Range(r.update) \cup Range(r.remove) : r \in Requests}
Dists == UNION {r.unlinked \cup r.linked : r \in Requests}

ASSUME HistoryConstants ==
    /\ MaxEntries \in Nat
    /\ Requests \subseteq [update : Seq(Asked), remove : Seq(Asked),
                          unlinked : SUBSET Dists, linked : SUBSET Dists]
    /\ \A r \in Requests : IsFiniteSet(r.unlinked) /\ IsFiniteSet(r.linked)

VARIABLES
    historyLines, \* the lines of the file
    userRequest,  \* m_history_entry, and the lines not written yet
    entryLog      \* history: what each entry should be read as

historyVars == <<historyLines, userRequest, entryLog>>

LineOf(kind, dist, specs) == [kind |-> kind, dist |-> dist, specs |-> specs]
HeadLine == LineOf("head", "", <<>>)
Cmd == LineOf("cmd", "", <<>>)
CondaVersion == LineOf("version", "", <<>>)
DistLine(sign, d) == LineOf(sign, d, <<>>)
SpecsLine(action, specs) == IF specs = <<>> THEN <<>> ELSE <<LineOf(action, "", specs)>>

DistLines(sign, S) == [i \in 1..Cardinality(S) |-> DistLine(sign, SetToSeq(S)[i])]

\* What is written with std::endl ...
FlushedLines(r) == <<HeadLine, Cmd, CondaVersion>> \o DistLines("-", r.unlinked) \o DistLines("+", r.linked)

\* ... and what goes out when the stream is closed.
BufferedLines(r) == SpecsLine("update", r.update) \o SpecsLine("remove", r.remove)

NoRequest == [update |-> <<>>, remove |-> <<>>, unlinked |-> {}, linked |-> {}]
NotWriting == [request |-> NoRequest, left |-> <<>>]

HistoryInit ==
    /\ historyLines = <<>>
    /\ userRequest = NotWriting
    /\ entryLog = <<>>

Writing == userRequest # NotWriting

\* add_entry begins, once the transaction has ended; either list may be empty.
AddEntry ==
    /\ ~Writing /\ Len(entryLog) < MaxEntries
    /\ \E r \in Requests : userRequest' = [request |-> r, left |-> FlushedLines(r)]
    /\ entryLog' = Append(entryLog, NoRequest)
    /\ UNCHANGED historyLines

\* What a line of distributions adds to the entry.
DistIn(line, sign) == IF line.kind = sign THEN {line.dist} ELSE {}
Logged(line) ==
    [entryLog EXCEPT ![Len(entryLog)].unlinked = @ \cup DistIn(line, "-"),
                     ![Len(entryLog)].linked = @ \cup DistIn(line, "+")]

WriteLine ==
    /\ Writing /\ userRequest.left # <<>>
    /\ historyLines' = Append(historyLines, userRequest.left[1])
    /\ userRequest' = [userRequest EXCEPT !.left = Tail(@)]
    /\ entryLog' = Logged(userRequest.left[1])

CloseHistory ==
    /\ Writing /\ userRequest.left = <<>>
    /\ historyLines' = historyLines \o BufferedLines(userRequest.request)
    /\ entryLog' = [entryLog EXCEPT ![Len(entryLog)] = userRequest.request]
    /\ userRequest' = NotWriting

\* The process ends: without the head there is no entry.
HistoryInterrupted ==
    /\ Writing
    /\ userRequest' = NotWriting
    /\ entryLog' = IF userRequest.left = FlushedLines(userRequest.request)
                   THEN Front(entryLog) ELSE entryLog
    /\ UNCHANGED historyLines

HistoryNext == AddEntry \/ WriteLine \/ CloseHistory \/ HistoryInterrupted
HistorySpec == HistoryInit /\ [][HistoryNext]_historyVars

-----------------------------------------------------------------------------
(* parse, get_user_requests and get_requested_specs_map *)

FirstEntry(entries) == 1
LastEntry(entries) == Len(entries)

OnEntry(entries, line) ==
    LET n == LastEntry(entries)
    IN  CASE line.kind = "-"      -> [entries EXCEPT ![n].unlinked = @ \cup {line.dist}]
          [] line.kind = "+"      -> [entries EXCEPT ![n].linked = @ \cup {line.dist}]
          [] line.kind = "update" -> [entries EXCEPT ![n].update = line.specs]
          [] line.kind = "remove" -> [entries EXCEPT ![n].remove = line.specs]
          [] OTHER                -> entries

\* A head begins an entry; any other line belongs to the last one.
ParsedLine(entries, line) ==
    IF line.kind = "head" THEN Append(entries, NoRequest)
    ELSE OnEntry(IF entries = <<>> THEN <<NoRequest>> ELSE entries, line)

\* The entries that these lines are read as.
EntriesOf(lines) ==
    LET read[n \in 0..Len(lines)] ==
          IF n = 0 THEN <<>> ELSE ParsedLine(read[n - 1], lines[n])
    IN  read[Len(lines)]

UserRequests == EntriesOf(historyLines)

SpecNames == {s.name : s \in Asked}
NoSpecs == [n \in SpecNames |-> 0]

\* One spec after another sets what the map has for its name.
Overwritten(map, specs, of) ==
    LET set[n \in 0..Len(specs)] ==
          IF n = 0 THEN map ELSE [set[n - 1] EXCEPT ![specs[n].name] = of[n]]
    IN  set[Len(specs)]

Erased(map, specs) == Overwritten(map, specs, [i \in DOMAIN specs |-> 0])
Assigned(map, specs) == Overwritten(map, specs, [i \in DOMAIN specs |-> specs[i].of])

\* The specs that were installed or updated after those that were removed.
AppliedRemoveLast(map, r) == Erased(Assigned(map, r.update), r.remove)
Applied(map, r) == Assigned(Erased(map, r.remove), r.update)

\* The map after all of these requests.
SpecsMap(requests) ==
    LET map[n \in 0..Len(requests)] ==
          IF n = 0 THEN NoSpecs ELSE Applied(map[n - 1], requests[n])
    IN  map[Len(requests)]

RequestedSpecsMap == SpecsMap(UserRequests)

-----------------------------------------------------------------------------
HistoryTypeOK ==
    /\ \A i \in DOMAIN historyLines :
         historyLines[i].kind \in {"head", "cmd", "version", "-", "+", "update", "remove"}
    /\ Len(entryLog) <= MaxEntries
    /\ Writing => entryLog # <<>>

\* Whatever transactions were cut short in the middle of their entry, the other
\* entries are read as they were written, and the cut one for what it has: no
\* line is taken for part of another entry.
EntriesAreReadBack ==
    UserRequests = IF Writing /\ userRequest.left = FlushedLines(userRequest.request)
                   THEN Front(entryLog) ELSE entryLog

Mentions(r, name) == \E s \in Range(r.update) \cup Range(r.remove) : s.name = name
Asks(r, name) == {i \in DOMAIN r.update : r.update[i].name = name}

\* The spec that update and list use for a package is the last one that the
\* user asked for in the last entry that mentions the package, and there is
\* none if that entry only removes it: an Update, which is written both as an
\* update and as a removal, counts as asked for.
LastRequestCounts ==
    \A name \in SpecNames :
        LET entries == {i \in DOMAIN UserRequests : Mentions(UserRequests[i], name)}
            last == UserRequests[CHOOSE i \in entries : \A j \in entries : j <= i]
        IN  RequestedSpecsMap[name] =
              IF entries = {} \/ Asks(last, name) = {} THEN 0
              ELSE last.update[CHOOSE i \in Asks(last, name) : \A j \in Asks(last, name) : j <= i].of
=============================================================================
