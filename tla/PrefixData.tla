------------------------------ MODULE PrefixData ------------------------------
(***************************************************************************)
(* What is read from conda-meta: the history, with the lists of specs in    *)
(* it, and the records of the packages.                                     *)
(***************************************************************************)
EXTENDS PythonicList, History, PrefixRecords

\* The entries of the history are read back and the last request for a name counts;
\* of a list of specs in it what is found is what was written, as far as the parser
\* gets.
HistoryIsRight ==
    /\ ListTypeOK /\ ReadsWhatWasWritten
    /\ HistoryTypeOK /\ EntriesAreReadBack /\ LastRequestCounts

\* The records are sorted after what they depend on, by a graph whose two
\* directions agree.
RecordsAreRight ==
    /\ DigraphTypeOK /\ EdgesAgree /\ TopologicallySorted
    /\ PrefixTypeOK /\ SortedAfterDependencies
=============================================================================
