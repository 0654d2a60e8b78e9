--------------------------- MODULE MCFetchExtract ---------------------------
(* Instances of FetchExtract for TLC. *)
EXTENDS FetchExtract

CONSTANTS p1, p2, p3

MCPackages == {p1, p2, p3}
MCUnverifiable == {p2}
MCElsewhere == {p3}

\* Two slots: hardware_concurrency() less two.
MCExtractThreads == -2
=============================================================================
