---------------------------- MODULE MCDownloader ----------------------------
(* Instances of Downloader for TLC. *)
EXTENDS Downloader

CONSTANTS r1, r2, r3, http, oci

MCRequests == {r1, r2}
MCThreeRequests == {r1, r2, r3}
MCMirrors == {http, oci}
MCRank == [m \in MCMirrors |-> IF m = http THEN 1 ELSE 2]
MCSteps == [m \in MCMirrors |-> IF m = http THEN 1 ELSE 2]
MCOneRetry == [m \in MCMirrors |-> 1]
MCSomeMirrors == [r \in Requests |-> IF r = r1 THEN Mirrors ELSE {http}]
\* Only the first and the third request know the authenticated mirror.
MCMixedMirrors == [r \in Requests |-> IF r = r2 THEN {http} ELSE Mirrors]
MCNone == {}
MCFirst == {r1}
MCSecond == {r2}
=============================================================================
