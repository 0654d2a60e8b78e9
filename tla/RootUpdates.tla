----------------------------- MODULE RootUpdates -----------------------------
(***************************************************************************)
(* RepoChecker::get_root_role: the root metadata of a channel, brought up to *)
(* date one version at a time from the cached copy, and cached again after  *)
(* each step.  The process may end between any two steps.                   *)
(***************************************************************************)
EXTENDS Integers, FiniteSets

CONSTANT MaxRoot           \* bound: the latest version on the server

ASSUME RootConstants == MaxRoot \in Nat \ {0}

VARIABLES rootServer,      \* for each version the name and the content of its file
          cachedRoot,      \* version of the cached file, NoRoot, or TornRoot
          trustedRoot,     \* version of the root in memory
          rootPc,          \* "idle", "updating", "copying", "writing", "ended", "failed"
          nextRoot,        \* the version being copied to the cache
          acceptedRoots,   \* history: the versions some run accepted
          fellBack         \* history: a process ended when the cached root was removed
                           \* and the next not copied, and what was accepted by then
                           \* was not all accepted again

rootVars == <<rootServer, cachedRoot, trustedRoot, rootPc, nextRoot, acceptedRoots, fellBack>>

RootVersions == 1..MaxRoot
NoRoot == 0
TornRoot == -1
RootNames == {"upgrade", "compatible", "plain"}
\* What a file holds: a root of a version of the specification, or a bad one.
RootContents == {"0.6", "1", "bad"}
ServedRoot == {<<"none", "bad">>} \cup (RootNames \X RootContents)

-----------------------------------------------------------------------------
(* Update files *)

\* possible_update_files and check_resource_exists
Served(v) == v \in RootVersions /\ rootServer[v][1] # "none"
SpecOf(v) == IF v = 1 THEN "0.6" ELSE rootServer[v][2]

\* read_json_file: a name with the specification version of the root itself is
\* refused for an update, and so is an upgrade of version 1.
NameAccepted(v) ==
    \/ rootServer[v][1] = "plain"
    \/ rootServer[v][1] = "upgrade" /\ SpecOf(trustedRoot) = "0.6"

\* RootRole::update: a good file has version N+1, valid signatures, and a
\* version of the specification that create_update knows.
Accepts(v) ==
    /\ NameAccepted(v)
    /\ SpecOf(v) \in (IF SpecOf(trustedRoot) = "0.6" THEN {"0.6", "1"} ELSE {"1"})

PersistsAny(v) == TRUE
Persists(v) == Accepts(v)

-----------------------------------------------------------------------------
\* initial_trusted_root: the cached file, or else the reference, which is
\* copied to the cache.  A file that cannot be parsed ends the run.
StartRun ==
    /\ rootPc \in {"idle", "ended", "failed"}
    /\ rootPc' = CASE cachedRoot = TornRoot -> "failed"
                   [] cachedRoot = NoRoot   -> "copying"
                   [] OTHER                 -> "updating"
    /\ trustedRoot' = IF cachedRoot \in RootVersions THEN cachedRoot ELSE 1
    /\ nextRoot' = trustedRoot'
    /\ UNCHANGED <<rootServer, cachedRoot, acceptedRoots, fellBack>>

\* One step of the chain: the cached file is removed once the update is accepted.
UpdateRoot ==
    LET v == trustedRoot + 1
    IN  /\ rootPc = "updating" /\ Served(v)
        /\ cachedRoot' = IF Persists(v) THEN NoRoot ELSE cachedRoot
        /\ nextRoot' = v
        /\ IF Accepts(v)
           THEN /\ trustedRoot' = v
                /\ acceptedRoots' = acceptedRoots \cup {v}
                /\ fellBack' = (fellBack /\ ~(acceptedRoots \subseteq 1..v))
           ELSE UNCHANGED <<trustedRoot, acceptedRoots, fellBack>>
        /\ rootPc' = IF Persists(v) THEN "copying" ELSE "failed"
        /\ UNCHANGED rootServer

\* persist_file
CopyRoot ==
    /\ rootPc = "copying"
    /\ cachedRoot' = TornRoot /\ rootPc' = "writing"
    /\ UNCHANGED <<rootServer, trustedRoot, nextRoot, acceptedRoots, fellBack>>

RootCopied ==
    /\ rootPc = "writing"
    /\ cachedRoot' = nextRoot /\ rootPc' = "updating"
    /\ UNCHANGED <<rootServer, trustedRoot, nextRoot, acceptedRoots, fellBack>>

\* No update is served, or each name it may have is one that the check does
\* not find or the download does not get: the loop ends all the same.  A root
\* that has expired throws.
EndRun ==
    /\ rootPc = "updating"
    /\ rootPc' \in {"ended", "failed"}
    /\ UNCHANGED <<rootServer, cachedRoot, trustedRoot, nextRoot, acceptedRoots, fellBack>>

ProcessEnds ==
    /\ rootPc \in {"updating", "copying", "writing"}
    /\ rootPc' = "idle"
    /\ fellBack' = (fellBack \/ (rootPc = "copying" /\ acceptedRoots # {1}))
    /\ UNCHANGED <<rootServer, cachedRoot, trustedRoot, nextRoot, acceptedRoots>>

-----------------------------------------------------------------------------
RootInit ==
    /\ rootServer \in [RootVersions \ {1} -> ServedRoot]
    /\ cachedRoot = NoRoot /\ trustedRoot = 1 /\ rootPc = "idle"
    /\ nextRoot = 1 /\ acceptedRoots = {1} /\ fellBack = FALSE

RootNext == \/ StartRun \/ UpdateRoot \/ CopyRoot \/ RootCopied \/ EndRun \/ ProcessEnds
RootSpec == RootInit /\ [][RootNext]_rootVars

-----------------------------------------------------------------------------
\* Whenever the process ends, a whole cached root is one that a run accepted,
\* from the reference on.  A run that ends leaves its root in the cache, and
\* no run has accepted a later one, unless a process ended between the removal
\* of a cached root and the copy of the next (get_root_role, persist_file).
RootMovesOn ==
    /\ cachedRoot \in RootVersions => 1..cachedRoot \subseteq acceptedRoots
    /\ rootPc = "ended" => cachedRoot = trustedRoot
    /\ rootPc = "ended" /\ ~fellBack => acceptedRoots \subseteq 1..trustedRoot
=============================================================================
