----------------------------- MODULE Activation -----------------------------
(***************************************************************************)
(* Activator (activation.cpp): activate, deactivate and reactivate compute  *)
(* what a shell exports and unsets, from the variables that the ones before *)
(* left in it: PATH, CONDA_PREFIX, CONDA_SHLVL, CONDA_PREFIX_n,             *)
(* CONDA_STACKED_n, and __CONDA_SHLVL_n_V, where the value that V had is    *)
(* kept.  An environment sets one variable V or does not; a script unsets   *)
(* before it exports.  An environment has one directory in PATH.            *)
(***************************************************************************)
EXTENDS Integers, SequencesExt

CONSTANTS
    Environments,
    StartPaths,   \* PATH in the shells where it begins, without any of these
    Condabin,     \* the directory that the first activation adds
    MaxShlvl      \* bounds the activations on top of each other

NoEnv == "none"
Unset == "unset"

ASSUME ActivationConstants ==
    /\ MaxShlvl \in Nat \ {0}
    /\ {NoEnv, Unset, Condabin} \cap Environments = {}
    /\ \A path \in StartPaths : path \in Seq(Range(path)) /\ Range(path) \cap Environments = {}

VARIABLES
    setsV,    \* the environments with a value for V, which is their own name
    shell,    \* the variables of the shell
    entered,  \* history: the shell before each activation that is not undone
    twice     \* history: an environment was active twice since the first activation

activationVars == <<setsV, shell, entered, twice>>

Levels == 1..MaxShlvl

NewShell(path, v) ==
    [path |-> path, prefix |-> NoEnv, shlvl |-> 0, prefixes |-> [n \in Levels |-> NoEnv],
     stacked |-> {}, v |-> v, saved |-> [n \in 0..MaxShlvl |-> Unset]]

ActivationInit ==
    /\ setsV \in SUBSET Environments
    /\ \E path \in StartPaths, v \in {Unset, "user"} : shell = NewShell(path, v)
    /\ entered = <<>>
    /\ twice = FALSE

-----------------------------------------------------------------------------
\* What path has at these places.
Kept(path, places) ==
    LET kept[n \in 0..Len(path)] ==
          IF n = 0 THEN <<>>
          ELSE IF n \in places THEN Append(kept[n - 1], path[n]) ELSE kept[n - 1]
    IN  kept[Len(path)]

\* std::unique: of neighbours that are equal one is left.
Unique(path) == Kept(path, {n \in DOMAIN path : n = 1 \/ path[n] # path[n - 1]})
Without(path, dir) == Kept(path, {n \in DOMAIN path : path[n] # dir})

WithCondabin(path) == IF Condabin \in Range(path) THEN path ELSE <<Condabin>> \o path

AddPrefixToPath(env) ==
    Unique(<<env>> \o IF shell.shlvl = 0 THEN WithCondabin(shell.path) ELSE shell.path)
KeepOldPrefix(old, new) == Unique(<<new>> \o shell.path)
ReplacePrefixInPath(old, new) == Unique(<<new>> \o Without(shell.path, old))
RemovePrefixFromPath(old) == Unique(Without(shell.path, old))

ValueOf(env) == IF env \in setsV THEN env ELSE Unset

\* V when another environment takes the place of the active one: the value
\* from before it, under the value of the new one.
ReplacedV(env) ==
    IF env \in setsV THEN env
    ELSE IF shell.prefix \in setsV THEN shell.saved[shell.shlvl - 1] ELSE shell.v

\* What a new value of V hides is kept under the level that is left.
KeepsNothing(env) == shell.saved
KeptV(env) ==
    IF env \in setsV /\ shell.v # Unset THEN [shell.saved EXCEPT ![shell.shlvl] = shell.v]
    ELSE shell.saved

Remembered == IF shell.shlvl = 0 THEN shell.prefixes
              ELSE [shell.prefixes EXCEPT ![shell.shlvl] = shell.prefix]

\* The environments from the first to the active one.
Actives(s) == [n \in 1..s.shlvl |-> IF n = s.shlvl THEN s.prefix ELSE s.prefixes[n]]

OneUp(env, path, v, stacked) ==
    /\ shell.shlvl < MaxShlvl
    /\ shell' = [path |-> path, prefix |-> env, shlvl |-> shell.shlvl + 1,
                 prefixes |-> Remembered, stacked |-> stacked, v |-> v, saved |-> KeptV(env)]
    /\ entered' = Append(entered, shell)
    /\ twice' = (twice \/ env \in Range(Actives(shell)))

IsActive(env) == shell.shlvl > 0 /\ shell.prefix = env
IsBelow(env) == shell.shlvl > 1 /\ shell.prefixes[shell.shlvl - 1] = env

ActivateFirst(env) ==
    /\ shell.shlvl = 0
    /\ OneUp(env, AddPrefixToPath(env), IF env \in setsV THEN env ELSE shell.v, shell.stacked)

ActivateStacked(env) ==
    /\ shell.shlvl > 0 /\ ~IsActive(env) /\ ~IsBelow(env)
    /\ OneUp(env, AddPrefixToPath(env), IF env \in setsV THEN env ELSE shell.v,
             shell.stacked \cup {shell.shlvl + 1})

ActivateInstead(env) ==
    /\ shell.shlvl > 0 /\ ~IsActive(env) /\ ~IsBelow(env)
    /\ OneUp(env, ReplacePrefixInPath(shell.prefix, env), ReplacedV(env), shell.stacked)

\* build_reactivate, also for the environment that is active.
Reactivate ==
    /\ shell.shlvl > 0
    /\ shell' = [shell EXCEPT !.path = ReplacePrefixInPath(shell.prefix, shell.prefix)]
    /\ UNCHANGED <<entered, twice>>

\* V when the active environment goes: what was saved when it came, or what
\* the environment below says.
RestoredV(below) ==
    IF shell.prefix \in setsV
    THEN IF shell.saved[shell.shlvl - 1] # Unset THEN shell.saved[shell.shlvl - 1] ELSE ValueOf(below)
    ELSE IF below \in setsV THEN below ELSE shell.v

SavedUsed == IF shell.prefix \in setsV THEN [shell.saved EXCEPT ![shell.shlvl - 1] = Unset]
             ELSE shell.saved

LeftPath(below) ==
    IF below = NoEnv \/ shell.shlvl \in shell.stacked THEN RemovePrefixFromPath(shell.prefix)
    ELSE ReplacePrefixInPath(shell.prefix, below)

\* build_deactivate, also to activate the environment below.
Deactivate ==
    /\ shell.shlvl > 0
    /\ LET below == IF shell.shlvl = 1 THEN NoEnv ELSE shell.prefixes[shell.shlvl - 1]
       IN  shell' = [path |-> LeftPath(below), prefix |-> below, shlvl |-> shell.shlvl - 1,
                     prefixes |-> IF shell.shlvl = 1 THEN shell.prefixes
                                  ELSE [shell.prefixes EXCEPT ![shell.shlvl - 1] = NoEnv],
                     stacked |-> shell.stacked \ {shell.shlvl},
                     v |-> RestoredV(below), saved |-> SavedUsed]
    /\ entered' = Front(entered)
    /\ twice' = (twice /\ shell.shlvl > 1)

ActivationNext ==
    /\ \/ \E env \in Environments :
            ActivateFirst(env) \/ ActivateStacked(env) \/ ActivateInstead(env)
       \/ Reactivate \/ Deactivate
    /\ UNCHANGED setsV
ActivationSpec == ActivationInit /\ [][ActivationNext]_activationVars

-----------------------------------------------------------------------------
ActivationTypeOK ==
    /\ shell.path \in Seq(Environments \cup {Condabin} \cup UNION {Range(p) : p \in StartPaths})
    /\ shell.prefix \in Environments \cup {NoEnv}
    /\ shell.shlvl = Len(entered) /\ shell.shlvl \in 0..MaxShlvl
    /\ shell.prefixes \in [Levels -> Environments \cup {NoEnv}]
    /\ shell.stacked \subseteq 2..shell.shlvl
    /\ shell.v \in Environments \cup {"user", Unset}
    /\ shell.saved \in [0..MaxShlvl -> Environments \cup {"user", Unset}]
    /\ twice \in BOOLEAN

\* The active environment, and those under it that are in PATH, from the top: an
\* activation that stacks leaves the one below in PATH, one that does not takes
\* its place.
Stack(s) ==
    LET stack[n \in 0..s.shlvl] ==
          IF n = 0 THEN <<>>
          ELSE <<Actives(s)[n]>> \o
               IF n = 1 \/ n \in s.stacked THEN stack[n - 1] ELSE Tail(stack[n - 1])
    IN  stack[s.shlvl]

\* What the first activation leaves of PATH after the environment.
OwnPath(path) == Unique(WithCondabin(path))

\* PATH starts with the active environment and those it was stacked on, and
\* has no other, unless an environment was active twice: its directory is
\* removed wherever it is in PATH when it goes once.
PathIsTheStack ==
    ~twice /\ shell.shlvl > 0 =>
        \E path \in StartPaths : shell.path = Stack(shell) \o OwnPath(path)

SameButCondabin(s, before) ==
    /\ [s EXCEPT !.path = <<>>] = [before EXCEPT !.path = <<>>]
    /\ ~twice => s.path = IF before.shlvl = 0 THEN OwnPath(before.path) ELSE before.path

\* deactivate undoes the activation before it, in whatever order environments
\* were stacked, replaced, reactivated and left: V, PATH and the variables of
\* the levels are what they were, but for a directory of mamba that the first
\* activation adds and repeated directories that it drops, and nothing is left
\* behind.
DeactivationRestores ==
    Len(entered') < Len(entered) => SameButCondabin(shell', Last(entered))

\* PATH is the environments that were activated, and to deactivate one undoes
\* its activation.
ShellsAreRight ==
    [](ActivationTypeOK /\ PathIsTheStack) /\ [][DeactivationRestores]_activationVars
=============================================================================
