--------------------------- MODULE EnvironmentsList ---------------------------
(***************************************************************************)
(* environments_manager.cpp: ~/.conda/environments.txt names the prefixes   *)
(* that exist.  A command that makes a prefix appends a line; one that      *)
(* removes a prefix, or lists them all, writes the file again without the   *)
(* lines it finds stale.  Processes run side by side without a lock, and    *)
(* may end anywhere.                                                        *)
(***************************************************************************)
EXTENDS Integers, FiniteSets, SequencesExt

CONSTANTS EnvPrefixes,     \* the locations of environments
          Mambas,          \* processes
          MaxEnvCommands   \* bound: commands in one behaviour


VARIABLES environments,    \* prefixes with a conda-meta/history
          populated,       \* those with more than that in conda-meta
          envFile,         \* the lines of environments.txt
          envPc,           \* where each process is
          location,        \* the prefix it is about, NoLocation for a list
          linesLeft,       \* final_lines that it has not written yet
          unsure,          \* history: prefixes whose line another process may drop, since
                           \* it was at work on the file too, or ended in the middle
          envCommands

envVars == <<environments, populated, envFile, envPc, location, linesLeft, unsure, envCommands>>

NoLocation == "no location"

ASSUME EnvironmentConstants == MaxEnvCommands \in Nat /\ NoLocation \notin EnvPrefixes

EnvTo(m, place) == envPc' = [envPc EXCEPT ![m] = place]

\* The processes whose next write is about what they read before, and those
\* that are about to take out the line of e.
Rewriting(m) == {n \in Mambas \ {m} : envPc[n] \in {"rewriting", "writing"}}
TakingOut(m, e) == {n \in Mambas \ {m} : envPc[n] = "unregistering" /\ location[n] = e}

-----------------------------------------------------------------------------
(* create_target_directory, register_env *)

Begin(m, e, place) ==
    /\ envPc[m] = "idle" /\ envCommands < MaxEnvCommands
    /\ envCommands' = envCommands + 1
    /\ location' = [location EXCEPT ![m] = e]
    /\ EnvTo(m, place)

\* conda-meta/history comes before the line.
Create(m, e) ==
    /\ Begin(m, e, "registering")
    /\ environments' = environments \cup {e}
    /\ UNCHANGED <<populated, envFile, linesLeft, unsure>>

\* A line that is there already is left alone.
Register(m) ==
    /\ envPc[m] = "registering"
    /\ LET e == location[m]
       IN  IF e \in ToSet(envFile)
           THEN /\ EnvTo(m, "registered")
                /\ unsure' = IF Rewriting(m) \cup TakingOut(m, e) = {} THEN unsure \ {e}
                             ELSE unsure \cup {e}
           ELSE EnvTo(m, "appending") /\ UNCHANGED unsure
    /\ UNCHANGED <<environments, populated, envFile, location, linesLeft, envCommands>>

AppendLine(m) ==
    /\ envPc[m] = "appending"
    /\ LET e == location[m]
       IN  /\ envFile' = Append(envFile, e)
           /\ unsure' = IF Rewriting(m) \cup TakingOut(m, e) = {} THEN unsure \ {e}
                        ELSE unsure \cup {e}
    /\ EnvTo(m, "registered")
    /\ UNCHANGED <<environments, populated, location, linesLeft, envCommands>>

\* The transaction that follows.  It makes the prefix again if that was
\* removed meanwhile, and registers nothing.
Populate(m) ==
    /\ envPc[m] = "registered"
    /\ \/ /\ environments' = environments \cup {location[m]}
          /\ populated' = populated \cup {location[m]}
          /\ unsure' = unsure \cup ({location[m]} \ environments)
       \/ UNCHANGED <<environments, populated, unsure>>
    /\ EnvTo(m, "idle")
    /\ UNCHANGED <<envFile, location, linesLeft, envCommands>>

-----------------------------------------------------------------------------
(* env remove: remove_or_rename, then unregister_env; env list:             *)
(* list_all_known_prefixes                                                  *)

RemovePrefix(m, e) ==
    /\ Begin(m, e, "unregistering")
    /\ environments' = environments \ {e} /\ populated' = populated \ {e}
    /\ UNCHANGED <<envFile, linesLeft, unsure>>

List(m) ==
    /\ Begin(m, NoLocation, "listing")
    /\ UNCHANGED <<environments, populated, envFile, linesLeft, unsure>>

\* As IsKept, but a prefix counts once it has packages.
KeepsUsed(m, e) == e # location[m] /\ e \in populated
IsKept(m, e) == e # location[m] /\ e \in environments

\* clean_environments_txt reads all lines, and writes them again when it keeps
\* fewer, as a set.
Clean(m) ==
    /\ envPc[m] \in {"unregistering", "listing"}
    /\ IF envPc[m] = "unregistering" /\ location[m] \in populated
       THEN EnvTo(m, "idle") /\ UNCHANGED <<linesLeft, unsure>>
       ELSE LET kept == {e \in ToSet(envFile) : IsKept(m, e)}
            IN  IF Cardinality(kept) = Len(envFile)
                THEN EnvTo(m, "idle") /\ UNCHANGED <<linesLeft, unsure>>
                ELSE /\ EnvTo(m, "rewriting")
                     /\ linesLeft' = [linesLeft EXCEPT ![m] = kept]
                     /\ unsure' = IF Rewriting(m) = {} THEN unsure ELSE EnvPrefixes
    /\ UNCHANGED <<environments, populated, envFile, location, envCommands>>

Truncate(m) ==
    /\ envPc[m] = "rewriting"
    /\ envFile' = <<>>
    /\ EnvTo(m, "writing")
    /\ UNCHANGED <<environments, populated, location, linesLeft, unsure, envCommands>>

\* One line and the flush of std::endl.
WriteLine(m, e) ==
    /\ envPc[m] = "writing" /\ e \in linesLeft[m]
    /\ envFile' = Append(envFile, e)
    /\ linesLeft' = [linesLeft EXCEPT ![m] = @ \ {e}]
    /\ UNCHANGED <<environments, populated, envPc, location, unsure, envCommands>>

Cleaned(m) ==
    /\ envPc[m] = "writing" /\ linesLeft[m] = {}
    /\ EnvTo(m, "idle")
    /\ UNCHANGED <<environments, populated, envFile, location, linesLeft, unsure, envCommands>>

EndOfMamba(m) ==
    /\ envPc[m] # "idle"
    /\ EnvTo(m, "idle")
    /\ linesLeft' = [linesLeft EXCEPT ![m] = {}]
    /\ unsure' = unsure \cup linesLeft[m]
                 \cup (IF envPc[m] \in {"registering", "appending"} THEN {location[m]} ELSE {})
    /\ UNCHANGED <<environments, populated, envFile, location, envCommands>>

-----------------------------------------------------------------------------
EnvironmentsInit ==
    /\ environments = {} /\ populated = {} /\ envFile = <<>>
    /\ envPc = [m \in Mambas |-> "idle"] /\ location = [m \in Mambas |-> NoLocation]
    /\ linesLeft = [m \in Mambas |-> {}] /\ unsure = {} /\ envCommands = 0

EnvironmentsNext ==
    \E m \in Mambas :
        \/ \E e \in EnvPrefixes : Create(m, e) \/ RemovePrefix(m, e) \/ WriteLine(m, e)
        \/ Register(m) \/ AppendLine(m) \/ Populate(m)
        \/ List(m) \/ Clean(m) \/ Truncate(m) \/ Cleaned(m) \/ EndOfMamba(m)

EnvironmentsSpec == EnvironmentsInit /\ [][EnvironmentsNext]_envVars

-----------------------------------------------------------------------------
\* While nobody is at work on the file it has a line for each environment that
\* was registered, however commands made, removed and listed them before,
\* unless two processes met over that line or one ended in the middle.
EnvironmentsAreListed ==
    (\A m \in Mambas : envPc[m] \in {"idle", "registered"}) =>
        environments \ unsure \subseteq ToSet(envFile)
=============================================================================
