---------------------------- MODULE Configuration ----------------------------
(***************************************************************************)
(* configuration.cpp: the configurables with what each needs, the order in  *)
(* which they are computed, and what a program that keeps one Configuration *)
(* for several operations (c_api.cpp) finds in them.  Values are followed   *)
(* for the configurables that decide the target prefix and the channels.    *)
(***************************************************************************)
EXTENDS Sequences, SequencesExt, Integers

CONSTANTS EnvNames,        \* names of environments
          RcChoices,       \* sets of places with a rc file: "home" or a prefix
          MaxGiven,        \* bound: values given for one operation
          MaxLoads         \* bound: loads in one behaviour

VARIABLES loadingSequence, \* m_loading_sequence, made once: the declarations do not change
          sequenced,       \* the declarations gone through
          configPc,        \* "sequencing", "idle", "loading", "loaded", or "failed"
          computed,        \* the followed configurables that this load has computed
          configValue,     \* m_value
          apiConfigured,   \* the configurables with m_api_configured
          cliConfig,       \* m_cli_config, or Unset
          rcChannels,      \* the values of channels from rc files, highest rank first
          targetVar,       \* MAMBA_TARGET_PREFIX is set
          rcAt,            \* the places with a rc file
          given,           \* <<"API" or "CLI", configurable, value>> since the teardown
          loads,           \* loads so far
          loadsSince       \* loads since the last teardown

sequenceVars == <<loadingSequence, sequenced>>
configVars == <<loadingSequence, sequenced, configPc, computed, configValue, apiConfigured, cliConfig, rcChannels,
                targetVar, rcAt, given, loads, loadsSince>>

NoValue == <<"no value">>
Nameless == "no name"

\* The name of an environment is told apart from what else stands in a value.
ASSUME ConfigConstants == EnvNames \cap {"no value", Nameless, "of the file"} = {}

-----------------------------------------------------------------------------
(* set_configurables: in the order of their declaration                     *)

Row(name, rc, env, needs) == [name |-> name, rc |-> rc, env |-> env, needs |-> needs]
Rows(names, rc, env) == [i \in DOMAIN names |-> Row(names[i], rc, env, {})]
CliOnly(names) == Rows(names, "none", FALSE)
RcEnv(names) == Rows(names, "target", TRUE)

PrefixConfigurables ==
    <<Row("root_prefix", "none", TRUE, {"create_base", "rc_files"})>>
    \o CliOnly(<<"create_base">>)
    \o <<Row("target_prefix", "none", TRUE,
             {"root_prefix", "envs_dirs", "env_name", "spec_file_env_name",
              "use_target_prefix_fallback", "use_root_prefix_fallback"}),
         Row("relocate_prefix", "none", TRUE, {"target_prefix"})>>
    \o CliOnly(<<"use_target_prefix_fallback", "use_root_prefix_fallback">>)
    \o <<Row("target_prefix_checks", "none", FALSE, {"target_prefix", "rc_files"}),
         Row("env_name", "none", FALSE, {"root_prefix", "spec_file_env_name", "envs_dirs"}),
         Row("envs_dirs", "home", TRUE, {"root_prefix"}),
         Row("pkgs_dirs", "target", TRUE, {"root_prefix"})>>
    \o RcEnv(<<"platform">>)
    \o <<Row("spec_file_env_name", "none", FALSE, {"file_specs", "root_prefix"}),
         Row("specs", "none", FALSE, {"file_specs"})>>
    \o CliOnly(<<"others_pkg_mgrs_specs">>)
    \o RcEnv(<<"experimental", "experimental_repodata_parsing">>)
    \o Rows(<<"debug">>, "none", TRUE)

ChannelConfigurables ==
    <<Row("channels", "target", TRUE, {"file_specs"})>>
    \o RcEnv(<<"channel_alias", "default_channels", "custom_channels">>)
    \o <<Row("custom_multichannels", "target", FALSE,
             {"default_channels", "target_prefix", "root_prefix"})>>
    \o RcEnv(<<"mirrored_channels", "override_channels_enabled">>)
    \o Rows(<<"repodata_use_zst", "repodata_has_zst">>, "target", FALSE)

NetworkConfigurables ==
    RcEnv(<<"cacert_path">>) \o Rows(<<"local_repodata_ttl">>, "target", FALSE)
    \o RcEnv(<<"offline", "ssl_no_revoke">>)
    \o <<Row("ssl_verify", "target", TRUE, {"cacert_path", "offline"})>>
    \o Rows(<<"proxy_servers">>, "target", FALSE)
    \o RcEnv(<<"remote_connect_timeout_secs", "remote_backoff_factor", "remote_max_retries">>)

SolverConfigurables ==
    RcEnv(<<"channel_priority">>) \o CliOnly(<<"explicit_install", "file_specs">>)
    \o Rows(<<"no_pin">>, "none", TRUE)
    \o RcEnv(<<"no_py_pin", "add_pip_as_python_dependency", "pinned_packages">>)
    \o CliOnly(<<"freeze_installed", "no_deps", "only_deps", "force_reinstall">>)
    \o RcEnv(<<"allow_uninstall", "allow_downgrade", "order_solver_request">>)
    \o CliOnly(<<"categories">>) \o Rows(<<"retry_clean_cache">>, "none", TRUE)

LinkConfigurables ==
    RcEnv(<<"download_threads", "extract_threads", "allow_softlinks", "always_copy">>)
    \o <<Row("always_softlink", "target", TRUE, {"always_copy"})>>
    \o RcEnv(<<"show_anaconda_channel_warnings", "shortcuts", "safety_checks",
               "extra_safety_checks", "verify_artifacts", "trusted_channels", "lock_timeout",
               "use_lockfiles", "compile_pyc">>)

OutputConfigurables ==
    RcEnv(<<"always_yes", "auto_activate_base">>)
    \o Rows(<<"dry_run", "download_only">>, "none", TRUE)
    \o <<Row("log_level", "target", TRUE, {"json", "verbose"})>>
    \o RcEnv(<<"log_backtrace", "log_pattern">>)
    \o <<Row("json", "target", TRUE, {"print_config_only", "print_context_only"})>>
    \o RcEnv(<<"changeps1", "shell_completion", "env_prompt">>)

SourceConfigurables ==
    <<Row("print_config_only", "none", FALSE, {"debug"}),
      Row("print_context_only", "none", FALSE, {"debug"})>>
    \o CliOnly(<<"show_all_configs", "show_all_rc_configs", "show_config_descriptions",
               "show_config_groups", "show_config_long_descriptions", "show_config_sources",
               "show_config_values">>)
    \o <<Row("quiet", "target", TRUE, {"json", "print_config_only", "print_context_only"})>>
    \o CliOnly(<<"verbose">>)
    \o <<Row("rc_files", "none", TRUE, {"no_rc"})>>
    \o Rows(<<"override_rc_files", "no_rc", "no_env">>, "none", TRUE)

Configurables == PrefixConfigurables \o ChannelConfigurables \o NetworkConfigurables
                 \o SolverConfigurables \o LinkConfigurables \o OutputConfigurables
                 \o SourceConfigurables

\* set_rc_configurable and set_env_var_names add needs of their own.
RowOf(name) == Configurables[CHOOSE i \in DOMAIN Configurables : Configurables[i].name = name]
Needed(name) ==
    LET row == RowOf(name)
    IN  row.needs \cup (CASE row.rc = "target" -> {"target_prefix"}
                          [] row.rc = "home"   -> {"root_prefix"}
                          [] OTHER             -> {})
                  \cup (IF row.env /\ name # "no_env" THEN {"no_env"} ELSE {})

-----------------------------------------------------------------------------
(* compute_loading_sequence.  Nothing implies another configurable.         *)

\* A std::set is gone through in the order of the alphabet.
Alphabetic ==
    <<"always_copy", "cacert_path", "create_base", "debug", "default_channels", "env_name",
      "envs_dirs", "file_specs", "json", "no_env", "no_rc", "offline", "print_config_only",
      "print_context_only", "rc_files", "root_prefix", "spec_file_env_name", "target_prefix",
      "use_root_prefix_fallback", "use_target_prefix_fallback", "verbose">>
InAlphabet(names) == SelectSeq(Alphabetic, LAMBDA n : n \in names)

\* The name follows what it needs.
AddedBefore(seq, name) == Append(seq, name)
AddedAfter(seq, name) == seq

Circular == "Circular import"
\* names are added one after the other; locked are those being added.
AddToLoadingSequence[seq \in Seq(STRING), names \in Seq(STRING), locked \in SUBSET STRING] ==
    IF names = <<>> THEN seq
    ELSE LET name == Head(names)
             added == AddToLoadingSequence[AddedAfter(seq, name), InAlphabet(Needed(name)),
                                           locked \cup {name}]
             next == CASE name \in locked     -> Append(seq, Circular)
                       [] name \in Range(seq) -> seq
                       [] name \in Range(added) -> added
                       [] OTHER               -> Append(added, name)
         IN  AddToLoadingSequence[next, Tail(names), locked]

-----------------------------------------------------------------------------
(* What the hooks of a configurable read of others, and set of them.        *)

HookReads(name) ==
    CASE name = "root_prefix"   -> {"rc_files"}
      [] name = "target_prefix" -> {"root_prefix", "use_target_prefix_fallback",
                                    "use_root_prefix_fallback", "create_base", "rc_files"}
      [] name = "target_prefix_checks" -> {"target_prefix"}
      [] name = "env_name"      -> {"root_prefix", "spec_file_env_name", "envs_dirs"}
      [] name \in {"envs_dirs", "pkgs_dirs"}    -> {"root_prefix"}
      [] name = "ssl_verify"    -> {"offline", "cacert_path"}
      [] name = "always_softlink"               -> {"always_copy"}
      [] name \in {"print_config_only", "print_context_only"} -> {"debug"}
      [] name = "log_level"     -> {"json", "verbose"}
      [] name = "rc_files"      -> {"no_rc"}
      [] OTHER                  -> {}

OfLevel(levels) == {row.name : row \in {r \in Range(Configurables) : r.rc \in levels}}
HookSets(name) ==
    CASE name = "root_prefix"   -> OfLevel({"home"})
      [] name = "target_prefix" -> OfLevel({"target"})
      [] name = "env_name"      -> {"target_prefix"}
      [] name = "file_specs"    -> {"spec_file_env_name", "specs", "others_pkg_mgrs_specs",
                                    "channels", "explicit_install"}
      [] name \in {"print_config_only", "print_context_only"} -> {"quiet", "json"}
      [] OTHER                  -> {}

-----------------------------------------------------------------------------
(* The values that are followed                                             *)

Tracked == {"file_specs", "spec_file_env_name", "env_name", "target_prefix", "channels"}
\* The next one is that which comes first in the loading sequence.
Position(c) == CHOOSE i \in DOMAIN loadingSequence : loadingSequence[i] = c
NextToCompute ==
    CHOOSE c \in Tracked \ computed : \A d \in Tracked \ computed : Position(c) <= Position(d)
SingleOpLifetime == {"spec_file_env_name", "env_name", "target_prefix"}
DefaultValue == [c \in Tracked |-> <<>>]

PrefixOf(name) == <<"prefix of", name[1]>>
Configured(c) == c \in apiConfigured \/ cliConfig[c] # NoValue \/ (c = "target_prefix" /\ targetVar)

\* compute: the values by the rank of their source
SourceValues(c) ==
    (IF c \in apiConfigured THEN <<configValue[c]>> ELSE <<>>)
    \o (IF cliConfig[c] # NoValue THEN <<cliConfig[c]>> ELSE <<>>)
    \o (IF c = "target_prefix" /\ targetVar THEN <<<<"of the variable">>>> ELSE <<>>)
    \o (IF c = "channels" THEN rcChannels ELSE <<>>)

\* Source::merge: the first value, or of sequences all elements once
Once(s) ==
    LET upTo[i \in 0..Len(s)] ==
            IF i = 0 THEN <<>>
            ELSE LET seq == upTo[i - 1]
                 IN  IF s[i] \in Range(seq) THEN seq ELSE Append(seq, s[i])
    IN  upTo[Len(s)]
Merged(c) ==
    LET values == SourceValues(c)
    IN  IF values = <<>> THEN DefaultValue[c]
        ELSE IF c \in {"file_specs", "channels"} THEN Once(FlattenSeq(values))
        ELSE values[1]

\* file_specs_hook, for one YAML file: its name and its channels
FileName(file) == IF file[1] = Nameless THEN <<>> ELSE <<file[1]>>
FileChannels(file) == Tail(file)
FileSpecsHook(files) ==
    IF files = <<>> THEN UNCHANGED <<cliConfig, apiConfigured>>
    ELSE LET file == files
             channels == IF cliConfig["channels"] = NoValue THEN <<>> ELSE cliConfig["channels"]
         IN  /\ cliConfig' =
                  [cliConfig EXCEPT
                     !["channels"] = IF FileChannels(file) = <<>> THEN @
                                     ELSE channels \o FileChannels(file),
                     !["spec_file_env_name"] =
                         IF FileName(file) = <<>> \/ Configured("spec_file_env_name") THEN @
                         ELSE FileName(file)]
             /\ UNCHANGED apiConfigured

Unnamed(name) == ~Configured("env_name") /\ Configured("spec_file_env_name")
\* env_name_hook, when it does not throw
EnvNameHook(merged) ==
    LET ofFile == Unnamed(merged)
        name == IF ofFile THEN configValue["spec_file_env_name"] ELSE merged
        cli == IF ofFile THEN [cliConfig EXCEPT !["env_name"] = name] ELSE cliConfig
        toCli == name # <<>> /\ cli["target_prefix"] = NoValue /\ cli["env_name"] # NoValue
        toApi == name # <<>> /\ "target_prefix" \notin apiConfigured /\ "env_name" \in apiConfigured
    IN  /\ cliConfig' = IF toCli THEN [cli EXCEPT !["target_prefix"] = PrefixOf(name)] ELSE cli
        /\ apiConfigured' = apiConfigured \cup (IF toApi THEN {"target_prefix"} ELSE {})
        /\ configValue' = [configValue EXCEPT !["env_name"] = name,
                             !["target_prefix"] = IF toApi THEN PrefixOf(name) ELSE @]

NameAndPrefix == cliConfig["env_name"] # NoValue /\ cliConfig["target_prefix"] # NoValue

\* target_prefix_hook
TargetPrefix(prefix) == IF prefix = <<>> THEN <<"fallback">> ELSE prefix
\* rc files of the target prefix rank first (compute_default_rc_sources)
RcChannelsAt(place) == IF place \in rcAt THEN <<place>> ELSE <<>>
RcChannels(prefix) == RcChannelsAt(prefix) \o RcChannelsAt(<<"home">>)

-----------------------------------------------------------------------------
(* load *)

\* compute_loading_sequence
AddNext ==
    /\ configPc = "sequencing"
    /\ loadingSequence' = AddToLoadingSequence[loadingSequence,
                                               <<Configurables[sequenced + 1].name>>, {}]
    /\ sequenced' = sequenced + 1
    /\ configPc' = IF sequenced' = Len(Configurables) THEN "idle" ELSE "sequencing"
    /\ UNCHANGED <<computed, configValue, apiConfigured, cliConfig, rcChannels, targetVar, rcAt,
                   given, loads, loadsSince>>

BeginLoad ==
    /\ configPc = "idle" /\ loads < MaxLoads
    /\ configPc' = "loading" /\ computed' = {}
    /\ loads' = loads + 1 /\ loadsSince' = loadsSince + 1
    /\ rcChannels' = <<>> /\ rcAt' \in RcChoices
    /\ UNCHANGED <<sequenceVars, configValue, apiConfigured, cliConfig, targetVar, given>>

Throws(c) == c = "env_name" /\ NameAndPrefix

Compute ==
    LET c == NextToCompute
    IN  /\ configPc = "loading" /\ ~Throws(c)
        /\ CASE c = "file_specs" ->
                  /\ configValue' = [configValue EXCEPT ![c] = Merged(c)]
                  /\ FileSpecsHook(Merged(c))
                  /\ UNCHANGED rcChannels
             [] c = "env_name" -> EnvNameHook(Merged(c)) /\ UNCHANGED rcChannels
             [] c = "target_prefix" ->
                  /\ configValue' = [configValue EXCEPT ![c] = TargetPrefix(Merged(c))]
                  /\ rcChannels' = RcChannels(configValue'[c])
                  /\ UNCHANGED <<cliConfig, apiConfigured>>
             [] OTHER ->
                  /\ configValue' = [configValue EXCEPT ![c] = Merged(c)]
                  /\ UNCHANGED <<cliConfig, apiConfigured, rcChannels>>
        /\ computed' = computed \cup {c}
        /\ configPc' = IF computed' = Tracked THEN "loaded" ELSE "loading"
        /\ UNCHANGED <<sequenceVars, targetVar, rcAt, given, loads, loadsSince>>

\* env_name_hook; the merged value is kept
ComputeThrows ==
    LET c == NextToCompute
    IN  /\ configPc = "loading" /\ Throws(c)
        /\ configValue' = [configValue EXCEPT ![c] = Merged(c)]
        /\ configPc' = "failed"
        /\ UNCHANGED <<sequenceVars, computed, apiConfigured, cliConfig, rcChannels, targetVar, rcAt, given,
                       loads, loadsSince>>

-----------------------------------------------------------------------------
(* Operations *)

ClearedAtTeardown == SingleOpLifetime
\* clear_values of those with a single operation lifetime, which also removes
\* the variable from the environment, and clear_cli_value of the others
OperationTeardown ==
    /\ cliConfig' = [c \in Tracked |-> NoValue]
    /\ apiConfigured' = apiConfigured \ ClearedAtTeardown
    /\ configValue' = [c \in Tracked |-> IF c \in ClearedAtTeardown THEN DefaultValue[c]
                                         ELSE configValue[c]]
    /\ rcChannels' = rcChannels
    /\ targetVar' = FALSE
    /\ given' = {g \in given : g[1] = "API" /\ g[2] \notin SingleOpLifetime}
    /\ loadsSince' = 0

\* Operations that fail, and those that only show something, tear down;
\* install, create, update and remove do not when they succeed.
EndOperation ==
    /\ configPc \in {"loaded", "failed"}
    /\ \/ OperationTeardown
       \/ /\ configPc = "loaded"
          /\ UNCHANGED <<cliConfig, apiConfigured, configValue, rcChannels, targetVar, given,
                         loadsSince>>
    /\ configPc' = "idle"
    /\ UNCHANGED <<sequenceVars, computed, rcAt, loads>>

\* mamba_set_cli_config and mamba_set_config
SetCli(c, v) ==
    /\ cliConfig' = [cliConfig EXCEPT ![c] = v]
    /\ UNCHANGED <<configValue, apiConfigured>>
SetApi(c, v) ==
    /\ configValue' = [configValue EXCEPT ![c] = v]
    /\ apiConfigured' = apiConfigured \cup {c}
    /\ UNCHANGED cliConfig

FileNames == EnvNames \cup {Nameless}
SpecFiles == {<<n>> : n \in FileNames} \cup {<<n, "of the file">> : n \in FileNames}
ValuesFor(c) ==
    CASE c = "env_name"      -> {<<n>> : n \in EnvNames}
      [] c = "target_prefix" -> {<<"given">>}
      [] c = "channels"      -> {<<"of the file", "x">>}
      [] c = "file_specs"    -> SpecFiles

SetConfig ==
    /\ configPc = "idle"
    /\ \E from \in {"API", "CLI"}, c \in Tracked \ {"spec_file_env_name"} :
       \E v \in ValuesFor(c) :
        /\ Cardinality(given) < MaxGiven
        /\ ~\E g \in given : g[1] = from /\ g[2] = c
        /\ given' = given \cup {<<from, c, v>>}
        /\ IF from = "CLI" THEN SetCli(c, v) ELSE c # "file_specs" /\ SetApi(c, v)
    /\ UNCHANGED <<sequenceVars, configPc, computed, rcChannels, targetVar, rcAt, loads, loadsSince>>

-----------------------------------------------------------------------------
ConfigInit ==
    /\ configPc = "sequencing" /\ loadingSequence = <<>> /\ sequenced = 0 /\ computed = {}
    /\ configValue = DefaultValue /\ apiConfigured = {}
    /\ cliConfig = [c \in Tracked |-> NoValue] /\ rcChannels = <<>>
    /\ targetVar \in BOOLEAN /\ rcAt = {} /\ given = {} /\ loads = 0 /\ loadsSince = 0

ConfigNext == AddNext \/ BeginLoad \/ Compute \/ ComputeThrows \/ EndOperation \/ SetConfig
ConfigSpec == ConfigInit /\ [][ConfigNext]_configVars

-----------------------------------------------------------------------------
\* Each configurable is computed once, after all that its hooks read, and
\* before none that its hooks set: value() never throws, and no value from a
\* spec file, a rc file or an environment's name comes too late
\* (set_configurables, add_to_loading_sequence).
HooksAreInOrder ==
    LET seq == loadingSequence
        names == {row.name : row \in Range(Configurables)}
    IN  /\ seq \in Seq(names)
        /\ \A i \in DOMAIN seq :
               /\ seq[i] \notin {seq[j] : j \in 1..(i - 1)}
               /\ HookReads(seq[i]) \subseteq {seq[j] : j \in 1..(i - 1)}
               /\ HookSets(seq[i]) \cap {seq[j] : j \in 1..i} = {}
        /\ configPc # "sequencing" => names \subseteq Range(seq)
\* It is made once, from the declarations alone, before the first load.
LoadingIsInOrder == loads = 0 /\ given = {} => HooksAreInOrder

GivenFor(from, c) == LET of == {g \in given : g[1] = from /\ g[2] = c}
                     IN  IF of = {} THEN NoValue ELSE (CHOOSE g \in of : TRUE)[3]
FirstOf(values) == LET set == {i \in DOMAIN values : values[i] # NoValue}
                   IN  IF set = {} THEN NoValue ELSE values[Min(set)]
FileGiven == GivenFor("CLI", "file_specs")
NameOfFile ==
    IF FileGiven = NoValue \/ FileName(FileGiven) = <<>> THEN NoValue ELSE FileName(FileGiven)
NameAsked == FirstOf(<<GivenFor("API", "env_name"), GivenFor("CLI", "env_name"), NameOfFile>>)
PrefixOfName == IF NameAsked = NoValue THEN NoValue ELSE PrefixOf(NameAsked)
\* What the operation is for, from what was given for it alone
PrefixAsked ==
    FirstOf(<<GivenFor("API", "target_prefix"),
              IF GivenFor("API", "env_name") = NoValue THEN NoValue ELSE PrefixOfName,
              GivenFor("CLI", "target_prefix"), PrefixOfName,
              IF targetVar THEN <<"of the variable">> ELSE NoValue, <<"fallback">>>>)

\* The first operation after a teardown is for the environment it was asked
\* for, whatever the operations before it were given, and only a name together
\* with a prefix makes it fail; its channels are those given for it, with the
\* rc files of that environment; a list set through the API comes first
\* (operation_teardown, env_name_hook, compute).
OperationsAreIndependent ==
    loadsSince = 1 =>
      /\ configPc = "failed" =>
             GivenFor("CLI", "env_name") # NoValue /\ GivenFor("CLI", "target_prefix") # NoValue
      /\ configPc = "loaded" =>
             /\ configValue["target_prefix"] = PrefixAsked
             /\ LET cli == GivenFor("CLI", "channels")
                    lists == <<IF cli = NoValue THEN <<>> ELSE cli,
                               IF FileGiven = NoValue THEN <<>> ELSE FileChannels(FileGiven)>>
                             \o RcChannels(PrefixAsked)
                    api == GivenFor("API", "channels")
                IN  IF api = NoValue
                    THEN configValue["channels"] = Once(FlattenSeq(lists))
                    ELSE /\ IsPrefix(api, configValue["channels"])
                         /\ Range(FlattenSeq(lists)) \subseteq Range(configValue["channels"])

ConfigurationIsRight == LoadingIsInOrder /\ OperationsAreIndependent
=============================================================================
