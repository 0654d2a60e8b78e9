------------------------------ MODULE ShellInit ------------------------------
(***************************************************************************)
(* shell_init.cpp: the block that mamba keeps in the start-up file of a     *)
(* shell, and the hooks it keeps in a root prefix, while the user goes on   *)
(* writing to the same files.  A file is a sequence of tokens: a line of    *)
(* the user, a line end, the two marks of a block, the prefix it is for.    *)
(***************************************************************************)
EXTENDS Sequences, SequencesExt, Integers

CONSTANTS ShellsAsked,     \* the shells commands are given for
          RootPrefixes,    \* the prefixes they are given for
          MaxLines         \* bound: lines the user writes to a file

VARIABLES rcFile,          \* the start-up file of each shell, or NoRcFile
          hooks,           \* the hook files that exist, each with its prefix
          userText,        \* what the user wrote to each file
          rcPrefix         \* the prefix of the last init, NoPrefix after a deinit

shellInitVars == <<rcFile, hooks, userText, rcPrefix>>

NoRcFile == <<"no file">>
NoPrefix == "no prefix"

\* A prefix is told apart from the other tokens.
ASSUME ShellInitConstants ==
    RootPrefixes \cap {"line", "line end", "begin", "end", NoPrefix} = {}

RcShells == {"bash", "zsh", "csh", "xonsh", "fish", "nu", "powershell"}
Files == RcShells \cap ShellsAsked

(* The hook file of a shell in a prefix; the three POSIX shells share one. *)
HookFiles(sh) ==
    CASE sh \in {"bash", "zsh", "posix"} -> {"mamba.sh"}
      [] sh = "csh"        -> {"mamba.csh"}
      [] sh = "xonsh"      -> {"mamba.xsh"}
      [] sh = "fish"       -> {"mamba.fish"}
      [] sh = "cmd.exe"    -> {"mamba_hook.bat"}
      [] sh = "powershell" -> {"mamba_hook.ps1"}
      [] OTHER             -> {}

-----------------------------------------------------------------------------
(* The text of a file *)

HasMark(f) == "begin" \in Range(f)
RcBlock(prefix) == <<"line end", "begin", prefix, "end", "line end">>
RcContents(f) == IF f = NoRcFile THEN <<>> ELSE f

\* regex_replace with MAMBA_INITIALIZE_RE_BLOCK: a block goes with the line
\* ends on both sides of it.  from[i] is what becomes of the text from i on.
Replaced(f, by) ==
    LET ends(i) == {j \in i..Len(f) : f[j] = "end"}
        begins(i) == {j \in i..Len(f) : f[j] = "begin" /\ ends(j) # {}}
        b(i) == Min(begins(i))
        e(i) == Min(ends(b(i)))
        before(i) == IF b(i) > i /\ f[b(i) - 1] = "line end" THEN b(i) - 2 ELSE b(i) - 1
        after(i) == IF e(i) < Len(f) /\ f[e(i) + 1] = "line end" THEN e(i) + 2 ELSE e(i) + 1
        from[i \in 1..(Len(f) + 1)] ==
            IF begins(i) = {} THEN SubSeq(f, i, Len(f))
            ELSE SubSeq(f, i, before(i)) \o by \o from[after(i)]
    IN  from[1]

\* modify_rc_file and init_powershell
ModifiedRcFile(f, prefix) ==
    LET result == Replaced(RcContents(f), RcBlock(prefix))
    IN  IF HasMark(result) THEN result ELSE RcContents(f) \o RcBlock(prefix)

\* reset_rc_file and deinit_powershell, which removes a file it leaves blank
Reset(sh, f) ==
    LET result == Replaced(f, <<>>)
    IN  IF f = NoRcFile THEN f
        ELSE IF sh = "powershell" /\ Range(result) \subseteq {"line end"} THEN NoRcFile
        ELSE result

-----------------------------------------------------------------------------
(* Commands *)

InitRootPrefix(shells, prefix) ==
    hooks' = hooks \cup ((UNION {HookFiles(sh) : sh \in shells}) \X {prefix})

\* init_shell: the hooks are written before the shell is looked at, and in a
\* dry run too.
InitShell(sh, prefix, dryRun) ==
    /\ InitRootPrefix({sh}, prefix)
    /\ IF sh \in RcShells /\ ~dryRun
       THEN /\ rcFile' = [rcFile EXCEPT ![sh] = ModifiedRcFile(@, prefix)]
            /\ rcPrefix' = [rcPrefix EXCEPT ![sh] = prefix]
       ELSE UNCHANGED <<rcFile, rcPrefix>>
    /\ UNCHANGED userText

HooksLeftInDryRun(sh, prefix, dryRun) == hooks \ (HookFiles(sh) \X {prefix})
\* deinit_root_prefix
HooksLeft(sh, prefix, dryRun) ==
    IF dryRun THEN hooks ELSE hooks \ (HookFiles(sh) \X {prefix})

\* deinit_shell: only a shell with a start-up file gets that far.
DeinitShell(sh, prefix, dryRun) ==
    /\ sh \in RcShells
    /\ hooks' = HooksLeft(sh, prefix, dryRun)
    /\ IF dryRun THEN UNCHANGED <<rcFile, rcPrefix>>
       ELSE /\ rcFile' = [rcFile EXCEPT ![sh] = Reset(sh, @)]
            /\ rcPrefix' = [rcPrefix EXCEPT ![sh] = NoPrefix]
    /\ UNCHANGED userText

\* find_initialized_shells: any profile of powershell counts; nu is never found,
\* the path of its file is empty there (config_path_for_shell).
InitializedShells ==
    {sh \in Files \ {"nu"} :
        IF sh = "powershell" THEN rcFile[sh] # NoRcFile ELSE HasMark(rcFile[sh])}

\* shell_reinit
ShellReinit(prefix) ==
    /\ InitRootPrefix(InitializedShells, prefix)
    /\ rcFile' = [sh \in Files |-> IF sh \in InitializedShells
                                   THEN ModifiedRcFile(rcFile[sh], prefix) ELSE rcFile[sh]]
    /\ rcPrefix' = [sh \in Files |-> IF sh \in InitializedShells THEN prefix ELSE rcPrefix[sh]]
    /\ UNCHANGED userText

\* The user adds a line at the end, be it after a block or in the middle of a line.
UserWrites(sh) ==
    /\ Len(userText[sh]) < 2 * MaxLines
    /\ rcFile' = [rcFile EXCEPT ![sh] = RcContents(@) \o <<"line", "line end">>]
    /\ userText' = [userText EXCEPT ![sh] = @ \o <<"line", "line end">>]
    /\ UNCHANGED <<hooks, rcPrefix>>

-----------------------------------------------------------------------------
ShellInitInit ==
    /\ rcFile \in [Files -> {NoRcFile, <<"line">>, <<"line", "line end">>}]
    /\ userText = [sh \in Files |-> RcContents(rcFile[sh])]
    /\ rcPrefix = [sh \in Files |-> NoPrefix]
    /\ hooks = {}

ShellInitNext ==
    \/ \E sh \in ShellsAsked, p \in RootPrefixes, dryRun \in BOOLEAN :
           InitShell(sh, p, dryRun) \/ DeinitShell(sh, p, dryRun)
    \/ \E p \in RootPrefixes : ShellReinit(p)
    \/ \E sh \in Files : UserWrites(sh)

ShellInitSpec == ShellInitInit /\ [][ShellInitNext]_shellInitVars

-----------------------------------------------------------------------------
Prefixed(f) == {i \in DOMAIN f : f[i] = "begin"}

\* Whatever commands were given and whatever the user wrote between them, a
\* start-up file has one block, of the last init, or none, and without it is the
\* text that the user typed, byte for byte: no init makes the file grow, no deinit
\* takes a byte of the user's or leaves one of its own (modify_rc_file,
\* reset_rc_file).  Both line ends around a block are its own: where it came after
\* a text without a last line end and the user wrote on below it, the user's two
\* lines are one line once it is gone.
RcFileIsAsAsked ==
    \A sh \in Files :
        LET f == RcContents(rcFile[sh])
        IN  /\ {f[i + 1] : i \in Prefixed(f)} = {rcPrefix[sh]} \ {NoPrefix}
            /\ Cardinality(Prefixed(f)) <= 1
            /\ Replaced(f, <<>>) = userText[sh]

\* The hook of the prefix that a block names exists where the block needs it: csh
\* sources that file and powershell's hook is read from it (deinit_root_prefix, in
\* a dry run too).  The hook of bash and zsh goes with a deinit of either.
BlockHasItsHook ==
    \A sh \in Files \cap {"csh", "powershell"} :
        rcPrefix[sh] # NoPrefix => HookFiles(sh) \X {rcPrefix[sh]} \subseteq hooks

StartUpFilesAreRight == RcFileIsAsAsked /\ BlockHasItsHook
=============================================================================
