--------------------------- MODULE MCParts --------------------------------
(***************************************************************************)
(* The parts of libmamba that keep their state apart from each other, for   *)
(* TLC: an instance of each.  A behaviour is one of the part that it begins *)
(* with, while the others stay in a state they begin in.                    *)
(***************************************************************************)
EXTENDS Transaction, SubdirIndex, PrefixData, Versions,
        Settings, Activation, PycCompilation, ExecutorInstance, RootUpdates,
        PackageRequests

CONSTANTS pkgA1, pkgA2, pkgA2Other, pkgB, pkgC, pkgD, pkgE, file1, file2, file3, file4, file5, file6

VARIABLE part

-----------------------------------------------------------------------------
(* Transaction: an upgrade of a, a reinstallation of d, a removal and an    *)
(* installation; e stays.                                                   *)

MCPackages == {pkgA1, pkgA2, pkgA2Other, pkgB, pkgC, pkgD, pkgE}
MCStr == [p \in MCPackages |-> CASE p = pkgA1 -> "a-1-0" [] p = pkgB -> "b-1-0" [] p = pkgC -> "c-1-0"
                                 [] p = pkgD -> "d-1-0" [] p = pkgE -> "e-1-0"
                                 [] OTHER -> "a-2-0"]
MCPaths == {file1, file2, file3, file4, file5, file6}
MCPathsOf == [p \in MCPackages |-> CASE p = pkgA1 -> {file1, file2} [] p = pkgB -> {file3} [] p = pkgC -> {file4}
                                     [] p = pkgD -> {file5} [] p = pkgE -> {file6}
                                     [] OTHER -> {file1}]
MCInstalled == {pkgA1, pkgB, pkgD, pkgE}
MCUnlinks == <<pkgA1, pkgD, pkgB>>
MCLinks == <<pkgA2, pkgD, pkgC>>

(* SubdirIndex: the second of two package directories can be written. *)

MCWritable == {2}

(* PythonicList: specs with quotes and backslashes anywhere. *)

MCAlphabet == {"other", "quote", "backslash"}

(* History: an installation, an Update, a removal, and an entry that only   *)
(* asks for specs.                                                          *)

MCSpec(name, n) == [name |-> name, of |-> n]
MCRequests ==
    {[update |-> <<MCSpec("a", 1)>>, remove |-> <<>>, unlinked |-> {}, linked |-> {"a"}],
     [update |-> <<MCSpec("a", 2), MCSpec("a", 1)>>, remove |-> <<MCSpec("a", 2), MCSpec("a", 1)>>,
      unlinked |-> {"a"}, linked |-> {"b"}],
     [update |-> <<>>, remove |-> <<MCSpec("a", 1)>>, unlinked |-> {"a"}, linked |-> {}],
     [update |-> <<MCSpec("b", 2), MCSpec("b", 1)>>, remove |-> <<MCSpec("a", 2)>>,
      unlinked |-> {}, linked |-> {}]}

(* PrefixRecords: python and pip, one needing the other, both or neither,   *)
(* a package that needs them, and one that is not installed.                *)

MCRecordNames == <<"numpy", "pip", "python">>
MCRecord(name, needs) == [name |-> name, needs |-> needs]
MCRecordFiles ==
    {MCRecord("numpy", {"python"}), MCRecord("numpy", {}),
     MCRecord("pip", {"python"}), MCRecord("pip", {"numpy", "absent"}), MCRecord("pip", {}),
     MCRecord("python", {"pip"}), MCRecord("python", {"pip", "numpy"}), MCRecord("python", {})}

(* Versions: numbers, literals of each rank, zeros, a local version and an  *)
(* epoch.                                                                   *)

MCAtom(n, lit) == [num |-> n, lit |-> lit]
MCVersion(parts) == [epoch |-> 0, version |-> parts, local |-> <<>>]
MCOne == <<MCAtom(1, "")>>
MCZero == <<MCAtom(0, "")>>
MCRegular == <<"a", "b">>
MCVersions ==
    {MCVersion(<<MCOne>>), MCVersion(<<MCOne, MCZero>>), MCVersion(<<MCOne, MCZero, MCOne>>),
     MCVersion(<<MCOne, MCOne>>), MCVersion(<<<<MCAtom(1, "a")>>>>),
     MCVersion(<<<<MCAtom(1, "b")>>>>), MCVersion(<<MCOne, <<MCAtom(0, "dev")>>>>),
     MCVersion(<<MCOne, <<MCAtom(0, "post")>>>>), MCVersion(<<<<MCAtom(1, "a"), MCAtom(1, "")>>>>),
     [MCVersion(<<MCOne>>) EXCEPT !.local = <<MCOne>>],
     [MCVersion(<<MCOne>>) EXCEPT !.epoch = 1],
     MCVersion(<<<<MCAtom(0, "*")>>>>)}

(* Activation *)

MCEnvironments == {"e1", "e2", "e3"}
MCStartPaths == {<<"usr">>, <<"usr", "usr", "condabin">>}

(* ShellInit: a shell with a start-up file and a hook of its own, one whose  *)
(* blank start-up file is removed, and one without a start-up file.         *)

MCShells == {"csh", "powershell", "posix"}
MCPrefixes == {"p", "q"}

(* PycCompilation: more bad files than the pipe has room for lines. *)

MCPyPackages == <<<<1, 2, 3>>, <<4, 5>>>>
MCBadFiles == {2, 3, 4}

(* ExecutorInstance *)

MCCallers == {"t1", "t2", "t3"}

(* Configuration: rc files of the user, and of one of the two environments. *)

MCEnvNames == {"e", "f"}
MCRcChoices == {{<<"home">>}, {<<"home">>, PrefixOf(<<"e">>)}}

(* PackageRequests: a chain of dependencies, that ends before the newest      *)
(* version of c, on a python with two patches of a minor version and one of  *)
(* the next.                                                                 *)

MCPackageNames == {"python", "n", "c"}
MCNoarchNames == {"n"}
MCVersionsOf == [n \in MCPackageNames |-> IF n = "python" THEN 1..3 ELSE 1..2]
MCMinorOf == <<1, 1, 2>>
MCNeeds == [n \in MCPackageNames |-> CASE n = "n" -> <<{"python"}, {"python"}>> [] n = "c" -> <<{"n"}, {}>>
                                        [] OTHER -> <<{}, {}, {}>>]
MCSpecOf(n, versions) == [name |-> n, versions |-> versions]
MCSpecChoices == {MCSpecOf("python", {3}), MCSpecOf("n", 1..2), MCSpecOf("c", 1..2)}

-----------------------------------------------------------------------------
Parts == {"transaction", "subdir", "list", "history", "digraph", "records", "versions",
          "expression", "activation", "shells", "pyc", "instance", "roots",
          "configuration", "requests"}

\* Outside its own part a variable with several first values has one of them.
Settled(of, state, choice) == IF part = of THEN TRUE ELSE state = choice
MCFirst == MCVersion(<<MCOne>>)

MCInit ==
    /\ part \in Parts
    /\ Settled("transaction", options, "dry_run")
    /\ Settled("transaction", content, [k \in Keys |-> None])
    /\ Settled("subdir", store, [n \in Caches |-> NoFiles])
    /\ Settled("list", written, <<<<>>>>)
    /\ Settled("records", prefixFiles, {})
    /\ Settled("versions", first, MCFirst) /\ Settled("versions", second, MCFirst)
    /\ Settled("versions", third, MCFirst) /\ Settled("versions", operator, "free")
    /\ Settled("activation", setsV, {})
    /\ Settled("activation", shell, NewShell(<<"usr">>, Unset))
    /\ Settled("shells", rcFile, [sh \in Files |-> NoRcFile])
    /\ Settled("pyc", pycScript, TRUE)
    /\ Settled("roots", rootServer, [v \in RootVersions \ {1} |-> <<"none", "bad">>])
    /\ Settled("configuration", targetVar, FALSE)
    /\ Init /\ SubdirInit /\ ListInit /\ HistoryInit /\ PrefixInit /\ VersionInit
    /\ ExpressionInit /\ ActivationInit /\ ShellInitInit /\ PycInit /\ ExecutorInit
    /\ RootInit /\ ConfigInit /\ RequestInit

graphVars == <<prefixVars, digraphVars>>

MCNext ==
    /\ IF part = "transaction" THEN Next ELSE UNCHANGED vars
    /\ IF part = "subdir" THEN SubdirNext ELSE UNCHANGED subdirVars
    /\ IF part = "list" THEN ListNext ELSE UNCHANGED listVars
    /\ IF part = "history" THEN HistoryNext ELSE UNCHANGED historyVars
    /\ CASE part = "digraph" -> DigraphNext /\ UNCHANGED prefixVars
         [] part = "records" -> PrefixNext
         [] OTHER            -> UNCHANGED graphVars
    /\ IF part = "versions" THEN VersionNext ELSE UNCHANGED versionVars
    /\ IF part = "expression" THEN ExpressionNext ELSE UNCHANGED expressionVars
    /\ IF part = "activation" THEN ActivationNext ELSE UNCHANGED activationVars
    /\ IF part = "shells" THEN ShellInitNext ELSE UNCHANGED shellInitVars
    /\ IF part = "pyc" THEN PycNext ELSE UNCHANGED pycVars
    /\ IF part = "instance" THEN ExecutorNext ELSE UNCHANGED executorVars
    /\ IF part = "roots" THEN RootNext ELSE UNCHANGED rootVars
    /\ IF part = "configuration" THEN ConfigNext ELSE UNCHANGED configVars
    /\ IF part = "requests" THEN RequestNext ELSE UNCHANGED requestVars
    /\ UNCHANGED part

MCVars == <<part, vars, subdirVars, listVars, historyVars, graphVars, versionVars,
            expressionVars, activationVars, shellInitVars, pycVars, executorVars, rootVars,
            configVars, requestVars>>
MCFairness ==
    /\ WF_pycVars(part = "pyc" /\ PycParentNext) /\ WF_pycVars(part = "pyc" /\ PycChildNext)
    /\ WF_listVars(part = "list" /\ (SpecFound \/ QuoteEscaped))
    /\ \A t \in Callers : /\ WF_executorVars(part = "instance" /\ InCall(t))
                          /\ SF_executorVars(part = "instance" /\ EndTask(t))
MCSpecification == MCInit /\ [][MCNext]_MCVars /\ MCFairness

-----------------------------------------------------------------------------
\* Nobody waits for ever: the compilation of Python files ends, so does the end of
\* an executor, and so does the reading of a list of specs that have no quote in
\* them and no backslash at their end.
PartsEnd == PycCompilationEnds /\ ExecutorStops /\ (part = "list" => ReadableListsEnd)
=============================================================================
