------------------------------ MODULE MCProblems ------------------------------
(***************************************************************************)
(* An instance of ProblemsGraph for TLC: b 1 needs a 1, which needs b 2,     *)
(* which needs a c that nothing provides.  b 1 is requested.                *)
(***************************************************************************)
EXTENDS ProblemsGraph

MCSolvableName == <<"a", "b", "b">>
MCDepIds == 11..14
MCDepName == [d \in MCDepIds |-> <<"a", "b", "b", "c">>[d - 10]]
MCDepProviders == [d \in MCDepIds |-> <<{1}, {2}, {3}, {}>>[d - 10]]
MCNameDep == [a |-> 11, b |-> 12]
MCOneProblem ==
    {{Rule("job", 0, 0, 12), Rule("requires", 2, 0, 11), Rule("requires", 1, 0, 13),
      Rule("nothing_provides", 3, 0, 14)}}

ProblemSpecification == ProblemInit /\ [][ProblemNext]_problemVars
=============================================================================
