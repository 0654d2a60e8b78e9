------------------------------ MODULE Settings ------------------------------
(***************************************************************************)
(* What the user writes once and libmamba reads again and again: the         *)
(* configuration of its operations, the start-up files of the shells and the *)
(* expressions of version specs.  Nothing of one is kept in another, and     *)
(* their steps may come in any order.                                        *)
(***************************************************************************)
EXTENDS Configuration, ShellInit, SpecExpression

SettingsSpec == ConfigSpec /\ ShellInitSpec /\ ExpressionSpec

\* What the user writes is taken as it was meant: operations get the
\* configuration they are given, in an order that loads it; start-up files and
\* hooks are as the last init or deinit left them, with the user's lines; and an
\* expression of a spec is read with its own precedence.
SettingsAreRight ==
    /\ ConfigurationIsRight
    /\ StartUpFilesAreRight
    /\ ExpressionTypeOK /\ ExpressionUnderstood
=============================================================================
