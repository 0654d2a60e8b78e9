------------------------------ MODULE Versions ------------------------------
(***************************************************************************)
(* Version (specs/version.cpp) and VersionPredicate (specs/version_spec):   *)
(* how versions compare, which of them a predicate holds for, and what a    *)
(* predicate is written as.  A version is made of an epoch, parts and the   *)
(* parts of a local version; a part is made of atoms, and an atom of a      *)
(* number and a literal.  What is compared is chosen at first; one step     *)
(* writes the predicate and reads it again.                                 *)
(***************************************************************************)
EXTENDS Integers, Sequences

CONSTANTS
    VersionsCompared,  \* the versions
    RegularLiterals    \* the literals without a meaning of their own, in strcmp's order

Operators == {"free", "==", "!=", ">", ">=", "<", "<=", "=", "!=.*", "~="}

VARIABLES
    first, second, third,  \* versions
    operator,              \* that of a predicate about third
    reparsed               \* what comes back when the predicate has been written and read

versionVars == <<first, second, third, operator, reparsed>>

Less == -1
Equal == 0
Greater == 1
Compare(m, n) == IF m < n THEN Less ELSE IF m = n THEN Equal ELSE Greater

\* What versions are made of.
Literals == {"*", "dev", "_", "", "post"} \cup {RegularLiterals[i] : i \in DOMAIN RegularLiterals}
Atoms == [num : Nat, lit : Literals]
AllParts == Seq(Atoms)
AllVersions == [epoch : Nat, version : Seq(AllParts), local : Seq(AllParts)]

ASSUME VersionConstants == RegularLiterals \in Seq(STRING) /\ VersionsCompared \subseteq AllVersions

Place(lit) == CHOOSE i \in DOMAIN RegularLiterals : RegularLiterals[i] = lit

LitPriority(lit) ==
    CASE lit = "*" -> -3 [] lit = "dev" -> -2 [] lit = "_" -> -1
      [] lit = "" -> 1 [] lit = "post" -> 2 [] OTHER -> 0

CompareAtoms(a, b) ==
    IF a.num # b.num THEN Compare(a.num, b.num)
    ELSE IF LitPriority(a.lit) = 0 /\ LitPriority(b.lit) = 0 THEN Compare(Place(a.lit), Place(b.lit))
    ELSE Compare(LitPriority(a.lit), LitPriority(b.lit))

NoAtom == [num |-> 0, lit |-> ""]
NoPart == <<>>
At(seq, i, empty) == IF i \in DOMAIN seq THEN seq[i] ELSE empty
Shortest(s, t) == IF Len(s) < Len(t) THEN Len(s) ELSE Len(t)
Longest(s, t) == IF Len(s) > Len(t) THEN Len(s) ELSE Len(t)

\* lexicographical_compare_three_way_trailing, of the comparisons of the
\* elements: the first that is not Equal and its index.
FirstDifference(comparisons) ==
    LET differ == {i \in DOMAIN comparisons : comparisons[i] # Equal}
        i == CHOOSE i \in differ : \A j \in differ : i <= j
    IN  IF differ = {} THEN [cmp |-> Equal, idx |-> Len(comparisons)]
        ELSE [cmp |-> comparisons[i], idx |-> i - 1]

CompareParts(p, q) ==
    FirstDifference([i \in 1..Longest(p, q) |->
                        CompareAtoms(At(p, i, NoAtom), At(q, i, NoAtom))]).cmp
CompareCommon(v, w) ==
    FirstDifference([i \in 1..Longest(v, w) |->
                        CompareParts(At(v, i, NoPart), At(w, i, NoPart))])

CompareVersions(v, w) ==
    IF v.epoch # w.epoch THEN Compare(v.epoch, w.epoch)
    ELSE IF CompareCommon(v.version, w.version).cmp # Equal
    THEN CompareCommon(v.version, w.version).cmp
    ELSE CompareCommon(v.local, w.local).cmp

-----------------------------------------------------------------------------
(* starts_with: what goes on beyond the prefix is AlwaysEqual *)

StartsAtom(a, b) == IF a.num = b.num /\ b.lit = "" THEN Equal ELSE CompareAtoms(a, b)
StartsPart(p, q) ==
    FirstDifference([i \in 1..Len(q) |-> StartsAtom(At(p, i, NoAtom), q[i])]).cmp
StartsUnpadded(v, w) ==
    IF Len(v) < Len(w) THEN Less
    ELSE FirstDifference([i \in 1..Len(w) |-> StartsPart(v[i], w[i])]).cmp
StartsCommon(v, w) ==
    FirstDifference([i \in 1..Len(w) |-> StartsPart(At(v, i, NoPart), w[i])]).cmp

StartsWith(v, prefix) ==
    /\ v.epoch = prefix.epoch
    /\ IF prefix.local = <<>> THEN StartsCommon(v.version, prefix.version) = Equal
       ELSE /\ CompareCommon(v.version, prefix.version).cmp = Equal
            /\ StartsCommon(v.local, prefix.local) = Equal

CompatibleCommon(newer, older, level) ==
    LET c == CompareCommon(newer, older)
    IN  c.cmp = Equal \/ (c.cmp = Greater /\ c.idx >= level)

CompatibleWith(v, older, level) ==
    /\ v.epoch = older.epoch
    /\ CompatibleCommon(v.version, older.version, level)
    /\ CompatibleCommon(v.local, older.local, level)

-----------------------------------------------------------------------------
(* VersionPredicate *)

LevelOfAll(v) == Len(v.version)
\* "in ~=1.1 level is assumed to be 1, in ~=1.1.1 level 2, etc."
Level(v) == Len(v.version) - 1
Predicate(op, v) ==
    [op |-> op, version |-> v, level |-> IF op = "~=" THEN Level(v) ELSE 0]

SpecContains(pred, v) ==
    LET c == CompareVersions(v, pred.version)
    IN  CASE pred.op = "free" -> TRUE
          [] pred.op = "=="   -> c = Equal
          [] pred.op = "!="   -> c # Equal
          [] pred.op = ">"    -> c = Greater
          [] pred.op = ">="   -> c # Less
          [] pred.op = "<"    -> c = Less
          [] pred.op = "<="   -> c # Greater
          [] pred.op = "="    -> StartsWith(v, pred.version)
          [] pred.op = "!=.*" -> ~StartsWith(v, pred.version)
          [] pred.op = "~="   -> CompatibleWith(v, pred.version, pred.level)

\* Version::str(level): cut, or filled up with zeros.
CutTo(parts, level) == [i \in 1..level |-> At(parts, i, <<NoAtom>>)]
StrAtLevel(v, level) ==
    [v EXCEPT !.version = CutTo(@, level), !.local = IF @ = <<>> THEN @ ELSE CutTo(@, level)]

\* The version that the formatter of a predicate writes ...
StrVersion(pred) == IF pred.op = "~=" THEN StrAtLevel(pred.version, pred.level) ELSE pred.version

\* ... and the predicate that parse_op_and_version makes of it, if there is one.
Unparsable == [op |-> "error"]
Reparsed(pred) ==
    IF pred.op = "free" THEN pred
    ELSE IF StrVersion(pred).version = <<>> THEN Unparsable
    ELSE Predicate(pred.op, StrVersion(pred))

NotRead == [op |-> "unread"]
VersionInit ==
    /\ first \in VersionsCompared /\ second \in VersionsCompared /\ third \in VersionsCompared
    /\ operator \in Operators
    /\ reparsed = NotRead

Reparse ==
    /\ reparsed = NotRead
    /\ reparsed' = Reparsed(Predicate(operator, third))
    /\ UNCHANGED <<first, second, third, operator>>

VersionNext == Reparse
VersionSpecification == VersionInit /\ [][VersionNext]_versionVars

-----------------------------------------------------------------------------
(* Properties *)

\* Versions are in one order, whatever lengths, literals and zeros they mix:
\* the solver and the sorts that take the best version rely on it.
OneOrder ==
    LET c == CompareVersions(first, second)
    IN  /\ CompareVersions(second, first) = -c
        /\ c # Greater /\ CompareVersions(second, third) # Greater =>
             /\ CompareVersions(first, third) # Greater
             /\ CompareVersions(first, third) = Equal =>
                  c = Equal /\ CompareVersions(second, third) = Equal

\* Versions that are equal, such as 1.2.0 and 1.2.0.0, cannot be told apart by
\* any predicate.
EqualVersionsMatchAlike ==
    CompareVersions(first, second) = Equal =>
        LET pred == Predicate(operator, third) IN SpecContains(pred, first) <=> SpecContains(pred, second)

\* What ~= says: greater or equal, with all but the last parts of the version
\* the same, zeros included; where neither has a local version.
CompatibleIsAsDocumented ==
    first.local = <<>> /\ third.local = <<>> =>
        (SpecContains(Predicate("~=", third), first) <=>
            /\ CompareVersions(first, third) # Less
            /\ first.epoch = third.epoch
            /\ \A i \in 1..(Len(third.version) - 1) :
                 CompareParts(At(first.version, i, NoPart), third.version[i]) = Equal)

\* What contains a version before it is written contains it after it is read: not
\* for ~=, which is written with a part less (version_spec.cpp:269).
ReparsingGivesTheSame ==
    reparsed # NotRead /\ operator # "~=" /\ third.version # <<>> =>
        /\ reparsed # Unparsable
        /\ SpecContains(reparsed, first) <=> SpecContains(Predicate(operator, third), first)

\* Versions are in one order, those equal in it are alike for every spec,
\* compatibility is what the documentation of ~= says, and a predicate of another
\* operator is read again for what it was.
VersionsAgree ==
    OneOrder /\ EqualVersionsMatchAlike /\ CompatibleIsAsDocumented /\ ReparsingGivesTheSame
=============================================================================
