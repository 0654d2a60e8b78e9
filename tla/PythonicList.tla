--------------------------- MODULE PythonicList ---------------------------
(***************************************************************************)
(* The list of specs in a comment of conda-meta/history: written by         *)
(* add_entry with std::quoted, read by the "small parser for pythonic       *)
(* lists" of parse_comment_line (history.cpp).  A character is a double     *)
(* quote, as in python[version=">=3.8,<3.9"], a backslash or any other one; *)
(* indices count from 1 and 0 is npos.                                      *)
(***************************************************************************)
EXTENDS Integers, SequencesExt

CONSTANTS
    Alphabet,     \* the kinds of characters a spec may contain
    MaxSpec,      \* bounds their length
    MaxSpecs      \* bounds their number

Quote == "quote"
Backslash == "backslash"
Other == "other"

ASSUME ListConstants ==
    /\ Alphabet \subseteq {Quote, Backslash, Other}
    /\ MaxSpec \in Nat /\ MaxSpecs \in Nat \ {0}

npos == 0
Specs == BoundedSeq(Alphabet, MaxSpec)

VARIABLES
    written,   \* the specs of the entry
    value,     \* what follows the colon of the comment
    pc,        \* the loop of the parser, or how it was left
    idxStart, idxSearch,
    pkgSpecs   \* the specs found so far

listVars == <<written, value, pc, idxStart, idxSearch, pkgSpecs>>

Escaped(c) == IF c \in {Quote, Backslash} THEN <<Backslash, c>> ELSE <<c>>

\* std::quoted.
EscapedSpec(spec) == FlattenSeq([i \in DOMAIN spec |-> Escaped(spec[i])])
Quoted(spec) == <<Quote>> \o EscapedSpec(spec) \o <<Quote>>

\* specs_output: [, the specs with ", " after each, the last one's replaced by ].
SpecsOutput(specs) ==
    <<Other>> \o FlattenSeq([i \in DOMAIN specs |->
                   Quoted(specs[i]) \o IF i = Len(specs) THEN <<Other>> ELSE <<Other, Other>>])

\* find_first_of; only add_entry's quotes are in the file.
FindQuote(from) ==
    LET found == {i \in DOMAIN value : i >= from /\ value[i] = Quote}
    IN  IF from = npos \/ found = {} THEN npos ELSE CHOOSE i \in found : \A j \in found : i <= j

ListInit ==
    /\ \E n \in 1..MaxSpecs : written \in [1..n -> Specs]
    /\ value = SpecsOutput(written)
    /\ pc = "loop"
    /\ idxStart = FindQuote(1)
    /\ idxSearch = FindQuote(1) + 1
    /\ pkgSpecs = <<>>

BeyondQuote == value[FindQuote(idxSearch) - 1] # Backslash
EndsSpec == FindQuote(idxSearch) # npos /\ BeyondQuote

\* The end of a round: out of the loop, an exception, or once more.
After(start, search) ==
    IF start = npos THEN "done" ELSE IF search = npos \/ search > Len(value) THEN "threw" ELSE "loop"

NextAtEnd(end) == FindQuote(end)
NextStart(end) == FindQuote(end + 1)

SpecFound ==
    /\ pc = "loop" /\ EndsSpec
    /\ LET end == FindQuote(idxSearch)
       IN  /\ pkgSpecs' = Append(pkgSpecs, SubSeq(value, idxStart + 1, end - 1))
           /\ idxStart' = NextStart(end)
    /\ idxSearch' = idxStart' + 1
    /\ pc' = After(idxStart', idxSearch')
    /\ UNCHANGED <<written, value>>

\* A quote after a backslash, or none: the next search starts at the quote itself.
QuoteEscaped ==
    /\ pc = "loop" /\ ~EndsSpec
    /\ idxSearch' = FindQuote(idxSearch)
    /\ pc' = After(idxStart, idxSearch')
    /\ UNCHANGED <<written, value, idxStart, pkgSpecs>>

ListOver == pc # "loop" /\ UNCHANGED listVars

ListNext == SpecFound \/ QuoteEscaped \/ ListOver

\* Nothing else runs: the loop goes on.
ListSpec == ListInit /\ [][ListNext]_listVars /\ WF_listVars(SpecFound \/ QuoteEscaped)

-----------------------------------------------------------------------------
ListTypeOK ==
    /\ written \in Seq(Specs) /\ value \in Seq({Quote, Backslash, Other})
    /\ pc \in {"loop", "done", "threw"}
    /\ idxStart \in Nat /\ idxSearch \in Nat
    /\ pkgSpecs \in Seq(Seq({Quote, Backslash, Other}))

\* A spec whose closing quote is the first one and not after a backslash.
Readable(spec) == Quote \notin Range(spec) /\ (spec # <<>> => Last(spec) # Backslash)

\* Of any list that add_entry writes, the specs found so far are the first ones: no
\* spec is split, joined with the next one or passed over, and a list that is done
\* has them all.  They come as they were quoted, with the backslashes doubled, which
\* is as they were without a quote or backslash in them.  Only a spec that has a
\* quote, or a backslash at its end, keeps a round from finding it.
ReadsWhatWasWritten ==
    /\ pc # "threw" /\ Len(pkgSpecs) <= Len(written)
    /\ \A i \in DOMAIN pkgSpecs :
         /\ pkgSpecs[i] = EscapedSpec(written[i])
         /\ Range(written[i]) \subseteq {Other} => pkgSpecs[i] = written[i]
    /\ pc = "done" => Len(pkgSpecs) = Len(written)
    /\ pc = "loop" => /\ Len(pkgSpecs) < Len(written)
                      /\ Readable(written[Len(pkgSpecs) + 1]) => EndsSpec

\* The parser comes to the end of a list of such specs.
ReadableListsEnd == (\A i \in DOMAIN written : Readable(written[i])) => <>(pc # "loop")

\* "Re-inject history into file: history file should then have the same duplicate
\* content as the buffer" (test_history.cpp:78): the list is read, and written again
\* it is the same.
WrittenAgainTheSame == <>(pc = "done" /\ SpecsOutput(pkgSpecs) = value)
=============================================================================
