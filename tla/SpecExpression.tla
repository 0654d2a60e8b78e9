--------------------------- MODULE SpecExpression ---------------------------
(***************************************************************************)
(* The boolean grammar of a VersionSpec: InfixParser and PostfixParser      *)
(* (util/flat_bool_expr_tree.hpp) build a tree of nodes in a vector         *)
(* (util/flat_binary_tree.hpp) from the tokens that VersionSpec::parse      *)
(* pushes, one by one, in any order; infix_for_each writes a tree again.    *)
(* The variables are numbered as they come.                                 *)
(***************************************************************************)
EXTENDS Integers, SequencesExt

CONSTANT MaxTokens  \* bounds an expression

ASSUME ExpressionConstants == MaxTokens \in Nat

VARIABLES
    tokens,     \* history: what has been pushed
    nodes,      \* flat_binary_tree::m_nodes
    root,       \* and m_root
    orphans,    \* the nodes without a parent
    opStack,    \* the operators and parentheses that wait
    level,      \* the open parentheses
    expectsOp,
    outcome     \* "parsing", "rejected" or "parsed"

expressionVars == <<tokens, nodes, root, orphans, opStack, level, expectsOp, outcome>>

\* The tokens, and what a leaf has for an operator.
Var == "var"
LogicalAnd == "and"
LogicalOr == "or"
LeftParenthesis == "("
RightParenthesis == ")"
NoOperator == "leaf"

BoolOps == {LogicalAnd, LogicalOr}
Tokens == BoolOps \cup {Var, LeftParenthesis, RightParenthesis}

Leaf(v) == [var |-> v, op |-> NoOperator, left |-> 0, right |-> 0]
Branch(o, l, r) == [var |-> 0, op |-> o, left |-> l, right |-> r]

ExpressionInit ==
    /\ tokens = <<>> /\ nodes = <<>> /\ root = 1
    /\ orphans = <<>> /\ opStack = <<>> /\ level = 0
    /\ expectsOp = FALSE /\ outcome = "parsing"

Parser == [nodes |-> nodes, root |-> root, orphans |-> orphans, stack |-> opStack]

\* add_branch: the root moves up when it gets a parent.
MovedRoot(p, l, r) == IF p.root \in {l, r} THEN Len(p.nodes) + 1 ELSE p.root

\* The operator on top of the stack takes the last two orphans.
Popped(p) ==
    LET n == Len(p.orphans)
        l == p.orphans[n - 1]
        r == p.orphans[n]
    IN  [nodes |-> Append(p.nodes, Branch(Last(p.stack), l, r)),
         root |-> MovedRoot(p, l, r),
         orphans |-> Append(SubSeq(p.orphans, 1, n - 2), Len(p.nodes) + 1),
         stack |-> Front(p.stack)]

LessOpReversed(o, p) == o = LogicalOr /\ p = LogicalAnd
\* std::less on logical_and, logical_or.
LessOp(o, p) == o = LogicalAnd /\ p = LogicalOr

\* The operators above height h of the stack are popped one by one.
PoppedTo(p, h) ==
    LET down[n \in 0..(Len(p.stack) - h)] == IF n = 0 THEN p ELSE Popped(down[n - 1])
    IN  down[Len(p.stack) - h]

\* While the top is an operator that binds more than o; and down to a parenthesis.
PoppedWhile(p, o) == PoppedTo(p, Max({0} \cup {i \in DOMAIN p.stack : ~LessOp(o, p.stack[i])}))
PoppedToParenthesis(p) ==
    PoppedTo(p, Max({0} \cup {i \in DOMAIN p.stack : p.stack[i] = LeftParenthesis}))

Becomes(p) == nodes' = p.nodes /\ root' = p.root /\ orphans' = p.orphans /\ opStack' = p.stack

Pushing(t) ==
    /\ outcome = "parsing" /\ Len(tokens) < MaxTokens
    /\ tokens' = Append(tokens, t)

Reject == outcome' = "rejected" /\ UNCHANGED <<nodes, root, orphans, opStack, level, expectsOp>>

LeafCount(t) == Cardinality({i \in DOMAIN t : t[i].op = NoOperator})

PushVariable ==
    /\ Pushing(Var)
    /\ IF expectsOp THEN Reject
       ELSE /\ Becomes([Parser EXCEPT !.nodes = Append(@, Leaf(LeafCount(nodes) + 1)),
                                      !.orphans = Append(@, Len(nodes) + 1)])
            /\ expectsOp' = TRUE
            /\ UNCHANGED <<level, outcome>>

PushOperator(o) ==
    /\ Pushing(o)
    /\ IF ~expectsOp THEN Reject
       ELSE /\ LET p == PoppedWhile(Parser, o) IN Becomes([p EXCEPT !.stack = Append(@, o)])
            /\ expectsOp' = FALSE
            /\ UNCHANGED <<level, outcome>>

PushLeft ==
    /\ Pushing(LeftParenthesis)
    /\ IF expectsOp THEN Reject
       ELSE /\ opStack' = Append(opStack, LeftParenthesis)
            /\ level' = level + 1
            /\ UNCHANGED <<nodes, root, orphans, expectsOp, outcome>>

PushRight ==
    /\ Pushing(RightParenthesis)
    /\ IF ~expectsOp \/ level = 0 THEN Reject
       ELSE /\ LET p == PoppedToParenthesis(Parser) IN Becomes([p EXCEPT !.stack = Front(@)])
            /\ level' = level - 1
            /\ UNCHANGED <<expectsOp, outcome>>

Complete == expectsOp /\ level = 0

Finalize ==
    /\ outcome = "parsing"
    /\ IF nodes = <<>> /\ opStack = <<>>
       THEN outcome' = "parsed" /\ UNCHANGED <<nodes, root, orphans, opStack>>
       ELSE IF ~Complete
       THEN outcome' = "rejected" /\ UNCHANGED <<nodes, root, orphans, opStack>>
       ELSE LET p == PoppedToParenthesis(Parser)
            IN  /\ Becomes(p)
                /\ outcome' = IF Len(p.orphans) = 1 THEN "parsed" ELSE "rejected"
    /\ UNCHANGED <<tokens, level, expectsOp>>

ExpressionNext ==
    \/ PushVariable \/ PushLeft \/ PushRight \/ Finalize
    \/ \E o \in BoolOps : PushOperator(o)
ExpressionSpec == ExpressionInit /\ [][ExpressionNext]_expressionVars

-----------------------------------------------------------------------------
\* evaluate, where true is the set of variables that hold; an empty tree holds.
Evaluate(t, n, true) ==
    LET value[m \in DOMAIN t] ==
            CASE t[m].op = NoOperator       -> t[m].var \in true
              [] t[m].op = LogicalAnd -> value[t[m].left] /\ value[t[m].right]
              [] OTHER                -> value[t[m].left] \/ value[t[m].right]
    IN  value[n]
Holds(true) == nodes = <<>> \/ Evaluate(nodes, root, true)

\* infix_for_each: parentheses around every branch that is a child.
Child(node, text) ==
    IF node.op = NoOperator THEN text ELSE <<LeftParenthesis>> \o text \o <<RightParenthesis>>
Written(t, n) ==
    LET text[m \in DOMAIN t] ==
            LET l == t[m].left
                r == t[m].right
            IN  IF t[m].op = NoOperator THEN <<Var>>
                ELSE Child(t[l], text[l]) \o <<t[m].op>> \o Child(t[r], text[r])
    IN  text[n]

-----------------------------------------------------------------------------
(* What the tokens s mean: some of the terms between "or" hold in each of   *)
(* the factors between "and"; those of an interval are looked at.           *)

Count(s, token, i, j) == Cardinality({m \in i..j : s[m] = token})
Depth(s, i, j) == Count(s, LeftParenthesis, i, j) - Count(s, RightParenthesis, i, j)
Cuts(s, i, j, o) == {k \in i..j : s[k] = o /\ Depth(s, i, k) = 0}

Intervals(s) == (1..(Len(s) + 1)) \X (0..Len(s))

Means(s, from, to, true) ==
    LET mean[x \in Intervals(s)] ==
            LET i == x[1]
                j == x[2]
                ands == Cuts(s, i, j, LogicalAnd)
                ors == Cuts(s, i, j, LogicalOr)
            IN  IF ands # {} THEN \E k \in ands : mean[<<i, k - 1>>] /\ mean[<<k + 1, j>>]
                ELSE IF ors # {} THEN \E k \in ors : mean[<<i, k - 1>>] \/ mean[<<k + 1, j>>]
                ELSE IF i < j THEN mean[<<i + 1, j - 1>>]
                ELSE Count(s, Var, 1, i) \in true
    IN  mean[<<from, to>>]

\* The grammar: a variable, an expression in parentheses, or two with an operator.
WellFormed(s, from, to) ==
    LET formed[x \in Intervals(s)] ==
            LET i == x[1]
                j == x[2]
            IN  \/ i = j /\ s[i] = Var
                \/ i < j /\ s[i] = LeftParenthesis /\ s[j] = RightParenthesis
                         /\ formed[<<i + 1, j - 1>>]
                \/ \E k \in (i + 1)..(j - 1) :
                       s[k] \in BoolOps /\ formed[<<i, k - 1>>] /\ formed[<<k + 1, j>>]
    IN  formed[<<from, to>>]

ExpressionTypeOK ==
    /\ tokens \in Seq(Tokens)
    /\ \A i \in DOMAIN nodes : nodes[i].op # NoOperator =>
         nodes[i].left \in 1..(i - 1) /\ nodes[i].right \in 1..(i - 1)
    /\ Range(orphans) \subseteq DOMAIN nodes
    /\ level \in 0..MaxTokens /\ expectsOp \in BOOLEAN
    /\ outcome \in {"parsing", "rejected", "parsed"}

\* An expression is accepted if and only if it is one of the grammar.
AcceptsTheGrammar ==
    /\ outcome = "parsed" => tokens = <<>> \/ WellFormed(tokens, 1, Len(tokens))
    /\ outcome = "rejected" => tokens # <<>> /\ ~WellFormed(tokens, 1, Len(tokens))

\* The tree that is built means what its tokens say, for every truth of the
\* variables, where "|" binds more than ","; and so does what is written of it.
TreeMeansTheTokens ==
    outcome = "parsed" /\ tokens # <<>> =>
        \A true \in SUBSET (1..LeafCount(nodes)) :
            /\ Holds(true) <=> Means(tokens, 1, Len(tokens), true)
            /\ LET w == Written(nodes, root) IN Holds(true) <=> Means(w, 1, Len(w), true)

\* A version spec is read as the grammar says, and rejected outside of it.
ExpressionUnderstood == AcceptsTheGrammar /\ TreeMeansTheTokens
=============================================================================
