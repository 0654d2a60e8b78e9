-------------------------- MODULE ExpressionProofs --------------------------
(***************************************************************************)
(* Proofs about SpecExpression, for expressions of any length: the parser    *)
(* accepts what the grammar does, and the tree that it builds, and what is   *)
(* written of the tree, mean what the tokens say.                            *)
(***************************************************************************)
EXTENDS SpecExpression, NaturalsInduction, WellFoundedInduction, FiniteSetTheorems, SequenceTheorems, TLAPS

-----------------------------------------------------------------------------
(* Sequences of tokens are counted in.  What is defined by a recursive     *)
(* function over a finite domain satisfies its equation.                   *)

LEMMA SmallestOf ==
  ASSUME NEW T \in SUBSET Nat, T # {}
  PROVE  \E n \in T : \A m \in T : n <= m
<1>1. PICK n \in T : \A m \in T : <<m, n>> \notin OpToRel(<, Nat)
  BY NatLessThanWellFounded, WFMin
<1>2. \A m \in T : ~(m < n)
  BY <1>1, Zenon DEF OpToRel
<1>3. \A m \in T : n <= m
  BY <1>2
<1> QED BY <1>3

\* F gives a value for d from the values of what measures less.
Recurs(D, V, measure, N, F) ==
    /\ measure \in [D -> Nat] /\ N \in Nat /\ (\A d \in D : measure[d] < N) /\ V # {}
    /\ F \in [D -> [[D -> V] -> V]]
    /\ \A d \in D : \A g, h \in [D -> V] :
           (\A e \in D : measure[e] < measure[d] => g[e] = h[e]) => F[d][g] = F[d][h]

\* What is defined by the values of what measures less is defined.
LEMMA RecursionSolved ==
  ASSUME NEW D, NEW V, NEW measure, NEW N, NEW F, Recurs(D, V, measure, N, F)
  PROVE  \E f \in [D -> V] : \A d \in D : f[d] = F[d][f]
<1> DEFINE Up(k) == \E f \in [D -> V] : \A d \in D : measure[d] < k => f[d] = F[d][f]
           Bad == {k \in 0..N : ~Up(k)}
<1>0. measure \in [D -> Nat] /\ N \in Nat /\ (\A d \in D : measure[d] < N) /\ V # {}
  BY DEF Recurs
<1>1. Up(0)
  <2>1. PICK v \in V : TRUE
    BY <1>0
  <2>2. [d \in D |-> v] \in [D -> V] /\ \A d \in D : ~(measure[d] < 0)
    BY <1>0, <2>1
  <2> QED BY <2>2
<1>2. ASSUME NEW k \in 0..N, Up(k) PROVE Up(k + 1)
  <2>1. PICK f \in [D -> V] : \A d \in D : measure[d] < k => f[d] = F[d][f]
    BY <1>2
  <2> DEFINE h == [d \in D |-> IF measure[d] = k THEN F[d][f] ELSE f[d]]
  <2>2. \A d \in D : F[d][f] \in V
    BY <2>1 DEF Recurs
  <2>3. h \in [D -> V]
    BY <2>1, <2>2
  <2>4. \A d \in D : /\ measure[d] = k => h[d] = F[d][f]
                     /\ measure[d] # k => h[d] = f[d]
    OBVIOUS
  <2> HIDE DEF h
  <2>5. ASSUME NEW d \in D, measure[d] < k + 1 PROVE h[d] = F[d][h]
    <3>1. measure[d] \in Nat /\ k \in Nat /\ \A e \in D : measure[e] \in Nat
      BY <1>0
    <3>2. \A e \in D : measure[e] < measure[d] => f[e] = h[e]
      BY <2>4, <2>5, <3>1
    <3>3. F[d][f] = F[d][h]
      BY <2>1, <2>3, <3>2 DEF Recurs
    <3>4. h[d] = F[d][f]
      <4>1. CASE measure[d] = k
        BY <2>4, <4>1
      <4>2. CASE measure[d] # k
        <5>1. measure[d] < k
          BY <2>5, <3>1, <4>2
        <5> QED BY <2>1, <2>4, <4>2, <5>1
      <4> QED BY <4>1, <4>2
    <3> QED BY <3>3, <3>4
  <2> QED BY <2>3, <2>5
<1>3. Bad = {}
  <2> SUFFICES ASSUME Bad # {} PROVE FALSE
    OBVIOUS
  <2>1. PICK k \in Bad : \A n \in Bad : k <= n
    <3>1. Bad \in SUBSET Nat
      BY <1>0
    <3> HIDE DEF Bad
    <3> QED BY <3>1, SmallestOf
  <2>2. k \in 0..N /\ ~Up(k)
    <3> HIDE DEF Up
    <3> QED BY <2>1
  <2>3. k # 0
    <3> HIDE DEF Up
    <3> QED BY <1>1, <2>2
  <2>4. k - 1 \in 0..N /\ k - 1 \notin Bad /\ (k - 1) + 1 = k
    <3> HIDE DEF Bad
    <3> QED BY <1>0, <2>1, <2>2, <2>3
  <2>5. Up(k - 1)
    <3> HIDE DEF Up
    <3> QED BY <2>4
  <2>6. Up((k - 1) + 1)
    <3> HIDE DEF Up
    <3> QED BY <1>2, <2>4, <2>5
  <2> HIDE DEF Up
  <2> QED BY <2>2, <2>4, <2>6
<1>4. Up(N)
  <2> HIDE DEF Up
  <2> QED BY <1>0, <1>3
<1> QED BY <1>0, <1>4

-----------------------------------------------------------------------------
(* Counts, depths and cuts *)

LEMMA CountIs ==
  ASSUME NEW s, NEW token, NEW i \in Int, NEW j \in Int
  PROVE  Count(s, token, i, j) \in Nat /\ IsFiniteSet({m \in i..j : s[m] = token})
<1>1. IsFiniteSet(i..j)
  BY FS_Interval
<1>2. IsFiniteSet({m \in i..j : s[m] = token})
  <2>1. {m \in i..j : s[m] = token} \subseteq i..j
    OBVIOUS
  <2> QED BY <1>1, <2>1, FS_Subset
<1> QED BY <1>2, FS_CardinalityType DEF Count

LEMMA CountSplits ==
  ASSUME NEW s, NEW token, NEW i \in Int, NEW j \in Int, NEW k \in Int, i <= k + 1, k <= j
  PROVE  Count(s, token, i, j) = Count(s, token, i, k) + Count(s, token, k + 1, j)
<1> DEFINE A == {m \in i..k : s[m] = token}
           B == {m \in (k + 1)..j : s[m] = token}
           C == {m \in i..j : s[m] = token}
<1>1. C = A \cup B /\ A \cap B = {}
  OBVIOUS
<1>2. IsFiniteSet(A) /\ IsFiniteSet(B)
  <2>1. IsFiniteSet(A)
    BY CountIs
  <2>2. k + 1 \in Int
    OBVIOUS
  <2> DEFINE l == k + 1
             D == {m \in l..j : s[m] = token}
  <2>3. IsFiniteSet(D)
    <3>1. l \in Int
      BY <2>2
    <3> HIDE DEF l
    <3> QED BY <3>1, CountIs, ZenonT(40)
  <2> QED BY <2>1, <2>3
<1>3. Cardinality(A \cap B) = 0
  <2>1. Cardinality({}) = 0
    BY FS_EmptySet
  <2> QED BY <1>1, <2>1
<1>4. Cardinality(C) = Cardinality(A) + Cardinality(B) - Cardinality(A \cap B)
  <2> HIDE DEF A, B, C
  <2> QED BY <1>1, <1>2, FS_Union
<1>5. Cardinality(A) \in Nat /\ Cardinality(B) \in Nat
  <2> HIDE DEF A, B
  <2> QED BY <1>2, FS_CardinalityType
<1>6. Cardinality(C) = Cardinality(A) + Cardinality(B)
  <2> HIDE DEF A, B, C
  <2> QED BY <1>1, <1>3, <1>4, <1>5
<1> QED BY <1>6 DEF Count

LEMMA CountOne ==
  ASSUME NEW s, NEW token, NEW i \in Int
  PROVE  /\ s[i] = token => Count(s, token, i, i) = 1
         /\ s[i] # token => Count(s, token, i, i) = 0
<1>1. ASSUME s[i] = token PROVE Count(s, token, i, i) = 1
  <2>1. {m \in i..i : s[m] = token} = {i}
    BY <1>1
  <2> QED BY <2>1, FS_Singleton DEF Count
<1>2. ASSUME s[i] # token PROVE Count(s, token, i, i) = 0
  <2>1. {m \in i..i : s[m] = token} = {}
    BY <1>2
  <2> QED BY <2>1, FS_EmptySet DEF Count
<1> QED BY <1>1, <1>2

LEMMA CountNone ==
  ASSUME NEW s, NEW token, NEW i \in Int, NEW j \in Int, j < i
  PROVE  Count(s, token, i, j) = 0
<1>1. {m \in i..j : s[m] = token} = {}
  OBVIOUS
<1> QED BY <1>1, FS_EmptySet DEF Count

LEMMA DepthSplits ==
  ASSUME NEW s, NEW i \in Int, NEW j \in Int, NEW k \in Int, i <= k + 1, k <= j
  PROVE  Depth(s, i, j) = Depth(s, i, k) + Depth(s, k + 1, j)
<1> DEFINE C(t, a, b) == Count(s, t, a, b)
<1>1. \A t : C(t, i, j) = C(t, i, k) + C(t, k + 1, j)
  BY CountSplits
<1>2. \A t : \A a, b \in Int : C(t, a, b) \in Nat
  BY CountIs
<1>3. i \in Int /\ j \in Int /\ k \in Int /\ k + 1 \in Int
  OBVIOUS
<1>4. /\ C(LeftParenthesis, i, j) \in Nat /\ C(LeftParenthesis, i, k) \in Nat /\ C(LeftParenthesis, k + 1, j) \in Nat
      /\ C(RightParenthesis, i, j) \in Nat /\ C(RightParenthesis, i, k) \in Nat /\ C(RightParenthesis, k + 1, j) \in Nat
  BY <1>2, <1>3, Zenon
<1>5. /\ C(LeftParenthesis, i, j) = C(LeftParenthesis, i, k) + C(LeftParenthesis, k + 1, j)
      /\ C(RightParenthesis, i, j) = C(RightParenthesis, i, k) + C(RightParenthesis, k + 1, j)
  BY <1>1, Zenon
<1>6. /\ Depth(s, i, j) = C(LeftParenthesis, i, j) - C(RightParenthesis, i, j)
      /\ Depth(s, i, k) = C(LeftParenthesis, i, k) - C(RightParenthesis, i, k)
      /\ Depth(s, k + 1, j) = C(LeftParenthesis, k + 1, j) - C(RightParenthesis, k + 1, j)
  BY Zenon DEF Depth
<1> HIDE DEF C
<1> QED BY <1>4, <1>5, <1>6

LEMMA DepthInt ==
  ASSUME NEW s, NEW i \in Int, NEW j \in Int
  PROVE  Depth(s, i, j) \in Int /\ (j < i => Depth(s, i, j) = 0)
<1>1. Count(s, LeftParenthesis, i, j) \in Nat /\ Count(s, RightParenthesis, i, j) \in Nat
  BY CountIs
<1>2. j < i => Count(s, LeftParenthesis, i, j) = 0 /\ Count(s, RightParenthesis, i, j) = 0
  BY CountNone
<1> QED BY <1>1, <1>2 DEF Depth

LEMMA TokensAreDifferent ==
  /\ Var # LeftParenthesis /\ Var # RightParenthesis /\ LeftParenthesis # RightParenthesis
  /\ \A o \in BoolOps : o # Var /\ o # LeftParenthesis /\ o # RightParenthesis /\ o # NoOperator
  /\ LogicalAnd # LogicalOr
BY DEF Var, LeftParenthesis, RightParenthesis, BoolOps, LogicalAnd, LogicalOr, NoOperator

LEMMA DepthOne ==
  ASSUME NEW s, NEW i \in Int
  PROVE  /\ s[i] = LeftParenthesis => Depth(s, i, i) = 1
         /\ s[i] = RightParenthesis => Depth(s, i, i) = -1
         /\ s[i] # LeftParenthesis /\ s[i] # RightParenthesis => Depth(s, i, i) = 0
<1>1. LeftParenthesis # RightParenthesis
  BY TokensAreDifferent
<1>2. /\ s[i] = LeftParenthesis => Count(s, LeftParenthesis, i, i) = 1
      /\ s[i] # LeftParenthesis => Count(s, LeftParenthesis, i, i) = 0
      /\ s[i] = RightParenthesis => Count(s, RightParenthesis, i, i) = 1
      /\ s[i] # RightParenthesis => Count(s, RightParenthesis, i, i) = 0
  BY CountOne
<1> QED BY <1>1, <1>2 DEF Depth

-----------------------------------------------------------------------------
(* Intervals of a text, their parentheses and the operators that divide    *)
(* them.                                                                   *)

\* A part of a text in which every parenthesis is closed, and none before it is open.
Balanced(s, i, j) == i <= j /\ Depth(s, i, j) = 0 /\ \A k \in i..j : Depth(s, i, k) >= 0

LEMMA CutsWithin ==
  ASSUME NEW s, NEW i \in Int, NEW j \in Int, NEW k \in i..j, Depth(s, i, k) = 0, NEW q
  PROVE  /\ Cuts(s, i, k - 1, q) = Cuts(s, i, j, q) \cap (i..(k - 1))
         /\ Cuts(s, k + 1, j, q) = Cuts(s, i, j, q) \cap ((k + 1)..j)
<1>1. Cuts(s, i, k - 1, q) = Cuts(s, i, j, q) \cap (i..(k - 1))
  BY DEF Cuts
<1>2. ASSUME NEW m \in (k + 1)..j PROVE Depth(s, i, m) = Depth(s, k + 1, m)
  <2>1. Depth(s, i, m) = Depth(s, i, k) + Depth(s, k + 1, m)
    BY DepthSplits
  <2>2. Depth(s, k + 1, m) \in Int
    BY DepthInt
  <2> QED BY <2>1, <2>2
<1>3. Cuts(s, k + 1, j, q) = Cuts(s, i, j, q) \cap ((k + 1)..j)
  BY <1>2 DEF Cuts
<1> QED BY <1>1, <1>3

\* The cuts of two parts and the token between them
CutsJoin(s, i, k, j) ==
    \A q : Cuts(s, i, j, q) = Cuts(s, i, k - 1, q) \cup Cuts(s, k + 1, j, q)
                             \cup (IF s[k] = q THEN {k} ELSE {})

LEMMA BalancedTwo ==
  ASSUME NEW s, NEW i \in Int, NEW j \in Int, NEW k \in Int,
         Balanced(s, i, k - 1), s[k] \in BoolOps, Balanced(s, k + 1, j)
  PROVE  /\ Balanced(s, i, j)
         /\ k \in i..j /\ Depth(s, i, k) = 0
         /\ CutsJoin(s, i, k, j)
<1>1. i <= k - 1 /\ k + 1 <= j /\ k \in i..j
  BY DEF Balanced
<1>2. Depth(s, i, k) = 0
  <2>1. Depth(s, i, k) = Depth(s, i, k - 1) + Depth(s, (k - 1) + 1, k)
    BY <1>1, DepthSplits
  <2>2. Depth(s, k, k) = 0
    BY DepthOne, TokensAreDifferent
  <2>3. (k - 1) + 1 = k
    OBVIOUS
  <2>4. Depth(s, i, k - 1) = 0
    BY DEF Balanced
  <2> QED BY <2>1, <2>2, <2>3, <2>4
<1>3. ASSUME NEW m \in (k + 1)..j PROVE Depth(s, i, m) = Depth(s, k + 1, m)
  <2>1. Depth(s, i, m) = Depth(s, i, k) + Depth(s, k + 1, m)
    BY <1>1, DepthSplits
  <2>2. Depth(s, k + 1, m) \in Int
    BY DepthInt
  <2> QED BY <1>2, <2>1, <2>2
<1>4. Balanced(s, i, j)
  <2>1. j \in (k + 1)..j /\ \A m \in i..j : m \in i..(k - 1) \/ m = k \/ m \in (k + 1)..j
    BY <1>1
  <2> QED BY <1>1, <1>2, <1>3, <2>1 DEF Balanced
<1>5. ASSUME NEW q
      PROVE  Cuts(s, i, j, q) = Cuts(s, i, k - 1, q) \cup Cuts(s, k + 1, j, q)
                                \cup (IF s[k] = q THEN {k} ELSE {})
  <2>1. /\ Cuts(s, i, k - 1, q) = Cuts(s, i, j, q) \cap (i..(k - 1))
        /\ Cuts(s, k + 1, j, q) = Cuts(s, i, j, q) \cap ((k + 1)..j)
    BY <1>1, <1>2, CutsWithin
  <2>2. Cuts(s, i, j, q) \subseteq i..j /\ (k \in Cuts(s, i, j, q) <=> s[k] = q)
    BY <1>1, <1>2 DEF Cuts
  <2>3. i..j = i..(k - 1) \cup {k} \cup (k + 1)..j
    BY <1>1
  <2> DEFINE C == Cuts(s, i, j, q)
  <2> HIDE DEF C
  <2>4. C = (C \cap (i..(k - 1))) \cup (C \cap ((k + 1)..j)) \cup (IF s[k] = q THEN {k} ELSE {})
    BY <2>2, <2>3 DEF C
  <2> QED BY <2>1, <2>4 DEF C
<1>6. CutsJoin(s, i, k, j)
  BY <1>5, Zenon DEF CutsJoin
<1> QED BY <1>1, <1>2, <1>4, <1>6

LEMMA BalancedIn ==
  ASSUME NEW s, NEW i \in Int, NEW j \in Int, s[i] = LeftParenthesis, s[j] = RightParenthesis,
         Balanced(s, i + 1, j - 1)
  PROVE  Balanced(s, i, j) /\ \A q \in BoolOps : Cuts(s, i, j, q) = {}
<1>1. i + 1 <= j - 1 /\ Depth(s, i, i) = 1 /\ Depth(s, j, j) = -1
  BY DepthOne DEF Balanced
<1>2. ASSUME NEW m \in (i + 1)..j PROVE Depth(s, i, m) = 1 + Depth(s, i + 1, m)
  <2>1. Depth(s, i, m) = Depth(s, i, i) + Depth(s, i + 1, m)
    BY <1>1, DepthSplits
  <2> QED BY <1>1, <2>1
<1>3. \A m \in (i + 1)..(j - 1) : Depth(s, i, m) >= 1
  <2>1. \A m \in (i + 1)..(j - 1) : m \in (i + 1)..j /\ Depth(s, i + 1, m) >= 0 /\ Depth(s, i + 1, m) \in Int
    BY DepthInt DEF Balanced
  <2> QED BY <1>2, <2>1
<1>4. Depth(s, i, j) = 0
  <2>1. Depth(s, i + 1, j) = Depth(s, i + 1, j - 1) + Depth(s, (j - 1) + 1, j)
    BY <1>1, DepthSplits
  <2>2. Depth(s, i + 1, j - 1) = 0 /\ (j - 1) + 1 = j
    BY DEF Balanced
  <2> QED BY <1>1, <1>2, <2>1, <2>2
<1>5. \A m \in i..j : m = i \/ m \in (i + 1)..(j - 1) \/ m = j
  OBVIOUS
<1>6. Balanced(s, i, j)
  <2>1. ASSUME NEW m \in i..j PROVE Depth(s, i, m) >= 0
    <3>1. m \in Int /\ Depth(s, i, m) \in Int
      BY DepthInt
    <3> QED BY <1>1, <1>3, <1>4, <1>5, <3>1
  <2> QED BY <1>1, <1>4, <2>1 DEF Balanced
<1>7. ASSUME NEW q \in BoolOps PROVE Cuts(s, i, j, q) = {}
  <2>1. q # LeftParenthesis /\ q # RightParenthesis
    BY TokensAreDifferent
  <2>2. \A m \in i..j : ~(s[m] = q /\ Depth(s, i, m) = 0)
    BY <1>3, <1>5, <2>1
  <2> QED BY <2>2 DEF Cuts
<1> QED BY <1>6, <1>7

LEMMA BalancedOne ==
  ASSUME NEW s, NEW i \in Int, s[i] = Var
  PROVE  Balanced(s, i, i) /\ \A q \in BoolOps : Cuts(s, i, i, q) = {}
<1>1. Depth(s, i, i) = 0
  BY DepthOne, TokensAreDifferent
<1>2. Balanced(s, i, i)
  BY <1>1 DEF Balanced
<1>3. ASSUME NEW q \in BoolOps PROVE Cuts(s, i, i, q) = {}
  BY TokensAreDifferent DEF Cuts
<1> QED BY <1>2, <1>3

-----------------------------------------------------------------------------
(* What an interval means, and whether it is well formed *)

\* The length of an interval
Size(s) == [x \in Intervals(s) |-> IF x[1] <= x[2] THEN x[2] - x[1] + 1 ELSE 0]

LEMMA IntervalsAre ==
  ASSUME NEW s, Len(s) \in Nat
  PROVE  /\ \A x \in Intervals(s) : x[1] \in 1..(Len(s) + 1) /\ x[2] \in 0..Len(s) /\ x = <<x[1], x[2]>>
         /\ \A i \in 1..(Len(s) + 1), j \in 0..Len(s) : <<i, j>> \in Intervals(s)
         /\ Size(s) \in [Intervals(s) -> Nat] /\ \A x \in Intervals(s) : Size(s)[x] < Len(s) + 1
<1>1. \A x \in Intervals(s) : x[1] \in 1..(Len(s) + 1) /\ x[2] \in 0..Len(s) /\ x = <<x[1], x[2]>>
  BY DEF Intervals
<1>2. \A i \in 1..(Len(s) + 1), j \in 0..Len(s) : <<i, j>> \in Intervals(s)
  BY DEF Intervals
<1>3. \A x \in Intervals(s) : LET z == IF x[1] <= x[2] THEN x[2] - x[1] + 1 ELSE 0
                              IN  z \in Nat /\ z < Len(s) + 1
  BY <1>1
<1> QED BY <1>1, <1>2, <1>3 DEF Size

\* An interval in another, with a token beside it in that
LEMMA SmallerIntervals ==
  ASSUME NEW s, Len(s) \in Nat, NEW i \in 1..(Len(s) + 1), NEW j \in 0..Len(s), NEW k \in i..j
  PROVE  /\ <<i, j>> \in Intervals(s) /\ <<i, k - 1>> \in Intervals(s) /\ <<k + 1, j>> \in Intervals(s)
         /\ Size(s)[<<i, k - 1>>] < Size(s)[<<i, j>>] /\ Size(s)[<<k + 1, j>>] < Size(s)[<<i, j>>]
         /\ i < j => <<i + 1, j - 1>> \in Intervals(s) /\ Size(s)[<<i + 1, j - 1>>] < Size(s)[<<i, j>>]
<1>1. <<i, j>> \in Intervals(s) /\ <<i, k - 1>> \in Intervals(s) /\ <<k + 1, j>> \in Intervals(s)
  BY DEF Intervals
<1>2. i < j => <<i + 1, j - 1>> \in Intervals(s)
  BY DEF Intervals
<1>3. \A a, b : <<a, b>> \in Intervals(s) => Size(s)[<<a, b>>] = IF a <= b THEN b - a + 1 ELSE 0
  BY DEF Size
<1> QED BY <1>1, <1>2, <1>3, SMTT(40)

-----------------------------------------------------------------------------
(* Means, unfolded: what an interval means in terms of shorter ones.       *)

\* One step of Means, where g says what smaller intervals mean
MeansBy(s, true, i, j, g) ==
    LET ands == Cuts(s, i, j, LogicalAnd)
        ors == Cuts(s, i, j, LogicalOr)
    IN  IF ands # {} THEN \E k \in ands : g[<<i, k - 1>>] /\ g[<<k + 1, j>>]
        ELSE IF ors # {} THEN \E k \in ors : g[<<i, k - 1>>] \/ g[<<k + 1, j>>]
        ELSE IF i < j THEN g[<<i + 1, j - 1>>]
        ELSE Count(s, Var, 1, i) \in true

AgreeBelow(s, i, j, g, h) ==
    \A e \in Intervals(s) : Size(s)[e] < Size(s)[<<i, j>>] => g[e] = h[e]

\* It looks at smaller intervals only.
LEMMA MeansByLess ==
  ASSUME NEW s, Len(s) \in Nat, NEW true, NEW i \in 1..(Len(s) + 1), NEW j \in 0..Len(s),
         NEW g, NEW h, AgreeBelow(s, i, j, g, h)
  PROVE  MeansBy(s, true, i, j, g) = MeansBy(s, true, i, j, h)
<1>1. ASSUME NEW q, NEW k \in Cuts(s, i, j, q)
      PROVE  g[<<i, k - 1>>] = h[<<i, k - 1>>] /\ g[<<k + 1, j>>] = h[<<k + 1, j>>]
  <2>1. k \in i..j
    BY DEF Cuts
  <2> QED BY <2>1, SmallerIntervals DEF AgreeBelow
<1>2. ASSUME i < j PROVE g[<<i + 1, j - 1>>] = h[<<i + 1, j - 1>>]
  <2>1. i \in i..j
    BY <1>2
  <2> QED BY <1>2, <2>1, SmallerIntervals DEF AgreeBelow
<1> QED BY <1>1, <1>2 DEF MeansBy

LEMMA MeansUnfolds ==
  ASSUME NEW s, Len(s) \in Nat, NEW true
  PROVE  \E mean : /\ \A i \in 1..(Len(s) + 1), j \in 0..Len(s) :
                        mean[<<i, j>>] = MeansBy(s, true, i, j, mean)
                   /\ \A i, j : Means(s, i, j, true) = mean[<<i, j>>]
<1> DEFINE D == Intervals(s)
           B == [D -> BOOLEAN]
           F == [x \in D |-> [g \in B |-> MeansBy(s, true, x[1], x[2], g)]]
           Solves(f) == f = [x \in D |-> MeansBy(s, true, x[1], x[2], f)]
<1>1. \A x \in D : x[1] \in 1..(Len(s) + 1) /\ x[2] \in 0..Len(s) /\ x = <<x[1], x[2]>>
  BY IntervalsAre
<1>2. ASSUME NEW x \in D, NEW g \in B PROVE MeansBy(s, true, x[1], x[2], g) \in BOOLEAN
  <2> DEFINE i == x[1]
             j == x[2]
  <2>1. i \in 1..(Len(s) + 1) /\ j \in 0..Len(s)
    BY <1>1
  <2>2. i < j => <<i + 1, j - 1>> \in D
    <3>1. i < j => i \in i..j
      BY <2>1
    <3> HIDE DEF i, j
    <3> QED BY <2>1, <3>1, SmallerIntervals
  <2>3. i < j => g[<<i + 1, j - 1>>] \in BOOLEAN
    <3> HIDE DEF i, j, D
    <3> QED BY <2>2
  <2> HIDE DEF i, j, D, B
  <2>4. MeansBy(s, true, i, j, g) \in BOOLEAN
    <3> DEFINE ands == Cuts(s, i, j, LogicalAnd)
               ors == Cuts(s, i, j, LogicalOr)
    <3>1. CASE ands # {}
      <4>1. MeansBy(s, true, i, j, g) = \E k \in ands : g[<<i, k - 1>>] /\ g[<<k + 1, j>>]
        BY <3>1, Zenon DEF MeansBy
      <4> HIDE DEF ands
      <4> QED BY <4>1
    <3>2. CASE ands = {} /\ ors # {}
      <4>1. MeansBy(s, true, i, j, g) = \E k \in ors : g[<<i, k - 1>>] \/ g[<<k + 1, j>>]
        BY <3>2, Zenon DEF MeansBy
      <4> HIDE DEF ors
      <4> QED BY <4>1
    <3>3. CASE ands = {} /\ ors = {} /\ i < j
      BY <2>3, <3>3, Zenon DEF MeansBy
    <3>4. CASE ands = {} /\ ors = {} /\ ~(i < j)
      <4>1. MeansBy(s, true, i, j, g) = (Count(s, Var, 1, i) \in true)
        BY <3>4, Zenon DEF MeansBy
      <4>2. (Count(s, Var, 1, i) \in true) \in BOOLEAN
        OBVIOUS
      <4> QED BY <4>1, <4>2, Zenon
    <3> QED BY <3>1, <3>2, <3>3, <3>4
  <2> QED BY <2>4 DEF i, j
<1>3. Recurs(D, BOOLEAN, Size(s), Len(s) + 1, F)
  <2>1. F \in [D -> [B -> BOOLEAN]]
    <3> HIDE DEF B, D
    <3> QED BY <1>2
  <2>2. ASSUME NEW x \in D, NEW g \in B, NEW h \in B,
               \A e \in D : Size(s)[e] < Size(s)[x] => g[e] = h[e]
        PROVE  F[x][g] = F[x][h]
    <3>1. MeansBy(s, true, x[1], x[2], g) = MeansBy(s, true, x[1], x[2], h)
      <4>1. x[1] \in 1..(Len(s) + 1) /\ x[2] \in 0..Len(s)
        BY <1>1
      <4>2. AgreeBelow(s, x[1], x[2], g, h)
        BY <1>1, <2>2 DEF AgreeBelow
      <4> QED BY <4>1, <4>2, MeansByLess
    <3>2. F[x][g] = MeansBy(s, true, x[1], x[2], g) /\ F[x][h] = MeansBy(s, true, x[1], x[2], h)
      <4> HIDE DEF B, D
      <4> QED OBVIOUS
    <3> QED BY <3>1, <3>2
  <2>3. TRUE \in BOOLEAN /\ Size(s) \in [D -> Nat] /\ (\A x \in D : Size(s)[x] < Len(s) + 1) /\ Len(s) + 1 \in Nat
    BY IntervalsAre
  <2> HIDE DEF F, D
  <2> QED BY <2>1, <2>2, <2>3 DEF Recurs
<1>4. PICK f \in B : \A x \in D : f[x] = F[x][f]
  <2> DEFINE V == BOOLEAN
  <2>1. Recurs(D, V, Size(s), Len(s) + 1, F)
    BY <1>3
  <2> HIDE DEF F, D, V
  <2>2. \E f \in [D -> V] : \A x \in D : f[x] = F[x][f]
    BY <2>1, RecursionSolved
  <2> QED BY <2>2 DEF V
<1>5. Solves(f)
  <2>1. \A x \in D : f[x] = MeansBy(s, true, x[1], x[2], f)
    <3> HIDE DEF B, D
    <3> QED BY <1>4
  <2>2. f = [x \in D |-> f[x]]
    <3> HIDE DEF D
    <3> QED BY <1>4
  <2>3. [x \in D |-> f[x]] = [x \in D |-> MeansBy(s, true, x[1], x[2], f)]
    <3> HIDE DEF D
    <3> QED BY <2>1
  <2> QED BY <2>2, <2>3
<1> DEFINE c == CHOOSE q : Solves(q)
<1>6. Solves(c)
  <2> HIDE DEF Solves
  <2> QED BY <1>5
<1>7. \A i, j : Means(s, i, j, true) = c[<<i, j>>]
  BY DEF Means, MeansBy
<1>8. \A i \in 1..(Len(s) + 1), j \in 0..Len(s) : c[<<i, j>>] = MeansBy(s, true, i, j, c)
  <2>1. \A x \in D : c[x] = MeansBy(s, true, x[1], x[2], c)
    <3> HIDE DEF c, D
    <3> QED BY <1>6
  <2>2. \A i \in 1..(Len(s) + 1), j \in 0..Len(s) : <<i, j>> \in D
    BY IntervalsAre
  <2> HIDE DEF c, D
  <2>3. ASSUME NEW i \in 1..(Len(s) + 1), NEW j \in 0..Len(s) PROVE c[<<i, j>>] = MeansBy(s, true, i, j, c)
    <3>1. <<i, j>>[1] = i /\ <<i, j>>[2] = j
      OBVIOUS
    <3>2. c[<<i, j>>] = MeansBy(s, true, <<i, j>>[1], <<i, j>>[2], c)
      BY <2>1, <2>2, Zenon
    <3> QED BY <3>1, <3>2
  <2> QED BY <2>3
<1> HIDE DEF c
<1> QED BY <1>7, <1>8

SolvesMeans(s, true, mean) ==
    /\ \A a \in 1..(Len(s) + 1), b \in 0..Len(s) : mean[<<a, b>>] = MeansBy(s, true, a, b, mean)
    /\ \A a, b : Means(s, a, b, true) = mean[<<a, b>>]

LEMMA MeansSolved ==
  ASSUME NEW s, Len(s) \in Nat, NEW true
  PROVE  \E mean : SolvesMeans(s, true, mean)
BY MeansUnfolds DEF SolvesMeans

LEMMA MeansIs ==
  ASSUME NEW s, Len(s) \in Nat, NEW true, NEW i \in 1..(Len(s) + 1), NEW j \in 0..Len(s)
  PROVE  /\ Cuts(s, i, j, LogicalAnd) # {} =>
              (Means(s, i, j, true) <=> \E k \in Cuts(s, i, j, LogicalAnd) :
                                            Means(s, i, k - 1, true) /\ Means(s, k + 1, j, true))
         /\ Cuts(s, i, j, LogicalAnd) = {} /\ Cuts(s, i, j, LogicalOr) # {} =>
              (Means(s, i, j, true) <=> \E k \in Cuts(s, i, j, LogicalOr) :
                                            Means(s, i, k - 1, true) \/ Means(s, k + 1, j, true))
         /\ Cuts(s, i, j, LogicalAnd) = {} /\ Cuts(s, i, j, LogicalOr) = {} /\ i < j =>
              (Means(s, i, j, true) <=> Means(s, i + 1, j - 1, true))
         /\ Cuts(s, i, j, LogicalAnd) = {} /\ Cuts(s, i, j, LogicalOr) = {} /\ ~(i < j) =>
              (Means(s, i, j, true) <=> Count(s, Var, 1, i) \in true)
<1>0. PICK mean : SolvesMeans(s, true, mean)
  BY MeansSolved
<1>1. /\ \A a \in 1..(Len(s) + 1), b \in 0..Len(s) : mean[<<a, b>>] = MeansBy(s, true, a, b, mean)
      /\ \A a, b : Means(s, a, b, true) = mean[<<a, b>>]
  BY <1>0, Zenon DEF SolvesMeans
<1>2. Means(s, i, j, true) = MeansBy(s, true, i, j, mean)
  BY <1>1
<1> DEFINE ands == Cuts(s, i, j, LogicalAnd)
           ors == Cuts(s, i, j, LogicalOr)
<1>3. MeansBy(s, true, i, j, mean) =
        IF ands # {} THEN \E k \in ands : Means(s, i, k - 1, true) /\ Means(s, k + 1, j, true)
        ELSE IF ors # {} THEN \E k \in ors : Means(s, i, k - 1, true) \/ Means(s, k + 1, j, true)
        ELSE IF i < j THEN Means(s, i + 1, j - 1, true)
        ELSE Count(s, Var, 1, i) \in true
  BY <1>1, ZenonT(40) DEF MeansBy
<1> HIDE DEF ands, ors
<1>4. /\ ands # {} => (Means(s, i, j, true) <=> \E k \in ands : Means(s, i, k - 1, true) /\ Means(s, k + 1, j, true))
      /\ ands = {} /\ ors # {} =>
           (Means(s, i, j, true) <=> \E k \in ors : Means(s, i, k - 1, true) \/ Means(s, k + 1, j, true))
      /\ ands = {} /\ ors = {} /\ i < j => (Means(s, i, j, true) <=> Means(s, i + 1, j - 1, true))
      /\ ands = {} /\ ors = {} /\ ~(i < j) => (Means(s, i, j, true) <=> Count(s, Var, 1, i) \in true)
  BY <1>2, <1>3, Zenon
<1> QED BY <1>4, Zenon DEF ands, ors

\* Of two cuts, either way
LEMMA TwoCuts ==
  ASSUME NEW s, NEW i \in Int, NEW j \in Int, NEW q, NEW a \in Cuts(s, i, j, q), NEW b \in Cuts(s, i, j, q), a < b
  PROVE  b \in Cuts(s, a + 1, j, q) /\ a \in Cuts(s, i, b - 1, q)
<1>1. a \in i..j /\ b \in i..j /\ Depth(s, i, a) = 0 /\ Depth(s, i, b) = 0
  BY DEF Cuts
<1>2. b \in (a + 1)..j /\ a \in i..(b - 1)
  BY <1>1
<1> QED BY <1>1, <1>2, CutsWithin

\* The interval has parts on both sides of any "and" of its own.
AndSplitsAt(s, true, i, j) ==
    \A k \in Cuts(s, i, j, LogicalAnd) :
        Means(s, i, j, true) <=> Means(s, i, k - 1, true) /\ Means(s, k + 1, j, true)
OrSplitsAt(s, true, i, j) ==
    Cuts(s, i, j, LogicalAnd) = {} =>
        \A k \in Cuts(s, i, j, LogicalOr) :
            Means(s, i, j, true) <=> Means(s, i, k - 1, true) \/ Means(s, k + 1, j, true)

LEMMA AndStep ==
  ASSUME NEW s, Len(s) \in Nat, NEW true, NEW i \in 1..(Len(s) + 1), NEW j \in 0..Len(s),
         \A a \in 1..(Len(s) + 1), b \in 0..Len(s) : b - a < j - i => AndSplitsAt(s, true, a, b)
  PROVE  AndSplitsAt(s, true, i, j)
<1> DEFINE C == Cuts(s, i, j, LogicalAnd)
           M(a, b) == Means(s, a, b, true)
<1> SUFFICES ASSUME NEW k \in C PROVE M(i, j) <=> M(i, k - 1) /\ M(k + 1, j)
  BY DEF AndSplitsAt
<1>1. M(i, j) <=> \E m \in C : M(i, m - 1) /\ M(m + 1, j)
  <2>1. C # {}
    OBVIOUS
  <2> QED BY <2>1, MeansIs
<1>2. C \subseteq i..j
  BY DEF Cuts
<1>3. ASSUME NEW a \in C, NEW b \in C, a < b
      PROVE  /\ M(a + 1, j) <=> M(a + 1, b - 1) /\ M(b + 1, j)
             /\ M(i, b - 1) <=> M(i, a - 1) /\ M(a + 1, b - 1)
  <2>1. b \in Cuts(s, a + 1, j, LogicalAnd) /\ a \in Cuts(s, i, b - 1, LogicalAnd)
    BY <1>3, TwoCuts
  <2>2. a \in i..j /\ b \in i..j
    BY <1>2
  <2>3. /\ a + 1 \in 1..(Len(s) + 1) /\ j \in 0..Len(s) /\ j - (a + 1) < j - i
        /\ i \in 1..(Len(s) + 1) /\ b - 1 \in 0..Len(s) /\ (b - 1) - i < j - i
    BY <1>3, <2>2
  <2>4. AndSplitsAt(s, true, a + 1, j) /\ AndSplitsAt(s, true, i, b - 1)
    BY <2>3
  <2> QED BY <2>1, <2>4 DEF AndSplitsAt
<1>4. ASSUME NEW m \in C, M(i, m - 1) /\ M(m + 1, j) PROVE M(i, k - 1) /\ M(k + 1, j)
  <2>1. m < k \/ m = k \/ k < m
    BY <1>2
  <2> HIDE DEF C, M
  <2>2. CASE m = k
    BY <1>4, <2>2
  <2>3. CASE m < k
    BY <1>3, <1>4, <2>3
  <2>4. CASE k < m
    BY <1>3, <1>4, <2>4
  <2> QED BY <2>1, <2>2, <2>3, <2>4
<1> HIDE DEF C, M
<1> QED BY <1>1, <1>4

LEMMA OrStep ==
  ASSUME NEW s, Len(s) \in Nat, NEW true, NEW i \in 1..(Len(s) + 1), NEW j \in 0..Len(s),
         \A a \in 1..(Len(s) + 1), b \in 0..Len(s) : b - a < j - i => OrSplitsAt(s, true, a, b)
  PROVE  OrSplitsAt(s, true, i, j)
<1> DEFINE C == Cuts(s, i, j, LogicalOr)
           M(a, b) == Means(s, a, b, true)
<1> SUFFICES ASSUME Cuts(s, i, j, LogicalAnd) = {}, NEW k \in C PROVE M(i, j) <=> M(i, k - 1) \/ M(k + 1, j)
  BY DEF OrSplitsAt
<1>1. M(i, j) <=> \E m \in C : M(i, m - 1) \/ M(m + 1, j)
  <2>1. C # {}
    OBVIOUS
  <2> QED BY <2>1, MeansIs
<1>2. C \subseteq i..j /\ \A m \in C : Depth(s, i, m) = 0
  BY DEF Cuts
<1>3. ASSUME NEW a \in C, NEW b \in C, a < b
      PROVE  /\ M(a + 1, j) <=> M(a + 1, b - 1) \/ M(b + 1, j)
             /\ M(i, b - 1) <=> M(i, a - 1) \/ M(a + 1, b - 1)
  <2>1. b \in Cuts(s, a + 1, j, LogicalOr) /\ a \in Cuts(s, i, b - 1, LogicalOr)
    BY <1>3, TwoCuts
  <2>2. a \in i..j /\ b \in i..j
    BY <1>2
  <2>3. /\ a + 1 \in 1..(Len(s) + 1) /\ j \in 0..Len(s) /\ j - (a + 1) < j - i
        /\ i \in 1..(Len(s) + 1) /\ b - 1 \in 0..Len(s) /\ (b - 1) - i < j - i
    BY <1>3, <2>2
  <2>4. OrSplitsAt(s, true, a + 1, j) /\ OrSplitsAt(s, true, i, b - 1)
    BY <2>3
  <2>5. Cuts(s, a + 1, j, LogicalAnd) = {} /\ Cuts(s, i, b - 1, LogicalAnd) = {}
    <3>1. /\ Cuts(s, a + 1, j, LogicalAnd) = Cuts(s, i, j, LogicalAnd) \cap ((a + 1)..j)
          /\ Cuts(s, i, b - 1, LogicalAnd) = Cuts(s, i, j, LogicalAnd) \cap (i..(b - 1))
      <4>1. i \in Int /\ j \in Int /\ a \in i..j /\ b \in i..j
        BY <2>2
      <4>2. Depth(s, i, a) = 0 /\ Depth(s, i, b) = 0
        BY <1>2
      <4> DEFINE q == LogicalAnd
      <4> HIDE DEF q
      <4>3. Cuts(s, a + 1, j, q) = Cuts(s, i, j, q) \cap ((a + 1)..j)
        BY <4>1, <4>2, CutsWithin
      <4>4. Cuts(s, i, b - 1, q) = Cuts(s, i, j, q) \cap (i..(b - 1))
        BY <4>1, <4>2, CutsWithin
      <4> QED BY <4>3, <4>4 DEF q
    <3> QED BY <3>1
  <2> QED BY <2>1, <2>4, <2>5 DEF OrSplitsAt
<1>4. ASSUME NEW m \in C, M(i, m - 1) \/ M(m + 1, j) PROVE M(i, k - 1) \/ M(k + 1, j)
  <2>1. m < k \/ m = k \/ k < m
    BY <1>2
  <2> HIDE DEF C, M
  <2>2. CASE m = k
    BY <1>4, <2>2
  <2>3. CASE m < k
    BY <1>3, <1>4, <2>3
  <2>4. CASE k < m
    BY <1>3, <1>4, <2>4
  <2> QED BY <2>1, <2>2, <2>3, <2>4
<1> HIDE DEF C, M
<1> QED BY <1>1, <1>4

\* What an interval means is the same for any of its cuts.
LEMMA MeansSplits ==
  ASSUME NEW s, Len(s) \in Nat, NEW true, NEW i \in 1..(Len(s) + 1), NEW j \in 0..Len(s)
  PROVE  AndSplitsAt(s, true, i, j) /\ OrSplitsAt(s, true, i, j)
<1> DEFINE Right(a, b) == AndSplitsAt(s, true, a, b) /\ OrSplitsAt(s, true, a, b)
           I == 1..(Len(s) + 1)
           J == 0..Len(s)
           Bad == {n \in Nat : \E a \in I, b \in J : b - a = n /\ ~Right(a, b)}
<1>1. ASSUME NEW a \in I, NEW b \in J, b - a < 0 PROVE Right(a, b)
  <2>1. \A q : Cuts(s, a, b, q) = {}
    BY <1>1 DEF Cuts
  <2> QED BY <2>1 DEF AndSplitsAt, OrSplitsAt
<1>2. ASSUME NEW a \in I, NEW b \in J, \A c \in I, d \in J : d - c < b - a => Right(c, d) PROVE Right(a, b)
  BY <1>2, AndStep, OrStep
<1>3. Bad = {}
  <2> SUFFICES ASSUME Bad # {} PROVE FALSE
    OBVIOUS
  <2>1. PICK n \in Bad : \A m \in Bad : n <= m
    <3>1. Bad \in SUBSET Nat
      OBVIOUS
    <3> HIDE DEF Bad
    <3> QED BY <3>1, SmallestOf
  <2>2. PICK a \in I, b \in J : b - a = n /\ ~Right(a, b)
    <3> HIDE DEF Right, I, J
    <3> QED BY <2>1
  <2>3. ASSUME NEW c \in I, NEW d \in J, d - c < b - a PROVE Right(c, d)
    <3>1. CASE d - c < 0
      BY <1>1, <3>1
    <3>2. CASE ~(d - c < 0)
      <4>1. d - c \in Nat /\ d - c < n
        BY <2>2, <2>3, <3>2
      <4>2. d - c \notin Bad
        <5>1. n \in Nat
          OBVIOUS
        <5> HIDE DEF Bad
        <5> QED BY <2>1, <4>1, <5>1
      <4> HIDE DEF Right
      <4> QED BY <4>1, <4>2
    <3> QED BY <3>1, <3>2
  <2> HIDE DEF Right, I, J
  <2> QED BY <1>2, <2>2, <2>3
<1>4. Right(i, j)
  <2>1. CASE j - i < 0
    BY <1>1, <2>1
  <2>2. CASE ~(j - i < 0)
    <3>1. j - i \in Nat
      BY <2>2
    <3> HIDE DEF Right
    <3> QED BY <1>3, <3>1
  <2> QED BY <2>1, <2>2
<1> QED BY <1>4

-----------------------------------------------------------------------------
(* The grammar, unfolded; and trees in a sequence of nodes.                *)

\* One step of WellFormed, where g says which smaller intervals are
FormedBy(s, i, j, g) ==
    \/ i = j /\ s[i] = Var
    \/ i < j /\ s[i] = LeftParenthesis /\ s[j] = RightParenthesis /\ g[<<i + 1, j - 1>>]
    \/ \E k \in (i + 1)..(j - 1) : s[k] \in BoolOps /\ g[<<i, k - 1>>] /\ g[<<k + 1, j>>]

LEMMA FormedByLess ==
  ASSUME NEW s, Len(s) \in Nat, NEW i \in 1..(Len(s) + 1), NEW j \in 0..Len(s),
         NEW g, NEW h, AgreeBelow(s, i, j, g, h)
  PROVE  FormedBy(s, i, j, g) = FormedBy(s, i, j, h)
<1>1. ASSUME NEW k \in (i + 1)..(j - 1)
      PROVE  g[<<i, k - 1>>] = h[<<i, k - 1>>] /\ g[<<k + 1, j>>] = h[<<k + 1, j>>]
  <2>1. k \in i..j
    OBVIOUS
  <2> QED BY <2>1, SmallerIntervals DEF AgreeBelow
<1>2. ASSUME i < j PROVE g[<<i + 1, j - 1>>] = h[<<i + 1, j - 1>>]
  <2>1. i \in i..j
    BY <1>2
  <2> QED BY <1>2, <2>1, SmallerIntervals DEF AgreeBelow
<1> QED BY <1>1, <1>2 DEF FormedBy

LEMMA FormedUnfolds ==
  ASSUME NEW s, Len(s) \in Nat
  PROVE  \E formed : /\ \A i \in 1..(Len(s) + 1), j \in 0..Len(s) :
                          formed[<<i, j>>] = FormedBy(s, i, j, formed)
                     /\ \A i, j : WellFormed(s, i, j) = formed[<<i, j>>]
<1> DEFINE D == Intervals(s)
           B == [D -> BOOLEAN]
           F == [x \in D |-> [g \in B |-> FormedBy(s, x[1], x[2], g)]]
           Solves(f) == f = [x \in D |-> FormedBy(s, x[1], x[2], f)]
<1>1. \A x \in D : x[1] \in 1..(Len(s) + 1) /\ x[2] \in 0..Len(s) /\ x = <<x[1], x[2]>>
  BY IntervalsAre
<1>2. ASSUME NEW x \in D, NEW g \in B PROVE FormedBy(s, x[1], x[2], g) \in BOOLEAN
  BY Zenon DEF FormedBy
<1>3. Recurs(D, BOOLEAN, Size(s), Len(s) + 1, F)
  <2>1. F \in [D -> [B -> BOOLEAN]]
    <3> HIDE DEF B, D
    <3> QED BY <1>2
  <2>2. ASSUME NEW x \in D, NEW g \in B, NEW h \in B,
               \A e \in D : Size(s)[e] < Size(s)[x] => g[e] = h[e]
        PROVE  F[x][g] = F[x][h]
    <3>1. FormedBy(s, x[1], x[2], g) = FormedBy(s, x[1], x[2], h)
      <4>1. x[1] \in 1..(Len(s) + 1) /\ x[2] \in 0..Len(s)
        BY <1>1
      <4>2. AgreeBelow(s, x[1], x[2], g, h)
        BY <1>1, <2>2 DEF AgreeBelow
      <4> QED BY <4>1, <4>2, FormedByLess
    <3>2. F[x][g] = FormedBy(s, x[1], x[2], g) /\ F[x][h] = FormedBy(s, x[1], x[2], h)
      <4> HIDE DEF B, D
      <4> QED OBVIOUS
    <3> QED BY <3>1, <3>2
  <2>3. TRUE \in BOOLEAN /\ Size(s) \in [D -> Nat] /\ (\A x \in D : Size(s)[x] < Len(s) + 1) /\ Len(s) + 1 \in Nat
    BY IntervalsAre
  <2> HIDE DEF F, D
  <2> QED BY <2>1, <2>2, <2>3 DEF Recurs
<1>4. PICK f \in B : \A x \in D : f[x] = F[x][f]
  <2> DEFINE V == BOOLEAN
  <2>1. Recurs(D, V, Size(s), Len(s) + 1, F)
    BY <1>3
  <2> HIDE DEF F, D, V
  <2>2. \E f \in [D -> V] : \A x \in D : f[x] = F[x][f]
    BY <2>1, RecursionSolved
  <2> QED BY <2>2 DEF V
<1>5. Solves(f)
  <2>1. \A x \in D : f[x] = FormedBy(s, x[1], x[2], f)
    <3> HIDE DEF B, D
    <3> QED BY <1>4
  <2>2. f = [x \in D |-> f[x]]
    <3> HIDE DEF D
    <3> QED BY <1>4
  <2>3. [x \in D |-> f[x]] = [x \in D |-> FormedBy(s, x[1], x[2], f)]
    <3> HIDE DEF D
    <3> QED BY <2>1
  <2> QED BY <2>2, <2>3
<1> DEFINE c == CHOOSE q : Solves(q)
<1>6. Solves(c)
  <2> HIDE DEF Solves
  <2> QED BY <1>5
<1>7. \A i, j : WellFormed(s, i, j) = c[<<i, j>>]
  BY DEF WellFormed, FormedBy
<1>8. \A i \in 1..(Len(s) + 1), j \in 0..Len(s) : c[<<i, j>>] = FormedBy(s, i, j, c)
  <2>1. \A x \in D : c[x] = FormedBy(s, x[1], x[2], c)
    <3> HIDE DEF c, D
    <3> QED BY <1>6
  <2>2. \A i \in 1..(Len(s) + 1), j \in 0..Len(s) : <<i, j>> \in D
    BY IntervalsAre
  <2> HIDE DEF c, D
  <2>3. ASSUME NEW i \in 1..(Len(s) + 1), NEW j \in 0..Len(s) PROVE c[<<i, j>>] = FormedBy(s, i, j, c)
    <3>1. <<i, j>>[1] = i /\ <<i, j>>[2] = j
      OBVIOUS
    <3>2. c[<<i, j>>] = FormedBy(s, <<i, j>>[1], <<i, j>>[2], c)
      BY <2>1, <2>2, Zenon
    <3> QED BY <3>1, <3>2
  <2> QED BY <2>3
<1> HIDE DEF c
<1> QED BY <1>7, <1>8

LEMMA FormedIs ==
  ASSUME NEW s, Len(s) \in Nat, NEW i \in 1..(Len(s) + 1), NEW j \in 0..Len(s)
  PROVE  WellFormed(s, i, j) <=>
           \/ i = j /\ s[i] = Var
           \/ i < j /\ s[i] = LeftParenthesis /\ s[j] = RightParenthesis /\ WellFormed(s, i + 1, j - 1)
           \/ \E k \in (i + 1)..(j - 1) :
                  s[k] \in BoolOps /\ WellFormed(s, i, k - 1) /\ WellFormed(s, k + 1, j)
<1>1. PICK formed : /\ \A a \in 1..(Len(s) + 1), b \in 0..Len(s) :
                          formed[<<a, b>>] = FormedBy(s, a, b, formed)
                    /\ \A a, b : WellFormed(s, a, b) = formed[<<a, b>>]
  BY FormedUnfolds
<1>2. WellFormed(s, i, j) = FormedBy(s, i, j, formed)
  BY <1>1
<1>3. \A a, b : formed[<<a, b>>] = WellFormed(s, a, b)
  BY <1>1
<1>4. FormedBy(s, i, j, formed) <=>
           \/ i = j /\ s[i] = Var
           \/ i < j /\ s[i] = LeftParenthesis /\ s[j] = RightParenthesis /\ WellFormed(s, i + 1, j - 1)
           \/ \E k \in (i + 1)..(j - 1) :
                  s[k] \in BoolOps /\ WellFormed(s, i, k - 1) /\ WellFormed(s, k + 1, j)
  BY <1>3 DEF FormedBy
<1> QED BY <1>2, <1>4, Zenon

-----------------------------------------------------------------------------
(* Trees *)

TreeNode == [var : Nat, op : BoolOps \cup {NoOperator}, left : Nat, right : Nat]

\* A tree in a sequence of nodes: children come before their parent.
IsTree(t) ==
    /\ t \in Seq(TreeNode)
    /\ \A i \in DOMAIN t : t[i].op # NoOperator => t[i].left \in 1..(i - 1) /\ t[i].right \in 1..(i - 1)

Place(t) == [n \in DOMAIN t |-> n]
AgreeBefore(t, n, g, h) == \A m \in DOMAIN t : m < n => g[m] = h[m]

LEMMA TreeIs ==
  ASSUME NEW t, IsTree(t)
  PROVE  /\ Len(t) \in Nat /\ DOMAIN t = 1..Len(t)
         /\ \A n \in DOMAIN t : /\ t[n].op \in BoolOps \cup {NoOperator}
                                /\ t[n].op # NoOperator => t[n].op \in BoolOps
                                /\ t[n].op # NoOperator => t[n].left \in DOMAIN t /\ t[n].left < n
                                /\ t[n].op # NoOperator => t[n].right \in DOMAIN t /\ t[n].right < n
<1>1. Len(t) \in Nat /\ DOMAIN t = 1..Len(t) /\ \A n \in DOMAIN t : t[n] \in TreeNode
  BY DEF IsTree
<1>2. ASSUME NEW n \in DOMAIN t PROVE t[n].op \in BoolOps \cup {NoOperator}
  BY <1>1 DEF TreeNode
<1>3. ASSUME NEW n \in DOMAIN t, t[n].op # NoOperator
      PROVE  t[n].left \in DOMAIN t /\ t[n].left < n /\ t[n].right \in DOMAIN t /\ t[n].right < n
  <2>1. t[n].left \in 1..(n - 1) /\ t[n].right \in 1..(n - 1)
    BY <1>3 DEF IsTree
  <2> QED BY <1>1, <2>1
<1> QED BY <1>1, <1>2, <1>3

EvaluateBy(t, n, true, g) ==
    CASE t[n].op = NoOperator       -> t[n].var \in true
      [] t[n].op = LogicalAnd -> g[t[n].left] /\ g[t[n].right]
      [] OTHER                -> g[t[n].left] \/ g[t[n].right]

LEMMA EvaluateCases ==
  ASSUME NEW t, IsTree(t), NEW n \in DOMAIN t, NEW true, NEW g
  PROVE  /\ t[n].op = NoOperator => EvaluateBy(t, n, true, g) = (t[n].var \in true)
         /\ t[n].op = LogicalAnd => EvaluateBy(t, n, true, g) = (g[t[n].left] /\ g[t[n].right])
         /\ t[n].op = LogicalOr => EvaluateBy(t, n, true, g) = (g[t[n].left] \/ g[t[n].right])
         /\ t[n].op \in {NoOperator, LogicalAnd, LogicalOr}
<1>1. LogicalAnd # LogicalOr /\ NoOperator # LogicalAnd /\ NoOperator # LogicalOr
  BY TokensAreDifferent DEF BoolOps
<1>2. t[n].op \in {NoOperator, LogicalAnd, LogicalOr}
  BY TreeIs DEF BoolOps
<1>3. t[n].op = NoOperator => EvaluateBy(t, n, true, g) = (t[n].var \in true)
  BY <1>1, Zenon DEF EvaluateBy
<1>4. t[n].op = LogicalAnd => EvaluateBy(t, n, true, g) = (g[t[n].left] /\ g[t[n].right])
  BY <1>1, Zenon DEF EvaluateBy
<1>5. t[n].op = LogicalOr => EvaluateBy(t, n, true, g) = (g[t[n].left] \/ g[t[n].right])
  BY <1>1, Zenon DEF EvaluateBy
<1> QED BY <1>2, <1>3, <1>4, <1>5

LEMMA EvaluateByLess ==
  ASSUME NEW t, IsTree(t), NEW n \in DOMAIN t, NEW true, NEW g, NEW h, AgreeBefore(t, n, g, h)
  PROVE  EvaluateBy(t, n, true, g) = EvaluateBy(t, n, true, h)
<1>1. t[n].op # NoOperator => g[t[n].left] = h[t[n].left] /\ g[t[n].right] = h[t[n].right]
  BY TreeIs DEF AgreeBefore
<1>5. ASSUME NEW f
      PROVE  /\ t[n].op = NoOperator => EvaluateBy(t, n, true, f) = (t[n].var \in true)
             /\ t[n].op = LogicalAnd => EvaluateBy(t, n, true, f) = (f[t[n].left] /\ f[t[n].right])
             /\ t[n].op = LogicalOr => EvaluateBy(t, n, true, f) = (f[t[n].left] \/ f[t[n].right])
  BY EvaluateCases
<1>2. CASE t[n].op = NoOperator
  BY <1>2, <1>5, Zenon
<1>3. CASE t[n].op = LogicalAnd
  <2>1. t[n].op # NoOperator
    BY <1>3, TokensAreDifferent DEF BoolOps
  <2> QED BY <1>1, <1>3, <2>1, <1>5, Zenon
<1>4. CASE t[n].op = LogicalOr
  <2>1. t[n].op # NoOperator
    BY <1>4, TokensAreDifferent DEF BoolOps
  <2> QED BY <1>1, <1>4, <2>1, <1>5, Zenon
<1> QED BY <1>2, <1>3, <1>4, EvaluateCases

-----------------------------------------------------------------------------
(* Evaluate and Written, unfolded.                                         *)

LEMMA PlaceIs ==
  ASSUME NEW t, IsTree(t)
  PROVE  /\ Place(t) \in [DOMAIN t -> Nat] /\ \A n \in DOMAIN t : Place(t)[n] = n /\ n < Len(t) + 1
         /\ Len(t) + 1 \in Nat
<1>1. Len(t) \in Nat /\ DOMAIN t = 1..Len(t)
  BY TreeIs
<1> QED BY <1>1 DEF Place

LEMMA EvaluateUnfolds ==
  ASSUME NEW t, IsTree(t), NEW true
  PROVE  \E value : /\ \A n \in DOMAIN t : value[n] = EvaluateBy(t, n, true, value)
                    /\ \A n : Evaluate(t, n, true) = value[n]
<1> DEFINE D == DOMAIN t
           B == [D -> BOOLEAN]
           F == [x \in D |-> [g \in B |-> EvaluateBy(t, x, true, g)]]
           Solves(f) == f = [x \in D |-> EvaluateBy(t, x, true, f)]
<1>2. ASSUME NEW x \in D, NEW g \in B PROVE EvaluateBy(t, x, true, g) \in BOOLEAN
  <2>1. (t[x].var \in true) \in BOOLEAN
    OBVIOUS
  <2>2. /\ t[x].op = NoOperator => EvaluateBy(t, x, true, g) = (t[x].var \in true)
        /\ t[x].op = LogicalAnd => EvaluateBy(t, x, true, g) = (g[t[x].left] /\ g[t[x].right])
        /\ t[x].op = LogicalOr => EvaluateBy(t, x, true, g) = (g[t[x].left] \/ g[t[x].right])
        /\ t[x].op \in {NoOperator, LogicalAnd, LogicalOr}
    BY EvaluateCases
  <2> DEFINE l == t[x].left
             r == t[x].right
  <2>3. (g[l] /\ g[r]) \in BOOLEAN /\ (g[l] \/ g[r]) \in BOOLEAN
    <3> HIDE DEF l, r
    <3> QED BY Zenon
  <2>4. CASE t[x].op = NoOperator
    BY <2>1, <2>2, <2>4, Zenon
  <2>5. CASE t[x].op = LogicalAnd
    BY <2>2, <2>3, <2>5, Zenon
  <2>6. CASE t[x].op = LogicalOr
    BY <2>2, <2>3, <2>6, Zenon
  <2> QED BY <2>2, <2>4, <2>5, <2>6, Zenon
<1>3. Recurs(D, BOOLEAN, Place(t), Len(t) + 1, F)
  <2>1. F \in [D -> [B -> BOOLEAN]]
    <3> HIDE DEF B, D
    <3> QED BY <1>2
  <2>2. ASSUME NEW x \in D, NEW g \in B, NEW h \in B,
               \A e \in D : Place(t)[e] < Place(t)[x] => g[e] = h[e]
        PROVE  F[x][g] = F[x][h]
    <3>1. EvaluateBy(t, x, true, g) = EvaluateBy(t, x, true, h)
      <4>1. AgreeBefore(t, x, g, h)
        BY <2>2, PlaceIs DEF AgreeBefore
      <4> QED BY <4>1, EvaluateByLess
    <3>2. F[x][g] = EvaluateBy(t, x, true, g) /\ F[x][h] = EvaluateBy(t, x, true, h)
      <4> HIDE DEF B, D
      <4> QED OBVIOUS
    <3> QED BY <3>1, <3>2
  <2>3. TRUE \in BOOLEAN /\ Place(t) \in [D -> Nat] /\ (\A x \in D : Place(t)[x] < Len(t) + 1) /\ Len(t) + 1 \in Nat
    BY PlaceIs
  <2> HIDE DEF F, D
  <2> QED BY <2>1, <2>2, <2>3 DEF Recurs
<1>4. PICK f \in B : \A x \in D : f[x] = F[x][f]
  <2> DEFINE V == BOOLEAN
  <2>1. Recurs(D, V, Place(t), Len(t) + 1, F)
    BY <1>3
  <2> HIDE DEF F, D, V
  <2>2. \E f \in [D -> V] : \A x \in D : f[x] = F[x][f]
    BY <2>1, RecursionSolved
  <2> QED BY <2>2 DEF V
<1>5. Solves(f)
  <2>1. \A x \in D : f[x] = EvaluateBy(t, x, true, f)
    <3> HIDE DEF B, D
    <3> QED BY <1>4
  <2>2. f = [x \in D |-> f[x]]
    <3> HIDE DEF D
    <3> QED BY <1>4
  <2>3. [x \in D |-> f[x]] = [x \in D |-> EvaluateBy(t, x, true, f)]
    <3> HIDE DEF D
    <3> QED BY <2>1
  <2> QED BY <2>2, <2>3
<1> DEFINE c == CHOOSE q : Solves(q)
<1>6. Solves(c)
  <2> HIDE DEF Solves
  <2> QED BY <1>5
<1>7. \A n : Evaluate(t, n, true) = c[n]
  BY DEF Evaluate, EvaluateBy
<1>8. \A x \in D : c[x] = EvaluateBy(t, x, true, c)
  <2> HIDE DEF c, D
  <2> QED BY <1>6
<1> HIDE DEF c
<1> QED BY <1>7, <1>8

LEMMA EvaluateIs ==
  ASSUME NEW t, IsTree(t), NEW n \in DOMAIN t, NEW true
  PROVE  /\ t[n].op = NoOperator => (Evaluate(t, n, true) <=> t[n].var \in true)
         /\ t[n].op = LogicalAnd =>
              (Evaluate(t, n, true) <=> Evaluate(t, t[n].left, true) /\ Evaluate(t, t[n].right, true))
         /\ t[n].op = LogicalOr =>
              (Evaluate(t, n, true) <=> Evaluate(t, t[n].left, true) \/ Evaluate(t, t[n].right, true))
<1>1. PICK value : /\ \A m \in DOMAIN t : value[m] = EvaluateBy(t, m, true, value)
                   /\ \A m : Evaluate(t, m, true) = value[m]
  BY EvaluateUnfolds
<1>2. Evaluate(t, n, true) = EvaluateBy(t, n, true, value)
  BY <1>1
<1>3. /\ t[n].op = NoOperator => EvaluateBy(t, n, true, value) = (t[n].var \in true)
      /\ t[n].op = LogicalAnd => EvaluateBy(t, n, true, value) = (value[t[n].left] /\ value[t[n].right])
      /\ t[n].op = LogicalOr => EvaluateBy(t, n, true, value) = (value[t[n].left] \/ value[t[n].right])
  BY EvaluateCases
<1>4. Evaluate(t, t[n].left, true) = value[t[n].left] /\ Evaluate(t, t[n].right, true) = value[t[n].right]
  BY <1>1
<1> QED BY <1>2, <1>3, <1>4, Zenon

-----------------------------------------------------------------------------
WrittenBy(t, n, g) ==
    IF t[n].op = NoOperator THEN <<Var>>
    ELSE Child(t[t[n].left], g[t[n].left]) \o <<t[n].op>> \o Child(t[t[n].right], g[t[n].right])

LEMMA ChildTyped ==
  ASSUME NEW node, NEW text \in Seq(Tokens) PROVE Child(node, text) \in Seq(Tokens)
<1>1. <<LeftParenthesis>> \in Seq(Tokens) /\ <<RightParenthesis>> \in Seq(Tokens)
  <2> DEFINE l == LeftParenthesis
             r == RightParenthesis
  <2>1. l \in Tokens /\ r \in Tokens
    BY DEF Tokens
  <2> HIDE DEF l, r
  <2>2. <<l>> \in Seq(Tokens) /\ <<r>> \in Seq(Tokens)
    BY <2>1
  <2> QED BY <2>2 DEF l, r
<1>2. <<LeftParenthesis>> \o text \o <<RightParenthesis>> \in Seq(Tokens)
  <2> DEFINE l == <<LeftParenthesis>>
             r == <<RightParenthesis>>
  <2>1. l \in Seq(Tokens) /\ r \in Seq(Tokens)
    BY <1>1
  <2> HIDE DEF l, r
  <2>2. l \o text \in Seq(Tokens)
    BY <2>1
  <2>3. (l \o text) \o r \in Seq(Tokens)
    BY <2>1, <2>2
  <2> QED BY <2>3 DEF l, r
<1> QED BY <1>2 DEF Child

LEMMA WrittenByTyped ==
  ASSUME NEW t, IsTree(t), NEW n \in DOMAIN t, NEW g,
         t[n].op # NoOperator => g[t[n].left] \in Seq(Tokens) /\ g[t[n].right] \in Seq(Tokens)
  PROVE  WrittenBy(t, n, g) \in Seq(Tokens)
<1>1. CASE t[n].op = NoOperator
  <2> DEFINE v == Var
  <2>1. v \in Tokens
    BY DEF Tokens
  <2> HIDE DEF v
  <2>2. <<v>> \in Seq(Tokens)
    BY <2>1
  <2> QED BY <1>1, <2>2 DEF WrittenBy, v
<1>2. CASE t[n].op # NoOperator
  <2> DEFINE l == Child(t[t[n].left], g[t[n].left])
             r == Child(t[t[n].right], g[t[n].right])
             o == t[n].op
  <2>1. l \in Seq(Tokens) /\ r \in Seq(Tokens)
    BY <1>2, ChildTyped
  <2>2. o \in Tokens
    BY <1>2, TreeIs DEF Tokens
  <2>3. WrittenBy(t, n, g) = l \o <<o>> \o r
    BY <1>2, Zenon DEF WrittenBy
  <2> HIDE DEF l, r, o
  <2>4. <<o>> \in Seq(Tokens)
    BY <2>2
  <2>5. l \o <<o>> \in Seq(Tokens)
    BY <2>1, <2>4
  <2>6. (l \o <<o>>) \o r \in Seq(Tokens)
    BY <2>1, <2>5
  <2> QED BY <2>3, <2>6
<1> QED BY <1>1, <1>2

LEMMA WrittenUnfolds ==
  ASSUME NEW t, IsTree(t)
  PROVE  \E text : /\ \A n \in DOMAIN t : text[n] = WrittenBy(t, n, text)
                   /\ \A n \in DOMAIN t : text[n] \in Seq(Tokens)
                   /\ \A n : Written(t, n) = text[n]
<1> DEFINE D == DOMAIN t
           S == Seq(Tokens)
           B == [D -> S]
           F == [x \in D |-> [g \in B |-> WrittenBy(t, x, g)]]
           Solves(f) == f = [x \in D |-> WrittenBy(t, x, f)]
<1>1. \A x \in D : t[x].op # NoOperator => t[x].left \in D /\ t[x].right \in D /\ t[x].left < x /\ t[x].right < x
  BY TreeIs
<1>2. ASSUME NEW x \in D, NEW g \in B PROVE WrittenBy(t, x, g) \in S
  <2>1. t[x].op # NoOperator => g[t[x].left] \in S /\ g[t[x].right] \in S
    <3> HIDE DEF S, D
    <3> QED BY <1>1
  <2> QED BY <2>1, WrittenByTyped
<1>3. Recurs(D, S, Place(t), Len(t) + 1, F)
  <2>1. F \in [D -> [B -> S]]
    <3> HIDE DEF B, D, S
    <3> QED BY <1>2
  <2>2. ASSUME NEW x \in D, NEW g \in B, NEW h \in B,
               \A e \in D : Place(t)[e] < Place(t)[x] => g[e] = h[e]
        PROVE  F[x][g] = F[x][h]
    <3>1. t[x].op # NoOperator => g[t[x].left] = h[t[x].left] /\ g[t[x].right] = h[t[x].right]
      BY <1>1, <2>2, PlaceIs
    <3>2. WrittenBy(t, x, g) = WrittenBy(t, x, h)
      BY <3>1, Zenon DEF WrittenBy
    <3>3. F[x][g] = WrittenBy(t, x, g) /\ F[x][h] = WrittenBy(t, x, h)
      <4> HIDE DEF B, D
      <4> QED OBVIOUS
    <3> QED BY <3>2, <3>3
  <2>3. <<>> \in S /\ Place(t) \in [D -> Nat] /\ (\A x \in D : Place(t)[x] < Len(t) + 1) /\ Len(t) + 1 \in Nat
    BY PlaceIs
  <2> HIDE DEF F, D, S
  <2> QED BY <2>1, <2>2, <2>3 DEF Recurs
<1>4. PICK f \in B : \A x \in D : f[x] = F[x][f]
  <2> HIDE DEF F, D, S
  <2> QED BY <1>3, RecursionSolved
<1>5. Solves(f)
  <2>1. \A x \in D : f[x] = WrittenBy(t, x, f)
    <3> HIDE DEF B, D, S
    <3> QED BY <1>4
  <2>2. f = [x \in D |-> f[x]]
    <3> HIDE DEF D, S
    <3> QED BY <1>4
  <2>3. [x \in D |-> f[x]] = [x \in D |-> WrittenBy(t, x, f)]
    <3> HIDE DEF D
    <3> QED BY <2>1
  <2> QED BY <2>2, <2>3
<1> DEFINE c == CHOOSE q : Solves(q)
<1>6. Solves(c)
  <2> HIDE DEF Solves
  <2> QED BY <1>5
<1>7. \A n : Written(t, n) = c[n]
  BY DEF Written, WrittenBy
<1>8. \A x \in D : c[x] = WrittenBy(t, x, c)
  <2> HIDE DEF c, D
  <2> QED BY <1>6
<1> HIDE DEF c
<1> DEFINE Bad == {n \in D : c[n] \notin S}
<1>9. Bad = {}
  <2> SUFFICES ASSUME Bad # {} PROVE FALSE
    OBVIOUS
  <2>1. Bad \in SUBSET Nat
    BY TreeIs
  <2>2. PICK n \in Bad : \A m \in Bad : n <= m
    <3> HIDE DEF Bad
    <3> QED BY <2>1, SmallestOf
  <2>3. n \in D /\ c[n] \notin S /\ D \subseteq Nat
    BY TreeIs
  <2>4. t[n].op # NoOperator => c[t[n].left] \in S /\ c[t[n].right] \in S
    <3>1. \A m \in D : m < n => m \notin Bad
      <4> HIDE DEF Bad
      <4> QED BY <2>2, <2>3
    <3> HIDE DEF S, D
    <3> QED BY <1>1, <2>3, <3>1
  <2>5. WrittenBy(t, n, c) \in S
    <3>1. n \in DOMAIN t /\ (t[n].op # NoOperator => c[t[n].left] \in Seq(Tokens) /\ c[t[n].right] \in Seq(Tokens))
      BY <2>3, <2>4
    <3> QED BY <3>1, WrittenByTyped
  <2> QED BY <1>8, <2>3, <2>5, Zenon
<1> QED BY <1>7, <1>8, <1>9

LEMMA WrittenIs ==
  ASSUME NEW t, IsTree(t), NEW n \in DOMAIN t
  PROVE  /\ Written(t, n) \in Seq(Tokens)
         /\ t[n].op = NoOperator => Written(t, n) = <<Var>>
         /\ t[n].op # NoOperator =>
              Written(t, n) = Child(t[t[n].left], Written(t, t[n].left)) \o <<t[n].op>>
                              \o Child(t[t[n].right], Written(t, t[n].right))
<1>1. PICK text : /\ \A m \in DOMAIN t : text[m] = WrittenBy(t, m, text)
                  /\ \A m \in DOMAIN t : text[m] \in Seq(Tokens)
                  /\ \A m : Written(t, m) = text[m]
  BY WrittenUnfolds
<1>2. Written(t, n) = WrittenBy(t, n, text) /\ Written(t, n) \in Seq(Tokens)
  BY <1>1
<1>3. \A m : text[m] = Written(t, m)
  BY <1>1
<1>4. t[n].op = NoOperator => WrittenBy(t, n, text) = <<Var>>
  BY Zenon DEF WrittenBy
<1>5. t[n].op # NoOperator =>
        WrittenBy(t, n, text) = Child(t[t[n].left], Written(t, t[n].left)) \o <<t[n].op>>
                                \o Child(t[t[n].right], Written(t, t[n].right))
  <2> DEFINE l == t[n].left
             r == t[n].right
  <2>1. text[l] = Written(t, l) /\ text[r] = Written(t, r)
    BY <1>3
  <2>2. t[n].op # NoOperator =>
          WrittenBy(t, n, text) = Child(t[l], text[l]) \o <<t[n].op>> \o Child(t[r], text[r])
    BY Zenon DEF WrittenBy
  <2>3. Child(t[l], text[l]) = Child(t[l], Written(t, l)) /\ Child(t[r], text[r]) = Child(t[r], Written(t, r))
    <3> HIDE DEF l, r
    <3> QED BY <2>1, Zenon
  <2> QED BY <2>2, <2>3, Zenon
<1> QED BY <1>2, <1>4, <1>5, Zenon

\* The text u is in w from x on.
StandsAt(w, x, u) == x + Len(u) - 1 <= Len(w) /\ \A m \in 1..Len(u) : w[x + m - 1] = u[m]

LEMMA StandsParts ==
  ASSUME NEW w, NEW x \in Nat, NEW S, NEW a \in Seq(S), NEW b \in Seq(S), Len(w) \in Nat, StandsAt(w, x, a \o b)
  PROVE  StandsAt(w, x, a) /\ StandsAt(w, x + Len(a), b) /\ Len(a \o b) = Len(a) + Len(b)
<1>1. /\ Len(a) \in Nat /\ Len(b) \in Nat /\ Len(a \o b) = Len(a) + Len(b)
      /\ \A m \in 1..Len(a) : (a \o b)[m] = a[m]
      /\ \A m \in 1..Len(b) : (a \o b)[Len(a) + m] = b[m]
  OBVIOUS
<1> DEFINE u == a \o b
<1> HIDE DEF u
<1>2. /\ x + Len(u) - 1 <= Len(w) /\ \A m \in 1..Len(u) : w[x + m - 1] = u[m]
  BY DEF StandsAt, u
<1>3. StandsAt(w, x, a)
  <2>1. x + Len(a) - 1 <= Len(w)
    BY <1>1, <1>2 DEF u
  <2>2. ASSUME NEW m \in 1..Len(a) PROVE w[x + m - 1] = a[m]
    <3>1. m \in 1..Len(u) /\ u[m] = a[m]
      BY <1>1 DEF u
    <3> QED BY <1>2, <3>1
  <2> QED BY <2>1, <2>2 DEF StandsAt
<1>4. StandsAt(w, x + Len(a), b)
  <2>1. (x + Len(a)) + Len(b) - 1 <= Len(w)
    BY <1>1, <1>2 DEF u
  <2>2. ASSUME NEW m \in 1..Len(b) PROVE w[(x + Len(a)) + m - 1] = b[m]
    <3>1. Len(a) + m \in 1..Len(u) /\ u[Len(a) + m] = b[m]
      BY <1>1 DEF u
    <3>2. x + (Len(a) + m) - 1 = (x + Len(a)) + m - 1
      BY <1>1
    <3>3. w[x + (Len(a) + m) - 1] = u[Len(a) + m]
      BY <1>2, <3>1
    <3> QED BY <3>1, <3>2, <3>3
  <2> QED BY <2>1, <2>2 DEF StandsAt
<1> QED BY <1>1, <1>3, <1>4

LEMMA StandsOne ==
  ASSUME NEW w, NEW x \in Nat, NEW c, StandsAt(w, x, <<c>>)
  PROVE  w[x] = c /\ x <= Len(w) /\ Len(<<c>>) = 1
<1>1. Len(<<c>>) = 1 /\ <<c>>[1] = c
  OBVIOUS
<1>2. x + 1 - 1 = x /\ 1 \in 1..1
  OBVIOUS
<1>3. x + 1 - 1 <= Len(w) /\ w[x + 1 - 1] = c
  BY <1>1, <1>2 DEF StandsAt
<1> QED BY <1>1, <1>2, <1>3

\* The texts a, then b, then c
LEMMA StandsThree ==
  ASSUME NEW w, NEW x \in Nat, NEW S, NEW a \in Seq(S), NEW c \in S, NEW b \in Seq(S), Len(w) \in Nat,
         StandsAt(w, x, a \o <<c>> \o b)
  PROVE  /\ StandsAt(w, x, a) /\ w[x + Len(a)] = c /\ StandsAt(w, x + Len(a) + 1, b)
         /\ Len(a \o <<c>> \o b) = Len(a) + 1 + Len(b)
<1> DEFINE d == <<c>>
           e == a \o d
<1>1. d \in Seq(S) /\ Len(d) = 1
  OBVIOUS
<1>2. e \in Seq(S)
  BY <1>1
<1>3. StandsAt(w, x, e \o b)
  OBVIOUS
<1>4. StandsAt(w, x, e) /\ StandsAt(w, x + Len(e), b) /\ Len(e \o b) = Len(e) + Len(b)
  <2> HIDE DEF e
  <2> QED BY <1>2, <1>3, StandsParts
<1>5. StandsAt(w, x, a) /\ StandsAt(w, x + Len(a), d) /\ Len(e) = Len(a) + Len(d)
  <2>1. StandsAt(w, x, a \o d)
    BY <1>4
  <2>2. Len(d) \in Nat /\ a \in Seq(S) /\ d \in Seq(S)
    BY <1>1
  <2>3. StandsAt(w, x, a) /\ StandsAt(w, x + Len(a), d)
    <3> HIDE DEF d
    <3> QED BY <2>1, <2>2, StandsParts
  <2>4. Len(a \o d) = Len(a) + Len(d)
    <3> HIDE DEF d
    <3> QED BY <2>2
  <2> QED BY <2>3, <2>4
<1>6. Len(a) \in Nat /\ x + Len(a) \in Nat
  OBVIOUS
<1>7. w[x + Len(a)] = c
  BY <1>5, <1>6, StandsOne
<1>8. x + Len(e) = x + Len(a) + 1
  BY <1>1, <1>5, <1>6
<1> HIDE DEF e
<1>9. StandsAt(w, x + Len(a) + 1, b)
  BY <1>4, <1>8
<1> QED BY <1>1, <1>4, <1>5, <1>7, <1>9 DEF e

-----------------------------------------------------------------------------
(* What a tree says: its own text, and the tokens that it was built from.  *)

\* A node holds whenever a part of a text does.
Agrees(w, x, y, t, n) ==
    /\ Balanced(w, x, y)
    /\ \A true : Means(w, x, y, true) <=> Evaluate(t, n, true)

NoCuts(w, x, y) == \A o \in BoolOps : Cuts(w, x, y, o) = {}

LEMMA AgreesOne ==
  ASSUME NEW w, Len(w) \in Nat, NEW x \in 1..Len(w), NEW t, IsTree(t), NEW n \in DOMAIN t,
         w[x] = Var, t[n].op = NoOperator, t[n].var = Count(w, Var, 1, x)
  PROVE  Agrees(w, x, x, t, n) /\ NoCuts(w, x, x)
<1>1. Balanced(w, x, x) /\ \A q \in BoolOps : Cuts(w, x, x, q) = {}
  BY BalancedOne
<1>2. Cuts(w, x, x, LogicalAnd) = {} /\ Cuts(w, x, x, LogicalOr) = {}
  BY <1>1 DEF BoolOps
<1>3. ASSUME NEW true PROVE Means(w, x, x, true) <=> Evaluate(t, n, true)
  <2>1. x \in 1..(Len(w) + 1) /\ x \in 0..Len(w) /\ ~(x < x)
    OBVIOUS
  <2>2. Means(w, x, x, true) <=> Count(w, Var, 1, x) \in true
    BY <1>2, <2>1, MeansIs
  <2>3. Evaluate(t, n, true) <=> t[n].var \in true
    BY EvaluateIs
  <2> QED BY <2>2, <2>3, Zenon
<1> QED BY <1>1, <1>3 DEF Agrees, NoCuts

LEMMA AgreesIn ==
  ASSUME NEW w, Len(w) \in Nat, NEW x \in 1..Len(w), NEW y \in 1..Len(w), NEW t, NEW n,
         w[x] = LeftParenthesis, w[y] = RightParenthesis, Agrees(w, x + 1, y - 1, t, n)
  PROVE  Agrees(w, x, y, t, n) /\ NoCuts(w, x, y)
<1>1. Balanced(w, x + 1, y - 1)
  BY DEF Agrees
<1>2. Balanced(w, x, y) /\ \A q \in BoolOps : Cuts(w, x, y, q) = {}
  <2>1. x \in Int /\ y \in Int
    OBVIOUS
  <2> QED BY <1>1, <2>1, BalancedIn
<1>3. Cuts(w, x, y, LogicalAnd) = {} /\ Cuts(w, x, y, LogicalOr) = {}
  BY <1>2 DEF BoolOps
<1>4. ASSUME NEW true PROVE Means(w, x, y, true) <=> Evaluate(t, n, true)
  <2>1. x \in 1..(Len(w) + 1) /\ y \in 0..Len(w) /\ x < y
    BY <1>1 DEF Balanced
  <2>2. Means(w, x, y, true) <=> Means(w, x + 1, y - 1, true)
    BY <1>3, <2>1, MeansIs
  <2>3. Means(w, x + 1, y - 1, true) <=> Evaluate(t, n, true)
    BY Zenon DEF Agrees
  <2> QED BY <2>2, <2>3, Zenon
<1> QED BY <1>2, <1>4 DEF Agrees, NoCuts

LEMMA AgreesTwo ==
  ASSUME NEW w, Len(w) \in Nat, NEW x \in 1..Len(w), NEW y \in 1..Len(w), NEW k \in Int,
         NEW t, IsTree(t), NEW n \in DOMAIN t,
         w[k] = t[n].op, t[n].op \in BoolOps,
         Agrees(w, x, k - 1, t, t[n].left), Agrees(w, k + 1, y, t, t[n].right),
         t[n].op = LogicalOr =>
             Cuts(w, x, k - 1, LogicalAnd) = {} /\ Cuts(w, k + 1, y, LogicalAnd) = {}
  PROVE  /\ Agrees(w, x, y, t, n) /\ k \in x..y
         /\ t[n].op = LogicalOr => Cuts(w, x, y, LogicalAnd) = {}
<1> DEFINE l == t[n].left
           r == t[n].right
<1> HIDE DEF l, r
<1>1. /\ Balanced(w, x, k - 1) /\ \A true : Means(w, x, k - 1, true) <=> Evaluate(t, l, true)
      /\ Balanced(w, k + 1, y) /\ \A true : Means(w, k + 1, y, true) <=> Evaluate(t, r, true)
  BY Zenon DEF Agrees, l, r
<1>2. x \in Int /\ y \in Int /\ k \in Int /\ w[k] \in BoolOps
  OBVIOUS
<1>3. /\ Balanced(w, x, y) /\ k \in x..y /\ Depth(w, x, k) = 0
      /\ \A q : Cuts(w, x, y, q) = Cuts(w, x, k - 1, q) \cup Cuts(w, k + 1, y, q)
                                   \cup (IF w[k] = q THEN {k} ELSE {})
  <2>1. Balanced(w, x, k - 1) /\ Balanced(w, k + 1, y)
    BY <1>1
  <2>2. Balanced(w, x, y) /\ k \in x..y /\ Depth(w, x, k) = 0 /\ CutsJoin(w, x, k, y)
    BY <1>2, <2>1, BalancedTwo
  <2>3. ASSUME NEW q
        PROVE  Cuts(w, x, y, q) = Cuts(w, x, k - 1, q) \cup Cuts(w, k + 1, y, q)
                                  \cup (IF w[k] = q THEN {k} ELSE {})
    BY <2>2, Zenon DEF CutsJoin
  <2> QED BY <2>2, <2>3
<1>4. k \in Cuts(w, x, y, t[n].op)
  BY <1>3 DEF Cuts
<1>5. t[n].op = LogicalOr => Cuts(w, x, y, LogicalAnd) = {}
  <2> SUFFICES ASSUME t[n].op = LogicalOr PROVE Cuts(w, x, y, LogicalAnd) = {}
    OBVIOUS
  <2>1. w[k] # LogicalAnd
    BY TokensAreDifferent
  <2> DEFINE q == LogicalAnd
  <2>2. Cuts(w, x, k - 1, q) = {} /\ Cuts(w, k + 1, y, q) = {} /\ w[k] # q
    BY <2>1
  <2> HIDE DEF q
  <2>3. Cuts(w, x, y, q) = {}
    BY <1>3, <2>2
  <2> QED BY <2>3 DEF q
<1>6. ASSUME NEW true PROVE Means(w, x, y, true) <=> Evaluate(t, n, true)
  <2>1. AndSplitsAt(w, true, x, y) /\ OrSplitsAt(w, true, x, y)
    <3>1. x \in 1..(Len(w) + 1) /\ y \in 0..Len(w)
      OBVIOUS
    <3> QED BY <3>1, MeansSplits
  <2>2. CASE t[n].op = LogicalAnd
    <3>1. Means(w, x, y, true) <=> Means(w, x, k - 1, true) /\ Means(w, k + 1, y, true)
      BY <1>4, <2>1, <2>2, Zenon DEF AndSplitsAt
    <3>2. Evaluate(t, n, true) <=> Evaluate(t, l, true) /\ Evaluate(t, r, true)
      BY <2>2, EvaluateIs DEF l, r
    <3> QED BY <1>1, <3>1, <3>2, Zenon
  <2>3. CASE t[n].op = LogicalOr
    <3>1. Means(w, x, y, true) <=> Means(w, x, k - 1, true) \/ Means(w, k + 1, y, true)
      BY <1>4, <1>5, <2>1, <2>3, Zenon DEF OrSplitsAt
    <3>2. Evaluate(t, n, true) <=> Evaluate(t, l, true) \/ Evaluate(t, r, true)
      BY <2>3, EvaluateIs DEF l, r
    <3> QED BY <1>1, <3>1, <3>2, Zenon
  <2> QED BY <2>2, <2>3, Zenon DEF BoolOps
<1> QED BY <1>3, <1>5, <1>6 DEF Agrees

-----------------------------------------------------------------------------
\* What is written of a node means the node, from variable p + 1 to q.
Says(t, n, p, q) ==
    \A w \in Seq(Tokens), x \in Nat \ {0} :
        LET u == Written(t, n)
            y == x + Len(u) - 1
        IN  StandsAt(w, x, u) /\ Count(w, Var, 1, x - 1) = p
            => Agrees(w, x, y, t, n) /\ Count(w, Var, 1, y) = q

LEMMA LeafSays ==
  ASSUME NEW t, IsTree(t), NEW n \in DOMAIN t, t[n].op = NoOperator, NEW p \in Nat, t[n].var = p + 1
  PROVE  Says(t, n, p, p + 1)
<1> DEFINE u == Written(t, n)
<1>1. u = <<Var>>
  BY WrittenIs
<1> SUFFICES ASSUME NEW w \in Seq(Tokens), NEW x \in Nat \ {0},
                    StandsAt(w, x, u), Count(w, Var, 1, x - 1) = p
             PROVE  Agrees(w, x, x + Len(u) - 1, t, n) /\ Count(w, Var, 1, x + Len(u) - 1) = p + 1
  BY DEF Says
<1>2. w[x] = Var /\ x <= Len(w) /\ Len(u) = 1
  BY <1>1, StandsOne
<1>3. x + Len(u) - 1 = x /\ x \in 1..Len(w) /\ Len(w) \in Nat
  BY <1>2
<1>4. Count(w, Var, 1, x) = p + 1
  <2>1. Count(w, Var, 1, x) = Count(w, Var, 1, x - 1) + Count(w, Var, (x - 1) + 1, x)
    BY CountSplits
  <2>2. Count(w, Var, x, x) = 1
    BY <1>2, CountOne
  <2>3. (x - 1) + 1 = x
    OBVIOUS
  <2> QED BY <2>1, <2>2, <2>3
<1>5. Agrees(w, x, x, t, n)
  BY <1>2, <1>3, <1>4, AgreesOne
<1> QED BY <1>3, <1>4, <1>5

\* Tokens that are no variables between the variables
LEMMA CountStays ==
  ASSUME NEW w, NEW x \in Nat \ {0}, w[x] # Var
  PROVE  Count(w, Var, 1, x) = Count(w, Var, 1, x - 1)
<1>1. Count(w, Var, 1, x) = Count(w, Var, 1, x - 1) + Count(w, Var, (x - 1) + 1, x)
  BY CountSplits
<1>2. Count(w, Var, x, x) = 0
  BY CountOne
<1>3. (x - 1) + 1 = x /\ Count(w, Var, 1, x - 1) \in Nat
  <2>1. x - 1 \in Int /\ 1 \in Int /\ (x - 1) + 1 = x
    OBVIOUS
  <2> DEFINE z == x - 1
  <2>2. Count(w, Var, 1, z) \in Nat
    <3>1. z \in Int /\ 1 \in Int
      BY <2>1
    <3> HIDE DEF z
    <3> QED BY <3>1, CountIs, Zenon
  <2> QED BY <2>1, <2>2
<1> QED BY <1>1, <1>2, <1>3

LEMMA ChildSays ==
  ASSUME NEW t, IsTree(t), NEW n \in DOMAIN t, NEW p, NEW q, Says(t, n, p, q),
         NEW w \in Seq(Tokens), NEW x \in Nat \ {0},
         StandsAt(w, x, Child(t[n], Written(t, n))), Count(w, Var, 1, x - 1) = p,
         NEW y, y = x + Len(Child(t[n], Written(t, n))) - 1
  PROVE  Agrees(w, x, y, t, n) /\ NoCuts(w, x, y) /\ Count(w, Var, 1, y) = q /\ y \in x..Len(w)
<1> DEFINE u == Written(t, n)
<1>1. u \in Seq(Tokens)
  BY WrittenIs
<1>0. Len(w) \in Nat
  OBVIOUS
<1>2. CASE t[n].op = NoOperator
  <2>1. Child(t[n], u) = u /\ u = <<Var>>
    BY <1>2, WrittenIs DEF Child
  <2>2. StandsAt(w, x, u) /\ y = x + Len(u) - 1
    BY <2>1
  <2>3. Agrees(w, x, y, t, n) /\ Count(w, Var, 1, y) = q
    BY <2>2 DEF Says
  <2>4. w[x] = Var /\ x <= Len(w) /\ Len(u) = 1
    BY <2>1, <2>2, StandsOne
  <2>5. y = x
    BY <2>2, <2>4
  <2>6. NoCuts(w, x, x)
    BY <2>4, BalancedOne DEF NoCuts
  <2> QED BY <1>0, <2>3, <2>4, <2>5, <2>6
<1>3. CASE t[n].op # NoOperator
  <2> DEFINE c == Child(t[n], u)
             a == <<LeftParenthesis>>
             b == <<RightParenthesis>>
             d == a \o u
  <2>1. c = d \o b
    BY <1>3 DEF Child
  <2>2. a \in Seq(Tokens) /\ b \in Seq(Tokens) /\ Len(a) = 1 /\ Len(b) = 1
    <3> DEFINE lp == LeftParenthesis
               rp == RightParenthesis
    <3>1. lp \in Tokens /\ rp \in Tokens
      BY DEF Tokens
    <3> HIDE DEF lp, rp
    <3>2. <<lp>> \in Seq(Tokens) /\ <<rp>> \in Seq(Tokens) /\ Len(<<lp>>) = 1 /\ Len(<<rp>>) = 1
      BY <3>1
    <3> QED BY <3>2 DEF lp, rp
  <2>3. d \in Seq(Tokens)
    <3> HIDE DEF a, b, u
    <3> QED BY <1>1, <2>2
  <2>4. StandsAt(w, x, d \o b) /\ y = x + Len(d \o b) - 1
    BY <2>1
  <2>5. StandsAt(w, x, d) /\ StandsAt(w, x + Len(d), b) /\ Len(d \o b) = Len(d) + Len(b)
    <3>1. x \in Nat /\ d \in Seq(Tokens) /\ b \in Seq(Tokens) /\ StandsAt(w, x, d \o b)
      BY <2>2, <2>3, <2>4
    <3> HIDE DEF d, b
    <3> QED BY <1>0, <3>1, StandsParts
  <2>6. StandsAt(w, x, a) /\ StandsAt(w, x + Len(a), u) /\ Len(d) = Len(a) + Len(u)
    <3>1. StandsAt(w, x, a \o u)
      BY <2>5
    <3>2. x \in Nat /\ a \in Seq(Tokens) /\ u \in Seq(Tokens)
      BY <1>1, <2>2
    <3>3. StandsAt(w, x, a) /\ StandsAt(w, x + Len(a), u) /\ Len(a \o u) = Len(a) + Len(u)
      <4> HIDE DEF a, u
      <4> QED BY <1>0, <3>1, <3>2, StandsParts
    <3> QED BY <3>3
  <2>7. Len(u) \in Nat /\ Len(d) \in Nat
    BY <1>1, <2>3
  <2>8. w[x] = LeftParenthesis /\ x <= Len(w)
    BY <2>6, StandsOne
  <2>9. w[x + Len(d)] = RightParenthesis /\ x + Len(d) <= Len(w)
    <3>1. x + Len(d) \in Nat
      BY <2>7
    <3> HIDE DEF d
    <3> QED BY <2>5, <3>1, StandsOne
  <2> HIDE DEF d, a, b, u, c
  <2>10. y = x + Len(d) /\ x + 1 + Len(u) - 1 = y - 1 /\ x + Len(a) = x + 1 /\ y \in Nat \ {0}
    BY <2>2, <2>4, <2>5, <2>6, <2>7
  <2>11. Count(w, Var, 1, (x + 1) - 1) = p
    <3>1. w[x] # Var /\ (x + 1) - 1 = x
      BY <2>8, TokensAreDifferent
    <3> QED BY <3>1, CountStays
  <2>12. Agrees(w, x + 1, y - 1, t, n) /\ Count(w, Var, 1, y - 1) = q
    <3>1. x + 1 \in Nat \ {0} /\ StandsAt(w, x + 1, u)
      BY <2>6, <2>10
    <3> QED BY <2>10, <2>11, <3>1 DEF Says, u
  <2>13. x \in 1..Len(w) /\ y \in 1..Len(w) /\ w[y] = RightParenthesis
    BY <1>0, <2>8, <2>9, <2>10
  <2>14. Agrees(w, x, y, t, n) /\ NoCuts(w, x, y)
    BY <1>0, <2>8, <2>12, <2>13, AgreesIn
  <2>15. Count(w, Var, 1, y) = q
    <3>1. w[y] # Var
      BY <2>13, TokensAreDifferent
    <3> QED BY <2>10, <2>12, <3>1, CountStays
  <2>16. x <= y
    BY <2>14 DEF Agrees, Balanced
  <2> QED BY <2>13, <2>14, <2>15, <2>16
<1> QED BY <1>2, <1>3

LEMMA BranchSays ==
  ASSUME NEW t, IsTree(t), NEW n \in DOMAIN t, t[n].op # NoOperator, NEW p, NEW m, NEW q,
         Says(t, t[n].left, p, m), Says(t, t[n].right, m, q)
  PROVE  Says(t, n, p, q)
<1> DEFINE u == Written(t, n)
           l == t[n].left
           r == t[n].right
           o == t[n].op
           a == Child(t[l], Written(t, l))
           b == Child(t[r], Written(t, r))
<1> SUFFICES ASSUME NEW w \in Seq(Tokens), NEW x \in Nat \ {0},
                    StandsAt(w, x, u), Count(w, Var, 1, x - 1) = p
             PROVE  Agrees(w, x, x + Len(u) - 1, t, n) /\ Count(w, Var, 1, x + Len(u) - 1) = q
  BY DEF Says
<1>0. Len(w) \in Nat
  OBVIOUS
<1>1. l \in DOMAIN t /\ r \in DOMAIN t /\ o \in BoolOps /\ u = a \o <<o>> \o b
  BY TreeIs, WrittenIs
<1>2. a \in Seq(Tokens) /\ b \in Seq(Tokens) /\ o \in Tokens
  <2>1. Written(t, l) \in Seq(Tokens) /\ Written(t, r) \in Seq(Tokens)
    BY <1>1, WrittenIs
  <2> HIDE DEF l, r, o
  <2> QED BY <1>1, <2>1, ChildTyped DEF Tokens
<1>3. Len(a) \in Nat /\ Len(b) \in Nat
  <2> HIDE DEF a, b
  <2> QED BY <1>2
<1>4. /\ StandsAt(w, x, a) /\ w[x + Len(a)] = o /\ StandsAt(w, x + Len(a) + 1, b)
      /\ Len(u) = Len(a) + 1 + Len(b)
  <2>1. StandsAt(w, x, a \o <<o>> \o b)
    BY <1>1
  <2>2. Len(u) = Len(a \o <<o>> \o b)
    BY <1>1
  <2> HIDE DEF a, b, o, u
  <2>3. /\ StandsAt(w, x, a) /\ w[x + Len(a)] = o /\ StandsAt(w, x + Len(a) + 1, b)
        /\ Len(a \o <<o>> \o b) = Len(a) + 1 + Len(b)
    BY <1>0, <1>2, <2>1, StandsThree
  <2> QED BY <2>2, <2>3
<1> DEFINE k == x + Len(a)
           y == x + Len(u) - 1
<1>5. k - 1 = x + Len(a) - 1 /\ k + 1 \in Nat \ {0} /\ k \in Nat \ {0} /\ y = (k + 1) + Len(b) - 1 /\ k + 1 = x + Len(a) + 1
  <2> HIDE DEF a, b, u
  <2> QED BY <1>3, <1>4
<1>6. Agrees(w, x, k - 1, t, l) /\ NoCuts(w, x, k - 1) /\ Count(w, Var, 1, k - 1) = m /\ k - 1 \in x..Len(w)
  <2>1. StandsAt(w, x, a) /\ k - 1 = x + Len(a) - 1 /\ Says(t, l, p, m)
    BY <1>4, <1>5
  <2> HIDE DEF k, l
  <2> QED BY <1>1, <2>1, ChildSays
<1>7. Count(w, Var, 1, (k + 1) - 1) = m
  <2>1. w[k] # Var
    BY <1>1, <1>4, TokensAreDifferent
  <2>2. (k + 1) - 1 = k
    BY <1>5
  <2> HIDE DEF k
  <2> QED BY <1>5, <1>6, <2>1, <2>2, CountStays
<1>8. Agrees(w, k + 1, y, t, r) /\ NoCuts(w, k + 1, y) /\ Count(w, Var, 1, y) = q /\ y \in (k + 1)..Len(w)
  <2>1. StandsAt(w, k + 1, b) /\ y = (k + 1) + Len(b) - 1 /\ Says(t, r, m, q)
    BY <1>4, <1>5
  <2> HIDE DEF k, r, y
  <2> QED BY <1>1, <1>5, <1>7, <2>1, ChildSays
<1>9. Agrees(w, x, y, t, n)
  <2>1. Cuts(w, x, k - 1, LogicalAnd) = {} /\ Cuts(w, k + 1, y, LogicalAnd) = {}
    <3>1. LogicalAnd \in BoolOps
      BY DEF BoolOps
    <3> QED BY <1>6, <1>8, <3>1 DEF NoCuts
  <2>2. w[k] = t[n].op /\ t[n].op \in BoolOps
    BY <1>1, <1>4
  <2> HIDE DEF k, y, o
  <2>3. x \in 1..Len(w) /\ y \in 1..Len(w) /\ k \in Int
    BY <1>0, <1>5, <1>6, <1>8
  <2>4. Agrees(w, x, k - 1, t, t[n].left) /\ Agrees(w, k + 1, y, t, t[n].right)
    BY <1>6, <1>8
  <2> QED BY <1>0, <2>1, <2>2, <2>3, <2>4, AgreesTwo
<1> QED BY <1>8, <1>9

-----------------------------------------------------------------------------
(* An operand: a node that says what an interval of the tokens does. And   *)
(* how the tokens of an expression follow each other.                      *)

\* A node that stands for a part of the text
Operand(s, t, v, i, j) ==
    /\ v \in DOMAIN t /\ i \in 1..Len(s) /\ j \in 1..Len(s)
    /\ Agrees(s, i, j, t, v) /\ WellFormed(s, i, j)
    /\ Says(t, v, Count(s, Var, 1, i - 1), Count(s, Var, 1, j))

LEMMA OperandOne ==
  ASSUME NEW s \in Seq(Tokens), NEW t, IsTree(t), NEW v \in DOMAIN t, NEW i \in 1..Len(s),
         s[i] = Var, t[v].op = NoOperator, t[v].var = Count(s, Var, 1, i)
  PROVE  Operand(s, t, v, i, i) /\ NoCuts(s, i, i)
<1>0. Len(s) \in Nat
  OBVIOUS
<1>1. Agrees(s, i, i, t, v) /\ NoCuts(s, i, i)
  BY <1>0, AgreesOne
<1>2. WellFormed(s, i, i)
  <2>1. i \in 1..(Len(s) + 1) /\ i \in 0..Len(s)
    BY <1>0
  <2> QED BY <1>0, <2>1, FormedIs
<1>3. Count(s, Var, 1, i) = Count(s, Var, 1, i - 1) + 1 /\ Count(s, Var, 1, i - 1) \in Nat
  <2> DEFINE z == i - 1
  <2>0. z \in Int /\ 1 \in Int /\ i \in Int /\ 1 <= z + 1 /\ z <= i /\ z + 1 = i
    BY <1>0
  <2> HIDE DEF z
  <2>1. Count(s, Var, 1, i) = Count(s, Var, 1, z) + Count(s, Var, z + 1, i)
    BY <2>0, CountSplits
  <2>2. Count(s, Var, i, i) = 1
    BY <2>0, CountOne
  <2>3. Count(s, Var, 1, z) \in Nat
    BY <2>0, CountIs, Zenon
  <2>4. Count(s, Var, 1, i) = Count(s, Var, 1, z) + 1
    BY <2>0, <2>1, <2>2
  <2> QED BY <2>3, <2>4 DEF z
<1>4. Says(t, v, Count(s, Var, 1, i - 1), Count(s, Var, 1, i))
  <2> DEFINE p == Count(s, Var, 1, i - 1)
  <2>1. p \in Nat /\ t[v].var = p + 1 /\ Count(s, Var, 1, i) = p + 1
    BY <1>3
  <2> HIDE DEF p
  <2>2. Says(t, v, p, p + 1)
    BY <2>1, LeafSays
  <2>3. Says(t, v, p, Count(s, Var, 1, i))
    BY <2>1, <2>2, Zenon
  <2> QED BY <2>3 DEF p
<1> QED BY <1>1, <1>2, <1>4 DEF Operand

LEMMA OperandIn ==
  ASSUME NEW s \in Seq(Tokens), NEW t, NEW v, NEW i \in 1..Len(s), NEW j \in 1..Len(s),
         s[i] = LeftParenthesis, s[j] = RightParenthesis, Operand(s, t, v, i + 1, j - 1)
  PROVE  Operand(s, t, v, i, j) /\ NoCuts(s, i, j)
<1>0. Len(s) \in Nat
  OBVIOUS
<1>1. Agrees(s, i, j, t, v) /\ NoCuts(s, i, j)
  <2>1. Agrees(s, i + 1, j - 1, t, v)
    BY DEF Operand
  <2> QED BY <1>0, <2>1, AgreesIn
<1>2. WellFormed(s, i, j)
  <2>1. i \in 1..(Len(s) + 1) /\ j \in 0..Len(s)
    BY <1>0
  <2>2. i < j
    BY <1>0 DEF Operand, Agrees, Balanced
  <2>3. WellFormed(s, i + 1, j - 1)
    BY DEF Operand
  <2> QED BY <1>0, <2>1, <2>2, <2>3, FormedIs
<1>3. s[i] # Var /\ s[j] # Var
  BY TokensAreDifferent
<1>4. Count(s, Var, 1, i) = Count(s, Var, 1, i - 1) /\ Count(s, Var, 1, j) = Count(s, Var, 1, j - 1)
  <2>1. i \in Nat \ {0} /\ j \in Nat \ {0}
    BY <1>0
  <2> QED BY <1>3, <2>1, CountStays
<1>5. Says(t, v, Count(s, Var, 1, (i + 1) - 1), Count(s, Var, 1, j - 1))
  BY DEF Operand
<1>6. (i + 1) - 1 = i
  OBVIOUS
<1>7. Says(t, v, Count(s, Var, 1, i - 1), Count(s, Var, 1, j))
  BY <1>4, <1>5, <1>6
<1>8. v \in DOMAIN t
  BY DEF Operand
<1> QED BY <1>1, <1>2, <1>7, <1>8 DEF Operand

LEMMA OperandTwo ==
  ASSUME NEW s \in Seq(Tokens), NEW t, IsTree(t), NEW v \in DOMAIN t, NEW i, NEW j, NEW k \in Int,
         s[k] = t[v].op, t[v].op \in BoolOps,
         Operand(s, t, t[v].left, i, k - 1), Operand(s, t, t[v].right, k + 1, j),
         t[v].op = LogicalOr =>
             Cuts(s, i, k - 1, LogicalAnd) = {} /\ Cuts(s, k + 1, j, LogicalAnd) = {}
  PROVE  Operand(s, t, v, i, j) /\ (t[v].op = LogicalOr => Cuts(s, i, j, LogicalAnd) = {})
<1>0. Len(s) \in Nat
  OBVIOUS
<1>1. /\ i \in 1..Len(s) /\ j \in 1..Len(s)
      /\ Agrees(s, i, k - 1, t, t[v].left) /\ Agrees(s, k + 1, j, t, t[v].right)
      /\ WellFormed(s, i, k - 1) /\ WellFormed(s, k + 1, j)
      /\ Says(t, t[v].left, Count(s, Var, 1, i - 1), Count(s, Var, 1, k - 1))
      /\ Says(t, t[v].right, Count(s, Var, 1, (k + 1) - 1), Count(s, Var, 1, j))
  BY DEF Operand
<1>2. Agrees(s, i, j, t, v) /\ (t[v].op = LogicalOr => Cuts(s, i, j, LogicalAnd) = {})
  <2>1. Agrees(s, i, k - 1, t, t[v].left) /\ Agrees(s, k + 1, j, t, t[v].right)
    BY <1>1
  <2>2. i \in 1..Len(s) /\ j \in 1..Len(s)
    BY <1>1
  <2> QED BY <1>0, <2>1, <2>2, AgreesTwo
<1>3. i <= k - 1 /\ k + 1 <= j
  BY <1>1 DEF Agrees, Balanced
<1>4. WellFormed(s, i, j)
  <2>1. i \in 1..(Len(s) + 1) /\ j \in 0..Len(s) /\ k \in (i + 1)..(j - 1)
    BY <1>0, <1>1, <1>3
  <2>2. s[k] \in BoolOps /\ WellFormed(s, i, k - 1) /\ WellFormed(s, k + 1, j)
    BY <1>1
  <2> QED BY <1>0, <2>1, <2>2, FormedIs
<1>5. Says(t, v, Count(s, Var, 1, i - 1), Count(s, Var, 1, j))
  <2>1. Count(s, Var, 1, (k + 1) - 1) = Count(s, Var, 1, k - 1)
    <3>1. k \in Nat \ {0} /\ (k + 1) - 1 = k
      BY <1>1, <1>3
    <3>2. s[k] # Var
      BY TokensAreDifferent
    <3> QED BY <3>1, <3>2, CountStays
  <2>2. t[v].op # NoOperator
    BY TokensAreDifferent
  <2> DEFINE a == Count(s, Var, 1, i - 1)
             m == Count(s, Var, 1, k - 1)
             b == Count(s, Var, 1, j)
  <2>3. Says(t, t[v].left, a, m) /\ Says(t, t[v].right, m, b)
    BY <1>1, <2>1
  <2> HIDE DEF a, m, b
  <2>4. Says(t, v, a, b)
    BY <2>2, <2>3, BranchSays
  <2> QED BY <2>4 DEF a, b
<1> QED BY <1>1, <1>2, <1>4, <1>5 DEF Operand

-----------------------------------------------------------------------------
(* What is well formed starts, ends and goes on as the parser expects. *)

StartsOperand(token) == token \in {Var, LeftParenthesis}
EndsOperand(token) == token \in {Var, RightParenthesis}

GoesOn(s, i, j) ==
    /\ i <= j /\ StartsOperand(s[i]) /\ EndsOperand(s[j]) /\ Depth(s, i, j) = 0
    /\ \A k \in i..(j - 1) : EndsOperand(s[k]) <=> ~StartsOperand(s[k + 1])

LEMMA StartsOrEnds ==
  /\ StartsOperand(Var) /\ EndsOperand(Var) /\ StartsOperand(LeftParenthesis) /\ ~EndsOperand(LeftParenthesis)
  /\ ~StartsOperand(RightParenthesis) /\ EndsOperand(RightParenthesis)
  /\ \A o \in BoolOps : ~StartsOperand(o) /\ ~EndsOperand(o)
BY TokensAreDifferent DEF StartsOperand, EndsOperand

LEMMA GoesOnStep ==
  ASSUME NEW s, Len(s) \in Nat, NEW i \in 1..(Len(s) + 1), NEW j \in 0..Len(s), WellFormed(s, i, j),
         \A a \in 1..(Len(s) + 1), b \in 0..Len(s) :
             b - a < j - i /\ WellFormed(s, a, b) => GoesOn(s, a, b)
  PROVE  GoesOn(s, i, j)
<1>1. CASE i = j /\ s[i] = Var
  <2>1. Depth(s, i, i) = 0
    BY <1>1, DepthOne, TokensAreDifferent
  <2> QED BY <1>1, <2>1, StartsOrEnds DEF GoesOn
<1>2. CASE i < j /\ s[i] = LeftParenthesis /\ s[j] = RightParenthesis /\ WellFormed(s, i + 1, j - 1)
  <2>1. GoesOn(s, i + 1, j - 1)
    <3>1. i + 1 \in 1..(Len(s) + 1) /\ j - 1 \in 0..Len(s) /\ (j - 1) - (i + 1) < j - i
      BY <1>2
    <3> QED BY <1>2, <3>1
  <2>2. i + 1 <= j - 1 /\ StartsOperand(s[i + 1]) /\ EndsOperand(s[j - 1]) /\ Depth(s, i + 1, j - 1) = 0
        /\ \A k \in (i + 1)..(j - 2) : EndsOperand(s[k]) <=> ~StartsOperand(s[k + 1])
    <3>1. (j - 1) - 1 = j - 2
      OBVIOUS
    <3> QED BY <2>1, <3>1 DEF GoesOn
  <2>3. Depth(s, i, j) = 0
    <3> DEFINE h == i + 1
               l == j - 1
    <3>0. h \in Int /\ l \in Int /\ i <= i + 1 /\ i <= j /\ h <= l + 1 /\ l <= j /\ l + 1 = j
      BY <2>2
    <3>1. Depth(s, i, j) = Depth(s, i, i) + Depth(s, i + 1, j)
      BY <3>0, DepthSplits
    <3>2. Depth(s, h, j) = Depth(s, h, l) + Depth(s, l + 1, j)
      <4> HIDE DEF h, l
      <4> QED BY <3>0, DepthSplits
    <3>3. Depth(s, i, i) = 1 /\ Depth(s, j, j) = -1
      BY <1>2, DepthOne
    <3>4. Depth(s, h, l) = 0
      BY <2>2
    <3> QED BY <3>0, <3>1, <3>2, <3>3, <3>4
  <2>4. ASSUME NEW k \in i..(j - 1) PROVE EndsOperand(s[k]) <=> ~StartsOperand(s[k + 1])
    <3>1. k = i \/ k = j - 1 \/ k \in (i + 1)..(j - 2)
      OBVIOUS
    <3>2. CASE k = i
      BY <1>2, <2>2, <3>2, StartsOrEnds
    <3>3. CASE k = j - 1
      <4>1. k + 1 = j
        BY <3>3
      <4> QED BY <1>2, <2>2, <3>3, <4>1, StartsOrEnds
    <3> QED BY <2>2, <3>1, <3>2, <3>3
  <2> QED BY <1>2, <2>3, <2>4, StartsOrEnds DEF GoesOn
<1>3. CASE \E k \in (i + 1)..(j - 1) : s[k] \in BoolOps /\ WellFormed(s, i, k - 1) /\ WellFormed(s, k + 1, j)
  <2>1. PICK k \in (i + 1)..(j - 1) : s[k] \in BoolOps /\ WellFormed(s, i, k - 1) /\ WellFormed(s, k + 1, j)
    BY <1>3
  <2>2. GoesOn(s, i, k - 1) /\ GoesOn(s, k + 1, j)
    <3>1. /\ k + 1 \in 1..(Len(s) + 1) /\ k - 1 \in 0..Len(s)
          /\ (k - 1) - i < j - i /\ j - (k + 1) < j - i
      OBVIOUS
    <3> QED BY <2>1, <3>1
  <2>3. Depth(s, i, j) = 0
    <3> DEFINE h == k + 1
               l == k - 1
    <3>0. k \in Int /\ l \in Int /\ i <= k + 1 /\ k <= j /\ i <= l + 1 /\ l <= k /\ l + 1 = k
      OBVIOUS
    <3>1. Depth(s, i, j) = Depth(s, i, k) + Depth(s, k + 1, j)
      BY <3>0, DepthSplits
    <3>2. Depth(s, i, k) = Depth(s, i, l) + Depth(s, l + 1, k)
      <4> HIDE DEF l
      <4> QED BY <3>0, DepthSplits
    <3>3. Depth(s, k, k) = 0
      BY <2>1, <3>0, DepthOne, TokensAreDifferent
    <3>4. Depth(s, i, l) = 0 /\ Depth(s, k + 1, j) = 0
      BY <2>2 DEF GoesOn
    <3> QED BY <3>0, <3>1, <3>2, <3>3, <3>4
  <2>4. ASSUME NEW m \in i..(j - 1) PROVE EndsOperand(s[m]) <=> ~StartsOperand(s[m + 1])
    <3>0. /\ EndsOperand(s[k - 1]) /\ StartsOperand(s[k + 1])
          /\ \A n \in i..((k - 1) - 1) : EndsOperand(s[n]) <=> ~StartsOperand(s[n + 1])
          /\ \A n \in (k + 1)..(j - 1) : EndsOperand(s[n]) <=> ~StartsOperand(s[n + 1])
      BY <2>2 DEF GoesOn
    <3>1. m = k \/ m = k - 1 \/ m \in i..((k - 1) - 1) \/ m \in (k + 1)..(j - 1)
      OBVIOUS
    <3>2. CASE m = k
      BY <2>1, <3>0, <3>2, StartsOrEnds
    <3>3. CASE m = k - 1
      <4>1. m + 1 = k
        BY <3>3
      <4> QED BY <2>1, <3>0, <3>3, <4>1, StartsOrEnds
    <3> QED BY <3>0, <3>1, <3>2, <3>3
  <2>5. i <= j /\ StartsOperand(s[i]) /\ EndsOperand(s[j])
    BY <2>2 DEF GoesOn
  <2> QED BY <2>3, <2>4, <2>5 DEF GoesOn
<1> QED BY <1>1, <1>2, <1>3, FormedIs

LEMMA WellFormedGoesOn ==
  ASSUME NEW s, Len(s) \in Nat, NEW i \in 1..(Len(s) + 1), NEW j \in 0..Len(s), WellFormed(s, i, j)
  PROVE  GoesOn(s, i, j)
<1> DEFINE Right(a, b) == WellFormed(s, a, b) => GoesOn(s, a, b)
           I == 1..(Len(s) + 1)
           J == 0..Len(s)
           Bad == {n \in Nat : \E a \in I, b \in J : b - a = n /\ ~Right(a, b)}
<1>1. ASSUME NEW a \in I, NEW b \in J, b - a < 0 PROVE ~WellFormed(s, a, b)
  <2>1. ~(a = b) /\ ~(a < b) /\ (a + 1)..(b - 1) = {}
    BY <1>1
  <2> QED BY <2>1, FormedIs
<1>2. ASSUME NEW a \in I, NEW b \in J, \A c \in I, d \in J : d - c < b - a => Right(c, d) PROVE Right(a, b)
  BY <1>2, GoesOnStep
<1>3. Bad = {}
  <2> SUFFICES ASSUME Bad # {} PROVE FALSE
    OBVIOUS
  <2>1. PICK n \in Bad : \A m \in Bad : n <= m
    <3>1. Bad \in SUBSET Nat
      OBVIOUS
    <3> HIDE DEF Bad
    <3> QED BY <3>1, SmallestOf
  <2>2. PICK a \in I, b \in J : b - a = n /\ ~Right(a, b)
    <3> HIDE DEF Right, I, J
    <3> QED BY <2>1
  <2>3. ASSUME NEW c \in I, NEW d \in J, d - c < b - a PROVE Right(c, d)
    <3>1. CASE d - c < 0
      BY <1>1, <3>1
    <3>2. CASE ~(d - c < 0)
      <4>1. d - c \in Nat /\ d - c < n
        BY <2>2, <2>3, <3>2
      <4>2. d - c \notin Bad
        <5>1. n \in Nat
          OBVIOUS
        <5> HIDE DEF Bad
        <5> QED BY <2>1, <4>1, <5>1
      <4> HIDE DEF Right
      <4> QED BY <4>1, <4>2
    <3> QED BY <3>1, <3>2
  <2> HIDE DEF Right, I, J
  <2> QED BY <1>2, <2>2, <2>3
<1>4. Right(i, j)
  <2>1. CASE j - i < 0
    BY <1>1, <2>1
  <2>2. CASE ~(j - i < 0)
    <3>1. j - i \in Nat
      BY <2>2
    <3> HIDE DEF Right
    <3> QED BY <1>3, <3>1
  <2> QED BY <2>1, <2>2
<1> QED BY <1>4

-----------------------------------------------------------------------------
(* Popping operators from the stack.                                       *)

LEMMA MaxIs ==
  ASSUME NEW N \in Nat, NEW S \in SUBSET (0..N), S # {}
  PROVE  Max(S) \in S /\ \A y \in S : y <= Max(S)
<1> DEFINE T == {N - y : y \in S}
<1>1. T \in SUBSET Nat /\ T # {}
  OBVIOUS
<1>2. PICK n \in T : \A m \in T : n <= m
  <2> HIDE DEF T
  <2> QED BY <1>1, SmallestOf
<1>3. \E x \in S : \A y \in S : x >= y
  <2>1. PICK x \in S : n = N - x
    OBVIOUS
  <2>2. ASSUME NEW y \in S PROVE x >= y
    <3>1. N - y \in T
      OBVIOUS
    <3>2. n <= N - y
      BY <1>2, <3>1
    <3> QED BY <2>1, <3>2
  <2> QED BY <2>2
<1>4. Max(S) \in S /\ \A y \in S : Max(S) >= y
  BY <1>3, Zenon DEF Max
<1> QED BY <1>4

-----------------------------------------------------------------------------
(* Operators popped one by one *)

Downward(p, K, f) == f = [n \in 0..K |-> IF n = 0 THEN p ELSE Popped(f[n - 1])]

LEMMA DownwardExists ==
  ASSUME NEW p, NEW K \in Nat
  PROVE  \E f : Downward(p, K, f)
<1> DEFINE Bad == {k \in Nat : ~\E f : Downward(p, k, f)}
<1>1. SUFFICES Bad = {}
  OBVIOUS
<1> SUFFICES ASSUME Bad # {} PROVE FALSE
  OBVIOUS
<1>2. PICK k \in Bad : \A m \in Bad : k <= m
  <2>1. Bad \in SUBSET Nat
    OBVIOUS
  <2> HIDE DEF Bad
  <2> QED BY <2>1, SmallestOf
<1>3. k \in Nat /\ ~\E f : Downward(p, k, f)
  OBVIOUS
<1>4. CASE k = 0
  <2> DEFINE f == [n \in 0..0 |-> p]
  <2>1. f = [n \in 0..0 |-> IF n = 0 THEN p ELSE Popped(f[n - 1])]
    <3>1. \A n \in 0..0 : n = 0
      OBVIOUS
    <3> QED BY <3>1
  <2> HIDE DEF f
  <2> QED BY <1>3, <1>4, <2>1 DEF Downward
<1>5. CASE k # 0
  <2>1. k - 1 \in Nat /\ k - 1 \notin Bad
    <3>1. k - 1 \in Nat /\ ~(k <= k - 1)
      BY <1>3, <1>5
    <3> HIDE DEF Bad
    <3> QED BY <1>2, <3>1
  <2>2. PICK g : Downward(p, k - 1, g)
    BY <2>1
  <2> DEFINE f == [n \in 0..k |-> IF n = k THEN Popped(g[k - 1]) ELSE g[n]]
  <2>3. ASSUME NEW n \in 0..k PROVE f[n] = IF n = 0 THEN p ELSE Popped(f[n - 1])
    <3>1. g = [m \in 0..(k - 1) |-> IF m = 0 THEN p ELSE Popped(g[m - 1])]
      BY <2>2 DEF Downward
    <3>2. CASE n = k
      <4>1. n # 0 /\ k - 1 \in 0..k /\ k - 1 # k
        BY <1>3, <1>5, <3>2
      <4>2. f[n] = Popped(g[k - 1]) /\ f[k - 1] = g[k - 1]
        BY <3>2, <4>1
      <4> HIDE DEF f
      <4> QED BY <3>2, <4>1, <4>2
    <3>3. CASE n # k /\ n = 0
      <4>1. f[n] = g[n] /\ n \in 0..(k - 1)
        BY <1>3, <1>5, <3>3
      <4>2. g[n] = p
        BY <3>1, <3>3, <4>1
      <4> HIDE DEF f
      <4> QED BY <3>3, <4>1, <4>2
    <3>4. CASE n # k /\ n # 0
      <4>1. f[n] = g[n] /\ n \in 0..(k - 1) /\ n - 1 \in 0..k /\ n - 1 # k
        BY <1>3, <3>4
      <4>2. g[n] = Popped(g[n - 1])
        BY <3>1, <3>4, <4>1
      <4>3. f[n - 1] = g[n - 1]
        BY <4>1
      <4> HIDE DEF f
      <4> QED BY <3>4, <4>1, <4>2, <4>3
    <3> QED BY <3>2, <3>3, <3>4
  <2>4. Downward(p, k, f)
    <3> DEFINE e == [n \in 0..k |-> IF n = 0 THEN p ELSE Popped(f[n - 1])]
    <3>1. DOMAIN f = 0..k /\ f = [n \in DOMAIN f |-> f[n]]
      OBVIOUS
    <3> HIDE DEF f
    <3>2. f = e
      BY <2>3, <3>1
    <3> QED BY <3>2 DEF Downward
  <2> QED BY <1>3, <2>4
<1> QED BY <1>4, <1>5

\* The operators of J pop one operator after another, from p down to height h.
Pops(J, h) == \A c \in J : /\ Len(c.stack) \in Nat
                           /\ Len(c.stack) > h => /\ Popped(c) \in J
                                                  /\ Len(Popped(c).stack) = Len(c.stack) - 1

\* What holds of a parser while it pops holds at the end.
LEMMA PoppedKeeps ==
  ASSUME NEW J, NEW h \in Nat, Pops(J, h), NEW p \in J, h <= Len(p.stack)
  PROVE  PoppedTo(p, h) \in J /\ Len(PoppedTo(p, h).stack) = h
<1> DEFINE N == Len(p.stack)
           K == N - h
           down == CHOOSE f : Downward(p, K, f)
<1>1. N \in Nat /\ K \in Nat
  BY DEF Pops
<1>2. PoppedTo(p, h) = down[K]
  BY Zenon DEF PoppedTo, Downward
<1>3. Downward(p, K, down)
  <2> HIDE DEF K
  <2>1. \E f : Downward(p, K, f)
    BY <1>1, DownwardExists
  <2> QED BY <2>1, Zenon
<1> HIDE DEF down
<1>4. /\ down[0] = p
      /\ \A n \in 1..K : down[n] = Popped(down[n - 1])
  <2>1. \A n \in 0..K : down[n] = IF n = 0 THEN p ELSE Popped(down[n - 1])
    <3> DEFINE e == [n \in 0..K |-> IF n = 0 THEN p ELSE Popped(down[n - 1])]
    <3>1. down = e
      BY <1>3 DEF Downward
    <3>2. \A n \in 0..K : e[n] = IF n = 0 THEN p ELSE Popped(down[n - 1])
      OBVIOUS
    <3> HIDE DEF e
    <3> QED BY <3>1, <3>2
  <2>2. 0 \in 0..K
    BY <1>1
  <2>3. down[0] = p
    BY <2>1, <2>2
  <2>4. ASSUME NEW n \in 1..K PROVE down[n] = Popped(down[n - 1])
    <3>1. n \in 0..K /\ n # 0
      BY <1>1
    <3> QED BY <2>1, <3>1, Zenon
  <2> QED BY <2>3, <2>4
<1> DEFINE Good(n) == down[n] \in J /\ Len(down[n].stack) = N - n
           Bad == {n \in 0..K : ~Good(n)}
<1>5. Bad = {}
  <2> SUFFICES ASSUME Bad # {} PROVE FALSE
    OBVIOUS
  <2>1. PICK n \in Bad : \A m \in Bad : n <= m
    <3>1. Bad \in SUBSET Nat
      BY <1>1
    <3> HIDE DEF Bad
    <3> QED BY <3>1, SmallestOf
  <2>2. n \in 0..K /\ ~Good(n)
    OBVIOUS
  <2>3. n # 0
    <3>1. Good(0)
      BY <1>1, <1>4
    <3> QED BY <2>2, <3>1
  <2>4. n - 1 \in 0..K /\ Good(n - 1)
    <3>1. n - 1 \in 0..K /\ ~(n <= n - 1)
      BY <1>1, <2>2, <2>3
    <3>2. n - 1 \notin Bad
      BY <2>1, <3>1
    <3> HIDE DEF Good
    <3> QED BY <3>1, <3>2
  <2> DEFINE c == down[n - 1]
  <2>5. c \in J /\ Len(c.stack) = N - (n - 1)
    BY <2>4
  <2>6. down[n] = Popped(c)
    <3>1. n \in 1..K
      BY <1>1, <2>2, <2>3
    <3> QED BY <1>4, <3>1
  <2> HIDE DEF c
  <2>7. Len(c.stack) > h
    BY <1>1, <2>2, <2>5
  <2>8. Popped(c) \in J /\ Len(Popped(c).stack) = Len(c.stack) - 1
    BY <2>5, <2>7 DEF Pops
  <2>9. Len(c.stack) - 1 = N - n
    BY <1>1, <2>2, <2>5
  <2> QED BY <2>2, <2>6, <2>8, <2>9
<1>6. Good(K)
  <2>1. K \in 0..K
    BY <1>1
  <2> HIDE DEF Good
  <2> QED BY <1>5, <2>1
<1>7. N - K = h
  BY <1>1
<1> QED BY <1>2, <1>6, <1>7

\* The text w goes on after u.
GoesOnAfter(u, w) == Len(u) <= Len(w) /\ \A m \in 1..Len(u) : w[m] = u[m]

-----------------------------------------------------------------------------
(* What holds of the parser p = [nodes, root, orphans, stack], in the middle *)
(* of a step as well                                                         *)

Parsers == [nodes : Seq(TreeNode), root : Nat, orphans : Seq(Nat), stack : Seq(Tokens)]

\* The orphans are different nodes, the first of them the root, and there are v leaves.
Sound(p, v) ==
    /\ p \in Parsers /\ IsTree(p.nodes) /\ LeafCount(p.nodes) = v
    /\ \A a \in DOMAIN p.orphans : p.orphans[a] \in DOMAIN p.nodes
    /\ \A a, b \in DOMAIN p.orphans : a # b => p.orphans[a] # p.orphans[b]
    /\ p.nodes # <<>> => p.orphans # <<>>
    /\ p.root = IF p.nodes = <<>> THEN 1 ELSE p.orphans[1]

\* Place m of the stack is about token at[m]; of[m] orphans are below it.
StackEntry(p, s, t, at, of, m) ==
    LET token == p.stack[m]
        i == at[m - 1] + 1
        j == at[m] - 1
    IN  /\ s[at[m]] = token
        /\ \/ token = LeftParenthesis /\ at[m] = i /\ of[m] = of[m - 1]
           \/ /\ token \in BoolOps /\ of[m] = of[m - 1] + 1
              /\ Operand(s, t, p.orphans[of[m]], i, j)
              /\ token = LogicalOr => Cuts(s, i, j, LogicalAnd) = {}
              /\ token = LogicalAnd /\ m > 1 => p.stack[m - 1] # LogicalOr

Frame(p, s, t, at, of) ==
    /\ at \in [Nat -> Nat] /\ of \in [Nat -> Nat] /\ at[0] = 0 /\ of[0] = 0
    /\ \A a, b \in 0..Len(p.stack) : a <= b => of[a] <= of[b]
    /\ \A m \in 1..Len(p.stack) : StackEntry(p, s, t, at, of, m)

\* An operand has been read to its end, token n, and no operator of free divides it.
Closed(p, s, t, n, free) ==
    \E at, of :
        LET m == Len(p.stack)
            i == at[m] + 1
        IN  /\ Frame(p, s, t, at, of)
            /\ Len(p.orphans) = of[m] + 1
            /\ Operand(s, t, p.orphans[of[m] + 1], i, n)
            /\ \A o \in free : Cuts(s, i, n, o) = {}

\* One is expected.
Open(p, s, t, n) ==
    \E at, of :
        LET m == Len(p.stack)
        IN  Frame(p, s, t, at, of) /\ Len(p.orphans) = of[m] /\ at[m] = n

-----------------------------------------------------------------------------
LEMMA ParserTyped ==
  ASSUME NEW p \in Parsers
  PROVE  /\ p.nodes \in Seq(TreeNode) /\ p.root \in Nat /\ p.orphans \in Seq(Nat) /\ p.stack \in Seq(Tokens)
         /\ Len(p.nodes) \in Nat /\ Len(p.orphans) \in Nat /\ Len(p.stack) \in Nat
         /\ DOMAIN p.nodes = 1..Len(p.nodes) /\ DOMAIN p.orphans = 1..Len(p.orphans)
         /\ DOMAIN p.stack = 1..Len(p.stack)
<1>1. p.nodes \in Seq(TreeNode) /\ p.root \in Nat /\ p.orphans \in Seq(Nat) /\ p.stack \in Seq(Tokens)
  BY DEF Parsers
<1> QED BY <1>1

\* What popping makes of a parser
LEMMA PoppedParts ==
  ASSUME NEW p \in Parsers, Len(p.stack) > 0, Last(p.stack) \in BoolOps, Len(p.orphans) > 1
  PROVE  LET q == Popped(p)
             n == Len(p.orphans)
             new == Len(p.nodes) + 1
             node == Branch(Last(p.stack), p.orphans[n - 1], p.orphans[n])
         IN  /\ q \in Parsers
             /\ node \in TreeNode
             /\ q.nodes = Append(p.nodes, node)
             /\ q.root = IF p.root \in {p.orphans[n - 1], p.orphans[n]} THEN new ELSE p.root
             /\ Len(q.orphans) = n - 1 /\ q.orphans[n - 1] = new
             /\ \A a \in 1..(n - 2) : q.orphans[a] = p.orphans[a]
             /\ Len(q.stack) = Len(p.stack) - 1
             /\ \A m \in 1..Len(q.stack) : q.stack[m] = p.stack[m]
<1> DEFINE q == Popped(p)
           n == Len(p.orphans)
           new == Len(p.nodes) + 1
           l == p.orphans[n - 1]
           r == p.orphans[n]
           node == Branch(Last(p.stack), l, r)
           low == SubSeq(p.orphans, 1, n - 2)
<1>1. /\ p.nodes \in Seq(TreeNode) /\ p.root \in Nat /\ p.orphans \in Seq(Nat) /\ p.stack \in Seq(Tokens)
      /\ Len(p.nodes) \in Nat /\ n \in Nat /\ Len(p.stack) \in Nat /\ new \in Nat
  BY ParserTyped
<1>2. l \in Nat /\ r \in Nat
  BY <1>1
<1>3. node \in TreeNode
  <2> DEFINE o == Last(p.stack)
             leaf == NoOperator
  <2>1. Branch(o, l, r) = [var |-> 0, op |-> o, left |-> l, right |-> r]
    BY DEF Branch
  <2>2. TreeNode = [var : Nat, op : BoolOps \cup {leaf}, left : Nat, right : Nat]
    BY DEF TreeNode
  <2>3. o \in BoolOps \cup {leaf}
    OBVIOUS
  <2> HIDE DEF o, leaf, l, r
  <2> QED BY <1>2, <2>1, <2>2, <2>3 DEF o
<1>4. /\ q.nodes = Append(p.nodes, node)
      /\ q.root = MovedRoot(p, l, r)
      /\ q.orphans = Append(low, new)
      /\ q.stack = Front(p.stack)
      /\ q = [nodes |-> q.nodes, root |-> q.root, orphans |-> q.orphans, stack |-> q.stack]
  BY DEF Popped
<1>5. q.root = IF p.root \in {l, r} THEN new ELSE p.root
  BY <1>4 DEF MovedRoot
<1>6. low \in Seq(Nat) /\ Len(low) = n - 2 /\ \A a \in 1..(n - 2) : low[a] = p.orphans[a]
  <2> DEFINE w == p.orphans
             z == n - 2
  <2>1. w \in Seq(Nat) /\ z \in 0..Len(w)
    BY <1>1
  <2> HIDE DEF w, z
  <2>2. SubSeq(w, 1, z) \in Seq(Nat) /\ Len(SubSeq(w, 1, z)) = z /\ \A a \in 1..z : SubSeq(w, 1, z)[a] = w[a]
    BY <2>1
  <2> QED BY <2>2 DEF w, z
<1>7. /\ q.orphans \in Seq(Nat) /\ Len(q.orphans) = n - 1 /\ q.orphans[n - 1] = new
      /\ \A a \in 1..(n - 2) : q.orphans[a] = p.orphans[a]
  <2> HIDE DEF low, new
  <2>1. Append(low, new) \in Seq(Nat) /\ Len(Append(low, new)) = Len(low) + 1
        /\ Append(low, new)[Len(low) + 1] = new
        /\ \A a \in 1..Len(low) : Append(low, new)[a] = low[a]
    BY <1>1, <1>6
  <2>2. Len(low) + 1 = n - 1
    BY <1>1, <1>6
  <2> QED BY <1>4, <1>6, <2>1, <2>2
<1>8. /\ q.stack \in Seq(Tokens) /\ Len(q.stack) = Len(p.stack) - 1
      /\ \A m \in 1..Len(q.stack) : q.stack[m] = p.stack[m]
  <2> DEFINE w == p.stack
             z == Len(p.stack) - 1
  <2>1. w \in Seq(Tokens) /\ z \in 0..Len(w) /\ q.stack = SubSeq(w, 1, z)
    BY <1>1, <1>4, SMTT(40) DEF Front
  <2> HIDE DEF w, z
  <2>2. SubSeq(w, 1, z) \in Seq(Tokens) /\ Len(SubSeq(w, 1, z)) = z /\ \A a \in 1..z : SubSeq(w, 1, z)[a] = w[a]
    BY <2>1
  <2> QED BY <2>1, <2>2 DEF w, z
<1>9. q \in Parsers
  <2>1. q.nodes \in Seq(TreeNode)
    <3> HIDE DEF node, q
    <3> QED BY <1>1, <1>3, <1>4
  <2>2. q.root \in Nat
    BY <1>1, <1>5
  <2> DEFINE a == q.nodes
             b == q.root
             c == q.orphans
             d == q.stack
  <2>3. a \in Seq(TreeNode) /\ b \in Nat /\ c \in Seq(Nat) /\ d \in Seq(Tokens)
    BY <1>7, <1>8, <2>1, <2>2
  <2>4. q = [nodes |-> a, root |-> b, orphans |-> c, stack |-> d]
    BY <1>4
  <2> HIDE DEF a, b, c, d, q
  <2> QED BY <2>3, <2>4 DEF Parsers
<1> QED BY <1>3, <1>4, <1>5, <1>7, <1>8, <1>9

\* What a node is said to be in a longer sequence of nodes
LEMMA TreeGrows ==
  ASSUME NEW t, IsTree(t), NEW x \in TreeNode,
         x.op # NoOperator => x.left \in DOMAIN t /\ x.right \in DOMAIN t
  PROVE  /\ IsTree(Append(t, x)) /\ Len(Append(t, x)) = Len(t) + 1
         /\ Append(t, x)[Len(t) + 1] = x /\ \A m \in 1..Len(t) : Append(t, x)[m] = t[m]
         /\ LeafCount(Append(t, x)) = LeafCount(t) + (IF x.op = NoOperator THEN 1 ELSE 0)
         /\ LeafCount(t) \in Nat
<1>1. t \in Seq(TreeNode) /\ Len(t) \in Nat /\ DOMAIN t = 1..Len(t)
  BY DEF IsTree
<1> DEFINE u == Append(t, x)
<1>2. u \in Seq(TreeNode) /\ Len(u) = Len(t) + 1 /\ DOMAIN u = 1..(Len(t) + 1)
      /\ u[Len(t) + 1] = x /\ \A m \in 1..Len(t) : u[m] = t[m]
  BY <1>1
<1> HIDE DEF u
<1>3. IsTree(u)
  <2>1. ASSUME NEW i \in DOMAIN u, u[i].op # NoOperator PROVE u[i].left \in 1..(i - 1) /\ u[i].right \in 1..(i - 1)
    <3>1. CASE i = Len(t) + 1
      <4>1. u[i] = x /\ i - 1 = Len(t)
        BY <1>1, <1>2, <3>1
      <4> QED BY <1>1, <2>1, <4>1
    <3>2. CASE i # Len(t) + 1
      <4>1. i \in 1..Len(t)
        BY <1>1, <1>2, <3>2
      <4> QED BY <1>1, <1>2, <2>1, <4>1 DEF IsTree
    <3> QED BY <3>1, <3>2
  <2> QED BY <1>2, <2>1 DEF IsTree
<1> DEFINE A == {i \in DOMAIN t : t[i].op = NoOperator}
           B == {i \in DOMAIN u : u[i].op = NoOperator}
<1>4. IsFiniteSet(A) /\ Cardinality(A) \in Nat
  <2>1. IsFiniteSet(1..Len(t))
    BY <1>1, FS_Interval
  <2>2. A \subseteq 1..Len(t)
    BY <1>1
  <2> QED BY <2>1, <2>2, FS_Subset, FS_CardinalityType
<1>5. B = IF x.op = NoOperator THEN A \cup {Len(t) + 1} ELSE A
  <2>1. \A i : i \in 1..(Len(t) + 1) <=> i \in 1..Len(t) \/ i = Len(t) + 1
    BY <1>1
  <2>2. Len(t) + 1 \notin 1..Len(t)
    BY <1>1
  <2> QED BY <1>1, <1>2, <2>1, <2>2
<1>6. Len(t) + 1 \notin A
  BY <1>1
<1>7. Cardinality(B) = Cardinality(A) + (IF x.op = NoOperator THEN 1 ELSE 0)
  <2>1. CASE x.op = NoOperator
    <3>1. B = A \cup {Len(t) + 1}
      BY <1>5, <2>1
    <3> HIDE DEF A, B
    <3> QED BY <1>4, <1>6, <2>1, <3>1, FS_AddElement
  <2>2. CASE x.op # NoOperator
    <3>1. B = A
      BY <1>5, <2>2
    <3> HIDE DEF A, B
    <3> QED BY <1>4, <2>2, <3>1
  <2> QED BY <2>1, <2>2
<1> QED BY <1>2, <1>3, <1>4, <1>7 DEF LeafCount, u

LEMMA PoppedSound ==
  ASSUME NEW p, NEW v, Sound(p, v), Len(p.stack) > 0, Last(p.stack) \in BoolOps, Len(p.orphans) > 1
  PROVE  /\ Sound(Popped(p), v)
         /\ GoesOnAfter(p.nodes, Popped(p).nodes)
<1> DEFINE q == Popped(p)
           n == Len(p.orphans)
           new == Len(p.nodes) + 1
           l == p.orphans[n - 1]
           r == p.orphans[n]
           o == Last(p.stack)
           node == Branch(o, l, r)
<1>0. /\ p \in Parsers /\ IsTree(p.nodes) /\ LeafCount(p.nodes) = v
      /\ \A a \in DOMAIN p.orphans : p.orphans[a] \in DOMAIN p.nodes
      /\ \A a, b \in DOMAIN p.orphans : a # b => p.orphans[a] # p.orphans[b]
      /\ p.nodes # <<>> => p.orphans # <<>>
      /\ p.root = IF p.nodes = <<>> THEN 1 ELSE p.orphans[1]
  BY DEF Sound
<1>1. /\ Len(p.nodes) \in Nat /\ n \in Nat /\ DOMAIN p.orphans = 1..n /\ DOMAIN p.nodes = 1..Len(p.nodes)
      /\ n > 1 /\ new > 0
  BY <1>0, ParserTyped
<1>2. /\ q \in Parsers /\ node \in TreeNode
      /\ q.nodes = Append(p.nodes, node)
      /\ q.root = IF p.root \in {l, r} THEN new ELSE p.root
      /\ Len(q.orphans) = n - 1 /\ q.orphans[n - 1] = new
      /\ \A a \in 1..(n - 2) : q.orphans[a] = p.orphans[a]
  BY <1>0, PoppedParts
<1>3. n - 1 \in 1..n /\ n \in 1..n /\ l \in DOMAIN p.nodes /\ r \in DOMAIN p.nodes
  BY <1>0, <1>1, SMTT(40)
<1>4. node.op = o /\ node.left = l /\ node.right = r /\ o # NoOperator
  BY TokensAreDifferent DEF Branch
<1> HIDE DEF q, l, r, o, node
<1>5. /\ IsTree(q.nodes) /\ Len(q.nodes) = new
      /\ \A m \in 1..Len(p.nodes) : q.nodes[m] = p.nodes[m]
      /\ LeafCount(q.nodes) = v
  BY <1>0, <1>2, <1>3, <1>4, TreeGrows, SMTT(40)
<1>6. DOMAIN q.orphans = 1..(n - 1) /\ DOMAIN q.nodes = 1..new
  BY <1>2, <1>5, ParserTyped
<1>7. ASSUME NEW a \in 1..(n - 1)
      PROVE  q.orphans[a] \in DOMAIN q.nodes /\ (a < n - 1 => q.orphans[a] \in 1..Len(p.nodes) /\ q.orphans[a] = p.orphans[a])
  <2>1. CASE a = n - 1
    BY <1>1, <1>2, <1>6, <2>1
  <2>2. CASE a < n - 1
    <3>1. a \in 1..(n - 2) /\ a \in 1..n
      BY <1>1, <2>2
    <3>2. q.orphans[a] = p.orphans[a] /\ p.orphans[a] \in DOMAIN p.nodes
      BY <1>0, <1>1, <1>2, <3>1
    <3> QED BY <1>1, <1>6, <3>2
  <2> QED BY <1>1, <2>1, <2>2
<1>8. ASSUME NEW a \in 1..(n - 1), NEW b \in 1..(n - 1), a < b PROVE q.orphans[a] # q.orphans[b]
  <2>1. a < n - 1
    BY <1>1, <1>8
  <2>2. q.orphans[a] \in 1..Len(p.nodes) /\ q.orphans[a] = p.orphans[a]
    BY <1>7, <2>1
  <2>3. CASE b = n - 1
    BY <1>1, <1>2, <2>2, <2>3
  <2>4. CASE b < n - 1
    <3>1. q.orphans[b] = p.orphans[b]
      BY <1>7, <2>4
    <3>2. a \in 1..n /\ b \in 1..n /\ a # b
      BY <1>1, <1>8
    <3> QED BY <1>0, <1>1, <2>2, <3>1, <3>2
  <2> QED BY <1>1, <2>3, <2>4
<1>9. \A a, b \in 1..(n - 1) : a # b => q.orphans[a] # q.orphans[b]
  <2> TAKE a, b \in 1..(n - 1)
  <2>1. a # b => a < b \/ b < a
    BY <1>1
  <2> QED BY <1>8, <2>1
<1>10. q.root = q.orphans[1] /\ q.nodes # <<>> /\ q.orphans # <<>>
  <2>1. q.nodes # <<>> /\ q.orphans # <<>>
    <3>1. Len(q.nodes) # 0 /\ Len(q.orphans) # 0
      <4>1. Len(q.nodes) = new /\ Len(q.orphans) = n - 1
        BY <1>2, <1>5
      <4>2. n \in Nat /\ n > 1 /\ new > 0
        BY <1>1
      <4> HIDE DEF n, new
      <4> QED BY <4>1, <4>2
    <3>2. Len(<<>>) = 0
      OBVIOUS
    <3> QED BY <3>1, <3>2, Zenon
  <2>2. p.nodes # <<>> /\ p.root = p.orphans[1]
    BY <1>0, <1>1, <1>3
  <2>3. CASE n = 2
    <3>1. n - 1 = 1
      BY <2>3
    <3> QED BY <1>2, <2>1, <2>2, <3>1 DEF l
  <2>4. CASE n # 2
    <3>1. 1 \in 1..(n - 2) /\ 1 \in 1..n /\ 1 # n - 1 /\ 1 # n
      <4>1. n \in Nat /\ n > 1
        BY <1>1
      <4> HIDE DEF n
      <4> QED BY <2>4, <4>1
    <3>2. p.root # l /\ p.root # r
      BY <1>0, <1>1, <1>3, <2>2, <3>1 DEF l, r
    <3> QED BY <1>2, <2>1, <2>2, <3>1, <3>2
  <2> QED BY <2>3, <2>4
<1>11. Sound(q, v)
  BY <1>2, <1>5, <1>6, <1>7, <1>9, <1>10 DEF Sound
<1>12. GoesOnAfter(p.nodes, q.nodes)
  BY <1>1, <1>5 DEF GoesOnAfter
<1> QED BY <1>11, <1>12 DEF q

LEMMA GoesOnTwice ==
  ASSUME NEW a, NEW b, NEW c, Len(a) \in Nat, Len(b) \in Nat, Len(c) \in Nat,
         GoesOnAfter(a, b), GoesOnAfter(b, c)
  PROVE  GoesOnAfter(a, c)
<1>1. Len(a) <= Len(b) /\ Len(b) <= Len(c)
  BY DEF GoesOnAfter
<1>2. ASSUME NEW m \in 1..Len(a) PROVE c[m] = a[m]
  <2>1. m \in 1..Len(b)
    BY <1>1
  <2> QED BY <2>1 DEF GoesOnAfter
<1> QED BY <1>1, <1>2 DEF GoesOnAfter

\* The operand of an operator below is still at its place when those above change.
LEMMA EntryStays ==
  ASSUME NEW p, NEW q, NEW s, NEW t, NEW at, NEW of, NEW m \in Nat \ {0},
         StackEntry(p, s, t, at, of, m),
         q.stack[m] = p.stack[m], m > 1 => q.stack[m - 1] = p.stack[m - 1],
         p.stack[m] \in BoolOps => q.orphans[of[m]] = p.orphans[of[m]]
  PROVE  StackEntry(q, s, t, at, of, m)
<1>1. CASE p.stack[m] \in BoolOps
  BY <1>1, Zenon DEF StackEntry
<1>2. CASE p.stack[m] \notin BoolOps
  BY <1>2, Zenon DEF StackEntry
<1> QED BY <1>1, <1>2

\* How many orphans are below an operator
LEMMA BelowIt ==
  ASSUME NEW p, NEW s, NEW t, NEW at, NEW of, Frame(p, s, t, at, of), Len(p.stack) \in Nat,
         NEW m \in 1..Len(p.stack)
  PROVE  /\ of[m] \in Nat /\ of[m - 1] \in Nat /\ at[m] \in Nat /\ at[m - 1] \in Nat
         /\ of[m] <= of[Len(p.stack)] /\ of[m - 1] <= of[m]
         /\ p.stack[m] \in BoolOps \cup {LeftParenthesis}
<1>1. /\ at \in [Nat -> Nat] /\ of \in [Nat -> Nat]
      /\ \A a, b \in 0..Len(p.stack) : a <= b => of[a] <= of[b]
      /\ StackEntry(p, s, t, at, of, m)
  BY DEF Frame
<1>2. m \in Nat /\ m - 1 \in Nat /\ m \in 0..Len(p.stack) /\ m - 1 \in 0..Len(p.stack) /\ Len(p.stack) \in 0..Len(p.stack)
  OBVIOUS
<1>3. of[m] <= of[Len(p.stack)] /\ of[m - 1] <= of[m]
  <2> DEFINE M == Len(p.stack)
  <2>1. \A a, b \in 0..M : a <= b => of[a] <= of[b]
    BY <1>1
  <2>2. M \in Nat /\ m \in 1..M
    OBVIOUS
  <2> HIDE DEF M
  <2>3. m \in 0..M /\ m - 1 \in 0..M /\ M \in 0..M /\ m <= M /\ m - 1 <= m
    BY <2>2
  <2>4. of[m] <= of[M] /\ of[m - 1] <= of[m]
    BY <2>1, <2>3
  <2> QED BY <2>4 DEF M
<1>4. p.stack[m] \in BoolOps \cup {LeftParenthesis}
  BY <1>1 DEF StackEntry
<1> QED BY <1>1, <1>2, <1>3, <1>4

LEMMA OperatorEntry ==
  ASSUME NEW p, NEW s, NEW t, NEW at, NEW of, NEW m, StackEntry(p, s, t, at, of, m), p.stack[m] \in BoolOps
  PROVE  /\ s[at[m]] = p.stack[m] /\ of[m] = of[m - 1] + 1
         /\ Operand(s, t, p.orphans[of[m]], at[m - 1] + 1, at[m] - 1)
         /\ p.stack[m] = LogicalOr => Cuts(s, at[m - 1] + 1, at[m] - 1, LogicalAnd) = {}
         /\ p.stack[m] = LogicalAnd /\ m > 1 => p.stack[m - 1] # LogicalOr
<1>1. p.stack[m] # LeftParenthesis
  BY TokensAreDifferent
<1> QED BY <1>1, Zenon DEF StackEntry

LEMMA EnoughOrphans ==
  ASSUME NEW p \in Parsers, NEW s, NEW t, NEW n, NEW free, Closed(p, s, t, n, free),
         Len(p.stack) > 0, Last(p.stack) \in BoolOps
  PROVE  Len(p.orphans) > 1
<1> DEFINE M == Len(p.stack)
<1>1. M \in Nat /\ M > 0
  BY ParserTyped
<1>2. PICK at, of : Frame(p, s, t, at, of) /\ Len(p.orphans) = of[M] + 1
  BY Zenon DEF Closed
<1>3. M \in 1..M /\ p.stack[M] \in BoolOps
  BY <1>1 DEF Last
<1>4. of[M] \in Nat /\ of[M - 1] \in Nat
  BY <1>1, <1>2, <1>3, BelowIt
<1>5. of[M] = of[M - 1] + 1
  <2>1. StackEntry(p, s, t, at, of, M)
    BY <1>2, <1>3 DEF Frame
  <2> HIDE DEF M
  <2> QED BY <1>3, <2>1, OperatorEntry
<1> QED BY <1>2, <1>4, <1>5

\* The popped operator and its operands are an operand.
LEMMA PoppedClosed ==
  ASSUME NEW p, NEW v, Sound(p, v), Len(p.stack) > 0, Last(p.stack) \in BoolOps,
         NEW s \in Seq(Tokens), NEW t, IsTree(t), GoesOnAfter(Popped(p).nodes, t),
         NEW n, NEW free, Closed(p, s, t, n, free),
         Last(p.stack) = LogicalOr => LogicalAnd \in free,
         NEW after \in SUBSET {LogicalAnd},
         after # {} => Len(p.stack) > 1 /\ p.stack[Len(p.stack) - 1] = LogicalOr
  PROVE  Closed(Popped(p), s, t, n, after)
<1> DEFINE q == Popped(p)
           M == Len(p.stack)
           N == Len(p.orphans)
           new == Len(p.nodes) + 1
           l == p.orphans[N - 1]
           r == p.orphans[N]
           o == Last(p.stack)
           node == Branch(o, l, r)
<1>0. p \in Parsers /\ N > 1
  <2>1. p \in Parsers
    BY DEF Sound
  <2> QED BY <2>1, EnoughOrphans
<1>1. M \in Nat /\ N \in Nat /\ Len(p.nodes) \in Nat /\ M > 0 /\ N > 1
  BY <1>0, ParserTyped
<1>2. /\ q \in Parsers
      /\ q.nodes = Append(p.nodes, node)
      /\ Len(q.orphans) = N - 1 /\ q.orphans[N - 1] = new
      /\ \A a \in 1..(N - 2) : q.orphans[a] = p.orphans[a]
      /\ Len(q.stack) = M - 1
      /\ \A m \in 1..Len(q.stack) : q.stack[m] = p.stack[m]
  BY <1>0, PoppedParts
<1>3. node.op = o /\ node.left = l /\ node.right = r /\ o \in BoolOps
  BY DEF Branch
<1>4. new \in DOMAIN t /\ t[new] = node
  <2>1. p.nodes \in Seq(TreeNode)
    BY <1>0, ParserTyped
  <2>2. Len(q.nodes) = new /\ q.nodes[new] = node /\ new \in 1..new
    <3> HIDE DEF q, node
    <3> QED BY <1>1, <1>2, <2>1
  <2>3. t[new] = node /\ new <= Len(t)
    <3> HIDE DEF q, node, new
    <3> QED BY <2>2 DEF GoesOnAfter, q
  <2>4. DOMAIN t = 1..Len(t) /\ Len(t) \in Nat
    BY TreeIs
  <2> QED BY <1>1, <2>3, <2>4
<1>5. PICK at, of : /\ Frame(p, s, t, at, of)
                    /\ N = of[M] + 1
                    /\ Operand(s, t, p.orphans[of[M] + 1], at[M] + 1, n)
                    /\ \A x \in free : Cuts(s, at[M] + 1, n, x) = {}
  BY Zenon DEF Closed
<1> HIDE DEF q, l, r, o, node, new
<1>6. M \in 1..M /\ p.stack[M] = o /\ M \in Nat
  BY <1>1 DEF Last, o
<1>7. /\ of[M] \in Nat /\ of[M - 1] \in Nat /\ at[M] \in Nat /\ at[M - 1] \in Nat
  BY <1>1, <1>5, <1>6, BelowIt
<1>8. /\ s[at[M]] = o /\ of[M] = of[M - 1] + 1
      /\ Operand(s, t, p.orphans[of[M]], at[M - 1] + 1, at[M] - 1)
      /\ o = LogicalOr => Cuts(s, at[M - 1] + 1, at[M] - 1, LogicalAnd) = {}
      /\ o = LogicalAnd /\ M > 1 => p.stack[M - 1] # LogicalOr
  <2>1. StackEntry(p, s, t, at, of, M)
    BY <1>5, <1>6 DEF Frame
  <2>2. p.stack[M] \in BoolOps
    BY <1>3, <1>6
  <2> HIDE DEF M
  <2>3. s[at[M]] = p.stack[M] /\ of[M] = of[M - 1] + 1
    BY <2>1, <2>2, OperatorEntry
  <2>4. Operand(s, t, p.orphans[of[M]], at[M - 1] + 1, at[M] - 1)
    BY <2>1, <2>2, OperatorEntry
  <2>5. p.stack[M] = LogicalOr => Cuts(s, at[M - 1] + 1, at[M] - 1, LogicalAnd) = {}
    BY <2>1, <2>2, OperatorEntry
  <2>6. p.stack[M] = LogicalAnd /\ M > 1 => p.stack[M - 1] # LogicalOr
    BY <2>1, <2>2, OperatorEntry
  <2> QED BY <1>6, <2>3, <2>4, <2>5, <2>6, Zenon
<1>9. of[M] = N - 1 /\ of[M - 1] = N - 2
  <2>1. N \in Nat /\ N = of[M] + 1 /\ of[M] \in Nat /\ of[M - 1] \in Nat /\ of[M] = of[M - 1] + 1
    BY <1>1, <1>5, <1>7, <1>8
  <2> HIDE DEF N, M
  <2> QED BY <2>1
<1>10. /\ Operand(s, t, l, at[M - 1] + 1, at[M] - 1)
       /\ Operand(s, t, r, at[M] + 1, n)
  BY <1>5, <1>8, <1>9 DEF l, r
<1>11. o = LogicalOr => Cuts(s, at[M] + 1, n, LogicalAnd) = {}
  BY <1>5, Zenon DEF o
<1>12. Operand(s, t, new, at[M - 1] + 1, n) /\ (o = LogicalOr => Cuts(s, at[M - 1] + 1, n, LogicalAnd) = {})
  <2>1. s[at[M]] = t[new].op /\ t[new].op \in BoolOps /\ t[new].left = l /\ t[new].right = r /\ t[new].op = o
    BY <1>3, <1>4, <1>8
  <2> DEFINE k == at[M]
             i == at[M - 1] + 1
  <2>2. k \in Int
    BY <1>7
  <2>3. /\ Operand(s, t, t[new].left, i, k - 1) /\ Operand(s, t, t[new].right, k + 1, n)
        /\ (t[new].op = LogicalOr => Cuts(s, i, k - 1, LogicalAnd) = {} /\ Cuts(s, k + 1, n, LogicalAnd) = {})
        /\ s[k] = t[new].op
    BY <1>8, <1>10, <1>11, <2>1
  <2> HIDE DEF k, i
  <2>4. Operand(s, t, new, i, n) /\ (t[new].op = LogicalOr => Cuts(s, i, n, LogicalAnd) = {})
    BY <1>4, <2>1, <2>2, <2>3, OperandTwo
  <2> QED BY <2>1, <2>4, Zenon DEF i
<1>13. Frame(q, s, t, at, of)
  <2>1. /\ at \in [Nat -> Nat] /\ of \in [Nat -> Nat] /\ at[0] = 0 /\ of[0] = 0
        /\ \A a, b \in 0..M : a <= b => of[a] <= of[b]
        /\ \A m \in 1..M : StackEntry(p, s, t, at, of, m)
    BY <1>5 DEF Frame
  <2>2. \A a, b \in 0..(M - 1) : a <= b => of[a] <= of[b]
    <3>1. \A a \in 0..(M - 1) : a \in 0..M
      BY <1>1
    <3> QED BY <2>1, <3>1
  <2>3. ASSUME NEW m \in 1..(M - 1) PROVE StackEntry(q, s, t, at, of, m)
    <3>1. m \in 1..M /\ m \in Nat \ {0} /\ (m > 1 => m - 1 \in 1..(M - 1))
      BY <1>1
    <3>2. StackEntry(p, s, t, at, of, m)
      BY <2>1, <3>1
    <3>3. q.stack[m] = p.stack[m] /\ (m > 1 => q.stack[m - 1] = p.stack[m - 1])
      BY <1>2, <3>1
    <3>4. of[m] \in Nat /\ of[m] <= N - 2
      <4>1. m \in 0..M /\ M - 1 \in 0..M /\ m <= M - 1
        BY <1>1
      <4>2. of[m] <= of[M - 1]
        BY <2>1, <4>1
      <4> QED BY <1>9, <2>1, <3>1, <4>2
    <3>5. ASSUME p.stack[m] \in BoolOps PROVE q.orphans[of[m]] = p.orphans[of[m]]
      <4>1. of[m] = of[m - 1] + 1
        BY <3>2, <3>5, OperatorEntry
      <4>2. of[m - 1] \in Nat
        <5>1. m - 1 \in Nat
          BY <3>1
        <5> QED BY <2>1, <5>1
      <4>3. of[m] \in 1..(N - 2)
        <5>1. N \in Nat
          BY <1>1
        <5> HIDE DEF N
        <5> QED BY <3>4, <4>1, <4>2, <5>1
      <4> QED BY <1>2, <4>3
    <3> QED BY <3>1, <3>2, <3>3, <3>5, EntryStays
  <2> QED BY <1>2, <2>1, <2>2, <2>3 DEF Frame
<1>14. \A x \in after : Cuts(s, at[M - 1] + 1, n, x) = {}
  <2> SUFFICES ASSUME after # {} PROVE Cuts(s, at[M - 1] + 1, n, LogicalAnd) = {}
    BY Zenon
  <2>1. o # LogicalAnd
    BY <1>8
  <2>2. o = LogicalOr
    BY <1>3, <2>1 DEF BoolOps
  <2> QED BY <1>12, <2>2
<1>15. /\ Len(q.orphans) = of[M - 1] + 1 /\ q.orphans[of[M - 1] + 1] = new
  BY <1>1, <1>2, <1>9
<1>16. Closed(q, s, t, n, after)
  <2> DEFINE m == M - 1
  <2>1. /\ Len(q.stack) = m /\ Frame(q, s, t, at, of) /\ Len(q.orphans) = of[m] + 1
        /\ Operand(s, t, q.orphans[of[m] + 1], at[m] + 1, n)
        /\ \A x \in after : Cuts(s, at[m] + 1, n, x) = {}
    BY <1>2, <1>12, <1>13, <1>14, <1>15
  <2> HIDE DEF m
  <2> QED BY <2>1, Zenon DEF Closed
<1> QED BY <1>16 DEF q

-----------------------------------------------------------------------------
(* The parsers between one with the stack below and those it may pop to *)

\* What does not divide the last operand
Uncut(p, height) ==
    IF Len(p.stack) = height THEN BoolOps
    ELSE IF Len(p.stack) > 0 /\ p.stack[Len(p.stack)] = LogicalOr THEN {LogicalAnd} ELSE {}

\* The text u has been read, an operand last.
Understands(p, u, free) ==
    \A s \in Seq(Tokens) : \A t :
        GoesOnAfter(u, s) /\ IsTree(t) /\ GoesOnAfter(p.nodes, t) => Closed(p, s, t, Len(u), free)

Popping(u, stack, v) ==
    {p \in Parsers : /\ Sound(p, v)
                     /\ GoesOnAfter(p.stack, stack)
                     /\ Understands(p, u, Uncut(p, Len(stack)))}

LEMMA GoesOnSame ==
  ASSUME NEW a, Len(a) \in Nat PROVE GoesOnAfter(a, a)
BY DEF GoesOnAfter

LEMMA PoppingPops ==
  ASSUME NEW u \in Seq(Tokens), NEW stack \in Seq(Tokens), NEW v, NEW h \in Nat,
         \A m \in (h + 1)..Len(stack) : stack[m] \in BoolOps
  PROVE  Pops(Popping(u, stack, v), h)
<1> DEFINE J == Popping(u, stack, v)
<1> SUFFICES ASSUME NEW p \in J
             PROVE  /\ Len(p.stack) \in Nat
                    /\ Len(p.stack) > h => Popped(p) \in J /\ Len(Popped(p).stack) = Len(p.stack) - 1
  BY DEF Pops
<1>1. /\ p \in Parsers /\ Sound(p, v) /\ GoesOnAfter(p.stack, stack)
      /\ Understands(p, u, Uncut(p, Len(stack)))
  BY DEF Popping
<1> DEFINE M == Len(p.stack)
           q == Popped(p)
<1>2. M \in Nat /\ Len(p.nodes) \in Nat /\ Len(stack) \in Nat /\ Len(u) \in Nat
  BY <1>1, ParserTyped
<1> SUFFICES ASSUME M > h PROVE q \in J /\ Len(q.stack) = M - 1
  BY <1>2
<1>3. M > 0 /\ M \in 1..M /\ Last(p.stack) = p.stack[M] /\ p.stack[M] = stack[M] /\ M <= Len(stack) /\ stack[M] \in BoolOps
  <2>1. M > 0 /\ M \in 1..M /\ M <= Len(stack)
    BY <1>1, <1>2 DEF GoesOnAfter
  <2>2. p.stack[M] = stack[M]
    BY <1>1, <2>1 DEF GoesOnAfter
  <2>3. M \in (h + 1)..Len(stack)
    BY <1>2, <2>1
  <2> QED BY <2>1, <2>2, <2>3 DEF Last
<1>4. Last(p.stack) \in BoolOps
  BY <1>3
<1>5. Len(p.orphans) > 1
  <2>1. GoesOnAfter(u, u) /\ IsTree(p.nodes) /\ GoesOnAfter(p.nodes, p.nodes)
    BY <1>1, <1>2, GoesOnSame DEF Sound
  <2>2. Closed(p, u, p.nodes, Len(u), Uncut(p, Len(stack)))
    BY <1>1, <2>1 DEF Understands
  <2> QED BY <1>1, <1>3, <1>4, <2>2, EnoughOrphans
<1>6. /\ q \in Parsers /\ Len(q.stack) = M - 1
      /\ \A m \in 1..Len(q.stack) : q.stack[m] = p.stack[m]
  BY <1>1, <1>3, <1>4, <1>5, PoppedParts
<1>7. Sound(q, v) /\ GoesOnAfter(p.nodes, q.nodes)
  BY <1>1, <1>3, <1>4, <1>5, PoppedSound
<1>8. Len(q.nodes) \in Nat /\ Len(q.stack) \in Nat
  BY <1>6, ParserTyped
<1> HIDE DEF q
<1>9. GoesOnAfter(q.stack, stack)
  <2>1. GoesOnAfter(q.stack, p.stack)
    BY <1>2, <1>6 DEF GoesOnAfter
  <2> QED BY <1>1, <1>2, <1>8, <2>1, GoesOnTwice
<1>10. Understands(q, u, Uncut(q, Len(stack)))
  <2> SUFFICES ASSUME NEW s \in Seq(Tokens), NEW t, GoesOnAfter(u, s), IsTree(t), GoesOnAfter(q.nodes, t)
               PROVE  Closed(q, s, t, Len(u), Uncut(q, Len(stack)))
    BY Zenon DEF Understands
  <2> DEFINE free == Uncut(p, Len(stack))
             after == Uncut(q, Len(stack))
             n == Len(u)
  <2>1. GoesOnAfter(p.nodes, t)
    <3>1. Len(t) \in Nat
      BY TreeIs
    <3> QED BY <1>2, <1>7, <1>8, <3>1, GoesOnTwice
  <2>2. Closed(p, s, t, n, free)
    BY <1>1, <2>1, Zenon DEF Understands
  <2>3. Last(p.stack) = LogicalOr => LogicalAnd \in free
    <3>1. LogicalAnd \in BoolOps
      BY DEF BoolOps
    <3> QED BY <1>3, <3>1 DEF Uncut
  <2>4. Len(q.stack) # Len(stack) /\ M - 1 = Len(q.stack)
    BY <1>2, <1>3, <1>6
  <2>5. after = IF Len(q.stack) > 0 /\ q.stack[Len(q.stack)] = LogicalOr THEN {LogicalAnd} ELSE {}
    BY <2>4 DEF Uncut
  <2>6. after \in SUBSET {LogicalAnd} /\ (after # {} => M > 1 /\ p.stack[M - 1] = LogicalOr)
    <3> DEFINE k == Len(q.stack)
               c == LogicalAnd
    <3>1. k \in Nat /\ k = M - 1 /\ (k > 0 => q.stack[k] = p.stack[k])
      <4>1. k \in Nat /\ k = M - 1
        BY <1>6, <1>8
      <4>2. k > 0 => k \in 1..k
        BY <4>1
      <4> QED BY <1>6, <4>1, <4>2
    <3>2. after = IF k > 0 /\ q.stack[k] = LogicalOr THEN {c} ELSE {}
      BY <2>5
    <3>3. k > 0 => M > 1
      BY <1>2, <3>1
    <3> HIDE DEF k, c, after, M
    <3>4. after \in SUBSET {c}
      BY <3>2
    <3>5. after # {} => k > 0 /\ q.stack[k] = LogicalOr
      BY <3>2
    <3> QED BY <3>1, <3>3, <3>4, <3>5 DEF c
  <2> HIDE DEF free, after, n
  <2>7. Closed(q, s, t, n, after)
    BY <1>1, <1>3, <1>4, <2>2, <2>3, <2>6, PoppedClosed DEF q
  <2> QED BY <2>7 DEF after, n
<1> QED BY <1>6, <1>7, <1>9, <1>10 DEF Popping

\* Popping to a height gives a parser that holds as much.
LEMMA PoppedToIs ==
  ASSUME NEW u \in Seq(Tokens), NEW p \in Parsers, NEW v, Sound(p, v), Understands(p, u, BoolOps),
         NEW h \in 0..Len(p.stack), \A m \in (h + 1)..Len(p.stack) : p.stack[m] \in BoolOps
  PROVE  LET q == PoppedTo(p, h)
         IN  /\ q \in Parsers /\ Sound(q, v) /\ Len(q.stack) = h
             /\ \A m \in 1..h : q.stack[m] = p.stack[m]
             /\ Understands(q, u, Uncut(q, Len(p.stack)))
<1>1. p.stack \in Seq(Tokens) /\ Len(p.stack) \in Nat /\ h \in Nat /\ h <= Len(p.stack)
  BY ParserTyped
<1> DEFINE J == Popping(u, p.stack, v)
           q == PoppedTo(p, h)
<1>2. Pops(J, h)
  BY <1>1, PoppingPops
<1>3. p \in J
  <2>1. Uncut(p, Len(p.stack)) = BoolOps
    BY DEF Uncut
  <2> QED BY <1>1, <2>1, GoesOnSame DEF Popping
<1>4. q \in J /\ Len(q.stack) = h
  <2> HIDE DEF J
  <2> QED BY <1>1, <1>2, <1>3, PoppedKeeps
<1> HIDE DEF q
<1>5. /\ q \in Parsers /\ Sound(q, v) /\ GoesOnAfter(q.stack, p.stack)
      /\ Understands(q, u, Uncut(q, Len(p.stack)))
  BY <1>4 DEF Popping
<1>6. \A m \in 1..h : q.stack[m] = p.stack[m]
  BY <1>4, <1>5 DEF GoesOnAfter
<1> QED BY <1>4, <1>5, <1>6 DEF q

-----------------------------------------------------------------------------
\* The place down to which the stack is popped
LEMMA HeightIs ==
  ASSUME NEW stack, Len(stack) \in Nat, DOMAIN stack = 1..Len(stack),
         NEW S, S \subseteq DOMAIN stack
  PROVE  LET h == Max({0} \cup S)
         IN  /\ h \in 0..Len(stack) /\ (h > 0 => h \in S)
             /\ \A m \in (h + 1)..Len(stack) : m \notin S
<1> DEFINE T == {0} \cup S
           N == Len(stack)
<1>1. T \in SUBSET (0..N) /\ T # {} /\ N \in Nat
  OBVIOUS
<1>2. Max(T) \in T /\ \A y \in T : y <= Max(T)
  <2> HIDE DEF T, N
  <2> QED BY <1>1, MaxIs
<1> DEFINE h == Max(T)
<1> HIDE DEF h
<1>3. h \in T /\ \A y \in T : y <= h
  BY <1>2 DEF h
<1>4. h \in 0..N
  BY <1>1, <1>3
<1>5. h > 0 => h \in S
  BY <1>3, <1>4
<1>6. ASSUME NEW m \in (h + 1)..N, m \in S PROVE FALSE
  <2>1. m <= h
    BY <1>3, <1>6
  <2> QED BY <1>4, <2>1
<1> QED BY <1>4, <1>5, <1>6 DEF h

-----------------------------------------------------------------------------
(* What holds of the parser between two tokens.                            *)

LEMMA CountSame ==
  ASSUME NEW s, NEW w, NEW token, NEW i \in Int, NEW j \in Int, \A m \in i..j : s[m] = w[m]
  PROVE  Count(s, token, i, j) = Count(w, token, i, j)
<1>1. {m \in i..j : s[m] = token} = {m \in i..j : w[m] = token}
  OBVIOUS
<1> QED BY <1>1, Zenon DEF Count

LEMMA CountGrows ==
  ASSUME NEW S, NEW u \in Seq(S), NEW x \in S, NEW token
  PROVE  LET w == Append(u, x)
             n == Len(u)
         IN  /\ w \in Seq(S) /\ Len(w) = n + 1 /\ w[n + 1] = x /\ n \in Nat
             /\ \A m \in 1..n : w[m] = u[m]
             /\ Count(u, token, 1, n) \in Nat
             /\ Count(w, token, 1, n + 1) = Count(u, token, 1, n) + (IF x = token THEN 1 ELSE 0)
<1> DEFINE w == Append(u, x)
           n == Len(u)
<1>1. w \in Seq(S) /\ Len(w) = n + 1 /\ w[n + 1] = x /\ n \in Nat /\ \A m \in 1..n : w[m] = u[m]
  OBVIOUS
<1> HIDE DEF w, n
<1>2. Count(w, token, 1, n) = Count(u, token, 1, n)
  <2>1. 1 \in Int /\ n \in Int
    BY <1>1
  <2> QED BY <1>1, <2>1, CountSame
<1>3. Count(w, token, 1, n + 1) = Count(w, token, 1, n) + Count(w, token, n + 1, n + 1)
  <2>1. 1 \in Int /\ n \in Int /\ n + 1 \in Int /\ 1 <= n + 1 /\ n <= n + 1
    BY <1>1
  <2> DEFINE k == n + 1
  <2>2. k \in Int /\ 1 <= k /\ n <= k /\ k = n + 1
    BY <2>1
  <2> HIDE DEF k
  <2>3. Count(w, token, 1, k) = Count(w, token, 1, n) + Count(w, token, n + 1, k)
    BY <2>1, <2>2, CountSplits
  <2> QED BY <2>2, <2>3
<1>4. Count(w, token, n + 1, n + 1) = IF x = token THEN 1 ELSE 0
  <2>1. n + 1 \in Int
    BY <1>1
  <2>2. x = token => Count(w, token, n + 1, n + 1) = 1
    BY <1>1, <2>1, CountOne
  <2>3. x # token => Count(w, token, n + 1, n + 1) = 0
    BY <1>1, <2>1, CountOne
  <2> QED BY <2>2, <2>3, Zenon
<1>5. Count(u, token, 1, n) \in Nat
  <2>1. 1 \in Int /\ n \in Int
    BY <1>1
  <2> QED BY <2>1, CountIs, Zenon
<1> QED BY <1>1, <1>2, <1>3, <1>4, <1>5 DEF w, n

\* A text that goes on after one more token
LEMMA GoesOnMore ==
  ASSUME NEW u \in Seq(Tokens), NEW x \in Tokens, NEW s \in Seq(Tokens), GoesOnAfter(Append(u, x), s)
  PROVE  /\ GoesOnAfter(u, s) /\ s[Len(u) + 1] = x /\ Len(u) + 1 \in 1..Len(s)
         /\ \A token : Count(s, token, 1, Len(u)) = Count(u, token, 1, Len(u))
<1> DEFINE w == Append(u, x)
           n == Len(u)
<1>1. Len(w) = n + 1 /\ w[n + 1] = x /\ n \in Nat /\ (\A m \in 1..n : w[m] = u[m]) /\ Len(s) \in Nat
  OBVIOUS
<1> HIDE DEF w, n
<1>2. n + 1 <= Len(s) /\ \A m \in 1..(n + 1) : s[m] = w[m]
  BY <1>1 DEF GoesOnAfter, w
<1>3. \A m \in 1..n : s[m] = u[m]
  <2> TAKE m \in 1..n
  <2>1. m \in 1..(n + 1)
    BY <1>1
  <2> QED BY <1>1, <1>2, <2>1
<1>4. n + 1 \in 1..(n + 1) /\ n + 1 \in 1..Len(s) /\ n <= Len(s)
  BY <1>1, <1>2
<1>5. s[n + 1] = x
  BY <1>1, <1>2, <1>4
<1>6. GoesOnAfter(u, s)
  BY <1>3, <1>4 DEF GoesOnAfter, n
<1>7. ASSUME NEW token PROVE Count(s, token, 1, n) = Count(u, token, 1, n)
  <2>1. 1 \in Int /\ n \in Int
    BY <1>1
  <2> QED BY <1>3, <2>1, CountSame
<1> QED BY <1>4, <1>5, <1>6, <1>7 DEF n

-----------------------------------------------------------------------------
(* What holds between two calls *)

\* An operand is expected where the text u ends.
Awaits(p, u) ==
    \A s \in Seq(Tokens) : \A t :
        GoesOnAfter(u, s) /\ IsTree(t) /\ GoesOnAfter(p.nodes, t) => Open(p, s, t, Len(u))

Counts(p, u, lev) ==
    /\ Sound(p, Count(u, Var, 1, Len(u)))
    /\ lev = Count(p.stack, LeftParenthesis, 1, Len(p.stack))
    /\ lev = Depth(u, 1, Len(u)) /\ lev <= Len(u)

Parses(p, u, expects, lev) ==
    /\ u \in Seq(Tokens) /\ p \in Parsers /\ lev \in Nat /\ expects \in BOOLEAN
    /\ Counts(p, u, lev)
    /\ u = <<>> <=> p.nodes = <<>> /\ p.stack = <<>>
    /\ expects <=> u # <<>> /\ EndsOperand(Last(u))
    /\ expects => Understands(p, u, BoolOps)
    /\ ~expects => Awaits(p, u)

LEMMA DepthGrows ==
  ASSUME NEW u \in Seq(Tokens), NEW x \in Tokens
  PROVE  /\ Depth(u, 1, Len(u)) \in Int
         /\ Depth(Append(u, x), 1, Len(u) + 1) = Depth(u, 1, Len(u)) + (IF x = LeftParenthesis THEN 1 ELSE IF x = RightParenthesis THEN -1 ELSE 0)
<1> DEFINE w == Append(u, x)
           n == Len(u)
           L(a, k) == Count(a, LeftParenthesis, 1, k)
           R(a, k) == Count(a, RightParenthesis, 1, k)
<1>1. L(u, n) \in Nat /\ L(w, n + 1) = L(u, n) + (IF x = LeftParenthesis THEN 1 ELSE 0)
  BY CountGrows
<1>2. R(u, n) \in Nat /\ R(w, n + 1) = R(u, n) + (IF x = RightParenthesis THEN 1 ELSE 0)
  BY CountGrows
<1>3. Depth(u, 1, n) = L(u, n) - R(u, n) /\ Depth(w, 1, n + 1) = L(w, n + 1) - R(w, n + 1)
  BY Zenon DEF Depth
<1> DEFINE l == LeftParenthesis
           r == RightParenthesis
<1>4. l # r
  BY TokensAreDifferent
<1> HIDE DEF L, R, l, r
<1>5. L(u, n) \in Nat /\ L(w, n + 1) = L(u, n) + (IF x = l THEN 1 ELSE 0)
  BY <1>1 DEF l
<1>6. R(u, n) \in Nat /\ R(w, n + 1) = R(u, n) + (IF x = r THEN 1 ELSE 0)
  BY <1>2 DEF r
<1>7. Depth(u, 1, n) \in Int
  BY <1>3, <1>5, <1>6
<1>8. Depth(w, 1, n + 1) = Depth(u, 1, n) + (IF x = l THEN 1 ELSE IF x = r THEN -1 ELSE 0)
  BY <1>3, <1>4, <1>5, <1>6
<1> QED BY <1>7, <1>8 DEF l, r

\* A lower stack, with the orphans below it
LEMMA FrameShrinks ==
  ASSUME NEW p, NEW q, NEW s, NEW t, NEW at, NEW of, Frame(p, s, t, at, of),
         Len(p.stack) \in Nat, NEW M \in 0..Len(p.stack), Len(q.stack) = M,
         \A m \in 1..M : q.stack[m] = p.stack[m],
         \A b \in 1..of[M] : q.orphans[b] = p.orphans[b]
  PROVE  Frame(q, s, t, at, of)
<1> DEFINE K == Len(p.stack)
<1>1. /\ at \in [Nat -> Nat] /\ of \in [Nat -> Nat] /\ at[0] = 0 /\ of[0] = 0
      /\ \A a, b \in 0..K : a <= b => of[a] <= of[b]
      /\ \A m \in 1..K : StackEntry(p, s, t, at, of, m)
      /\ K \in Nat /\ M \in 0..K
  BY DEF Frame
<1> HIDE DEF K
<1>2. \A a, b \in 0..M : a <= b => of[a] <= of[b]
  <2>1. \A a \in 0..M : a \in 0..K
    BY <1>1
  <2> QED BY <1>1, <2>1
<1>3. ASSUME NEW m \in 1..M PROVE StackEntry(q, s, t, at, of, m)
  <2>1. m \in 1..K /\ m \in Nat \ {0} /\ (m > 1 => m - 1 \in 1..M) /\ m \in 0..K /\ M \in 0..K /\ m <= M /\ m - 1 \in Nat
    <3>1. M \in Nat /\ M <= K /\ K \in Nat /\ m \in 1..M
      BY <1>1
    <3> QED BY <3>1
  <2>2. StackEntry(p, s, t, at, of, m)
    BY <1>1, <2>1
  <2>3. q.stack[m] = p.stack[m] /\ (m > 1 => q.stack[m - 1] = p.stack[m - 1])
    BY <2>1
  <2>4. ASSUME p.stack[m] \in BoolOps PROVE q.orphans[of[m]] = p.orphans[of[m]]
    <3>1. of[m] = of[m - 1] + 1
      BY <2>2, <2>4, OperatorEntry
    <3>2. of[m - 1] \in Nat /\ of[m] <= of[M]
      BY <1>1, <2>1
    <3>3. of[m] \in 1..of[M]
      BY <1>1, <2>1, <3>1, <3>2
    <3> QED BY <3>3
  <2> QED BY <2>1, <2>2, <2>3, <2>4, EntryStays
<1> QED BY <1>1, <1>2, <1>3 DEF Frame

\* One more place of the stack
OneMoreEntry(p, q, M) ==
    /\ M \in Nat /\ Len(p.stack) = M /\ Len(q.stack) = M + 1
    /\ \A m \in 1..M : q.stack[m] = p.stack[m]
    /\ q.orphans = p.orphans
With(f, M, k) == [f EXCEPT ![M + 1] = k]

LEMMA FrameGrows ==
  ASSUME NEW p, NEW q, NEW s, NEW t, NEW at, NEW of, Frame(p, s, t, at, of),
         NEW M, OneMoreEntry(p, q, M),
         NEW k \in Nat, NEW b \in Nat, of[M] <= b,
         StackEntry(q, s, t, With(at, M, k), With(of, M, b), M + 1)
  PROVE  Frame(q, s, t, With(at, M, k), With(of, M, b))
<1> DEFINE at2 == With(at, M, k)
           of2 == With(of, M, b)
<1>0. /\ M \in Nat /\ Len(p.stack) = M /\ Len(q.stack) = M + 1
      /\ \A m \in 1..M : q.stack[m] = p.stack[m]
      /\ q.orphans = p.orphans
  BY DEF OneMoreEntry
<1>1. /\ at \in [Nat -> Nat] /\ of \in [Nat -> Nat] /\ at[0] = 0 /\ of[0] = 0
      /\ \A a, c \in 0..M : a <= c => of[a] <= of[c]
      /\ \A m \in 1..M : StackEntry(p, s, t, at, of, m)
  BY <1>0 DEF Frame
<1>2. /\ at2 \in [Nat -> Nat] /\ of2 \in [Nat -> Nat] /\ at2[M + 1] = k /\ of2[M + 1] = b
      /\ \A m \in Nat : m # M + 1 => at2[m] = at[m] /\ of2[m] = of[m]
  <2>1. M + 1 \in Nat
    BY <1>0
  <2> DEFINE j == M + 1
  <2>2. j \in Nat /\ at2 = [at EXCEPT ![j] = k] /\ of2 = [of EXCEPT ![j] = b]
    BY <2>1 DEF With
  <2> HIDE DEF j, at2, of2
  <2>3. at2 \in [Nat -> Nat] /\ at2[j] = k /\ \A m \in Nat : m # j => at2[m] = at[m]
    BY <1>1, <2>2
  <2>4. of2 \in [Nat -> Nat] /\ of2[j] = b /\ \A m \in Nat : m # j => of2[m] = of[m]
    BY <1>1, <2>2
  <2> QED BY <2>3, <2>4 DEF j
<1> HIDE DEF at2, of2
<1>3. at2[0] = 0 /\ of2[0] = 0
  <2>1. 0 \in Nat /\ 0 # M + 1
    BY <1>0
  <2> QED BY <1>1, <1>2, <2>1
<1>4. ASSUME NEW a \in 0..(M + 1), NEW c \in 0..(M + 1), a <= c PROVE of2[a] <= of2[c]
  <2>1. CASE c # M + 1
    <3>1. a \in 0..M /\ c \in 0..M /\ a # M + 1 /\ a \in Nat /\ c \in Nat
      BY <1>0, <1>4, <2>1
    <3>2. of2[a] = of[a] /\ of2[c] = of[c]
      BY <1>2, <2>1, <3>1
    <3>3. of[a] <= of[c]
      BY <1>1, <1>4, <3>1
    <3> QED BY <3>2, <3>3
  <2>2. CASE c = M + 1 /\ a # M + 1
    <3>1. a \in 0..M /\ M \in 0..M /\ a <= M /\ a \in Nat
      BY <1>0, <1>4, <2>2
    <3>2. of2[a] = of[a] /\ of2[c] = b
      BY <1>2, <2>2, <3>1
    <3>3. of[a] <= of[M] /\ of[a] \in Nat /\ of[M] \in Nat
      BY <1>1, <3>1
    <3> QED BY <3>2, <3>3
  <2>3. CASE c = M + 1 /\ a = M + 1
    BY <1>2, <2>3
  <2> QED BY <2>1, <2>2, <2>3
<1>5. ASSUME NEW m \in 1..(M + 1) PROVE StackEntry(q, s, t, at2, of2, m)
  <2>1. CASE m = M + 1
    BY <2>1 DEF at2, of2
  <2>2. CASE m # M + 1
    <3>1. m \in 1..M /\ m \in Nat \ {0} /\ m - 1 \in Nat /\ m - 1 # M + 1 /\ (m > 1 => m - 1 \in 1..M)
      BY <1>0, <2>2
    <3>2. StackEntry(p, s, t, at, of, m)
      BY <1>1, <3>1
    <3>3. at2[m] = at[m] /\ of2[m] = of[m] /\ at2[m - 1] = at[m - 1] /\ of2[m - 1] = of[m - 1]
      BY <1>2, <2>2, <3>1
    <3>4. StackEntry(p, s, t, at2, of2, m)
      BY <3>2, <3>3, Zenon DEF StackEntry
    <3>5. q.stack[m] = p.stack[m] /\ (m > 1 => q.stack[m - 1] = p.stack[m - 1])
      BY <1>0, <3>1
    <3>6. p.stack[m] \in BoolOps => q.orphans[of2[m]] = p.orphans[of2[m]]
      BY <1>0
    <3> QED BY <3>1, <3>4, <3>5, <3>6, EntryStays
  <2> QED BY <2>1, <2>2
<1>6. Frame(q, s, t, at2, of2)
  BY <1>0, <1>2, <1>3, <1>4, <1>5 DEF Frame
<1> QED BY <1>6 DEF at2, of2

LEMMA TokensAre ==
  /\ Var \in Tokens /\ LeftParenthesis \in Tokens /\ RightParenthesis \in Tokens
  /\ BoolOps \subseteq Tokens
BY DEF Tokens

-----------------------------------------------------------------------------
LEMMA LeafIs ==
  ASSUME NEW v \in Nat
  PROVE  Leaf(v + 1) \in TreeNode /\ Leaf(v + 1).op = NoOperator /\ Leaf(v + 1).var = v + 1
<1> DEFINE leaf == NoOperator
<1>1. Leaf(v + 1) = [var |-> v + 1, op |-> leaf, left |-> 0, right |-> 0]
  BY DEF Leaf
<1>2. TreeNode = [var : Nat, op : BoolOps \cup {leaf}, left : Nat, right : Nat]
  BY DEF TreeNode
<1> HIDE DEF leaf
<1>3. Leaf(v + 1) \in TreeNode /\ Leaf(v + 1).op = leaf /\ Leaf(v + 1).var = v + 1
  BY <1>1, <1>2
<1> QED BY <1>3 DEF leaf

\* A leaf is one orphan more.
LEMMA LeafSound ==
  ASSUME NEW p, NEW v, Sound(p, v), NEW q \in Parsers,
         q.nodes = Append(p.nodes, Leaf(LeafCount(p.nodes) + 1)),
         q.orphans = Append(p.orphans, Len(p.nodes) + 1),
         q.root = p.root, q.stack = p.stack
  PROVE  /\ Sound(q, v + 1)
         /\ q.nodes = Append(p.nodes, Leaf(v + 1))
         /\ Len(q.orphans) = Len(p.orphans) + 1 /\ q.orphans[Len(p.orphans) + 1] = Len(p.nodes) + 1
         /\ \A a \in 1..Len(p.orphans) : q.orphans[a] = p.orphans[a]
         /\ Len(q.nodes) = Len(p.nodes) + 1 /\ q.nodes[Len(p.nodes) + 1] = Leaf(v + 1)
         /\ GoesOnAfter(p.nodes, q.nodes) /\ v \in Nat
<1> DEFINE N == Len(p.orphans)
           new == Len(p.nodes) + 1
           node == Leaf(v + 1)
<1>0. /\ p \in Parsers /\ IsTree(p.nodes) /\ LeafCount(p.nodes) = v
      /\ \A a \in DOMAIN p.orphans : p.orphans[a] \in DOMAIN p.nodes
      /\ \A a, b \in DOMAIN p.orphans : a # b => p.orphans[a] # p.orphans[b]
      /\ p.nodes # <<>> => p.orphans # <<>>
      /\ p.root = IF p.nodes = <<>> THEN 1 ELSE p.orphans[1]
  BY DEF Sound
<1>1. /\ p.nodes \in Seq(TreeNode) /\ p.orphans \in Seq(Nat) /\ p.root \in Nat /\ p.stack \in Seq(Tokens)
      /\ Len(p.nodes) \in Nat /\ N \in Nat /\ DOMAIN p.orphans = 1..N /\ DOMAIN p.nodes = 1..Len(p.nodes)
  BY <1>0, ParserTyped
<1>2. v \in Nat
  <2>1. DOMAIN p.nodes = 1..Len(p.nodes)
    BY <1>1
  <2>2. IsFiniteSet(1..Len(p.nodes))
    <3>1. 1 \in Int /\ Len(p.nodes) \in Int
      BY <1>1
    <3> QED BY <3>1, FS_Interval
  <2>3. {i \in DOMAIN p.nodes : p.nodes[i].op = NoOperator} \subseteq 1..Len(p.nodes)
    BY <2>1
  <2>4. Cardinality({i \in DOMAIN p.nodes : p.nodes[i].op = NoOperator}) \in Nat
    BY <2>2, <2>3, FS_Subset, FS_CardinalityType
  <2> QED BY <1>0, <2>4 DEF LeafCount
<1>3. node \in TreeNode /\ node.op = NoOperator
  BY <1>2, LeafIs
<1>4. /\ q.nodes = Append(p.nodes, node) /\ q.orphans = Append(p.orphans, new)
      /\ q.root = p.root /\ q.stack = p.stack
      /\ q \in Parsers
  BY <1>0
<1> HIDE DEF node
<1>5. /\ IsTree(q.nodes) /\ Len(q.nodes) = new /\ q.nodes[new] = node
      /\ \A m \in 1..Len(p.nodes) : q.nodes[m] = p.nodes[m]
      /\ LeafCount(q.nodes) = v + 1
  BY <1>0, <1>3, <1>4, TreeGrows
<1>6. /\ Len(q.orphans) = N + 1 /\ q.orphans[N + 1] = new
      /\ \A a \in 1..N : q.orphans[a] = p.orphans[a]
  <2> HIDE DEF new
  <2> QED BY <1>1, <1>4
<1>7. DOMAIN q.orphans = 1..(N + 1) /\ DOMAIN q.nodes = 1..new
  BY <1>4, <1>5, <1>6, ParserTyped
<1>8. ASSUME NEW a \in 1..(N + 1)
      PROVE  q.orphans[a] \in DOMAIN q.nodes
             /\ (a # N + 1 => a \in 1..N /\ q.orphans[a] = p.orphans[a] /\ q.orphans[a] \in 1..Len(p.nodes))
  <2>1. CASE a = N + 1
    <3>1. new \in 1..new
      BY <1>1
    <3> QED BY <1>6, <1>7, <2>1, <3>1
  <2>2. CASE a # N + 1
    <3>1. a \in 1..N
      BY <1>1, <2>2
    <3>2. q.orphans[a] = p.orphans[a] /\ p.orphans[a] \in 1..Len(p.nodes)
      BY <1>0, <1>1, <1>6, <3>1
    <3>3. q.orphans[a] \in 1..new
      BY <1>1, <3>2, SMTT(40)
    <3> QED BY <1>7, <3>1, <3>2, <3>3
  <2> QED BY <2>1, <2>2
<1>9. ASSUME NEW a \in 1..(N + 1), NEW b \in 1..(N + 1), a < b PROVE q.orphans[a] # q.orphans[b]
  <2>1. a # N + 1
    BY <1>1, <1>9
  <2>2. a \in 1..N /\ q.orphans[a] = p.orphans[a] /\ q.orphans[a] \in 1..Len(p.nodes)
    BY <1>8, <2>1
  <2>3. CASE b = N + 1
    <3>1. new \notin 1..Len(p.nodes)
      BY <1>1
    <3> QED BY <1>6, <2>2, <2>3, <3>1
  <2>4. CASE b # N + 1
    <3>1. b \in 1..N /\ q.orphans[b] = p.orphans[b] /\ a # b
      BY <1>8, <1>9, <2>4
    <3> QED BY <1>0, <1>1, <2>2, <3>1
  <2> QED BY <2>3, <2>4
<1>10. \A a, b \in 1..(N + 1) : a # b => q.orphans[a] # q.orphans[b]
  <2> TAKE a, b \in 1..(N + 1)
  <2>1. a # b => a < b \/ b < a
    BY <1>1
  <2> QED BY <1>9, <2>1
<1>11. q.root = q.orphans[1] /\ q.nodes # <<>> /\ q.orphans # <<>>
  <2>1. q.nodes # <<>> /\ q.orphans # <<>>
    <3>1. Len(q.nodes) # 0 /\ Len(q.orphans) # 0
      BY <1>1, <1>5, <1>6
    <3>2. Len(<<>>) = 0
      OBVIOUS
    <3> QED BY <3>1, <3>2, Zenon
  <2>2. CASE p.nodes = <<>>
    <3>1. Len(p.nodes) = 0
      BY <2>2
    <3>2. N = 0
      <4> SUFFICES ASSUME N # 0 PROVE FALSE
        OBVIOUS
      <4>1. 1 \in 1..N
        BY <1>1
      <4>2. p.orphans[1] \in 1..Len(p.nodes)
        BY <1>0, <1>1, <4>1
      <4> QED BY <3>1, <4>2
    <3>3. q.orphans[1] = 1
      BY <1>6, <3>1, <3>2
    <3> QED BY <1>0, <1>4, <2>1, <2>2, <3>3
  <2>3. CASE p.nodes # <<>>
    <3>1. p.orphans # <<>>
      BY <1>0, <2>3
    <3>2. 1 \in 1..N
      BY <1>1, <3>1
    <3> QED BY <1>0, <1>4, <1>6, <2>1, <2>3, <3>2
  <2> QED BY <2>2, <2>3
<1>12. Sound(q, v + 1)
  BY <1>4, <1>5, <1>7, <1>8, <1>10, <1>11 DEF Sound
<1>13. GoesOnAfter(p.nodes, q.nodes)
  BY <1>1, <1>5 DEF GoesOnAfter
<1> QED BY <1>2, <1>4, <1>5, <1>6, <1>12, <1>13 DEF node

LEMMA ParsesParts ==
  ASSUME NEW p, NEW u, NEW expects, NEW lev, Parses(p, u, expects, lev)
  PROVE  /\ u \in Seq(Tokens) /\ p \in Parsers /\ lev \in Nat
         /\ Len(u) \in Nat /\ Len(p.stack) \in Nat /\ Len(p.nodes) \in Nat /\ Len(p.orphans) \in Nat
         /\ p.stack \in Seq(Tokens)
         /\ Sound(p, Count(u, Var, 1, Len(u))) /\ IsTree(p.nodes)
         /\ lev = Count(p.stack, LeftParenthesis, 1, Len(p.stack))
         /\ lev = Depth(u, 1, Len(u)) /\ lev <= Len(u)
         /\ u = <<>> <=> p.nodes = <<>> /\ p.stack = <<>>
         /\ expects <=> u # <<>> /\ EndsOperand(Last(u))
         /\ expects => Understands(p, u, BoolOps)
         /\ ~expects => Awaits(p, u)
<1>1. u \in Seq(Tokens) /\ p \in Parsers /\ lev \in Nat /\ Counts(p, u, lev) /\ expects \in BOOLEAN
  BY DEF Parses
<1>2. /\ u = <<>> <=> p.nodes = <<>> /\ p.stack = <<>>
      /\ expects <=> u # <<>> /\ EndsOperand(Last(u))
      /\ expects => Understands(p, u, BoolOps)
      /\ ~expects => Awaits(p, u)
  BY Zenon DEF Parses
<1>3. /\ Sound(p, Count(u, Var, 1, Len(u)))
      /\ lev = Count(p.stack, LeftParenthesis, 1, Len(p.stack))
      /\ lev = Depth(u, 1, Len(u)) /\ lev <= Len(u)
  BY <1>1 DEF Counts
<1>4. IsTree(p.nodes)
  BY <1>3 DEF Sound
<1>5. Len(u) \in Nat /\ Len(p.stack) \in Nat /\ Len(p.nodes) \in Nat /\ Len(p.orphans) \in Nat /\ p.stack \in Seq(Tokens)
  BY <1>1, ParserTyped
<1> QED BY <1>1, <1>2, <1>3, <1>4, <1>5

\* The last token of a text
LEMMA LastOne ==
  ASSUME NEW u \in Seq(Tokens), NEW x \in Tokens
  PROVE  /\ Append(u, x) \in Seq(Tokens) /\ Len(Append(u, x)) = Len(u) + 1
         /\ Last(Append(u, x)) = x /\ Append(u, x) # <<>>
<1>1. Append(u, x) \in Seq(Tokens) /\ Len(Append(u, x)) = Len(u) + 1 /\ Append(u, x)[Len(u) + 1] = x /\ Len(u) \in Nat
  OBVIOUS
<1>2. Last(Append(u, x)) = x
  BY <1>1, Zenon DEF Last
<1>3. Append(u, x) # <<>>
  <2>1. Len(Append(u, x)) # 0 /\ Len(<<>>) = 0
    BY <1>1
  <2> QED BY <2>1, Zenon
<1> QED BY <1>1, <1>2, <1>3

LEMMA VariableRead ==
  ASSUME NEW p, NEW u, NEW lev, Parses(p, u, FALSE, lev), NEW q \in Parsers,
         q.nodes = Append(p.nodes, Leaf(LeafCount(p.nodes) + 1)),
         q.orphans = Append(p.orphans, Len(p.nodes) + 1),
         q.root = p.root, q.stack = p.stack
  PROVE  Parses(q, Append(u, Var), TRUE, lev)
<1> DEFINE w == Append(u, Var)
           n == Len(u)
           v == Count(u, Var, 1, n)
           new == Len(p.nodes) + 1
<1>1. /\ u \in Seq(Tokens) /\ p \in Parsers /\ lev \in Nat
      /\ n \in Nat /\ Len(p.stack) \in Nat /\ Len(p.nodes) \in Nat /\ Len(p.orphans) \in Nat
      /\ Sound(p, v) /\ lev = Count(p.stack, LeftParenthesis, 1, Len(p.stack))
      /\ lev = Depth(u, 1, n) /\ lev <= n
      /\ Awaits(p, u)
  BY ParsesParts
<1>2. w \in Seq(Tokens) /\ Len(w) = n + 1 /\ Last(w) = Var /\ w # <<>> /\ Var \in Tokens
  BY <1>1, LastOne, TokensAre
<1>3. v \in Nat /\ Count(w, Var, 1, n + 1) = v + 1
  BY <1>1, <1>2, CountGrows
<1>4. /\ Sound(q, v + 1)
      /\ q.nodes = Append(p.nodes, Leaf(v + 1))
      /\ Len(q.orphans) = Len(p.orphans) + 1 /\ q.orphans[Len(p.orphans) + 1] = new
      /\ \A a \in 1..Len(p.orphans) : q.orphans[a] = p.orphans[a]
      /\ Len(q.nodes) = new /\ q.nodes[new] = Leaf(v + 1)
      /\ GoesOnAfter(p.nodes, q.nodes)
  <2>1. Sound(p, v)
    BY <1>1
  <2> HIDE DEF v, n
  <2> QED BY <2>1, LeafSound, ZenonT(40)
<1>5. lev = Depth(w, 1, n + 1)
  <2>1. Var # LeftParenthesis /\ Var # RightParenthesis
    BY TokensAreDifferent
  <2>2. Depth(w, 1, n + 1) = Depth(u, 1, n) + (IF Var = LeftParenthesis THEN 1 ELSE IF Var = RightParenthesis THEN -1 ELSE 0)
    BY <1>1, <1>2, DepthGrows
  <2> QED BY <1>1, <2>1, <2>2
<1>6. ASSUME NEW s \in Seq(Tokens), NEW t, GoesOnAfter(w, s), IsTree(t), GoesOnAfter(q.nodes, t)
      PROVE  Closed(q, s, t, n + 1, BoolOps)
  <2>1. /\ GoesOnAfter(u, s) /\ s[n + 1] = Var /\ n + 1 \in 1..Len(s)
        /\ Count(s, Var, 1, n) = v
    BY <1>1, <1>2, <1>6, GoesOnMore
  <2>2. Len(t) \in Nat /\ DOMAIN t = 1..Len(t)
    BY <1>6, TreeIs
  <2>3. GoesOnAfter(p.nodes, t)
    BY <1>1, <1>4, <1>6, <2>2, GoesOnTwice
  <2>4. Open(p, s, t, n)
    BY <1>1, <1>6, <2>1, <2>3, Zenon DEF Awaits
  <2>5. PICK at, of : Frame(p, s, t, at, of) /\ Len(p.orphans) = of[Len(p.stack)] /\ at[Len(p.stack)] = n
    BY <2>4, Zenon DEF Open
  <2> DEFINE M == Len(p.stack)
  <2>6. Frame(q, s, t, at, of)
    <3>1. M \in 0..Len(p.stack) /\ Len(q.stack) = M /\ (\A m \in 1..M : q.stack[m] = p.stack[m])
      BY <1>1
    <3>2. \A b \in 1..of[M] : q.orphans[b] = p.orphans[b]
      BY <1>4, <2>5
    <3> HIDE DEF M
    <3> QED BY <1>1, <2>5, <3>1, <3>2, FrameShrinks
  <2>7. new \in DOMAIN t /\ t[new] = Leaf(v + 1)
    <3>1. new \in 1..new /\ new <= Len(t)
      BY <1>1, <1>4, <1>6 DEF GoesOnAfter
    <3> HIDE DEF new
    <3>2. new \in 1..Len(q.nodes)
      BY <1>4, <3>1
    <3>3. t[new] = q.nodes[new]
      BY <1>6, <3>2 DEF GoesOnAfter
    <3> QED BY <1>4, <2>2, <3>1, <3>3
  <2>8. Count(s, Var, 1, n + 1) = v + 1
    <3> DEFINE k == n + 1
    <3>1. n \in Int /\ 1 \in Int /\ k \in Int /\ 1 <= n + 1 /\ n <= k /\ k = n + 1
      BY <1>1
    <3> HIDE DEF k, n
    <3>2. Count(s, Var, 1, k) = Count(s, Var, 1, n) + Count(s, Var, n + 1, k)
      BY <3>1, CountSplits
    <3>3. Count(s, Var, k, k) = 1
      BY <2>1, <3>1, CountOne
    <3> QED BY <2>1, <3>1, <3>2, <3>3
  <2>9. Operand(s, t, new, n + 1, n + 1) /\ NoCuts(s, n + 1, n + 1)
    <3> DEFINE k == n + 1
    <3>1. t[new].op = NoOperator /\ t[new].var = v + 1
      BY <1>3, <2>7, LeafIs
    <3>2. s[k] = Var /\ k \in 1..Len(s) /\ t[new].var = Count(s, Var, 1, k)
      BY <2>1, <2>8, <3>1
    <3> HIDE DEF k, new
    <3>3. Operand(s, t, new, k, k) /\ NoCuts(s, k, k)
      BY <1>6, <2>7, <3>1, <3>2, OperandOne
    <3> QED BY <3>3 DEF k
  <2>10. /\ Len(q.stack) = M /\ at[M] + 1 = n + 1 /\ Len(q.orphans) = of[M] + 1
         /\ q.orphans[of[M] + 1] = new
    BY <1>4, <2>5
  <2>11. /\ Operand(s, t, q.orphans[of[M] + 1], at[M] + 1, n + 1)
         /\ \A o \in BoolOps : Cuts(s, at[M] + 1, n + 1, o) = {}
    BY <2>9, <2>10 DEF NoCuts
  <2> HIDE DEF M
  <2> QED BY <2>6, <2>10, <2>11, Zenon DEF Closed
<1>7. Understands(q, w, BoolOps)
  BY <1>2, <1>6 DEF Understands
<1>8. Counts(q, w, lev)
  <2>1. Sound(q, Count(w, Var, 1, Len(w)))
    BY <1>2, <1>3, <1>4
  <2>2. lev = Depth(w, 1, Len(w)) /\ lev <= Len(w) /\ lev = Count(q.stack, LeftParenthesis, 1, Len(q.stack))
    BY <1>1, <1>2, <1>5
  <2> QED BY <2>1, <2>2 DEF Counts
<1>9. q.nodes # <<>>
  <2>1. Len(q.nodes) # 0
    BY <1>1, <1>4
  <2>2. Len(<<>>) = 0
    OBVIOUS
  <2> QED BY <2>1, <2>2, Zenon
<1>10. EndsOperand(Last(w))
  BY <1>2, StartsOrEnds
<1> HIDE DEF w
<1>11. Parses(q, w, TRUE, lev)
  BY <1>1, <1>2, <1>7, <1>8, <1>9, <1>10 DEF Parses
<1> QED BY <1>11 DEF w

LEMMA LeftRead ==
  ASSUME NEW p, NEW u, NEW lev, Parses(p, u, FALSE, lev), NEW q \in Parsers,
         q.nodes = p.nodes, q.orphans = p.orphans, q.root = p.root,
         q.stack = Append(p.stack, LeftParenthesis)
  PROVE  Parses(q, Append(u, LeftParenthesis), FALSE, lev + 1)
<1> DEFINE x == LeftParenthesis
           w == Append(u, x)
           n == Len(u)
           M == Len(p.stack)
           v == Count(u, Var, 1, n)
<1>1. /\ u \in Seq(Tokens) /\ p \in Parsers /\ lev \in Nat
      /\ n \in Nat /\ M \in Nat /\ Len(p.nodes) \in Nat /\ p.stack \in Seq(Tokens)
      /\ Sound(p, v) /\ lev = Count(p.stack, x, 1, M)
      /\ lev = Depth(u, 1, n) /\ lev <= n
      /\ Awaits(p, u)
  BY ParsesParts
<1>2. x \in Tokens /\ x # Var /\ x # RightParenthesis
  BY TokensAre, TokensAreDifferent
<1>3. w \in Seq(Tokens) /\ Len(w) = n + 1 /\ Last(w) = x /\ w # <<>>
  BY <1>1, <1>2, LastOne
<1>4. v \in Nat /\ Count(w, Var, 1, n + 1) = v
  <2>1. v \in Nat /\ Count(w, Var, 1, n + 1) = v + (IF x = Var THEN 1 ELSE 0)
    BY <1>1, <1>2, CountGrows
  <2> QED BY <1>2, <2>1
<1>5. Len(q.stack) = M + 1 /\ q.stack[M + 1] = x /\ (\A m \in 1..M : q.stack[m] = p.stack[m])
      /\ Count(q.stack, x, 1, M + 1) = lev + 1
  <2>1. Count(q.stack, x, 1, M + 1) = lev + (IF x = x THEN 1 ELSE 0)
    BY <1>1, <1>2, CountGrows
  <2>2. Len(q.stack) = M + 1 /\ q.stack[M + 1] = x /\ (\A m \in 1..M : q.stack[m] = p.stack[m])
    BY <1>1, <1>2, CountGrows
  <2> QED BY <2>1, <2>2
<1>6. lev + 1 = Depth(w, 1, n + 1)
  <2>1. Depth(w, 1, n + 1) = Depth(u, 1, n) + (IF x = LeftParenthesis THEN 1 ELSE IF x = RightParenthesis THEN -1 ELSE 0)
    BY <1>1, <1>2, DepthGrows
  <2> QED BY <1>1, <2>1
<1>7. Sound(q, v)
  BY <1>1 DEF Sound
<1>8. ASSUME NEW s \in Seq(Tokens), NEW t, GoesOnAfter(w, s), IsTree(t), GoesOnAfter(q.nodes, t)
      PROVE  Open(q, s, t, n + 1)
  <2>1. GoesOnAfter(u, s) /\ s[n + 1] = x
    BY <1>1, <1>2, <1>8, GoesOnMore
  <2>2. GoesOnAfter(p.nodes, t)
    BY <1>8
  <2>3. Open(p, s, t, n)
    BY <1>1, <1>8, <2>1, <2>2, Zenon DEF Awaits
  <2>4. PICK at, of : Frame(p, s, t, at, of) /\ Len(p.orphans) = of[M] /\ at[M] = n
    BY <2>3, Zenon DEF Open
  <2>5. at \in [Nat -> Nat] /\ of \in [Nat -> Nat]
    BY <2>4 DEF Frame
  <2> DEFINE b == of[M]
             k == n + 1
             j == M + 1
             at2 == [at EXCEPT ![j] = k]
             of2 == [of EXCEPT ![j] = b]
  <2>6. b \in Nat /\ k \in Nat /\ j \in Nat /\ j - 1 = M /\ M # j /\ M \in Nat
    <3>1. M \in Nat /\ n \in Nat
      BY <1>1
    <3> HIDE DEF M, n
    <3>2. b \in Nat
      BY <2>5, <3>1
    <3> QED BY <3>1, <3>2
  <2>7. at2[j] = k /\ of2[j] = b /\ at2[M] = n /\ of2[M] = b
    <3>0. at[M] = n /\ of[M] = b
      BY <2>4
    <3> HIDE DEF b, k, j, n
    <3> QED BY <2>4, <2>5, <2>6, <3>0
  <2>8. StackEntry(q, s, t, at2, of2, j)
    <3>1. q.stack[j] = x /\ s[k] = x /\ k = n + 1
      BY <1>5, <2>1
    <3> HIDE DEF at2, of2, j, k
    <3> QED BY <2>6, <2>7, <3>1, Zenon DEF StackEntry
  <2>9. Frame(q, s, t, at2, of2)
    <3>1. OneMoreEntry(p, q, M)
      BY <1>1, <1>5 DEF OneMoreEntry
    <3>2. of[M] <= b
      BY <2>6
    <3>3. StackEntry(q, s, t, With(at, M, k), With(of, M, b), M + 1) /\ at2 = With(at, M, k) /\ of2 = With(of, M, b)
      BY <2>8 DEF With
    <3> HIDE DEF M, b, k, at2, of2, j
    <3>4. Frame(q, s, t, With(at, M, k), With(of, M, b))
      BY <2>4, <2>6, <3>1, <3>2, <3>3, FrameGrows
    <3> QED BY <3>3, <3>4
  <2>10. Len(q.stack) = j /\ Len(q.orphans) = of2[j] /\ at2[j] = n + 1
    BY <1>5, <2>4, <2>7
  <2> HIDE DEF at2, of2, j, k, b
  <2> QED BY <2>9, <2>10, Zenon DEF Open
<1>9. Awaits(q, w)
  BY <1>3, <1>8 DEF Awaits
<1>10. Counts(q, w, lev + 1)
  <2>1. Sound(q, Count(w, Var, 1, Len(w)))
    BY <1>3, <1>4, <1>7
  <2>2. lev + 1 = Depth(w, 1, Len(w)) /\ lev + 1 <= Len(w) /\ lev + 1 = Count(q.stack, LeftParenthesis, 1, Len(q.stack))
    BY <1>1, <1>3, <1>5, <1>6
  <2> QED BY <2>1, <2>2 DEF Counts
<1>11. q.stack # <<>>
  <2>1. Len(q.stack) # 0
    BY <1>1, <1>5
  <2>2. Len(<<>>) = 0
    OBVIOUS
  <2> QED BY <2>1, <2>2, Zenon
<1>12. ~EndsOperand(Last(w))
  BY <1>3, StartsOrEnds
<1>13. lev + 1 \in Nat
  BY <1>1
<1> DEFINE lev2 == lev + 1
<1> HIDE DEF w, lev2
<1>14. Parses(q, w, FALSE, lev2)
  BY <1>3, <1>9, <1>10, <1>11, <1>12, <1>13 DEF Parses, lev2
<1> QED BY <1>14 DEF w, lev2

LEMMA CountZero ==
  ASSUME NEW s, NEW token, NEW i \in Int, NEW j \in Int, \A m \in i..j : s[m] # token
  PROVE  Count(s, token, i, j) = 0
<1>1. {m \in i..j : s[m] = token} = {}
  OBVIOUS
<1>2. Count(s, token, i, j) = Cardinality({})
  BY <1>1, Zenon DEF Count
<1> QED BY <1>2, FS_EmptySet

\* What is popped has no parentheses.
LEMMA CountBelow ==
  ASSUME NEW a, NEW b, NEW token, NEW h \in Nat, NEW M \in Nat, h <= M,
         \A m \in 1..h : b[m] = a[m], \A m \in (h + 1)..M : a[m] # token
  PROVE  Count(b, token, 1, h) = Count(a, token, 1, M)
<1>1. 1 \in Int /\ h \in Int /\ M \in Int /\ h + 1 \in Int /\ 1 <= h + 1 /\ h <= M
  OBVIOUS
<1>2. Count(a, token, 1, M) = Count(a, token, 1, h) + Count(a, token, h + 1, M)
  BY <1>1, CountSplits
<1>3. Count(a, token, h + 1, M) = 0
  BY <1>1, CountZero
<1>4. Count(a, token, 1, h) \in Nat
  BY <1>1, CountIs, Zenon
<1>5. Count(b, token, 1, h) = Count(a, token, 1, h)
  BY <1>1, CountSame
<1> QED BY <1>2, <1>3, <1>4, <1>5

LEMMA ParenthesisEntry ==
  ASSUME NEW p, NEW s, NEW t, NEW at, NEW of, NEW m, StackEntry(p, s, t, at, of, m), p.stack[m] = LeftParenthesis
  PROVE  s[at[m]] = LeftParenthesis /\ at[m] = at[m - 1] + 1 /\ of[m] = of[m - 1]
<1>1. p.stack[m] \notin BoolOps
  BY TokensAreDifferent
<1> QED BY <1>1, Zenon DEF StackEntry

LEMMA WaitingIs ==
  ASSUME NEW p \in Parsers, NEW u \in Seq(Tokens), IsTree(p.nodes), NEW free, Understands(p, u, free),
         NEW m \in 1..Len(p.stack)
  PROVE  p.stack[m] \in BoolOps \cup {LeftParenthesis}
<1>1. Len(p.stack) \in Nat /\ Len(p.nodes) \in Nat /\ Len(u) \in Nat
  BY ParserTyped
<1>2. Closed(p, u, p.nodes, Len(u), free)
  BY <1>1, GoesOnSame, Zenon DEF Understands
<1>3. PICK at, of : Frame(p, u, p.nodes, at, of)
  BY <1>2, Zenon DEF Closed
<1> QED BY <1>1, <1>3, BelowIt

LEMMA UnderstandsLess ==
  ASSUME NEW p, NEW u, NEW free, Understands(p, u, free), NEW less \in SUBSET free
  PROVE  Understands(p, u, less)
<1> SUFFICES ASSUME NEW s \in Seq(Tokens), NEW t, GoesOnAfter(u, s), IsTree(t), GoesOnAfter(p.nodes, t)
             PROVE  Closed(p, s, t, Len(u), less)
  BY Zenon DEF Understands
<1>1. Closed(p, s, t, Len(u), free)
  BY Zenon DEF Understands
<1> QED BY <1>1, Zenon DEF Closed

-----------------------------------------------------------------------------
\* The stack of a parser, popped to height h, where no parenthesis is popped
Lowered(p, u, lev, d, h) ==
    /\ h \in 0..Len(p.stack) /\ d \in Parsers /\ Sound(d, Count(u, Var, 1, Len(u))) /\ Len(d.stack) = h
    /\ \A m \in 1..h : d.stack[m] = p.stack[m]
    /\ Understands(d, u, Uncut(d, Len(p.stack)))
    /\ Count(d.stack, LeftParenthesis, 1, h) = lev

LEMMA LoweredIs ==
  ASSUME NEW p, NEW u, NEW lev, Parses(p, u, TRUE, lev),
         NEW h \in 0..Len(p.stack), \A m \in (h + 1)..Len(p.stack) : p.stack[m] \in BoolOps
  PROVE  Lowered(p, u, lev, PoppedTo(p, h), h)
<1> DEFINE d == PoppedTo(p, h)
           M == Len(p.stack)
           v == Count(u, Var, 1, Len(u))
<1>1. /\ u \in Seq(Tokens) /\ p \in Parsers /\ M \in Nat
      /\ Sound(p, v) /\ lev = Count(p.stack, LeftParenthesis, 1, M)
      /\ Understands(p, u, BoolOps)
  BY ParsesParts
<1>2. /\ d \in Parsers /\ Sound(d, v) /\ Len(d.stack) = h
      /\ \A m \in 1..h : d.stack[m] = p.stack[m]
      /\ Understands(d, u, Uncut(d, M))
  <2> HIDE DEF v
  <2> QED BY <1>1, PoppedToIs
<1> HIDE DEF d, v
<1>3. Count(d.stack, LeftParenthesis, 1, h) = lev
  <2> DEFINE x == LeftParenthesis
  <2>1. \A m \in (h + 1)..M : p.stack[m] # x
    BY TokensAreDifferent
  <2>2. h \in Nat /\ h <= M /\ M \in Nat
    BY <1>1
  <2> DEFINE a == p.stack
             b == d.stack
  <2>4. (\A m \in 1..h : b[m] = a[m]) /\ \A m \in (h + 1)..M : a[m] # x
    BY <1>2, <2>1
  <2>3. Count(b, x, 1, h) = Count(a, x, 1, M)
    <3> HIDE DEF x, M, a, b
    <3> QED BY <2>2, <2>4, CountBelow
  <2> QED BY <1>1, <2>3 DEF x
<1>4. Lowered(p, u, lev, d, h)
  BY <1>2, <1>3 DEF Lowered, v
<1> QED BY <1>4 DEF d

LEMMA PoppedWhileIs ==
  ASSUME NEW p, NEW u, NEW lev, Parses(p, u, TRUE, lev), NEW o \in BoolOps
  PROVE  \E h : /\ Lowered(p, u, lev, PoppedWhile(p, o), h)
                /\ o = LogicalOr => h = Len(p.stack)
                /\ o = LogicalAnd /\ h > 0 => p.stack[h] # LogicalOr
<1> DEFINE S == {i \in DOMAIN p.stack : ~LessOp(o, p.stack[i])}
           h == Max({0} \cup S)
           M == Len(p.stack)
<1>1. p \in Parsers /\ M \in Nat /\ DOMAIN p.stack = 1..M
  BY ParsesParts, ParserTyped
<1>2. h \in 0..M /\ (h > 0 => h \in S) /\ \A m \in (h + 1)..M : m \notin S
  <2>1. S \subseteq DOMAIN p.stack
    OBVIOUS
  <2> HIDE DEF S
  <2> QED BY <1>1, <2>1, HeightIs
<1>3. PoppedWhile(p, o) = PoppedTo(p, h)
  BY DEF PoppedWhile
<1> HIDE DEF h
<1>4. ASSUME NEW m \in (h + 1)..M PROVE o = LogicalAnd /\ p.stack[m] = LogicalOr
  <2>1. m \in 1..M
    BY <1>1, <1>2
  <2>2. LessOp(o, p.stack[m])
    BY <1>1, <1>2, <2>1
  <2> QED BY <2>2 DEF LessOp
<1>5. \A m \in (h + 1)..M : p.stack[m] \in BoolOps
  BY <1>4 DEF BoolOps
<1>6. Lowered(p, u, lev, PoppedTo(p, h), h)
  BY <1>2, <1>5, LoweredIs
<1>7. o = LogicalOr => h = M
  <2> SUFFICES ASSUME h # M PROVE o # LogicalOr
    OBVIOUS
  <2>1. M \in (h + 1)..M
    BY <1>1, <1>2
  <2> QED BY <1>4, <2>1, TokensAreDifferent
<1>8. o = LogicalAnd /\ h > 0 => p.stack[h] # LogicalOr
  BY <1>2 DEF LessOp
<1> QED BY <1>3, <1>6, <1>7, <1>8

LEMMA PoppedToParenthesisIs ==
  ASSUME NEW p, NEW u, NEW lev, Parses(p, u, TRUE, lev)
  PROVE  \E h : /\ Lowered(p, u, lev, PoppedToParenthesis(p), h)
                /\ h > 0 => p.stack[h] = LeftParenthesis
                /\ h > 0 <=> lev > 0
<1> DEFINE S == {i \in DOMAIN p.stack : p.stack[i] = LeftParenthesis}
           h == Max({0} \cup S)
           M == Len(p.stack)
<1>1. /\ p \in Parsers /\ M \in Nat /\ DOMAIN p.stack = 1..M /\ u \in Seq(Tokens) /\ IsTree(p.nodes)
      /\ Understands(p, u, BoolOps) /\ lev \in Nat
  BY ParsesParts, ParserTyped
<1>2. h \in 0..M /\ (h > 0 => h \in S) /\ \A m \in (h + 1)..M : m \notin S
  <2>1. S \subseteq DOMAIN p.stack
    OBVIOUS
  <2> HIDE DEF S
  <2> QED BY <1>1, <2>1, HeightIs
<1>3. PoppedToParenthesis(p) = PoppedTo(p, h)
  BY DEF PoppedToParenthesis
<1> HIDE DEF h
<1>4. ASSUME NEW m \in (h + 1)..M PROVE p.stack[m] \in BoolOps
  <2>1. m \in 1..M
    BY <1>1, <1>2
  <2>2. p.stack[m] # LeftParenthesis
    BY <1>1, <1>2, <2>1
  <2>3. p.stack[m] \in BoolOps \cup {LeftParenthesis}
    BY <1>1, <2>1, WaitingIs
  <2> QED BY <2>2, <2>3
<1>6. Lowered(p, u, lev, PoppedTo(p, h), h)
  BY <1>2, <1>4, LoweredIs
<1>7. h > 0 => p.stack[h] = LeftParenthesis
  BY <1>2
<1>8. h > 0 <=> lev > 0
  <2> DEFINE d == PoppedTo(p, h)
             x == LeftParenthesis
  <2>1. Count(d.stack, x, 1, h) = lev /\ \A m \in 1..h : d.stack[m] = p.stack[m]
    BY <1>6 DEF Lowered
  <2>2. CASE h = 0
    <3>1. Count(d.stack, x, 1, 0) = 0
      BY CountNone
    <3> QED BY <2>1, <2>2, <3>1
  <2>3. CASE h # 0
    <3> DEFINE k == h - 1
    <3>1. k \in Nat /\ 1 \in Int /\ k \in Int /\ h \in Int /\ 1 <= k + 1 /\ k <= h /\ k + 1 = h /\ h \in 1..h /\ h > 0
      BY <1>2, <2>3
    <3>2. d.stack[h] = x
      BY <1>7, <2>1, <3>1
    <3> HIDE DEF k, d, x
    <3>3. Count(d.stack, x, 1, h) = Count(d.stack, x, 1, k) + Count(d.stack, x, k + 1, h)
      BY <3>1, CountSplits
    <3>4. Count(d.stack, x, h, h) = 1
      BY <3>1, <3>2, CountOne
    <3>5. Count(d.stack, x, 1, k) \in Nat
      BY <3>1, CountIs, Zenon
    <3>6. lev > 0
      BY <2>1, <3>1, <3>3, <3>4, <3>5
    <3> QED BY <3>1, <3>6
  <2> QED BY <2>2, <2>3
<1> QED BY <1>3, <1>6, <1>7, <1>8

LEMMA LoweredParts ==
  ASSUME NEW p, NEW u, NEW lev, NEW d, NEW h, Lowered(p, u, lev, d, h), Len(p.stack) \in Nat
  PROVE  /\ h \in Nat /\ h <= Len(p.stack) /\ d \in Parsers /\ Sound(d, Count(u, Var, 1, Len(u)))
         /\ Len(d.stack) = h /\ d.stack \in Seq(Tokens) /\ IsTree(d.nodes)
         /\ \A m \in 1..h : d.stack[m] = p.stack[m]
         /\ Understands(d, u, Uncut(d, Len(p.stack)))
         /\ Count(d.stack, LeftParenthesis, 1, h) = lev
<1>1. /\ h \in 0..Len(p.stack) /\ d \in Parsers /\ Sound(d, Count(u, Var, 1, Len(u))) /\ Len(d.stack) = h
      /\ \A m \in 1..h : d.stack[m] = p.stack[m]
      /\ Understands(d, u, Uncut(d, Len(p.stack)))
      /\ Count(d.stack, LeftParenthesis, 1, h) = lev
  BY DEF Lowered
<1>2. d.stack \in Seq(Tokens)
  BY <1>1, ParserTyped
<1>3. IsTree(d.nodes)
  BY <1>1 DEF Sound
<1> QED BY <1>1, <1>2, <1>3

\* The operator waits for its second operand.
LEMMA OperatorWaits ==
  ASSUME NEW d, NEW q, NEW h, OneMoreEntry(d, q, h), NEW o \in BoolOps, q.stack[h + 1] = o,
         NEW s, NEW t, NEW n \in Nat, s[n + 1] = o, NEW free, Closed(d, s, t, n, free),
         o = LogicalOr => LogicalAnd \in free,
         o = LogicalAnd /\ h > 0 => q.stack[h] # LogicalOr
  PROVE  Open(q, s, t, n + 1)
<1>0. /\ h \in Nat /\ Len(d.stack) = h /\ Len(q.stack) = h + 1 /\ q.orphans = d.orphans
  BY DEF OneMoreEntry
<1>1. PICK at, of : /\ Frame(d, s, t, at, of)
                    /\ Len(d.orphans) = of[h] + 1
                    /\ Operand(s, t, d.orphans[of[h] + 1], at[h] + 1, n)
                    /\ \A x \in free : Cuts(s, at[h] + 1, n, x) = {}
  BY <1>0, Zenon DEF Closed
<1>2. at \in [Nat -> Nat] /\ of \in [Nat -> Nat]
  BY <1>1 DEF Frame
<1> DEFINE k == n + 1
           b == of[h] + 1
           j == h + 1
           at2 == With(at, h, k)
           of2 == With(of, h, b)
<1>3. of[h] \in Nat /\ b \in Nat /\ k \in Nat /\ j \in Nat /\ j - 1 = h /\ k - 1 = n /\ of[h] <= b
  <2>1. of[h] \in Nat
    <3> HIDE DEF b, k, j, at2, of2
    <3> QED BY <1>0, <1>2, Zenon
  <2>2. h \in Nat /\ n \in Nat
    BY <1>0
  <2> DEFINE c == of[h]
  <2> HIDE DEF c
  <2>3. c \in Nat => c + 1 \in Nat /\ c <= c + 1
    OBVIOUS
  <2>4. b \in Nat /\ of[h] <= b
    BY <2>1, <2>3 DEF c
  <2>5. k \in Nat /\ k - 1 = n
    BY <2>2
  <2>6. j \in Nat /\ j - 1 = h
    BY <2>2
  <2> QED BY <2>1, <2>4, <2>5, <2>6
<1>4. at2[j] = k /\ of2[j] = b /\ at2[h] = at[h] /\ of2[h] = of[h]
  <2>1. j \in Nat /\ h \in Nat /\ h # j
    BY <1>0
  <2>2. at2 = [at EXCEPT ![j] = k] /\ of2 = [of EXCEPT ![j] = b]
    BY DEF With
  <2> HIDE DEF at2, of2, j, k, b
  <2> QED BY <1>2, <2>1, <2>2
<1>5. StackEntry(q, s, t, at2, of2, j)
  <2> DEFINE a == LogicalAnd
             r == LogicalOr
             i == at[h] + 1
  <2>1. q.stack[j] = o /\ s[at2[j]] = o /\ at2[j - 1] + 1 = i /\ at2[j] - 1 = n
    BY <1>3, <1>4
  <2>2. of2[j] = of2[j - 1] + 1 /\ q.orphans[of2[j]] = d.orphans[of[h] + 1] /\ q.stack[j - 1] = q.stack[h]
    BY <1>0, <1>3, <1>4
  <2>3. o = r => Cuts(s, i, n, a) = {}
    BY <1>1, Zenon
  <2>4. o = a /\ j > 1 => q.stack[h] # r
    BY <1>0
  <2>5. Operand(s, t, d.orphans[of[h] + 1], i, n)
    BY <1>1
  <2> HIDE DEF at2, of2, j, i, k, b
  <2>6. Operand(s, t, q.orphans[of2[j]], at2[j - 1] + 1, at2[j] - 1)
    BY <2>1, <2>2, <2>5
  <2>7. q.stack[j] = r => Cuts(s, at2[j - 1] + 1, at2[j] - 1, a) = {}
    BY <2>1, <2>3
  <2>8. q.stack[j] = a /\ j > 1 => q.stack[j - 1] # r
    BY <2>1, <2>2, <2>4
  <2>9. q.stack[j] \in BoolOps /\ s[at2[j]] = q.stack[j]
    BY <2>1
  <2> QED BY <2>2, <2>6, <2>7, <2>8, <2>9, Zenon DEF StackEntry
<1>6. Frame(q, s, t, at2, of2)
  <2>1. StackEntry(q, s, t, With(at, h, k), With(of, h, b), h + 1)
    BY <1>5
  <2> HIDE DEF k, b
  <2>2. Frame(q, s, t, With(at, h, k), With(of, h, b))
    BY <1>1, <1>3, <2>1, FrameGrows
  <2> QED BY <2>2
<1>7. Len(q.stack) = j /\ Len(q.orphans) = of2[j] /\ at2[j] = n + 1
  BY <1>0, <1>1, <1>4
<1> HIDE DEF at2, of2, j, k, b
<1> QED BY <1>6, <1>7, Zenon DEF Open

LEMMA OperatorRead ==
  ASSUME NEW p, NEW u, NEW lev, Parses(p, u, TRUE, lev), NEW o \in BoolOps,
         NEW d, d = PoppedWhile(p, o), NEW q \in Parsers,
         q.nodes = d.nodes, q.orphans = d.orphans, q.root = d.root, q.stack = Append(d.stack, o)
  PROVE  Parses(q, Append(u, o), FALSE, lev)
<1> DEFINE w == Append(u, o)
           n == Len(u)
           M == Len(p.stack)
           v == Count(u, Var, 1, n)
<1>1. /\ u \in Seq(Tokens) /\ p \in Parsers /\ lev \in Nat
      /\ n \in Nat /\ M \in Nat
      /\ lev = Depth(u, 1, n) /\ lev <= n
  BY ParsesParts
<1>2. o \in Tokens /\ o # Var /\ o # LeftParenthesis /\ o # RightParenthesis
  BY TokensAre, TokensAreDifferent
<1>3. w \in Seq(Tokens) /\ Len(w) = n + 1 /\ Last(w) = o /\ w # <<>>
  BY <1>1, <1>2, LastOne
<1>4. v \in Nat /\ Count(w, Var, 1, n + 1) = v
  <2>1. v \in Nat /\ Count(w, Var, 1, n + 1) = v + (IF o = Var THEN 1 ELSE 0)
    BY <1>1, <1>2, CountGrows
  <2> QED BY <1>2, <2>1
<1>5. PICK h : /\ Lowered(p, u, lev, d, h)
               /\ o = LogicalOr => h = M
               /\ o = LogicalAnd /\ h > 0 => p.stack[h] # LogicalOr
  BY PoppedWhileIs
<1>6. /\ h \in Nat /\ h <= M /\ d \in Parsers /\ Sound(d, v)
      /\ Len(d.stack) = h /\ d.stack \in Seq(Tokens)
      /\ \A m \in 1..h : d.stack[m] = p.stack[m]
      /\ Understands(d, u, Uncut(d, M))
      /\ Count(d.stack, LeftParenthesis, 1, h) = lev
  BY <1>1, <1>5, LoweredParts
<1>7. /\ Len(q.stack) = h + 1 /\ q.stack[h + 1] = o /\ \A m \in 1..h : q.stack[m] = d.stack[m]
  BY <1>2, <1>6, CountGrows
<1>8. Count(q.stack, LeftParenthesis, 1, h + 1) = lev
  <2> DEFINE x == LeftParenthesis
  <2>1. Count(q.stack, x, 1, h + 1) = lev + (IF o = x THEN 1 ELSE 0)
    BY <1>2, <1>6, CountGrows
  <2> QED BY <1>1, <1>2, <2>1
<1>9. lev = Depth(w, 1, n + 1)
  <2>1. Depth(w, 1, n + 1) = Depth(u, 1, n) + (IF o = LeftParenthesis THEN 1 ELSE IF o = RightParenthesis THEN -1 ELSE 0)
    BY <1>1, <1>2, DepthGrows
  <2> QED BY <1>1, <1>2, <2>1
<1>10. Sound(q, v)
  BY <1>6 DEF Sound
<1>11. ASSUME NEW s \in Seq(Tokens), NEW t, GoesOnAfter(w, s), IsTree(t), GoesOnAfter(q.nodes, t)
       PROVE  Open(q, s, t, n + 1)
  <2>1. GoesOnAfter(u, s) /\ s[n + 1] = o
    BY <1>1, <1>2, <1>11, GoesOnMore
  <2> DEFINE free == Uncut(d, M)
  <2>2. Closed(d, s, t, n, free)
    BY <1>6, <1>11, <2>1, Zenon DEF Understands
  <2>3. o = LogicalOr => LogicalAnd \in free
    <3>1. o = LogicalOr => free = BoolOps
      BY <1>5, <1>6 DEF Uncut
    <3>2. LogicalAnd \in BoolOps
      BY DEF BoolOps
    <3> HIDE DEF free
    <3> QED BY <3>1, <3>2
  <2>4. o = LogicalAnd /\ h > 0 => q.stack[h] # LogicalOr
    <3>1. h > 0 => h \in 1..h
      BY <1>6
    <3> QED BY <1>5, <1>6, <1>7, <3>1
  <2>5. OneMoreEntry(d, q, h)
    BY <1>6, <1>7 DEF OneMoreEntry
  <2> HIDE DEF free, n
  <2>6. n \in Nat /\ q.stack[h + 1] = o
    BY <1>1, <1>7
  <2> QED BY <2>1, <2>2, <2>3, <2>4, <2>5, <2>6, OperatorWaits
<1>12. Awaits(q, w)
  BY <1>3, <1>11 DEF Awaits
<1>13. Counts(q, w, lev)
  <2>1. Sound(q, Count(w, Var, 1, Len(w)))
    BY <1>3, <1>4, <1>10
  <2>2. lev = Depth(w, 1, Len(w)) /\ lev <= Len(w) /\ lev = Count(q.stack, LeftParenthesis, 1, Len(q.stack))
    BY <1>1, <1>3, <1>7, <1>8, <1>9
  <2> QED BY <2>1, <2>2 DEF Counts
<1>14. q.stack # <<>>
  <2>1. Len(q.stack) # 0
    BY <1>6, <1>7
  <2>2. Len(<<>>) = 0
    OBVIOUS
  <2> QED BY <2>1, <2>2, Zenon
<1>15. ~EndsOperand(Last(w))
  BY <1>3, StartsOrEnds
<1> HIDE DEF w
<1>16. Parses(q, w, FALSE, lev)
  BY <1>1, <1>3, <1>12, <1>13, <1>14, <1>15 DEF Parses
<1> QED BY <1>16 DEF w

\* What was in parentheses is an operand.
LEMMA ParenthesisCloses ==
  ASSUME NEW d \in Parsers, NEW q, NEW h \in Nat \ {0}, Len(d.stack) = h, d.stack[h] = LeftParenthesis,
         Len(q.stack) = h - 1, \A m \in 1..(h - 1) : q.stack[m] = d.stack[m], q.orphans = d.orphans,
         NEW s \in Seq(Tokens), NEW t, NEW n \in Nat, s[n + 1] = RightParenthesis, n + 1 \in 1..Len(s),
         NEW free, Closed(d, s, t, n, free)
  PROVE  Closed(q, s, t, n + 1, BoolOps)
<1>1. PICK at, of : /\ Frame(d, s, t, at, of)
                    /\ Len(d.orphans) = of[h] + 1
                    /\ Operand(s, t, d.orphans[of[h] + 1], at[h] + 1, n)
  BY Zenon DEF Closed
<1>2. at \in [Nat -> Nat] /\ of \in [Nat -> Nat] /\ StackEntry(d, s, t, at, of, h)
  <2>1. h \in 1..Len(d.stack)
    OBVIOUS
  <2> QED BY <1>1, <2>1 DEF Frame
<1>3. s[at[h]] = LeftParenthesis /\ at[h] = at[h - 1] + 1 /\ of[h] = of[h - 1]
  <2>1. StackEntry(d, s, t, at, of, h) /\ d.stack[h] = LeftParenthesis
    BY <1>2
  <2>2. d.stack[h] \notin BoolOps
    BY TokensAreDifferent
  <2> QED BY <2>1, <2>2, Zenon DEF StackEntry
<1> DEFINE i == at[h]
           j == n + 1
           z == d.orphans[of[h] + 1]
<1>4. i \in 1..Len(s) /\ j \in 1..Len(s) /\ j - 1 = n
  <2>1. i + 1 \in 1..Len(s)
    BY <1>1 DEF Operand
  <2>2. at[h - 1] \in Nat /\ i \in Nat
    <3>1. h - 1 \in Nat /\ h \in Nat
      OBVIOUS
    <3> QED BY <1>2, <3>1
  <2>3. i = at[h - 1] + 1
    BY <1>3
  <2>4. Len(s) \in Nat
    OBVIOUS
  <2>5. i \in 1..Len(s)
    <3> DEFINE b == at[h - 1]
               l == Len(s)
    <3> HIDE DEF i, b, l
    <3>1. i = b + 1 /\ b \in Nat /\ l \in Nat /\ i + 1 \in 1..l
      BY <2>1, <2>2, <2>3, <2>4 DEF b, l
    <3>2. i \in 1..l
      BY <3>1
    <3> QED BY <3>2 DEF l
  <2> QED BY <2>5
<1>5. Operand(s, t, z, i, j) /\ NoCuts(s, i, j)
  <2>1. Operand(s, t, z, i + 1, j - 1) /\ s[i] = LeftParenthesis /\ s[j] = RightParenthesis
    BY <1>1, <1>3, <1>4
  <2> HIDE DEF i, j, z
  <2> QED BY <1>4, <2>1, OperandIn
<1>6. Frame(q, s, t, at, of)
  <2> DEFINE m == h - 1
  <2>1. m \in 0..Len(d.stack) /\ Len(q.stack) = m /\ (\A a \in 1..m : q.stack[a] = d.stack[a])
        /\ (\A b \in 1..of[m] : q.orphans[b] = d.orphans[b]) /\ Len(d.stack) \in Nat
    OBVIOUS
  <2> HIDE DEF m
  <2> QED BY <1>1, <2>1, FrameShrinks
<1>7. /\ Len(q.orphans) = of[h - 1] + 1
      /\ Operand(s, t, q.orphans[of[h - 1] + 1], at[h - 1] + 1, n + 1)
      /\ \A o \in BoolOps : Cuts(s, at[h - 1] + 1, n + 1, o) = {}
  BY <1>1, <1>3, <1>5 DEF NoCuts
<1> DEFINE m == h - 1
<1>8. /\ Len(q.stack) = m /\ Len(q.orphans) = of[m] + 1
      /\ Operand(s, t, q.orphans[of[m] + 1], at[m] + 1, n + 1)
      /\ \A o \in BoolOps : Cuts(s, at[m] + 1, n + 1, o) = {}
  BY <1>7
<1> HIDE DEF m
<1> QED BY <1>6, <1>8, Zenon DEF Closed

LEMMA RightRead ==
  ASSUME NEW p, NEW u, NEW lev, Parses(p, u, TRUE, lev), lev # 0,
         NEW d, d = PoppedToParenthesis(p), NEW q \in Parsers,
         q.nodes = d.nodes, q.orphans = d.orphans, q.root = d.root, q.stack = Front(d.stack)
  PROVE  Parses(q, Append(u, RightParenthesis), TRUE, lev - 1)
<1> DEFINE x == RightParenthesis
           w == Append(u, x)
           n == Len(u)
           M == Len(p.stack)
           v == Count(u, Var, 1, n)
<1>1. /\ u \in Seq(Tokens) /\ p \in Parsers /\ lev \in Nat
      /\ n \in Nat /\ M \in Nat
      /\ lev = Depth(u, 1, n) /\ lev <= n
  BY ParsesParts
<1>2. x \in Tokens /\ x # Var /\ x # LeftParenthesis
  BY TokensAre, TokensAreDifferent
<1>3. w \in Seq(Tokens) /\ Len(w) = n + 1 /\ Last(w) = x /\ w # <<>>
  BY <1>1, <1>2, LastOne
<1>4. v \in Nat /\ Count(w, Var, 1, n + 1) = v
  <2>1. v \in Nat /\ Count(w, Var, 1, n + 1) = v + (IF x = Var THEN 1 ELSE 0)
    BY <1>1, <1>2, CountGrows
  <2> QED BY <1>2, <2>1
<1>5. PICK h : /\ Lowered(p, u, lev, d, h)
               /\ h > 0 => p.stack[h] = LeftParenthesis
               /\ h > 0 <=> lev > 0
  BY PoppedToParenthesisIs
<1>6. /\ h \in Nat /\ h <= M /\ d \in Parsers /\ Sound(d, v)
      /\ Len(d.stack) = h /\ d.stack \in Seq(Tokens) /\ IsTree(d.nodes)
      /\ \A m \in 1..h : d.stack[m] = p.stack[m]
      /\ Understands(d, u, Uncut(d, M))
      /\ Count(d.stack, LeftParenthesis, 1, h) = lev
  BY <1>1, <1>5, LoweredParts
<1>7. h \in Nat \ {0} /\ d.stack[h] = LeftParenthesis
  <2>1. h > 0
    BY <1>1, <1>5
  <2>2. h \in 1..h
    BY <1>6, <2>1
  <2> QED BY <1>5, <1>6, <2>1, <2>2
<1>8. Len(q.stack) = h - 1 /\ \A m \in 1..(h - 1) : q.stack[m] = d.stack[m]
  <2> DEFINE a == d.stack
  <2>1. a \in Seq(Tokens) /\ Len(a) = h /\ h - 1 \in 0..h
    BY <1>6, <1>7
  <2>2. q.stack = SubSeq(a, 1, h - 1)
    BY <1>6 DEF Front
  <2> DEFINE k == h - 1
  <2> HIDE DEF a, k
  <2>3. k \in 0..Len(a) /\ q.stack = SubSeq(a, 1, k)
    BY <2>1, <2>2 DEF k
  <2>4. Len(SubSeq(a, 1, k)) = k /\ \A m \in 1..k : SubSeq(a, 1, k)[m] = a[m]
    BY <2>1, <2>3
  <2> QED BY <2>3, <2>4 DEF a, k
<1>9. Count(q.stack, LeftParenthesis, 1, h - 1) = lev - 1
  <2> DEFINE k == h - 1
             y == LeftParenthesis
             a == d.stack
             b == q.stack
  <2>1. k \in Nat /\ 1 \in Int /\ k \in Int /\ h \in Int /\ 1 <= k + 1 /\ k <= h /\ k + 1 = h
    BY <1>7
  <2>2. (\A m \in 1..k : b[m] = a[m]) /\ a[h] = y /\ Count(a, y, 1, h) = lev
    BY <1>6, <1>7, <1>8
  <2> HIDE DEF k, a, b, y
  <2>3. Count(a, y, 1, h) = Count(a, y, 1, k) + Count(a, y, k + 1, h)
    BY <2>1, CountSplits
  <2>4. Count(a, y, h, h) = 1
    BY <2>1, <2>2, CountOne
  <2>5. Count(a, y, 1, k) \in Nat
    BY <2>1, CountIs, Zenon
  <2>6. Count(b, y, 1, k) = Count(a, y, 1, k)
    BY <2>1, <2>2, CountSame
  <2>7. Count(b, y, 1, k) = lev - 1
    BY <2>1, <2>2, <2>3, <2>4, <2>5, <2>6
  <2> QED BY <2>7 DEF k, y, b
<1>10. lev - 1 = Depth(w, 1, n + 1)
  <2>1. Depth(w, 1, n + 1) = Depth(u, 1, n) + (IF x = LeftParenthesis THEN 1 ELSE IF x = RightParenthesis THEN -1 ELSE 0)
    BY <1>1, <1>2, DepthGrows
  <2> QED BY <1>1, <1>2, <2>1
<1>11. Sound(q, v)
  BY <1>6 DEF Sound
<1>12. ASSUME NEW s \in Seq(Tokens), NEW t, GoesOnAfter(w, s), IsTree(t), GoesOnAfter(q.nodes, t)
       PROVE  Closed(q, s, t, n + 1, BoolOps)
  <2>1. GoesOnAfter(u, s) /\ s[n + 1] = x /\ n + 1 \in 1..Len(s)
    BY <1>1, <1>2, <1>12, GoesOnMore
  <2> DEFINE free == Uncut(d, M)
  <2>2. Closed(d, s, t, n, free)
    BY <1>6, <1>12, <2>1, Zenon DEF Understands
  <2>3. s[n + 1] = RightParenthesis /\ n \in Nat
    BY <1>1, <2>1
  <2> HIDE DEF free, n, x
  <2> QED BY <1>6, <1>7, <1>8, <2>1, <2>2, <2>3, ParenthesisCloses
<1>13. Understands(q, w, BoolOps)
  BY <1>3, <1>12 DEF Understands
<1>14. Counts(q, w, lev - 1)
  <2>1. Sound(q, Count(w, Var, 1, Len(w)))
    BY <1>3, <1>4, <1>11
  <2>2. lev - 1 = Depth(w, 1, Len(w)) /\ lev - 1 <= Len(w) /\ lev - 1 = Count(q.stack, LeftParenthesis, 1, Len(q.stack))
    BY <1>1, <1>3, <1>8, <1>9, <1>10
  <2> QED BY <2>1, <2>2 DEF Counts
<1>15. q.nodes # <<>>
  <2>1. GoesOnAfter(u, u) /\ GoesOnAfter(d.nodes, d.nodes)
    BY <1>1, <1>6, ParserTyped, GoesOnSame
  <2>2. Closed(d, u, d.nodes, n, Uncut(d, M))
    BY <1>1, <1>6, <2>1, Zenon DEF Understands
  <2>3. \E z : z \in DOMAIN d.nodes
    BY <2>2, Zenon DEF Closed, Operand
  <2> QED BY <2>3
<1>16. EndsOperand(Last(w))
  BY <1>3, StartsOrEnds
<1>17. lev - 1 \in Nat
  BY <1>1
<1> DEFINE lev2 == lev - 1
<1> HIDE DEF w, lev2
<1>18. Parses(q, w, TRUE, lev2)
  BY <1>3, <1>13, <1>14, <1>15, <1>16, <1>17 DEF Parses, lev2
<1> QED BY <1>18 DEF w, lev2

-----------------------------------------------------------------------------
(* When the text ends, and tokens that cannot follow.                      *)

\* What a parser has made of a text when it is done
Understood(u, t, n) ==
    /\ IsTree(t) /\ n \in DOMAIN t
    /\ WellFormed(u, 1, Len(u))
    /\ \A true : Evaluate(t, n, true) <=> Means(u, 1, Len(u), true)
    /\ LET w == Written(t, n) IN \A true : Evaluate(t, n, true) <=> Means(w, 1, Len(w), true)

LEMMA OperandUnderstood ==
  ASSUME NEW u \in Seq(Tokens), NEW t, IsTree(t), NEW v, Operand(u, t, v, 1, Len(u))
  PROVE  Understood(u, t, v)
<1>1. /\ v \in DOMAIN t /\ Agrees(u, 1, Len(u), t, v) /\ WellFormed(u, 1, Len(u))
      /\ Says(t, v, Count(u, Var, 1, 1 - 1), Count(u, Var, 1, Len(u)))
  BY DEF Operand
<1>2. \A true : Evaluate(t, v, true) <=> Means(u, 1, Len(u), true)
  BY <1>1 DEF Agrees
<1> DEFINE w == Written(t, v)
           q == Count(u, Var, 1, Len(u))
<1>3. w \in Seq(Tokens)
  BY <1>1, WrittenIs
<1>4. Count(u, Var, 1, 1 - 1) = 0 /\ Count(w, Var, 1, 1 - 1) = 0
  <2>1. 1 \in Int /\ 1 - 1 \in Int /\ 1..(1 - 1) = {}
    OBVIOUS
  <2> QED BY <2>1, CountZero
<1>5. StandsAt(w, 1, w)
  <2>1. Len(w) \in Nat
    BY <1>3
  <2> HIDE DEF w
  <2>2. 1 + Len(w) - 1 <= Len(w)
    BY <2>1
  <2>3. \A m \in 1..Len(w) : 1 + m - 1 = m
    BY <2>1
  <2>4. \A m \in 1..Len(w) : w[1 + m - 1] = w[m]
    BY <2>3
  <2> QED BY <2>2, <2>4 DEF StandsAt
<1>6. Agrees(w, 1, 1 + Len(w) - 1, t, v)
  <2>1. 1 \in Nat \ {0}
    OBVIOUS
  <2>2. Says(t, v, 0, q)
    BY <1>1, <1>4
  <2>3. Count(w, Var, 1, 1 - 1) = 0
    BY <1>4
  <2> HIDE DEF q
  <2> QED BY <1>3, <1>5, <2>1, <2>2, <2>3, Zenon DEF Says
<1>7. 1 + Len(w) - 1 = Len(w)
  <2>1. Len(w) \in Nat
    BY <1>3
  <2> DEFINE l == Len(w)
  <2> HIDE DEF l
  <2>2. l \in Nat => 1 + l - 1 = l
    OBVIOUS
  <2> QED BY <2>1, <2>2 DEF l
<1>8. \A true : Evaluate(t, v, true) <=> Means(w, 1, Len(w), true)
  <2>1. Agrees(w, 1, Len(w), t, v)
    BY <1>6, <1>7
  <2> HIDE DEF w
  <2> QED BY <2>1 DEF Agrees
<1> QED BY <1>1, <1>2, <1>8 DEF Understood

LEMMA Finished ==
  ASSUME NEW p, NEW u, Parses(p, u, TRUE, 0), NEW d, d = PoppedToParenthesis(p)
  PROVE  /\ d \in Parsers /\ IsTree(d.nodes) /\ Len(d.orphans) = 1
         /\ \A a \in DOMAIN d.orphans : d.orphans[a] \in DOMAIN d.nodes
         /\ Understood(u, d.nodes, d.root)
<1> DEFINE M == Len(p.stack)
           n == Len(u)
           v == Count(u, Var, 1, n)
           free == Uncut(d, M)
<1>1. u \in Seq(Tokens) /\ p \in Parsers /\ n \in Nat /\ M \in Nat
  BY ParsesParts
<1>2. PICK h : Lowered(p, u, 0, d, h) /\ (h > 0 <=> 0 > 0)
  BY PoppedToParenthesisIs
<1>3. /\ h \in Nat /\ d \in Parsers /\ Sound(d, v)
      /\ Len(d.stack) = h /\ IsTree(d.nodes)
      /\ Understands(d, u, free)
  BY <1>1, <1>2, LoweredParts
<1>4. Len(d.stack) = 0
  BY <1>2, <1>3
<1>5. /\ \A a \in DOMAIN d.orphans : d.orphans[a] \in DOMAIN d.nodes
      /\ d.root = IF d.nodes = <<>> THEN 1 ELSE d.orphans[1]
  BY <1>3, Zenon DEF Sound
<1>6. Closed(d, u, d.nodes, n, free)
  <2>1. GoesOnAfter(u, u) /\ GoesOnAfter(d.nodes, d.nodes)
    BY <1>1, <1>3, ParserTyped, GoesOnSame
  <2> QED BY <1>1, <1>3, <2>1, Zenon DEF Understands
<1>7. PICK at, of : /\ Frame(d, u, d.nodes, at, of)
                    /\ Len(d.orphans) = of[Len(d.stack)] + 1
                    /\ Operand(u, d.nodes, d.orphans[of[Len(d.stack)] + 1], at[Len(d.stack)] + 1, n)
  BY <1>6, Zenon DEF Closed
<1>8. at[Len(d.stack)] = 0 /\ of[Len(d.stack)] = 0
  BY <1>4, <1>7 DEF Frame
<1>9. Len(d.orphans) = 1 /\ Operand(u, d.nodes, d.orphans[1], 1, n)
  <2> DEFINE a == at[Len(d.stack)]
             b == of[Len(d.stack)]
  <2>1. Len(d.orphans) = b + 1 /\ Operand(u, d.nodes, d.orphans[b + 1], a + 1, n) /\ a = 0 /\ b = 0
    BY <1>7, <1>8
  <2> HIDE DEF a, b
  <2>2. a + 1 = 1 /\ b + 1 = 1
    BY <2>1
  <2> QED BY <2>1, <2>2
<1>10. d.nodes # <<>>
  <2>1. d.orphans[1] \in DOMAIN d.nodes
    BY <1>9 DEF Operand
  <2> QED BY <2>1
<1>11. Operand(u, d.nodes, d.root, 1, n)
  BY <1>5, <1>9, <1>10
<1> QED BY <1>1, <1>3, <1>5, <1>9, <1>11, OperandUnderstood

-----------------------------------------------------------------------------
\* An expression begins with an operand, ends with one, and its parentheses close.
LEMMA FormedParts ==
  ASSUME NEW u \in Seq(Tokens), u # <<>>, WellFormed(u, 1, Len(u))
  PROVE  /\ StartsOperand(u[1]) /\ EndsOperand(Last(u)) /\ Depth(u, 1, Len(u)) = 0
         /\ \A k \in 1..(Len(u) - 1) : EndsOperand(u[k]) <=> ~StartsOperand(u[k + 1])
<1>1. Len(u) \in Nat /\ Len(u) # 0
  OBVIOUS
<1>2. 1 \in 1..(Len(u) + 1) /\ Len(u) \in 0..Len(u)
  BY <1>1
<1>3. GoesOn(u, 1, Len(u))
  BY <1>1, <1>2, WellFormedGoesOn
<1>4. StartsOperand(u[1]) /\ EndsOperand(u[Len(u)]) /\ Depth(u, 1, Len(u)) = 0
  BY <1>3 DEF GoesOn
<1>5. \A k \in 1..(Len(u) - 1) : EndsOperand(u[k]) <=> ~StartsOperand(u[k + 1])
  BY <1>3 DEF GoesOn
<1> QED BY <1>4, <1>5 DEF Last

\* A token that cannot follow is rejected, and rightly so.
LEMMA OutOfPlace ==
  ASSUME NEW p, NEW u, NEW expects, NEW lev, Parses(p, u, expects, lev), NEW x \in Tokens,
         expects <=> StartsOperand(x)
  PROVE  ~WellFormed(Append(u, x), 1, Len(Append(u, x)))
<1> DEFINE w == Append(u, x)
           n == Len(u)
<1>1. u \in Seq(Tokens) /\ n \in Nat /\ (expects <=> u # <<>> /\ EndsOperand(Last(u)))
  BY ParsesParts
<1>2. w \in Seq(Tokens) /\ Len(w) = n + 1 /\ w # <<>>
  BY <1>1, LastOne
<1>3. w[n + 1] = x /\ \A k \in 1..n : w[k] = u[k]
  BY <1>1
<1> HIDE DEF w
<1> SUFFICES ASSUME WellFormed(w, 1, Len(w)) PROVE FALSE
  BY DEF w
<1>4. StartsOperand(w[1]) /\ \A k \in 1..(Len(w) - 1) : EndsOperand(w[k]) <=> ~StartsOperand(w[k + 1])
  BY <1>2, FormedParts
<1>5. CASE n = 0
  <2>1. u = <<>>
    BY <1>1, <1>5
  <2>2. w[1] = x
    BY <1>3, <1>5
  <2> QED BY <1>1, <1>4, <2>1, <2>2
<1>6. CASE n # 0
  <2>1. u # <<>>
    BY <1>6
  <2>2. n \in 1..(Len(w) - 1) /\ n \in 1..n
    BY <1>1, <1>2, <1>6
  <2>3. w[n] = u[n] /\ w[n + 1] = x
    BY <1>3, <2>2
  <2>4. EndsOperand(u[n]) <=> ~StartsOperand(x)
    BY <1>4, <2>2, <2>3
  <2> QED BY <1>1, <2>1, <2>4 DEF Last
<1> QED BY <1>5, <1>6

\* A parenthesis that closes none
LEMMA ClosesNone ==
  ASSUME NEW p, NEW u, NEW expects, Parses(p, u, expects, 0)
  PROVE  LET w == Append(u, RightParenthesis) IN ~WellFormed(w, 1, Len(w))
<1> DEFINE x == RightParenthesis
           w == Append(u, x)
           n == Len(u)
<1>1. u \in Seq(Tokens) /\ n \in Nat /\ 0 = Depth(u, 1, n)
  BY ParsesParts
<1>2. x \in Tokens /\ x # LeftParenthesis
  BY TokensAre, TokensAreDifferent
<1>3. w \in Seq(Tokens) /\ Len(w) = n + 1 /\ w # <<>>
  BY <1>1, <1>2, LastOne
<1>4. Depth(w, 1, n + 1) # 0
  <2>1. Depth(w, 1, n + 1) = Depth(u, 1, n) + (IF x = LeftParenthesis THEN 1 ELSE IF x = RightParenthesis THEN -1 ELSE 0)
    BY <1>1, <1>2, DepthGrows
  <2> QED BY <1>1, <1>2, <2>1
<1> HIDE DEF w
<1>5. ~WellFormed(w, 1, Len(w))
  BY <1>3, <1>4, FormedParts
<1> QED BY <1>5 DEF w

\* A text that is not complete
LEMMA NotComplete ==
  ASSUME NEW p, NEW u, NEW expects, NEW lev, Parses(p, u, expects, lev), ~(expects /\ lev = 0), u # <<>>
  PROVE  ~WellFormed(u, 1, Len(u))
<1>1. u \in Seq(Tokens) /\ lev = Depth(u, 1, Len(u)) /\ (expects <=> u # <<>> /\ EndsOperand(Last(u)))
  BY ParsesParts
<1> QED BY <1>1, FormedParts

LEMMA NothingRead ==
  ASSUME NEW p \in Parsers, p.nodes = <<>>, p.stack = <<>>, p.orphans = <<>>, p.root = 1
  PROVE  Parses(p, <<>>, FALSE, 0)
<1> DEFINE u == <<>>
           zero == [n \in Nat |-> 0]
<1>1. u \in Seq(Tokens) /\ Len(u) = 0 /\ Len(p.stack) = 0 /\ Len(p.orphans) = 0
  OBVIOUS
<1>2. 1 \in Int /\ 0 \in Int /\ 1..0 = {}
  OBVIOUS
<1>3. \A x : Count(u, x, 1, 0) = 0 /\ Count(p.stack, x, 1, 0) = 0
  BY <1>2, CountZero
<1>4. Depth(u, 1, 0) = 0
  BY <1>3 DEF Depth
<1>5. LeafCount(p.nodes) = 0
  <2>1. {i \in DOMAIN p.nodes : p.nodes[i].op = NoOperator} = {}
    OBVIOUS
  <2> QED BY <2>1, FS_EmptySet DEF LeafCount
<1>6. IsTree(p.nodes)
  <2>1. p.nodes \in Seq(TreeNode) /\ DOMAIN p.nodes = {}
    OBVIOUS
  <2> QED BY <2>1, Zenon DEF IsTree
<1>7. Sound(p, 0)
  <2>1. DOMAIN p.orphans = {}
    OBVIOUS
  <2> QED BY <1>5, <1>6, <2>1, Zenon DEF Sound
<1>8. Counts(p, u, 0)
  <2>1. Count(u, Var, 1, Len(u)) = 0 /\ Count(p.stack, LeftParenthesis, 1, Len(p.stack)) = 0 /\ Depth(u, 1, Len(u)) = 0
    BY <1>1, <1>3, <1>4
  <2>2. 0 <= Len(u)
    BY <1>1
  <2> QED BY <1>7, <2>1, <2>2 DEF Counts
<1>9. ASSUME NEW s, NEW t PROVE Open(p, s, t, Len(u))
  <2>1. zero \in [Nat -> Nat] /\ zero[0] = 0
    OBVIOUS
  <2>2. \A a, b \in 0..Len(p.stack) : a <= b => zero[a] <= zero[b]
    BY <1>1
  <2>3. 1..Len(p.stack) = {}
    BY <1>1
  <2> HIDE DEF zero
  <2>4. Frame(p, s, t, zero, zero)
    BY <2>1, <2>2, <2>3, Zenon DEF Frame
  <2>5. Len(p.orphans) = zero[Len(p.stack)] /\ zero[Len(p.stack)] = Len(u)
    BY <1>1, <2>1
  <2> QED BY <2>4, <2>5, Zenon DEF Open
<1>10. Awaits(p, u)
  BY <1>9, Zenon DEF Awaits
<1>11. 0 \in Nat /\ FALSE \in BOOLEAN
  OBVIOUS
<1>12. u = <<>>
  OBVIOUS
<1> HIDE DEF u
<1>13. Parses(p, u, FALSE, 0)
  BY <1>1, <1>8, <1>10, <1>11, <1>12, Zenon DEF Parses
<1> QED BY <1>13 DEF u

-----------------------------------------------------------------------------
(* The inductive invariant of SpecExpression.                              *)

\* What holds of parser p that was pushed the tokens u
ReadOf(p, u, expects, lev, out) ==
    /\ u \in Seq(Tokens) /\ Len(u) <= MaxTokens /\ lev \in 0..MaxTokens /\ expects \in BOOLEAN
    /\ out \in {"parsing", "rejected", "parsed"}
    /\ IsTree(p.nodes)
    /\ \A a \in DOMAIN p.orphans : p.orphans[a] \in DOMAIN p.nodes
    /\ out = "parsing" => Parses(p, u, expects, lev)
    /\ out = "rejected" => u # <<>> /\ ~WellFormed(u, 1, Len(u))
    /\ out = "parsed" => u = <<>> \/ Understood(u, p.nodes, p.root)

\* The inductive invariant
ExprInv == ReadOf(Parser, tokens, expectsOp, level, outcome)

LEMMA OutcomesDiffer ==
  "parsing" # "rejected" /\ "parsing" # "parsed" /\ "rejected" # "parsed"
OBVIOUS

LEMMA ReadGoesOn ==
  ASSUME NEW p, NEW u, NEW expects, NEW lev, Parses(p, u, expects, lev), Len(u) <= MaxTokens
  PROVE  ReadOf(p, u, expects, lev, "parsing")
<1>1. /\ u \in Seq(Tokens) /\ lev \in Nat /\ Len(u) \in Nat /\ lev <= Len(u) /\ IsTree(p.nodes)
      /\ Sound(p, Count(u, Var, 1, Len(u)))
  BY ParsesParts
<1>2. expects \in BOOLEAN
  BY DEF Parses
<1>3. lev \in 0..MaxTokens
  BY <1>1, ExpressionConstants
<1>4. \A a \in DOMAIN p.orphans : p.orphans[a] \in DOMAIN p.nodes
  BY <1>1, Zenon DEF Sound
<1> QED BY <1>1, <1>2, <1>3, <1>4, OutcomesDiffer, Zenon DEF ReadOf

LEMMA ReadIsRejected ==
  ASSUME NEW p, NEW u, NEW expects, NEW lev, ReadOf(p, u, expects, lev, "parsing"),
         NEW q, q.nodes = p.nodes, q.orphans = p.orphans,
         NEW w \in Seq(Tokens), Len(w) <= MaxTokens, w # <<>>, ~WellFormed(w, 1, Len(w))
  PROVE  ReadOf(q, w, expects, lev, "rejected")
<1>1. /\ lev \in 0..MaxTokens /\ expects \in BOOLEAN /\ IsTree(p.nodes)
      /\ \A a \in DOMAIN p.orphans : p.orphans[a] \in DOMAIN p.nodes
  BY Zenon DEF ReadOf
<1>2. /\ IsTree(q.nodes) /\ \A a \in DOMAIN q.orphans : q.orphans[a] \in DOMAIN q.nodes
  BY <1>1
<1> QED BY <1>1, <1>2, OutcomesDiffer, Zenon DEF ReadOf

LEMMA ReadIsParsed ==
  ASSUME NEW p, NEW u, NEW lev, ReadOf(p, u, TRUE, lev, "parsing"), lev = 0,
         NEW d, d = PoppedToParenthesis(p), NEW q, q.nodes = d.nodes, q.orphans = d.orphans, q.root = d.root
  PROVE  ReadOf(q, u, TRUE, lev, "parsed") /\ Len(d.orphans) = 1
<1>1. Parses(p, u, TRUE, 0) /\ u \in Seq(Tokens) /\ Len(u) <= MaxTokens /\ lev \in 0..MaxTokens
  BY Zenon DEF ReadOf
<1>2. /\ IsTree(d.nodes) /\ Len(d.orphans) = 1
      /\ \A a \in DOMAIN d.orphans : d.orphans[a] \in DOMAIN d.nodes
      /\ Understood(u, d.nodes, d.root)
  BY <1>1, Finished
<1>3. /\ IsTree(q.nodes) /\ Understood(u, q.nodes, q.root)
      /\ \A a \in DOMAIN q.orphans : q.orphans[a] \in DOMAIN q.nodes
  BY <1>2
<1>4. TRUE \in BOOLEAN
  OBVIOUS
<1> QED BY <1>1, <1>2, <1>3, <1>4, OutcomesDiffer, Zenon DEF ReadOf

\* PushVariable, PushOperator, PushLeft and PushRight when the token cannot follow
LEMMA TokenRejected ==
  ASSUME NEW p, NEW u, NEW expects, NEW lev, ReadOf(p, u, expects, lev, "parsing"), Len(u) < MaxTokens,
         NEW x \in Tokens, (expects <=> StartsOperand(x)) \/ (x = RightParenthesis /\ lev = 0),
         NEW q, q.nodes = p.nodes, q.orphans = p.orphans
  PROVE  ReadOf(q, Append(u, x), expects, lev, "rejected")
<1> DEFINE w == Append(u, x)
<1>1. Parses(p, u, expects, lev) /\ u \in Seq(Tokens)
  BY Zenon DEF ReadOf
<1>2. w \in Seq(Tokens) /\ w # <<>> /\ Len(w) = Len(u) + 1
  BY <1>1, LastOne
<1>3. Len(w) <= MaxTokens
  BY <1>1, <1>2, ExpressionConstants
<1>4. ~WellFormed(w, 1, Len(w))
  <2>1. CASE expects <=> StartsOperand(x)
    BY <1>1, <2>1, OutOfPlace
  <2>2. CASE x = RightParenthesis /\ lev = 0
    BY <1>1, <2>2, ClosesNone
  <2> QED BY <2>1, <2>2
<1> HIDE DEF w
<1>5. ReadOf(q, w, expects, lev, "rejected")
  BY <1>2, <1>3, <1>4, ReadIsRejected
<1> QED BY <1>5 DEF w

LEMMA TokenRead ==
  ASSUME NEW q, NEW u \in Seq(Tokens), NEW x \in Tokens, NEW expects, NEW lev, Len(u) < MaxTokens,
         Parses(q, Append(u, x), expects, lev)
  PROVE  ReadOf(q, Append(u, x), expects, lev, "parsing")
<1>1. Len(Append(u, x)) = Len(u) + 1 /\ Len(u) \in Nat
  OBVIOUS
<1>2. Len(Append(u, x)) <= MaxTokens
  BY <1>1, ExpressionConstants
<1> QED BY <1>2, ReadGoesOn

-----------------------------------------------------------------------------
\* A parser with another stack
LEMMA WithStack ==
  ASSUME NEW p \in Parsers, NEW d \in Seq(Tokens), NEW q, q = [p EXCEPT !.stack = d]
  PROVE  q \in Parsers /\ q.nodes = p.nodes /\ q.orphans = p.orphans /\ q.root = p.root /\ q.stack = d
BY DEF Parsers

LEMMA ParserFields ==
  /\ Parser.nodes = nodes /\ Parser.root = root /\ Parser.orphans = orphans /\ Parser.stack = opStack
  /\ Parser'.nodes = nodes' /\ Parser'.root = root' /\ Parser'.orphans = orphans' /\ Parser'.stack = opStack'
BY DEF Parser

LEMMA ParserBecomes ==
  ASSUME NEW q \in Parsers, Becomes(q)
  PROVE  Parser' \in Parsers /\ Parser'.nodes = q.nodes /\ Parser'.orphans = q.orphans
         /\ Parser'.root = q.root /\ Parser'.stack = q.stack
<1>1. nodes' = q.nodes /\ root' = q.root /\ orphans' = q.orphans /\ opStack' = q.stack
  BY DEF Becomes
<1>2. q.nodes \in Seq(TreeNode) /\ q.root \in Nat /\ q.orphans \in Seq(Nat) /\ q.stack \in Seq(Tokens)
  BY ParserTyped
<1>3. Parser' = [nodes |-> q.nodes, root |-> q.root, orphans |-> q.orphans, stack |-> q.stack]
  BY <1>1 DEF Parser
<1>4. Parser' \in Parsers
  BY <1>2, <1>3, Zenon DEF Parsers
<1> QED BY <1>1, <1>4, ParserFields

LEMMA ParsingParts ==
  ASSUME ExprInv, outcome = "parsing"
  PROVE  /\ ReadOf(Parser, tokens, expectsOp, level, "parsing")
         /\ Parses(Parser, tokens, expectsOp, level) /\ tokens \in Seq(Tokens) /\ Parser \in Parsers
         /\ expectsOp \in BOOLEAN /\ level \in Nat /\ Len(tokens) <= MaxTokens
<1>1. ReadOf(Parser, tokens, expectsOp, level, "parsing")
  BY DEF ExprInv
<1>2. Parses(Parser, tokens, expectsOp, level) /\ tokens \in Seq(Tokens) /\ Len(tokens) <= MaxTokens
  BY <1>1, Zenon DEF ReadOf
<1> QED BY <1>1, <1>2, Zenon DEF Parses

\* What an action that rejects its token leaves
LEMMA PushRejects ==
  ASSUME ExprInv, NEW x \in Tokens, Pushing(x), Reject,
         (expectsOp <=> StartsOperand(x)) \/ (x = RightParenthesis /\ level = 0)
  PROVE  ExprInv'
<1>1. outcome = "parsing" /\ Len(tokens) < MaxTokens /\ tokens' = Append(tokens, x)
  BY DEF Pushing
<1>2. ReadOf(Parser, tokens, expectsOp, level, "parsing")
  BY <1>1, ParsingParts
<1>3. outcome' = "rejected" /\ level' = level /\ expectsOp' = expectsOp /\ nodes' = nodes /\ orphans' = orphans
  BY DEF Reject
<1>4. Parser'.nodes = Parser.nodes /\ Parser'.orphans = Parser.orphans
  BY <1>3, ParserFields
<1>5. ReadOf(Parser', Append(tokens, x), expectsOp, level, "rejected")
  BY <1>1, <1>2, <1>4, TokenRejected
<1> QED BY <1>1, <1>3, <1>5 DEF ExprInv

\* And what one that takes it does
LEMMA PushReads ==
  ASSUME ExprInv, NEW x \in Tokens, Pushing(x), outcome' = outcome,
         Parses(Parser', Append(tokens, x), expectsOp', level')
  PROVE  ExprInv'
<1>1. outcome = "parsing" /\ Len(tokens) < MaxTokens /\ tokens' = Append(tokens, x)
  BY DEF Pushing
<1>2. tokens \in Seq(Tokens)
  BY <1>1, ParsingParts
<1>3. ReadOf(Parser', Append(tokens, x), expectsOp', level', "parsing")
  BY <1>1, <1>2, TokenRead
<1> QED BY <1>1, <1>3 DEF ExprInv

LEMMA PushVariableKeeps ==
  ASSUME ExprInv, PushVariable PROVE ExprInv'
<1>1. Pushing(Var) /\ outcome = "parsing" /\ Var \in Tokens /\ StartsOperand(Var)
  BY TokensAre, StartsOrEnds DEF PushVariable, Pushing
<1>2. CASE expectsOp
  <2>1. Reject
    BY <1>2 DEF PushVariable
  <2> QED BY <1>1, <1>2, <2>1, PushRejects
<1>3. CASE ~expectsOp
  <2> DEFINE leaf == Leaf(LeafCount(nodes) + 1)
             a == Append(Parser.nodes, leaf)
             c == Append(Parser.orphans, Len(nodes) + 1)
             q == [Parser EXCEPT !.nodes = a, !.orphans = c]
  <2>1. Becomes(q) /\ expectsOp' = TRUE /\ level' = level /\ outcome' = outcome
    BY <1>3 DEF PushVariable
  <2>2. /\ Parses(Parser, tokens, expectsOp, level) /\ tokens \in Seq(Tokens) /\ Parser \in Parsers
        /\ expectsOp \in BOOLEAN
    BY <1>1, ParsingParts
  <2>3. expectsOp = FALSE
    BY <1>3, <2>2
  <2>4. /\ Parser.nodes \in Seq(TreeNode) /\ Parser.orphans \in Seq(Nat) /\ Len(Parser.nodes) \in Nat
    BY <2>2, ParserTyped
  <2>5. leaf \in TreeNode
    <3>1. Parses(Parser, tokens, FALSE, level)
      BY <2>2, <2>3
    <3>2. LeafCount(Parser.nodes) \in Nat
      <4>1. Sound(Parser, Count(tokens, Var, 1, Len(tokens)))
        BY <3>1, ParsesParts
      <4>2. 1 \in Int /\ Len(tokens) \in Int
        BY <2>2
      <4>3. Count(tokens, Var, 1, Len(tokens)) \in Nat
        BY <4>2, CountIs, Zenon
      <4>4. LeafCount(Parser.nodes) = Count(tokens, Var, 1, Len(tokens))
        BY <4>1 DEF Sound
      <4> QED BY <4>3, <4>4
    <3> QED BY <3>2, LeafIs, ParserFields
  <2>6. a \in Seq(TreeNode) /\ c \in Seq(Nat)
    <3> HIDE DEF leaf
    <3>1. Len(nodes) + 1 \in Nat
      BY <2>4, ParserFields
    <3> QED BY <2>4, <2>5, <3>1
  <2>7. Parser.stack \in Seq(Tokens)
    BY <2>2, ParserTyped
  <2>8. /\ q \in Parsers /\ q.nodes = a /\ q.orphans = c /\ q.root = Parser.root /\ q.stack = Parser.stack
    <3> DEFINE z == Parser
    <3>1. q = [z EXCEPT !.nodes = a, !.orphans = c] /\ z \in Parsers
      BY <2>2
    <3>2. a \in Seq(TreeNode) /\ c \in Seq(Nat)
      BY <2>6
    <3> HIDE DEF a, c, q, z, leaf
    <3>3. q \in Parsers /\ q.nodes = a /\ q.orphans = c /\ q.root = z.root /\ q.stack = z.stack
      BY <3>1, <3>2 DEF Parsers
    <3> QED BY <3>3 DEF z
  <2>9. a = Append(Parser.nodes, Leaf(LeafCount(Parser.nodes) + 1)) /\ c = Append(Parser.orphans, Len(Parser.nodes) + 1)
    BY ParserFields
  <2> HIDE DEF q, a, c, leaf
  <2>10. /\ Parser' \in Parsers /\ Parser'.nodes = a /\ Parser'.orphans = c
         /\ Parser'.root = Parser.root /\ Parser'.stack = Parser.stack
    BY <2>1, <2>8, ParserBecomes
  <2>11. Parses(Parser, tokens, FALSE, level)
    BY <2>2, <2>3
  <2>12. Parses(Parser', Append(tokens, Var), TRUE, level)
    BY <2>9, <2>10, <2>11, VariableRead
  <2>13. Parses(Parser', Append(tokens, Var), expectsOp', level')
    BY <2>1, <2>12
  <2> QED BY <1>1, <2>1, <2>13, PushReads
<1> QED BY <1>2, <1>3

LEMMA PushLeftKeeps ==
  ASSUME ExprInv, PushLeft PROVE ExprInv'
<1> DEFINE x == LeftParenthesis
<1>1. Pushing(x) /\ outcome = "parsing" /\ x \in Tokens /\ StartsOperand(x)
  BY TokensAre, StartsOrEnds DEF PushLeft, Pushing
<1>2. CASE expectsOp
  <2>1. Reject
    BY <1>2 DEF PushLeft
  <2> QED BY <1>1, <1>2, <2>1, PushRejects
<1>3. CASE ~expectsOp
  <2>1. /\ nodes' = nodes /\ root' = root /\ orphans' = orphans /\ opStack' = Append(opStack, x)
        /\ level' = level + 1 /\ expectsOp' = expectsOp /\ outcome' = outcome
    BY <1>3 DEF PushLeft
  <2>2. /\ Parses(Parser, tokens, expectsOp, level) /\ Parser \in Parsers /\ expectsOp \in BOOLEAN
    BY <1>1, ParsingParts
  <2>3. expectsOp = FALSE
    BY <1>3, <2>2
  <2> DEFINE c == Append(Parser.stack, x)
             q == [Parser EXCEPT !.stack = c]
  <2>4. Parser.nodes \in Seq(TreeNode) /\ Parser.orphans \in Seq(Nat) /\ Parser.stack \in Seq(Tokens)
    BY <2>2, ParserTyped
  <2>5. c \in Seq(Tokens)
    BY <1>1, <2>4
  <2>6. q \in Parsers /\ q.nodes = Parser.nodes /\ q.orphans = Parser.orphans /\ q.root = Parser.root /\ q.stack = c
    <3> DEFINE z == Parser
    <3>1. q = [z EXCEPT !.stack = c] /\ z \in Parsers
      BY <2>2
    <3> HIDE DEF c, q, z
    <3>2. /\ q \in Parsers /\ q.nodes = z.nodes /\ q.orphans = z.orphans /\ q.root = z.root /\ q.stack = c
      BY <2>5, <3>1, WithStack
    <3> QED BY <3>2 DEF z
  <2>7. c = Append(opStack, x)
    BY ParserFields
  <2> HIDE DEF q, c
  <2>8. Becomes(q)
    BY <2>1, <2>6, <2>7, ParserFields DEF Becomes
  <2>9. /\ Parser' \in Parsers /\ Parser'.nodes = Parser.nodes /\ Parser'.orphans = Parser.orphans
        /\ Parser'.root = Parser.root /\ Parser'.stack = c
    BY <2>6, <2>8, ParserBecomes
  <2>10. Parses(Parser, tokens, FALSE, level)
    BY <2>2, <2>3
  <2>11. c = Append(Parser.stack, LeftParenthesis)
    BY DEF c
  <2>12. Parses(Parser', Append(tokens, LeftParenthesis), FALSE, level + 1)
    BY <2>9, <2>10, <2>11, LeftRead
  <2>13. Parses(Parser', Append(tokens, x), expectsOp', level')
    BY <2>1, <2>3, <2>12
  <2> QED BY <1>1, <2>1, <2>13, PushReads
<1> QED BY <1>2, <1>3

LEMMA PushOperatorKeeps ==
  ASSUME ExprInv, NEW o \in BoolOps, PushOperator(o) PROVE ExprInv'
<1>1. Pushing(o) /\ outcome = "parsing" /\ o \in Tokens /\ ~StartsOperand(o)
  BY TokensAre, StartsOrEnds DEF PushOperator, Pushing
<1>2. CASE ~expectsOp
  <2>1. Reject
    BY <1>2 DEF PushOperator
  <2>2. expectsOp <=> StartsOperand(o)
    BY <1>1, <1>2
  <2> QED BY <1>1, <2>1, <2>2, PushRejects
<1>3. CASE expectsOp
  <2> DEFINE d == PoppedWhile(Parser, o)
             c == Append(d.stack, o)
             q == [d EXCEPT !.stack = c]
  <2>1. Becomes(q) /\ expectsOp' = FALSE /\ level' = level /\ outcome' = outcome
    BY <1>3 DEF PushOperator
  <2>2. /\ Parses(Parser, tokens, expectsOp, level) /\ Parser \in Parsers /\ expectsOp \in BOOLEAN
    BY <1>1, ParsingParts
  <2>3. Parses(Parser, tokens, TRUE, level)
    <3>1. expectsOp = TRUE
      BY <1>3, <2>2
    <3> QED BY <2>2, <3>1
  <2> HIDE DEF d
  <2>4. d \in Parsers
    <3>1. \E h : Lowered(Parser, tokens, level, d, h)
      BY <2>3, PoppedWhileIs DEF d
    <3> QED BY <3>1, Zenon DEF Lowered
  <2>5. d.nodes \in Seq(TreeNode) /\ d.orphans \in Seq(Nat) /\ d.stack \in Seq(Tokens)
    BY <2>4, ParserTyped
  <2>6. c \in Seq(Tokens)
    BY <1>1, <2>5
  <2>7. q \in Parsers /\ q.nodes = d.nodes /\ q.orphans = d.orphans /\ q.root = d.root /\ q.stack = c
    <3>1. q = [d EXCEPT !.stack = c]
      OBVIOUS
    <3> HIDE DEF c, q
    <3> QED BY <2>4, <2>6, <3>1, WithStack
  <2> HIDE DEF q
  <2>8. /\ Parser' \in Parsers /\ Parser'.nodes = d.nodes /\ Parser'.orphans = d.orphans
        /\ Parser'.root = d.root /\ Parser'.stack = Append(d.stack, o)
    BY <2>1, <2>7, ParserBecomes
  <2>9. d = PoppedWhile(Parser, o)
    BY DEF d
  <2> HIDE DEF c
  <2>10. Parses(Parser', Append(tokens, o), FALSE, level)
    BY <2>3, <2>8, <2>9, OperatorRead
  <2>11. Parses(Parser', Append(tokens, o), expectsOp', level')
    BY <2>1, <2>10
  <2> QED BY <1>1, <2>1, <2>11, PushReads
<1> QED BY <1>2, <1>3

LEMMA PushRightKeeps ==
  ASSUME ExprInv, PushRight PROVE ExprInv'
<1> DEFINE x == RightParenthesis
<1>1. Pushing(x) /\ outcome = "parsing" /\ x \in Tokens /\ ~StartsOperand(x)
  BY TokensAre, StartsOrEnds DEF PushRight, Pushing
<1>2. CASE ~expectsOp \/ level = 0
  <2>1. Reject
    BY <1>2 DEF PushRight
  <2>2. (expectsOp <=> StartsOperand(x)) \/ (x = RightParenthesis /\ level = 0)
    BY <1>1, <1>2
  <2> QED BY <1>1, <2>1, <2>2, PushRejects
<1>3. CASE ~(~expectsOp \/ level = 0)
  <2> DEFINE d == PoppedToParenthesis(Parser)
             c == Front(d.stack)
             q == [d EXCEPT !.stack = c]
  <2>1. Becomes(q) /\ level' = level - 1 /\ expectsOp' = expectsOp /\ outcome' = outcome
    BY <1>3 DEF PushRight
  <2>2. /\ Parses(Parser, tokens, expectsOp, level) /\ Parser \in Parsers /\ expectsOp \in BOOLEAN
        /\ level \in Nat /\ tokens \in Seq(Tokens)
    BY <1>1, ParsingParts
  <2>3. Parses(Parser, tokens, TRUE, level) /\ expectsOp = TRUE /\ level # 0
    <3>1. expectsOp = TRUE /\ level # 0
      BY <1>3, <2>2
    <3> QED BY <2>2, <3>1
  <2> HIDE DEF d
  <2>4. PICK h : Lowered(Parser, tokens, level, d, h) /\ (h > 0 <=> level > 0)
    BY <2>3, PoppedToParenthesisIs DEF d
  <2>5. d \in Parsers /\ h \in Nat /\ Len(d.stack) = h
    <3>1. Len(Parser.stack) \in Nat
      BY <2>2, ParserTyped
    <3> QED BY <2>4, <3>1, LoweredParts
  <2>6. d.nodes \in Seq(TreeNode) /\ d.orphans \in Seq(Nat) /\ d.stack \in Seq(Tokens)
    BY <2>5, ParserTyped
  <2>7. c \in Seq(Tokens)
    <3> DEFINE a == d.stack
    <3>1. a \in Seq(Tokens) /\ Len(a) # 0
      BY <2>2, <2>3, <2>4, <2>5, <2>6
    <3>2. c = SubSeq(a, 1, Len(a) - 1)
      BY DEF Front
    <3> HIDE DEF a, c
    <3> QED BY <3>1, <3>2
  <2>8. q \in Parsers /\ q.nodes = d.nodes /\ q.orphans = d.orphans /\ q.root = d.root /\ q.stack = c
    <3>1. q = [d EXCEPT !.stack = c]
      OBVIOUS
    <3> HIDE DEF c, q
    <3> QED BY <2>5, <2>7, <3>1, WithStack
  <2> HIDE DEF q
  <2>9. /\ Parser' \in Parsers /\ Parser'.nodes = d.nodes /\ Parser'.orphans = d.orphans
        /\ Parser'.root = d.root /\ Parser'.stack = Front(d.stack)
    BY <2>1, <2>8, ParserBecomes
  <2>10. d = PoppedToParenthesis(Parser)
    BY DEF d
  <2> HIDE DEF c
  <2>11. Parses(Parser', Append(tokens, RightParenthesis), TRUE, level - 1)
    BY <2>3, <2>9, <2>10, RightRead
  <2>12. Parses(Parser', Append(tokens, x), expectsOp', level')
    BY <2>1, <2>3, <2>11
  <2> QED BY <1>1, <2>1, <2>12, PushReads
<1> QED BY <1>2, <1>3

LEMMA FinalizeKeeps ==
  ASSUME ExprInv, Finalize PROVE ExprInv'
<1>1. outcome = "parsing" /\ tokens' = tokens /\ level' = level /\ expectsOp' = expectsOp
  BY DEF Finalize
<1>2. /\ ReadOf(Parser, tokens, expectsOp, level, "parsing")
      /\ Parses(Parser, tokens, expectsOp, level) /\ Parser \in Parsers /\ expectsOp \in BOOLEAN
      /\ tokens \in Seq(Tokens) /\ Len(tokens) <= MaxTokens /\ level \in Nat
  BY <1>1, ParsingParts
<1>3. tokens = <<>> <=> nodes = <<>> /\ opStack = <<>>
  <2>1. tokens = <<>> <=> Parser.nodes = <<>> /\ Parser.stack = <<>>
    BY <1>2, ParsesParts
  <2> QED BY <2>1, ParserFields
<1>4. CASE nodes = <<>> /\ opStack = <<>>
  <2>1. outcome' = "parsed" /\ nodes' = nodes /\ orphans' = orphans
    BY <1>4 DEF Finalize
  <2>2. Parser'.nodes = Parser.nodes /\ Parser'.orphans = Parser.orphans
    BY <2>1, ParserFields
  <2>3. /\ level \in 0..MaxTokens /\ IsTree(Parser.nodes)
        /\ \A a \in DOMAIN Parser.orphans : Parser.orphans[a] \in DOMAIN Parser.nodes
    BY <1>2, Zenon DEF ReadOf
  <2>4. IsTree(Parser'.nodes) /\ \A a \in DOMAIN Parser'.orphans : Parser'.orphans[a] \in DOMAIN Parser'.nodes
    BY <2>2, <2>3
  <2>5. ReadOf(Parser', tokens, expectsOp, level, "parsed")
    BY <1>2, <1>3, <1>4, <2>3, <2>4, OutcomesDiffer, Zenon DEF ReadOf
  <2> QED BY <1>1, <2>1, <2>5 DEF ExprInv
<1>5. CASE ~(nodes = <<>> /\ opStack = <<>>) /\ ~Complete
  <2>1. outcome' = "rejected" /\ nodes' = nodes /\ orphans' = orphans
    BY <1>5 DEF Finalize
  <2>2. Parser'.nodes = Parser.nodes /\ Parser'.orphans = Parser.orphans
    BY <2>1, ParserFields
  <2>3. tokens # <<>> /\ ~WellFormed(tokens, 1, Len(tokens))
    <3>1. tokens # <<>> /\ ~(expectsOp /\ level = 0)
      BY <1>3, <1>5 DEF Complete
    <3> QED BY <1>2, <3>1, NotComplete
  <2>4. ReadOf(Parser', tokens, expectsOp, level, "rejected")
    BY <1>2, <2>2, <2>3, ReadIsRejected
  <2> QED BY <1>1, <2>1, <2>4 DEF ExprInv
<1>6. CASE ~(nodes = <<>> /\ opStack = <<>>) /\ Complete
  <2> DEFINE d == PoppedToParenthesis(Parser)
  <2>1. Becomes(d) /\ outcome' = IF Len(d.orphans) = 1 THEN "parsed" ELSE "rejected"
    BY <1>6 DEF Finalize
  <2>2. ReadOf(Parser, tokens, TRUE, level, "parsing") /\ expectsOp = TRUE /\ level = 0
    <3>1. expectsOp = TRUE /\ level = 0
      BY <1>2, <1>6 DEF Complete
    <3> QED BY <1>2, <3>1
  <2>3. Parser'.nodes = d.nodes /\ Parser'.orphans = d.orphans /\ Parser'.root = d.root
    BY <2>1, ParserFields DEF Becomes
  <2>4. d = PoppedToParenthesis(Parser)
    OBVIOUS
  <2> HIDE DEF d
  <2>5. ReadOf(Parser', tokens, TRUE, level, "parsed") /\ Len(d.orphans) = 1
    BY <2>2, <2>3, <2>4, ReadIsParsed
  <2>6. outcome' = "parsed"
    BY <2>1, <2>5
  <2> QED BY <1>1, <2>2, <2>5, <2>6 DEF ExprInv
<1> QED BY <1>4, <1>5, <1>6

LEMMA ExprInvInit ==
  ASSUME ExpressionInit PROVE ExprInv
<1>1. /\ tokens = <<>> /\ nodes = <<>> /\ root = 1 /\ orphans = <<>> /\ opStack = <<>>
      /\ level = 0 /\ expectsOp = FALSE /\ outcome = "parsing"
  BY DEF ExpressionInit
<1>2. Parser.nodes = <<>> /\ Parser.stack = <<>> /\ Parser.orphans = <<>> /\ Parser.root = 1
  BY <1>1, ParserFields
<1>3. Parser \in Parsers
  <2>1. nodes \in Seq(TreeNode) /\ root \in Nat /\ orphans \in Seq(Nat) /\ opStack \in Seq(Tokens)
    BY <1>1
  <2> QED BY <2>1, Zenon DEF Parsers, Parser
<1>4. Parses(Parser, <<>>, FALSE, 0)
  BY <1>2, <1>3, NothingRead
<1>5. Len(<<>>) <= MaxTokens
  BY ExpressionConstants
<1>6. ReadOf(Parser, <<>>, FALSE, 0, "parsing")
  BY <1>4, <1>5, ReadGoesOn
<1> QED BY <1>1, <1>6 DEF ExprInv

LEMMA ExprInvNext ==
  ASSUME ExprInv, [ExpressionNext]_expressionVars PROVE ExprInv'
<1>1. CASE ExpressionNext
  <2>1. CASE PushVariable
    BY <2>1, PushVariableKeeps
  <2>2. CASE PushLeft
    BY <2>2, PushLeftKeeps
  <2>3. CASE PushRight
    BY <2>3, PushRightKeeps
  <2>4. CASE Finalize
    BY <2>4, FinalizeKeeps
  <2>5. CASE \E o \in BoolOps : PushOperator(o)
    BY <2>5, PushOperatorKeeps
  <2> QED BY <1>1, <2>1, <2>2, <2>3, <2>4, <2>5 DEF ExpressionNext
<1>2. CASE UNCHANGED expressionVars
  <2>1. Parser' = Parser
    BY <1>2 DEF expressionVars, Parser
  <2>2. tokens' = tokens /\ expectsOp' = expectsOp /\ level' = level /\ outcome' = outcome
    BY <1>2 DEF expressionVars
  <2> QED BY <2>1, <2>2 DEF ExprInv
<1> QED BY <1>1, <1>2

LEMMA ExprInvImplies ==
  ASSUME ExprInv PROVE ExpressionTypeOK /\ ExpressionUnderstood
<1>1. /\ tokens \in Seq(Tokens) /\ level \in 0..MaxTokens /\ expectsOp \in BOOLEAN
      /\ outcome \in {"parsing", "rejected", "parsed"}
      /\ IsTree(nodes)
      /\ \A a \in DOMAIN orphans : orphans[a] \in DOMAIN nodes
      /\ outcome = "rejected" => tokens # <<>> /\ ~WellFormed(tokens, 1, Len(tokens))
      /\ outcome = "parsed" => tokens = <<>> \/ Understood(tokens, nodes, root)
  BY ParserFields, Zenon DEF ExprInv, ReadOf
<1>2. ExpressionTypeOK
  <2>1. Range(orphans) \subseteq DOMAIN nodes
    BY <1>1, Zenon DEF Range
  <2>2. \A i \in DOMAIN nodes : nodes[i].op # NoOperator =>
          nodes[i].left \in 1..(i - 1) /\ nodes[i].right \in 1..(i - 1)
    BY <1>1, Zenon DEF IsTree
  <2> QED BY <1>1, <2>1, <2>2, Zenon DEF ExpressionTypeOK
<1>3. AcceptsTheGrammar
  <2>1. outcome = "parsed" => tokens = <<>> \/ WellFormed(tokens, 1, Len(tokens))
    BY <1>1, Zenon DEF Understood
  <2> QED BY <1>1, <2>1, Zenon DEF AcceptsTheGrammar
<1>4. TreeMeansTheTokens
  <2> SUFFICES ASSUME outcome = "parsed", tokens # <<>>, NEW true
               PROVE  /\ Holds(true) <=> Means(tokens, 1, Len(tokens), true)
                      /\ LET w == Written(nodes, root) IN Holds(true) <=> Means(w, 1, Len(w), true)
    BY Zenon DEF TreeMeansTheTokens
  <2>1. Understood(tokens, nodes, root)
    BY <1>1
  <2>2. /\ Evaluate(nodes, root, true) <=> Means(tokens, 1, Len(tokens), true)
        /\ LET w == Written(nodes, root) IN Evaluate(nodes, root, true) <=> Means(w, 1, Len(w), true)
    BY <2>1, Zenon DEF Understood
  <2>3. nodes # <<>>
    <3>1. root \in DOMAIN nodes
      BY <2>1 DEF Understood
    <3> QED BY <3>1
  <2> QED BY <2>2, <2>3, Zenon DEF Holds
<1> QED BY <1>2, <1>3, <1>4 DEF ExpressionUnderstood

\* What InfixParser makes of the tokens that it is pushed: it accepts an
\* expression if and only if it is one of the grammar, whatever its length, and
\* the tree that it has built then, and what infix_for_each writes of it, hold
\* for the same variables as the tokens say.
THEOREM ExpressionsAreUnderstood == ExpressionSpec => []ExpressionTypeOK /\ []ExpressionUnderstood
<1>1. ExpressionInit => ExprInv
  BY ExprInvInit
<1>2. ExprInv /\ [ExpressionNext]_expressionVars => ExprInv'
  BY ExprInvNext
<1>3. ExprInv => ExpressionTypeOK /\ ExpressionUnderstood
  BY ExprInvImplies
<1> QED BY <1>1, <1>2, <1>3, PTL DEF ExpressionSpec
=============================================================================
