---------------------------- MODULE SettingsProofs ----------------------------
(***************************************************************************)
(* Proofs about what the user writes once and libmamba reads again: the      *)
(* start-up files of the shells, and the configuration of an operation; and   *)
(* with ExpressionProofs about the three together.                           *)
(***************************************************************************)
EXTENDS PrefixProofs, ExpressionProofs, Settings

-----------------------------------------------------------------------------
(* ShellInit *)

LineEnd == "line end"
Begin == "begin"
End == "end"
Text == {"line", LineEnd}
Token == Text \cup {Begin, End} \cup RootPrefixes

\* A text with a block in it.
WithBlock(A, p, B) == A \o RcBlock(p) \o B

LEMMA TokensDiffer ==
  /\ Begin # End /\ Begin \notin Text /\ End \notin Text
  /\ \A p \in RootPrefixes : p # Begin /\ p # End /\ p # LineEnd /\ p # NoPrefix
<1>1. Begin # End /\ Begin \notin Text /\ End \notin Text
  BY DEF Begin, End, Text, LineEnd
<1>2. ASSUME NEW p \in RootPrefixes PROVE p # Begin /\ p # End /\ p # LineEnd /\ p # NoPrefix
  BY ShellInitConstants, Zenon DEF Begin, End, LineEnd
<1> QED BY <1>1, <1>2

\* The elements of two sequences, one after the other.
IsJoined(w, s, t, S) ==
    /\ w \in Seq(S) /\ Len(w) = Len(s) + Len(t)
    /\ \A i \in 1..Len(s) : w[i] = s[i]
    /\ \A i \in 1..Len(t) : w[Len(s) + i] = t[i]

LEMMA JoinedAt ==
  ASSUME NEW S, NEW s \in Seq(S), NEW t \in Seq(S)
  PROVE  IsJoined(s \o t, s, t, S)
<1>1. Len(s) \in Nat /\ Len(t) \in Nat
  OBVIOUS
<1>2. ASSUME NEW i \in 1..Len(s) PROVE (s \o t)[i] = s[i]
  BY <1>1
<1>3. ASSUME NEW i \in 1..Len(t) PROVE (s \o t)[Len(s) + i] = t[i]
  BY <1>1
<1> QED BY <1>2, <1>3 DEF IsJoined

\* Where the tokens of a text with a block are.
LaidOutAs(f, A, p, B) ==
    /\ f \in Seq(Token) /\ Len(f) = Len(A) + 5 + Len(B)
    /\ \A i \in 1..Len(A) : f[i] = A[i]
    /\ f[Len(A) + 1] = LineEnd /\ f[Len(A) + 2] = Begin /\ f[Len(A) + 3] = p
    /\ f[Len(A) + 4] = End /\ f[Len(A) + 5] = LineEnd
    /\ \A i \in 1..Len(B) : f[Len(A) + 5 + i] = B[i]

LEMMA BlockIsAt ==
  ASSUME NEW A \in Seq(Text), NEW B \in Seq(Text), NEW p \in RootPrefixes
  PROVE  LaidOutAs(WithBlock(A, p, B), A, p, B)
<1> DEFINE blk == RcBlock(p)
<1>1. blk \in Seq(Token) /\ Len(blk) = 5 /\ blk[1] = LineEnd /\ blk[2] = Begin
      /\ blk[3] = p /\ blk[4] = End /\ blk[5] = LineEnd
  <2> DEFINE Tok == Token
  <2>1. LineEnd \in Tok /\ Begin \in Tok /\ End \in Tok /\ p \in Tok
    BY DEF Token, Text
  <2> HIDE DEF Tok, blk
  <2>2. blk = <<LineEnd, Begin, p, End, LineEnd>>
    BY Zenon DEF RcBlock, blk, LineEnd, Begin, End
  <2> QED BY <2>1, <2>2 DEF Tok
<1>2. A \in Seq(Token) /\ B \in Seq(Token)
  BY DEF Token
<1> HIDE DEF blk
<1>3. WithBlock(A, p, B) = (A \o blk) \o B
  BY DEF WithBlock, blk
<1> DEFINE ab == A \o blk
<1>4. /\ ab \in Seq(Token) /\ Len(ab) = Len(A) + 5
      /\ \A i \in 1..Len(A) : ab[i] = A[i]
      /\ \A i \in 1..5 : ab[Len(A) + i] = blk[i]
  <2>1. Len(blk) = 5
    BY <1>1
  <2>2. IsJoined(ab, A, blk, Token)
    BY <1>1, <1>2, JoinedAt
  <2> HIDE DEF ab
  <2> QED BY <2>1, <2>2 DEF IsJoined
<1> HIDE DEF ab
<1>5. WithBlock(A, p, B) = ab \o B
  BY <1>3 DEF ab
<1> DEFINE f == WithBlock(A, p, B)
<1>6. /\ f \in Seq(Token) /\ Len(f) = Len(A) + 5 + Len(B)
      /\ \A i \in 1..(Len(A) + 5) : f[i] = ab[i]
      /\ \A i \in 1..Len(B) : f[Len(A) + 5 + i] = B[i]
  <2>1. IsJoined(f, ab, B, Token)
    BY <1>2, <1>4, <1>5, JoinedAt
  <2> HIDE DEF f
  <2> QED BY <1>4, <2>1 DEF IsJoined
<1> HIDE DEF f
<1>7. Len(A) \in Nat
  OBVIOUS
<1>8. \A i \in 1..Len(A) : f[i] = A[i]
  BY <1>4, <1>6, <1>7
<1>9. \A i \in 1..5 : f[Len(A) + i] = blk[i]
  BY <1>4, <1>6, <1>7, SMTT(60)
<1> QED BY <1>1, <1>6, <1>8, <1>9 DEF LaidOutAs, f

\* Its marks are those of the block.
LEMMA MarksAreAt ==
  ASSUME NEW A \in Seq(Text), NEW B \in Seq(Text), NEW p \in RootPrefixes,
         NEW f, LaidOutAs(f, A, p, B), NEW i \in 1..Len(f)
  PROVE  (f[i] = Begin <=> i = Len(A) + 2) /\ (f[i] = End <=> i = Len(A) + 4)
<1>1. p # Begin /\ p # End
  BY TokensDiffer
<1>2. \A j \in 1..Len(A) : A[j] # Begin /\ A[j] # End
  <2>1. \A j \in 1..Len(A) : A[j] \in Text
    OBVIOUS
  <2> QED BY <2>1, TokensDiffer
<1>3. \A j \in 1..Len(B) : B[j] # Begin /\ B[j] # End
  <2>1. \A j \in 1..Len(B) : B[j] \in Text
    OBVIOUS
  <2> QED BY <2>1, TokensDiffer
<1>4. Len(A) \in Nat /\ Len(B) \in Nat /\ Len(f) = Len(A) + 5 + Len(B)
  BY DEF LaidOutAs
<1>5. CASE i \in 1..Len(A)
  <2>1. f[i] = A[i]
    BY <1>5 DEF LaidOutAs
  <2> QED BY <1>2, <1>4, <1>5, <2>1
<1>6. CASE i > Len(A) + 5
  <2>1. i - (Len(A) + 5) \in 1..Len(B) /\ i = Len(A) + 5 + (i - (Len(A) + 5))
    BY <1>4, <1>6
  <2>2. f[i] = B[i - (Len(A) + 5)]
    BY <2>1 DEF LaidOutAs
  <2>3. f[i] # Begin /\ f[i] # End
    BY <1>3, <2>1, <2>2
  <2> QED BY <1>4, <1>6, <2>3
<1>7. CASE i \in (Len(A) + 1)..(Len(A) + 5)
  <2>1. i = Len(A) + 1 \/ i = Len(A) + 2 \/ i = Len(A) + 3 \/ i = Len(A) + 4 \/ i = Len(A) + 5
    BY <1>4, <1>7
  <2>2. /\ f[Len(A) + 1] = LineEnd /\ f[Len(A) + 2] = Begin /\ f[Len(A) + 3] = p
        /\ f[Len(A) + 4] = End /\ f[Len(A) + 5] = LineEnd
    BY DEF LaidOutAs
  <2>3. LineEnd # Begin /\ LineEnd # End /\ Begin # End
    BY DEF LineEnd, Begin, End
  <2> QED BY <1>1, <1>4, <2>1, <2>2, <2>3
<1> QED BY <1>4, <1>5, <1>6, <1>7

\* Without a mark nothing is replaced.
LEMMA PlainStays ==
  ASSUME NEW f \in Seq(Text), NEW by
  PROVE  Replaced(f, by) = f
<1> DEFINE ends(i) == {j \in i..Len(f) : f[j] = End}
           begins(i) == {j \in i..Len(f) : f[j] = Begin /\ ends(j) # {}}
           b(i) == Min(begins(i))
           e(i) == Min(ends(b(i)))
           before(i) == IF b(i) > i /\ f[b(i) - 1] = LineEnd THEN b(i) - 2 ELSE b(i) - 1
           after(i) == IF e(i) < Len(f) /\ f[e(i) + 1] = LineEnd THEN e(i) + 2 ELSE e(i) + 1
           Solves(g) == g = [i \in 1..(Len(f) + 1) |->
                               IF begins(i) = {} THEN SubSeq(f, i, Len(f))
                               ELSE SubSeq(f, i, before(i)) \o by \o g[after(i)]]
           c == CHOOSE g : Solves(g)
           d == [i \in 1..(Len(f) + 1) |-> SubSeq(f, i, Len(f))]
<1>1. ASSUME NEW i \in 1..(Len(f) + 1) PROVE begins(i) = {}
  <2>1. \A j \in i..Len(f) : f[j] \in Text
    OBVIOUS
  <2>2. \A j \in i..Len(f) : f[j] # Begin
    BY <2>1, TokensDiffer
  <2> QED BY <2>2
<1>2. Solves(d)
  <2>1. \A i \in 1..(Len(f) + 1) : d[i] = IF begins(i) = {} THEN SubSeq(f, i, Len(f))
                               ELSE SubSeq(f, i, before(i)) \o by \o d[after(i)]
    <3> HIDE DEF begins, before, after
    <3> QED BY <1>1
  <2> HIDE DEF begins, before, after
  <2> QED BY <2>1, <1>1
<1>3. Solves(c)
  <2> HIDE DEF Solves
  <2> QED BY <1>2
<1>4. Replaced(f, by) = c[1]
  BY DEF Replaced, LineEnd, Begin, End
<1>5. c[1] = SubSeq(f, 1, Len(f))
  <2> HIDE DEF c, begins, before, after
  <2> QED BY <1>1, <1>3
<1> HIDE DEF c
<1> QED BY <1>4, <1>5

LEMMA MinIs ==
  ASSUME NEW m \in Nat PROVE Min({m}) = m
BY DEF Min

\* A block is replaced with the line ends on both sides of it.
LEMMA BlockIsReplaced ==
  ASSUME NEW A \in Seq(Text), NEW B \in Seq(Text), NEW p \in RootPrefixes, NEW by \in Seq(Token)
  PROVE  Replaced(WithBlock(A, p, B), by) = A \o by \o B
<1> DEFINE f == WithBlock(A, p, B)
           n == Len(A)
           ends(i) == {j \in i..Len(f) : f[j] = End}
           begins(i) == {j \in i..Len(f) : f[j] = Begin /\ ends(j) # {}}
           b(i) == Min(begins(i))
           e(i) == Min(ends(b(i)))
           before(i) == IF b(i) > i /\ f[b(i) - 1] = LineEnd THEN b(i) - 2 ELSE b(i) - 1
           after(i) == IF e(i) < Len(f) /\ f[e(i) + 1] = LineEnd THEN e(i) + 2 ELSE e(i) + 1
           Solves(g) == g = [i \in 1..(Len(f) + 1) |->
                               IF begins(i) = {} THEN SubSeq(f, i, Len(f))
                               ELSE SubSeq(f, i, before(i)) \o by \o g[after(i)]]
           c == CHOOSE g : Solves(g)
           d == [i \in 1..(Len(f) + 1) |->
                   IF i > n + 2 THEN SubSeq(f, i, Len(f))
                   ELSE SubSeq(f, i, before(i)) \o by \o SubSeq(f, n + 6, Len(f))]
<1>l. LaidOutAs(f, A, p, B)
  BY BlockIsAt
<1>0. /\ f \in Seq(Token) /\ Len(f) = n + 5 + Len(B) /\ n \in Nat /\ Len(B) \in Nat
      /\ Len(f) \in Nat /\ DOMAIN f = 1..Len(f)
  <2> HIDE DEF f
  <2> QED BY <1>l DEF LaidOutAs
<1>1. \A i \in 1..Len(f) : (f[i] = Begin <=> i = n + 2) /\ (f[i] = End <=> i = n + 4)
  <2> HIDE DEF f
  <2> QED BY <1>l, MarksAreAt
<1>2. /\ f[n + 1] = LineEnd /\ f[n + 2] = Begin /\ f[n + 4] = End /\ f[n + 5] = LineEnd
      /\ \A i \in 1..n : f[i] = A[i]
      /\ \A i \in 1..Len(B) : f[n + 5 + i] = B[i]
  <2> HIDE DEF f
  <2> QED BY <1>l DEF LaidOutAs
<1> HIDE DEF f, n
<1>3. ASSUME NEW i \in 1..(Len(f) + 1), i > n + 2 PROVE begins(i) = {}
  BY <1>0, <1>1, <1>3
<1>4. ends(n + 2) = {n + 4}
  <2>1. n + 4 \in (n + 2)..Len(f)
    BY <1>0
  <2>2. \A j \in (n + 2)..Len(f) : f[j] = End <=> j = n + 4
    <3>1. \A j \in (n + 2)..Len(f) : j \in 1..Len(f)
      BY <1>0
    <3> QED BY <1>1, <3>1
  <2> QED BY <2>1, <2>2
<1>5. ASSUME NEW i \in 1..(Len(f) + 1), i <= n + 2 PROVE begins(i) = {n + 2}
  <2>1. n + 2 \in i..Len(f)
    BY <1>0, <1>5
  <2>2. ASSUME NEW j \in i..Len(f), f[j] = Begin PROVE j = n + 2
    BY <1>0, <1>1, <2>2
  <2>3. n + 2 \in begins(i)
    <3> HIDE DEF ends
    <3> QED BY <1>2, <1>4, <2>1
  <2>4. begins(i) \subseteq {n + 2}
    <3> HIDE DEF ends
    <3> QED BY <2>2
  <2> HIDE DEF begins
  <2> QED BY <2>3, <2>4
<1>6. ASSUME NEW i \in 1..(Len(f) + 1), i <= n + 2
      PROVE  /\ begins(i) # {} /\ b(i) = n + 2 /\ e(i) = n + 4
             /\ after(i) = n + 6 /\ (i < n + 2 => before(i) = n)
  <2>1. b(i) = n + 2
    <3>1. n + 2 \in Nat
      BY <1>0
    <3> HIDE DEF begins
    <3> QED BY <1>5, <1>6, <3>1, MinIs
  <2>2. e(i) = n + 4
    <3>1. n + 4 \in Nat
      BY <1>0
    <3> HIDE DEF b, ends
    <3> QED BY <1>4, <2>1, <3>1, MinIs
  <2>3. after(i) = n + 6
    <3>1. n + 4 < Len(f) /\ (n + 4) + 1 = n + 5 /\ (n + 4) + 2 = n + 6
      BY <1>0
    <3> HIDE DEF e
    <3> QED BY <1>2, <2>2, <3>1
  <2>4. i < n + 2 => before(i) = n
    <3>1. (n + 2) - 1 = n + 1 /\ (n + 2) - 2 = n
      BY <1>0
    <3> HIDE DEF b
    <3> QED BY <1>0, <1>2, <2>1, <3>1
  <2>5. begins(i) # {}
    <3> HIDE DEF begins
    <3> QED BY <1>5, <1>6
  <2> QED BY <2>1, <2>2, <2>3, <2>4, <2>5
<1>7. ASSUME NEW i \in 1..(Len(f) + 1)
      PROVE  d[i] = IF begins(i) = {} THEN SubSeq(f, i, Len(f))
                    ELSE SubSeq(f, i, before(i)) \o by \o d[after(i)]
  <2>1. CASE i > n + 2
    <3>1. begins(i) = {}
      BY <1>3, <2>1
    <3> HIDE DEF begins, before, after
    <3> QED BY <2>1, <3>1
  <2>2. CASE i <= n + 2
    <3>1. begins(i) # {} /\ after(i) = n + 6
      BY <1>6, <2>2
    <3>2. d[n + 6] = SubSeq(f, n + 6, Len(f))
      <4>1. n + 6 \in 1..(Len(f) + 1) /\ n + 6 > n + 2
        BY <1>0
      <4> HIDE DEF begins, before, after
      <4> QED BY <4>1
    <3>3. d[i] = SubSeq(f, i, before(i)) \o by \o SubSeq(f, n + 6, Len(f))
      <4>1. ~(i > n + 2)
        BY <1>0, <2>2
      <4> HIDE DEF begins, before, after
      <4> QED BY <4>1
    <3> HIDE DEF begins, before, after, d
    <3> QED BY <3>1, <3>2, <3>3
  <2>3. i > n + 2 \/ i <= n + 2
    BY <1>0
  <2> HIDE DEF d, begins, before, after
  <2> QED BY <2>1, <2>2, <2>3
<1>8. Solves(d)
  <2> DEFINE body(g, i) == IF begins(i) = {} THEN SubSeq(f, i, Len(f))
                    ELSE SubSeq(f, i, before(i)) \o by \o g[after(i)]
  <2>1. \A i \in 1..(Len(f) + 1) : d[i] = body(d, i)
    BY <1>7
  <2>2. d = [i \in 1..(Len(f) + 1) |-> d[i]]
    <3> HIDE DEF before
    <3> QED OBVIOUS
  <2>3. d = [i \in 1..(Len(f) + 1) |-> body(d, i)]
    <3> HIDE DEF d, body
    <3> QED BY <2>1, <2>2
  <2> HIDE DEF d, begins, before, after
  <2> QED BY <2>3
<1>9. Solves(c)
  <2> HIDE DEF Solves
  <2> QED BY <1>8
<1>10. Replaced(f, by) = c[1]
  BY DEF Replaced, LineEnd, Begin, End
<1>11. c[n + 6] = SubSeq(f, n + 6, Len(f))
  <2>1. n + 6 \in 1..(Len(f) + 1) /\ n + 6 > n + 2
    BY <1>0
  <2>2. begins(n + 6) = {}
    BY <1>3, <2>1
  <2> HIDE DEF c, begins, before, after
  <2> QED BY <1>9, <2>1, <2>2
<1>12. c[1] = SubSeq(f, 1, n) \o by \o SubSeq(f, n + 6, Len(f))
  <2>1. 1 \in 1..(Len(f) + 1) /\ 1 <= n + 2 /\ 1 < n + 2
    BY <1>0
  <2>2. begins(1) # {} /\ before(1) = n /\ after(1) = n + 6
    BY <1>6, <2>1
  <2> HIDE DEF c, begins, before, after
  <2>3. c[1] = SubSeq(f, 1, before(1)) \o by \o c[after(1)]
    BY <1>9, <2>1, <2>2
  <2> QED BY <1>11, <2>2, <2>3
<1> HIDE DEF c, Solves
<1>13. SubSeq(f, 1, n) = A
  <2>1. /\ SubSeq(f, 1, n) \in Seq(Token) /\ Len(SubSeq(f, 1, n)) = n
        /\ \A i \in 1..n : SubSeq(f, 1, n)[i] = f[i]
    BY <1>0
  <2>2. A \in Seq(Token) /\ Len(A) = n
    BY DEF Token, n
  <2> DEFINE w == SubSeq(f, 1, n)
  <2> HIDE DEF w
  <2>3. w = A
    BY <1>2, <2>1, <2>2 DEF w
  <2> QED BY <2>3 DEF w
<1>14. SubSeq(f, n + 6, Len(f)) = B
  <2> DEFINE w == SubSeq(f, n + 6, Len(f))
  <2>1. /\ w \in Seq(Token) /\ Len(w) = Len(B)
        /\ \A i \in 1..Len(B) : w[i] = f[n + 5 + i]
    BY <1>0
  <2>2. B \in Seq(Token)
    BY DEF Token
  <2> HIDE DEF w
  <2>4. \A i \in 1..Len(B) : w[i] = B[i]
    BY <1>2, <2>1
  <2>3. w = B
    BY <2>4, <2>1, <2>2
  <2> QED BY <2>3 DEF w
<1> QED BY <1>10, <1>12, <1>13, <1>14 DEF f

-----------------------------------------------------------------------------
(* ShellInit: a start-up file is the text of the user, with the block of    *)
(* the last init somewhere in it unless a deinit came after.                *)

IsPlain(file, user) == RcContents(file) = user
IsWith(file, user, p) ==
    \E A, B \in Seq(Text) : file = WithBlock(A, p, B) /\ user = A \o B
HasALine(user) == user = <<>> \/ \E i \in DOMAIN user : user[i] = "line"

FileInv(file, user, p) ==
    /\ user \in Seq(Text) /\ HasALine(user)
    /\ p = NoPrefix => IsPlain(file, user)
    /\ p # NoPrefix => IsWith(file, user, p)

ShellInv ==
    /\ rcFile = [sh \in Files |-> rcFile[sh]] /\ userText = [sh \in Files |-> userText[sh]]
    /\ rcPrefix \in [Files -> RootPrefixes \cup {NoPrefix}]
    /\ \A sh \in Files : FileInv(rcFile[sh], userText[sh], rcPrefix[sh])
    /\ BlockHasItsHook

\* No file is not a text.
LEMMA NoFileIsNoText ==
  /\ NoRcFile \notin Seq(Text)
  /\ \A A, B \in Seq(Text), p \in RootPrefixes : WithBlock(A, p, B) # NoRcFile
<1>1. NoRcFile \notin Seq(Text)
  <2>1. NoRcFile[1] = "no file" /\ Len(NoRcFile) = 1
    BY DEF NoRcFile
  <2>2. ASSUME NoRcFile \in Seq(Text) PROVE NoRcFile[1] \in Text
    <3>1. \A i \in 1..Len(NoRcFile) : NoRcFile[i] \in Text
      BY <2>2
    <3>2. Len(NoRcFile) = 1
      BY <2>1
    <3> DEFINE m == Len(NoRcFile)
    <3>3. 1 \in 1..m
      <4> HIDE DEF m
      <4>1. m = 1
        BY <3>2 DEF m
      <4> QED BY <4>1
    <3> QED BY <3>1, <3>3, Zenon
  <2>3. "no file" \notin Text
    BY DEF Text, LineEnd
  <2> QED BY <2>1, <2>2, <2>3
<1>2. ASSUME NEW A \in Seq(Text), NEW B \in Seq(Text), NEW p \in RootPrefixes
      PROVE  WithBlock(A, p, B) # NoRcFile
  <2> DEFINE f == WithBlock(A, p, B)
  <2>1. LaidOutAs(f, A, p, B)
    BY BlockIsAt
  <2> HIDE DEF f
  <2>2. Len(f) = Len(A) + 5 + Len(B) /\ Len(A) \in Nat /\ Len(B) \in Nat
    BY <2>1 DEF LaidOutAs
  <2>3. Len(NoRcFile) = 1
    BY DEF NoRcFile
  <2>5. Len(f) # 1
    BY <2>2
  <2>4. f # NoRcFile
    BY <2>3, <2>5, Zenon
  <2> QED BY <2>4 DEF f
<1> QED BY <1>1, <1>2

LEMMA PlainHasNoMark ==
  ASSUME NEW f \in Seq(Text) PROVE ~HasMark(f)
<1>1. \A i \in 1..Len(f) : f[i] \in Text
  OBVIOUS
<1>2. "begin" \notin Text
  BY TokensDiffer DEF Begin
<1> QED BY <1>1, <1>2 DEF HasMark, Range

LEMMA BlockIsAMark ==
  ASSUME NEW A \in Seq(Text), NEW B \in Seq(Text), NEW p \in RootPrefixes
  PROVE  HasMark(WithBlock(A, p, B))
<1> DEFINE f == WithBlock(A, p, B)
<1>1. LaidOutAs(f, A, p, B)
  BY BlockIsAt
<1> HIDE DEF f
<1>2. Len(A) + 2 \in DOMAIN f /\ f[Len(A) + 2] = Begin
  BY <1>1 DEF LaidOutAs
<1>3. HasMark(f)
  BY <1>2, Zenon DEF HasMark, Range, Begin
<1> QED BY <1>3 DEF f

LEMMA BlockTyped ==
  ASSUME NEW p \in RootPrefixes PROVE RcBlock(p) \in Seq(Token)
<1> DEFINE blk == RcBlock(p)
           Tok == Token
<1>1. LineEnd \in Tok /\ Begin \in Tok /\ End \in Tok /\ p \in Tok
  BY DEF Token, Text
<1> HIDE DEF Tok, blk
<1>2. blk = <<LineEnd, Begin, p, End, LineEnd>>
  BY Zenon DEF RcBlock, blk, LineEnd, Begin, End
<1>3. blk \in Seq(Tok)
  BY <1>1, <1>2
<1> QED BY <1>3 DEF Tok, blk

\* init puts the block of its prefix into the text, in the place of another.
LEMMA InitKeeps ==
  ASSUME NEW file, NEW user, NEW q \in RootPrefixes \cup {NoPrefix}, FileInv(file, user, q),
         NEW p \in RootPrefixes
  PROVE  FileInv(ModifiedRcFile(file, p), user, p)
<1>1. p # NoPrefix
  BY TokensDiffer
<1>2. CASE q = NoPrefix
  <2>1. RcContents(file) = user /\ user \in Seq(Text)
    BY <1>2 DEF FileInv, IsPlain
  <2>2. Replaced(user, RcBlock(p)) = user
    BY <2>1, PlainStays
  <2>3. ModifiedRcFile(file, p) = user \o RcBlock(p)
    BY <2>1, <2>2, PlainHasNoMark DEF ModifiedRcFile
  <2>4. <<>> \in Seq(Text) /\ user \o <<>> = user
    BY <2>1
  <2>5. WithBlock(user, p, <<>>) = user \o RcBlock(p)
    <3> DEFINE blk == RcBlock(p)
               w == user \o blk
    <3>1. user \in Seq(Token) /\ blk \in Seq(Token)
      BY <2>1, BlockTyped DEF Token
    <3> HIDE DEF blk
    <3>2. w \in Seq(Token)
      BY <3>1
    <3> HIDE DEF w
    <3>3. w \o <<>> = w
      BY <3>2
    <3> QED BY <3>3 DEF WithBlock, w, blk
  <2>6. IsWith(ModifiedRcFile(file, p), user, p)
    BY <2>1, <2>3, <2>4, <2>5, Zenon DEF IsWith
  <2> QED BY <1>1, <2>6 DEF FileInv
<1>3. CASE q # NoPrefix
  <2>1. PICK A \in Seq(Text), B \in Seq(Text) : file = WithBlock(A, q, B) /\ user = A \o B
    BY <1>3 DEF FileInv, IsWith
  <2>2. RcContents(file) = file
    BY <1>3, <2>1, NoFileIsNoText, Zenon DEF RcContents
  <2>3. Replaced(file, RcBlock(p)) = WithBlock(A, p, B)
    BY <1>3, <2>1, BlockIsReplaced, BlockTyped, Zenon DEF WithBlock
  <2>4. ModifiedRcFile(file, p) = WithBlock(A, p, B)
    BY <2>2, <2>3, BlockIsAMark, Zenon DEF ModifiedRcFile
  <2>5. IsWith(ModifiedRcFile(file, p), user, p)
    BY <2>1, <2>4, Zenon DEF IsWith
  <2> QED BY <1>1, <2>5 DEF FileInv
<1> QED BY <1>2, <1>3

\* deinit leaves the text.
LEMMA DeinitKeeps ==
  ASSUME NEW file, NEW user, NEW q \in RootPrefixes \cup {NoPrefix}, FileInv(file, user, q),
         NEW sh
  PROVE  FileInv(Reset(sh, file), user, NoPrefix)
<1>1. user \in Seq(Text) /\ HasALine(user)
  BY DEF FileInv
<1>2. file = NoRcFile => user = <<>>
  <2>1. CASE q = NoPrefix
    BY <2>1 DEF FileInv, IsPlain, RcContents
  <2>2. CASE q # NoPrefix
    BY <2>2, NoFileIsNoText, Zenon DEF FileInv, IsWith
  <2> QED BY <2>1, <2>2
<1>3. file # NoRcFile => Replaced(file, <<>>) = user
  <2>1. CASE q = NoPrefix
    BY <1>1, <2>1, PlainStays DEF FileInv, IsPlain, RcContents
  <2>2. CASE q # NoPrefix
    <3>1. PICK A \in Seq(Text), B \in Seq(Text) : file = WithBlock(A, q, B) /\ user = A \o B
      BY <2>2 DEF FileInv, IsWith
    <3>2. <<>> \in Seq(Token) /\ A \o <<>> = A
      OBVIOUS
    <3>3. Replaced(file, <<>>) = A \o <<>> \o B
      BY <2>2, <3>1, <3>2, BlockIsReplaced, Zenon
    <3> QED BY <3>1, <3>2, <3>3, Zenon
  <2> QED BY <2>1, <2>2
<1>4. Range(user) \subseteq {"line end"} => user = <<>>
  <2>1. "line" # "line end"
    OBVIOUS
  <2> QED BY <1>1, <2>1 DEF HasALine, Range
<1>5. user # NoRcFile
  BY <1>1, NoFileIsNoText
<1>6. RcContents(Reset(sh, file)) = user
  BY <1>2, <1>3, <1>4, <1>5 DEF Reset, RcContents
<1> QED BY <1>1, <1>6 DEF FileInv, IsPlain

\* What the user adds comes after the block.
LEMMA UserKeeps ==
  ASSUME NEW file, NEW user, NEW q \in RootPrefixes \cup {NoPrefix}, FileInv(file, user, q)
  PROVE  FileInv(RcContents(file) \o <<"line", "line end">>, user \o <<"line", "line end">>, q)
<1> DEFINE L == <<"line", "line end">>
<1>1. L \in Seq(Text) /\ Len(L) = 2 /\ L[1] = "line"
  BY DEF Text, LineEnd
<1> HIDE DEF L
<1>2. user \in Seq(Text)
  BY DEF FileInv
<1>3. user \o L \in Seq(Text) /\ HasALine(user \o L)
  <2>1. IsJoined(user \o L, user, L, Text)
    BY <1>1, <1>2, JoinedAt
  <2>2. (user \o L)[Len(user) + 1] = "line" /\ Len(user) + 1 \in DOMAIN (user \o L)
    BY <1>1, <1>2, <2>1 DEF IsJoined
  <2> QED BY <1>1, <1>2, <2>2 DEF HasALine
<1>4. CASE q = NoPrefix
  <2>1. RcContents(file) = user
    BY <1>4 DEF FileInv, IsPlain
  <2>2. user \o L # NoRcFile
    BY <1>3, NoFileIsNoText, Zenon
  <2>3. IsPlain(RcContents(file) \o L, user \o L)
    BY <2>1, <2>2, Zenon DEF IsPlain, RcContents
  <2> QED BY <1>3, <1>4, <2>3 DEF FileInv, L
<1>5. CASE q # NoPrefix
  <2>1. PICK A \in Seq(Text), B \in Seq(Text) : file = WithBlock(A, q, B) /\ user = A \o B
    BY <1>5 DEF FileInv, IsWith
  <2>2. RcContents(file) = file
    BY <1>5, <2>1, NoFileIsNoText, Zenon DEF RcContents
  <2>3. B \o L \in Seq(Text)
    BY <1>1
  <2>4. user \o L = A \o (B \o L)
    BY <1>1, <2>1
  <2>5. WithBlock(A, q, B) \o L = WithBlock(A, q, B \o L)
    <3> DEFINE blk == RcBlock(q)
               ab == A \o blk
    <3>1. A \in Seq(Token) /\ B \in Seq(Token) /\ L \in Seq(Token) /\ blk \in Seq(Token)
      BY <1>1, <1>5, BlockTyped DEF Token
    <3> HIDE DEF blk
    <3>2. ab \in Seq(Token)
      BY <3>1
    <3> HIDE DEF ab
    <3>3. (ab \o B) \o L = ab \o (B \o L)
      BY <3>1, <3>2
    <3> QED BY <3>3 DEF WithBlock, blk, ab
  <2>6. IsWith(RcContents(file) \o L, user \o L, q)
    BY <2>2, <2>1, <2>3, <2>4, <2>5, Zenon DEF IsWith
  <2> QED BY <1>3, <1>5, <2>6, Zenon DEF FileInv, L
<1> QED BY <1>4, <1>5

LEMMA ShellInitInv == ShellInitInit => ShellInv
<1> SUFFICES ASSUME ShellInitInit PROVE ShellInv
  OBVIOUS
<1>1. /\ rcFile = [sh \in Files |-> rcFile[sh]] /\ userText = [sh \in Files |-> userText[sh]]
      /\ rcPrefix \in [Files -> RootPrefixes \cup {NoPrefix}]
  BY DEF ShellInitInit
<1>2. ASSUME NEW sh \in Files PROVE FileInv(rcFile[sh], userText[sh], rcPrefix[sh])
  <2> DEFINE u == userText[sh]
  <2>1. u = RcContents(rcFile[sh]) /\ rcPrefix[sh] = NoPrefix
        /\ rcFile[sh] \in {NoRcFile, <<"line">>, <<"line", "line end">>}
    BY DEF ShellInitInit
  <2>2. u \in {<<>>, <<"line">>, <<"line", "line end">>}
    BY <2>1 DEF RcContents
  <2> HIDE DEF u
  <2>3. u \in Seq(Text)
    <3>1. "line" \in Text /\ "line end" \in Text
      BY DEF Text, LineEnd
    <3> DEFINE T == Text
    <3> HIDE DEF T
    <3>2. <<>> \in Seq(T) /\ \A a \in T, b \in T : <<a>> \in Seq(T) /\ <<a, b>> \in Seq(T)
      OBVIOUS
    <3> QED BY <2>2, <3>1, <3>2, Zenon DEF T
  <2>4. HasALine(u)
    <3>1. CASE u = <<>>
      BY <3>1 DEF HasALine
    <3>0. ASSUME NEW a, NEW b
          PROVE  /\ 1 \in DOMAIN <<a>> /\ <<a>>[1] = a
                 /\ 1 \in DOMAIN <<a, b>> /\ <<a, b>>[1] = a
      OBVIOUS
    <3>2. CASE u = <<"line">>
      BY <3>0, <3>2, Zenon DEF HasALine
    <3>3. CASE u = <<"line", "line end">>
      BY <3>0, <3>3, Zenon DEF HasALine
    <3> QED BY <2>2, <3>1, <3>2, <3>3
  <2> QED BY <2>1, <2>3, <2>4, Zenon DEF FileInv, IsPlain, u
<1>3. BlockHasItsHook
  BY DEF ShellInitInit, BlockHasItsHook
<1> QED BY <1>1, <1>2, <1>3 DEF ShellInv

\* No other shell writes the hook of csh or of powershell.
LEMMA HooksOfTheirOwn ==
  ASSUME NEW sh \in Files, NEW s \in Files \cap {"csh", "powershell"}, sh # s
  PROVE  HookFiles(sh) \cap HookFiles(s) = {}
BY DEF HookFiles, Files, RcShells

LEMMA InitShellInv ==
  ASSUME ShellInv, NEW sh \in ShellsAsked, NEW p \in RootPrefixes, NEW dryRun \in BOOLEAN,
         InitShell(sh, p, dryRun)
  PROVE  ShellInv'
<1>1. hooks \subseteq hooks' /\ HookFiles(sh) \X {p} \subseteq hooks'
  BY DEF InitShell, InitRootPrefix
<1>2. CASE sh \in RcShells /\ ~dryRun
  <2>1. sh \in Files
    BY <1>2 DEF Files
  <2>2. /\ rcFile' = [rcFile EXCEPT ![sh] = ModifiedRcFile(@, p)]
        /\ rcPrefix' = [rcPrefix EXCEPT ![sh] = p] /\ userText' = userText
    BY <1>2, Zenon DEF InitShell
  <2>3. rcPrefix' \in [Files -> RootPrefixes \cup {NoPrefix}] /\ rcPrefix'[sh] = p
        /\ \A s \in Files \ {sh} : rcPrefix'[s] = rcPrefix[s]
    BY <2>1, <2>2 DEF ShellInv
  <2>4. rcFile' = [s \in Files |-> rcFile'[s]] /\ rcFile'[sh] = ModifiedRcFile(rcFile[sh], p)
        /\ \A s \in Files \ {sh} : rcFile'[s] = rcFile[s]
    BY <2>1, <2>2, Zenon DEF ShellInv
  <2>5. ASSUME NEW s \in Files PROVE FileInv(rcFile'[s], userText'[s], rcPrefix'[s])
    <3>1. FileInv(rcFile[s], userText[s], rcPrefix[s]) /\ rcPrefix[s] \in RootPrefixes \cup {NoPrefix}
      BY DEF ShellInv
    <3>2. CASE s = sh
      BY <2>2, <2>3, <2>4, <3>1, <3>2, InitKeeps, Zenon
    <3>3. CASE s # sh
      <4>1. rcFile'[s] = rcFile[s] /\ rcPrefix'[s] = rcPrefix[s] /\ userText'[s] = userText[s]
        BY <2>2, <2>3, <2>4, <3>3, Zenon
      <4> QED BY <3>1, <4>1, Zenon
    <3> QED BY <3>2, <3>3
  <2>6. BlockHasItsHook'
    <3>1. ASSUME NEW s \in Files \cap {"csh", "powershell"}, rcPrefix'[s] # NoPrefix
          PROVE  HookFiles(s) \X {rcPrefix'[s]} \subseteq hooks'
      <4>1. CASE s = sh
        BY <1>1, <2>3, <4>1
      <4>2. CASE s # sh
        <5>1. rcPrefix'[s] = rcPrefix[s]
          BY <2>3, <4>2, Zenon
        <5>2. HookFiles(s) \X {rcPrefix[s]} \subseteq hooks
          BY <3>1, <5>1, Zenon DEF ShellInv, BlockHasItsHook
        <5> QED BY <1>1, <5>1, <5>2, Zenon
      <4> QED BY <4>1, <4>2
    <3> QED BY <3>1, Zenon DEF BlockHasItsHook
  <2>7. userText' = [s \in Files |-> userText'[s]]
    BY <2>2, Zenon DEF ShellInv
  <2> QED BY <2>3, <2>4, <2>5, <2>6, <2>7, Zenon DEF ShellInv
<1>3. CASE ~(sh \in RcShells /\ ~dryRun)
  <2>1. UNCHANGED <<rcFile, rcPrefix, userText>>
    BY <1>3, Zenon DEF InitShell
  <2>2. BlockHasItsHook'
    BY <1>1, <2>1, Zenon DEF BlockHasItsHook, ShellInv
  <2> QED BY <2>1, <2>2, Zenon DEF ShellInv
<1> QED BY <1>2, <1>3

LEMMA DeinitShellInv ==
  ASSUME ShellInv, NEW sh \in ShellsAsked, NEW p \in RootPrefixes, NEW dryRun \in BOOLEAN,
         DeinitShell(sh, p, dryRun)
  PROVE  ShellInv'
<1>1. sh \in Files /\ hooks' = HooksLeft(sh, p, dryRun) /\ userText' = userText
  BY DEF DeinitShell, Files
<1>2. CASE dryRun
  BY <1>1, <1>2, Zenon DEF DeinitShell, HooksLeft, ShellInv, BlockHasItsHook
<1>3. CASE ~dryRun
  <2>1. /\ rcFile' = [rcFile EXCEPT ![sh] = Reset(sh, @)]
        /\ rcPrefix' = [rcPrefix EXCEPT ![sh] = NoPrefix]
        /\ hooks' = hooks \ (HookFiles(sh) \X {p})
    BY <1>1, <1>3, Zenon DEF DeinitShell, HooksLeft
  <2>3. rcPrefix' \in [Files -> RootPrefixes \cup {NoPrefix}] /\ rcPrefix'[sh] = NoPrefix
        /\ \A s \in Files \ {sh} : rcPrefix'[s] = rcPrefix[s]
    BY <1>1, <2>1 DEF ShellInv
  <2>4. rcFile' = [s \in Files |-> rcFile'[s]] /\ rcFile'[sh] = Reset(sh, rcFile[sh])
        /\ \A s \in Files \ {sh} : rcFile'[s] = rcFile[s]
    BY <1>1, <2>1, Zenon DEF ShellInv
  <2>5. ASSUME NEW s \in Files PROVE FileInv(rcFile'[s], userText'[s], rcPrefix'[s])
    <3>1. FileInv(rcFile[s], userText[s], rcPrefix[s]) /\ rcPrefix[s] \in RootPrefixes \cup {NoPrefix}
      BY DEF ShellInv
    <3>2. CASE s = sh
      <4>1. FileInv(Reset(sh, rcFile[sh]), userText[sh], NoPrefix)
        BY <3>1, <3>2, DeinitKeeps
      <4> QED BY <1>1, <2>3, <2>4, <3>2, <4>1, Zenon
    <3>3. CASE s # sh
      <4>1. rcFile'[s] = rcFile[s] /\ rcPrefix'[s] = rcPrefix[s] /\ userText'[s] = userText[s]
        BY <1>1, <2>3, <2>4, <3>3, Zenon
      <4> QED BY <3>1, <4>1, Zenon
    <3> QED BY <3>2, <3>3
  <2>6. BlockHasItsHook'
    <3>1. ASSUME NEW s \in Files \cap {"csh", "powershell"}, rcPrefix'[s] # NoPrefix
          PROVE  HookFiles(s) \X {rcPrefix'[s]} \subseteq hooks'
      <4>1. s # sh /\ rcPrefix'[s] = rcPrefix[s]
        BY <2>3, <3>1, Zenon
      <4>2. HookFiles(s) \X {rcPrefix[s]} \subseteq hooks
        BY <3>1, <4>1, Zenon DEF ShellInv, BlockHasItsHook
      <4>3. HookFiles(sh) \cap HookFiles(s) = {}
        BY <1>1, <4>1, HooksOfTheirOwn, Zenon
      <4> QED BY <2>1, <4>1, <4>2, <4>3
    <3> QED BY <3>1, Zenon DEF BlockHasItsHook
  <2>7. userText' = [s \in Files |-> userText'[s]]
    BY <1>1, Zenon DEF ShellInv
  <2> QED BY <2>3, <2>4, <2>5, <2>6, <2>7, Zenon DEF ShellInv
<1> QED BY <1>2, <1>3

LEMMA ShellReinitInv ==
  ASSUME ShellInv, NEW p \in RootPrefixes, ShellReinit(p)
  PROVE  ShellInv'
<1> DEFINE S == InitializedShells
<1>1. /\ hooks' = hooks \cup ((UNION {HookFiles(sh) : sh \in S}) \X {p})
      /\ rcFile' = [sh \in Files |-> IF sh \in S THEN ModifiedRcFile(rcFile[sh], p) ELSE rcFile[sh]]
      /\ rcPrefix' = [sh \in Files |-> IF sh \in S THEN p ELSE rcPrefix[sh]]
      /\ userText' = userText
  BY DEF ShellReinit, InitRootPrefix
<1> HIDE DEF S
<1>2. rcPrefix' \in [Files -> RootPrefixes \cup {NoPrefix}]
      /\ \A s \in Files : rcPrefix'[s] = IF s \in S THEN p ELSE rcPrefix[s]
  BY <1>1 DEF ShellInv
<1>3. rcFile' = [s \in Files |-> rcFile'[s]]
      /\ \A s \in Files : rcFile'[s] = IF s \in S THEN ModifiedRcFile(rcFile[s], p) ELSE rcFile[s]
  BY <1>1, Zenon
<1>4. ASSUME NEW s \in Files PROVE FileInv(rcFile'[s], userText'[s], rcPrefix'[s])
  <2>1. FileInv(rcFile[s], userText[s], rcPrefix[s]) /\ rcPrefix[s] \in RootPrefixes \cup {NoPrefix}
    BY DEF ShellInv
  <2>2. CASE s \in S
    <3>1. rcFile'[s] = ModifiedRcFile(rcFile[s], p) /\ rcPrefix'[s] = p
          /\ userText'[s] = userText[s]
      BY <1>1, <1>2, <1>3, <2>2, Zenon
    <3> QED BY <2>1, <3>1, InitKeeps, Zenon
  <2>3. CASE s \notin S
    <3>1. rcFile'[s] = rcFile[s] /\ rcPrefix'[s] = rcPrefix[s] /\ userText'[s] = userText[s]
      BY <1>1, <1>2, <1>3, <2>3, Zenon
    <3> QED BY <2>1, <3>1, Zenon
  <2> QED BY <2>2, <2>3
<1>5. BlockHasItsHook'
  <2>1. ASSUME NEW s \in Files \cap {"csh", "powershell"}, rcPrefix'[s] # NoPrefix
        PROVE  HookFiles(s) \X {rcPrefix'[s]} \subseteq hooks'
    <3>1. CASE s \in S
      <4>1. rcPrefix'[s] = p
        BY <1>2, <3>1
      <4>2. HookFiles(s) \subseteq UNION {HookFiles(sh) : sh \in S}
        BY <3>1
      <4> QED BY <1>1, <4>1, <4>2
    <3>2. CASE s \notin S
      <4>1. rcPrefix'[s] = rcPrefix[s]
        BY <1>2, <3>2
      <4>2. HookFiles(s) \X {rcPrefix[s]} \subseteq hooks
        BY <2>1, <4>1, Zenon DEF ShellInv, BlockHasItsHook
      <4> QED BY <1>1, <4>1, <4>2
    <3> QED BY <3>1, <3>2
  <2> QED BY <2>1, Zenon DEF BlockHasItsHook
<1>6. userText' = [s \in Files |-> userText'[s]]
  BY <1>1, Zenon DEF ShellInv
<1> QED BY <1>2, <1>3, <1>4, <1>5, <1>6, Zenon DEF ShellInv

LEMMA UserWritesInv ==
  ASSUME ShellInv, NEW sh \in Files, UserWrites(sh)
  PROVE  ShellInv'
<1> DEFINE L == <<"line", "line end">>
<1>1. /\ rcFile' = [rcFile EXCEPT ![sh] = RcContents(@) \o L]
      /\ userText' = [userText EXCEPT ![sh] = @ \o L]
      /\ hooks' = hooks /\ rcPrefix' = rcPrefix
  BY DEF UserWrites
<1> HIDE DEF L
<1>2. rcFile' = [s \in Files |-> rcFile'[s]] /\ rcFile'[sh] = RcContents(rcFile[sh]) \o L
      /\ \A s \in Files \ {sh} : rcFile'[s] = rcFile[s]
  BY <1>1, Zenon DEF ShellInv
<1>3. userText' = [s \in Files |-> userText'[s]] /\ userText'[sh] = userText[sh] \o L
      /\ \A s \in Files \ {sh} : userText'[s] = userText[s]
  BY <1>1, Zenon DEF ShellInv
<1>4. ASSUME NEW s \in Files PROVE FileInv(rcFile'[s], userText'[s], rcPrefix'[s])
  <2>1. FileInv(rcFile[s], userText[s], rcPrefix[s]) /\ rcPrefix[s] \in RootPrefixes \cup {NoPrefix}
        /\ rcPrefix'[s] = rcPrefix[s]
    BY <1>1 DEF ShellInv
  <2>2. CASE s = sh
    <3>1. FileInv(RcContents(rcFile[sh]) \o L, userText[sh] \o L, rcPrefix[sh])
      BY <2>1, <2>2, UserKeeps, Zenon DEF L
    <3> QED BY <1>2, <1>3, <2>1, <2>2, <3>1, Zenon
  <2>3. CASE s # sh
    <3>1. rcFile'[s] = rcFile[s] /\ userText'[s] = userText[s]
      BY <1>2, <1>3, <2>3, Zenon
    <3> QED BY <2>1, <3>1, Zenon
  <2> QED BY <2>2, <2>3
<1>5. BlockHasItsHook'
  BY <1>1, Zenon DEF ShellInv, BlockHasItsHook
<1>6. rcPrefix' \in [Files -> RootPrefixes \cup {NoPrefix}]
  BY <1>1, Zenon DEF ShellInv
<1> QED BY <1>2, <1>3, <1>4, <1>5, <1>6, Zenon DEF ShellInv

LEMMA ShellInvIsRight == ShellInv => StartUpFilesAreRight
<1> SUFFICES ASSUME ShellInv PROVE RcFileIsAsAsked /\ BlockHasItsHook
  BY DEF StartUpFilesAreRight
<1>1. ASSUME NEW sh \in Files
      PROVE  LET f == RcContents(rcFile[sh])
             IN  /\ {f[i + 1] : i \in Prefixed(f)} = {rcPrefix[sh]} \ {NoPrefix}
                 /\ Cardinality(Prefixed(f)) <= 1
                 /\ Replaced(f, <<>>) = userText[sh]
  <2> DEFINE f == RcContents(rcFile[sh])
             q == rcPrefix[sh]
             u == userText[sh]
  <2>1. FileInv(rcFile[sh], u, q) /\ q \in RootPrefixes \cup {NoPrefix}
    BY DEF ShellInv
  <2>2. CASE q = NoPrefix
    <3>1. f = u /\ u \in Seq(Text)
      BY <2>1, <2>2, Zenon DEF FileInv, IsPlain
    <3>2. Replaced(f, <<>>) = u
      BY <3>1, PlainStays
    <3>3. Prefixed(f) = {}
      <4> HIDE DEF f, u
      <4>1. \A i \in DOMAIN f : f[i] \in Text
        BY <3>1
      <4>2. Begin \notin Text
        BY TokensDiffer
      <4> QED BY <4>1, <4>2, Zenon DEF Prefixed, Begin
    <3>4. Cardinality(Prefixed(f)) <= 1
      BY <3>3, FS_EmptySet
    <3> HIDE DEF f, u, q
    <3>5. {f[i + 1] : i \in Prefixed(f)} = {q} \ {NoPrefix}
      BY <2>2, <3>3
    <3> QED BY <3>2, <3>4, <3>5 DEF f, u, q
  <2>3. CASE q # NoPrefix
    <3>1. PICK A \in Seq(Text), B \in Seq(Text) : rcFile[sh] = WithBlock(A, q, B) /\ u = A \o B
      BY <2>1, <2>3, Zenon DEF FileInv, IsWith
    <3>0. q \in RootPrefixes
      BY <2>1, <2>3
    <3>2. f = WithBlock(A, q, B)
      BY <3>0, <3>1, NoFileIsNoText, Zenon DEF RcContents
    <3>3. LaidOutAs(f, A, q, B)
      BY <3>0, <3>2, BlockIsAt, Zenon
    <3>4. Replaced(f, <<>>) = u
      <4>1. <<>> \in Seq(Token) /\ A \o <<>> = A
        OBVIOUS
      <4>2. Replaced(WithBlock(A, q, B), <<>>) = A \o <<>> \o B
        <5> HIDE DEF q
        <5> QED BY <3>0, <4>1, BlockIsReplaced
      <4>3. Replaced(f, <<>>) = A \o <<>> \o B
        <5> HIDE DEF f
        <5> QED BY <3>2, <4>2, Zenon
      <4> QED BY <3>1, <4>1, <4>3, Zenon
    <3> HIDE DEF f, u, q
    <3>5. Prefixed(f) = {Len(A) + 2}
      <4>1. DOMAIN f = 1..Len(f) /\ Len(A) + 2 \in DOMAIN f
        BY <3>3 DEF LaidOutAs
      <4>2. \A i \in 1..Len(f) : f[i] = Begin <=> i = Len(A) + 2
        BY <3>0, <3>3, MarksAreAt
      <4>3. Prefixed(f) = {i \in DOMAIN f : f[i] = Begin}
        BY DEF Prefixed, Begin
      <4> QED BY <4>1, <4>2, <4>3
    <3>6. f[Len(A) + 3] = q /\ (Len(A) + 2) + 1 = Len(A) + 3
      BY <3>3 DEF LaidOutAs
    <3>7. {f[i + 1] : i \in Prefixed(f)} = {q} \ {NoPrefix}
      BY <2>3, <3>5, <3>6
    <3>8. Cardinality(Prefixed(f)) <= 1
      <4>1. Cardinality({Len(A) + 2}) = 1
        BY FS_Singleton
      <4> QED BY <3>5, <4>1
    <3> QED BY <3>4, <3>7, <3>8 DEF f, u, q
  <2> QED BY <2>2, <2>3
<1>2. RcFileIsAsAsked
  BY <1>1, Zenon DEF RcFileIsAsAsked
<1> QED BY <1>2 DEF ShellInv

\* Whatever inits and deinits of any shells and prefixes and whatever lines of the
\* user's come in whatever order, a start-up file has the one block of the last init
\* or none, every byte of the user's text, and the hook that its block needs
\* (shell_init.cpp: modify_rc_file, reset_rc_file, init_root_prefix,
\* deinit_root_prefix).
THEOREM StartUpFilesStayRight == ShellInitSpec => []StartUpFilesAreRight
<1>1. ASSUME ShellInv, [ShellInitNext]_shellInitVars PROVE ShellInv'
  <2>1. CASE UNCHANGED shellInitVars
    BY <1>1, <2>1, Zenon DEF shellInitVars, ShellInv, BlockHasItsHook
  <2>2. ASSUME NEW sh \in ShellsAsked, NEW p \in RootPrefixes, NEW dryRun \in BOOLEAN,
               InitShell(sh, p, dryRun)
        PROVE  ShellInv'
    BY <1>1, <2>2, InitShellInv
  <2>3. ASSUME NEW sh \in ShellsAsked, NEW p \in RootPrefixes, NEW dryRun \in BOOLEAN,
               DeinitShell(sh, p, dryRun)
        PROVE  ShellInv'
    BY <1>1, <2>3, DeinitShellInv
  <2>4. ASSUME NEW p \in RootPrefixes, ShellReinit(p) PROVE ShellInv'
    BY <1>1, <2>4, ShellReinitInv
  <2>5. ASSUME NEW sh \in Files, UserWrites(sh) PROVE ShellInv'
    BY <1>1, <2>5, UserWritesInv
  <2> QED BY <1>1, <2>1, <2>2, <2>3, <2>4, <2>5, Zenon DEF ShellInitNext
<1> QED BY <1>1, ShellInitInv, ShellInvIsRight, PTL DEF ShellInitSpec

-----------------------------------------------------------------------------
(* Configuration *)

\* Of a sequence of sequences and one more, first the others, then it.
LEMMA FlattenAppend ==
  ASSUME NEW C, NEW s \in Seq(Seq(C)), NEW x \in Seq(C)
  PROVE  FlattenSeq(Append(s, x)) = FlattenSeq(s) \o x /\ FlattenSeq(s) \in Seq(C)
<1> DEFINE t == Append(s, x)
           N == Len(s)
<1>0. N \in Nat /\ t \in Seq(Seq(C)) /\ t # <<>> /\ Len(t) = N + 1 /\ t[N + 1] = x
      /\ \A n \in 1..N : t[n] = s[n]
  <2>0. N \in Nat
    OBVIOUS
  <2>1. t \in Seq(Seq(C)) /\ Len(t) = N + 1 /\ t[N + 1] = x
    OBVIOUS
  <2>3. t # <<>>
    <3> HIDE DEF t
    <3> QED BY <2>0, <2>1, EmptySeq
  <2>2. ASSUME NEW n \in 1..N PROVE t[n] = s[n]
    OBVIOUS
  <2> QED BY <2>0, <2>1, <2>2, <2>3
<1> HIDE DEF t
<1>1. PICK f \in [1..Len(t) -> Seq(C)] : JoinedOneByOne(t, f) /\ FlattenSeq(t) = f[Len(t)]
  BY <1>0, FlattenAre
<1>2. CASE s = <<>>
  <2>1. N = 0 /\ FlattenSeq(s) = <<>>
    BY <1>2 DEF FlattenSeq
  <2>2. FlattenSeq(t) = x /\ <<>> \o x = x
    BY <1>0, <1>1, <2>1 DEF JoinedOneByOne
  <2>3. <<>> \in Seq(C)
    OBVIOUS
  <2> QED BY <2>1, <2>2, <2>3 DEF t
<1>3. CASE s # <<>>
  <2>1. PICK g \in [1..N -> Seq(C)] : JoinedOneByOne(s, g) /\ FlattenSeq(s) = g[N]
    BY <1>3, FlattenAre
  <2>0. N # 0
    BY <1>3, EmptySeq
  <2> DEFINE Bad == {n \in 1..N : f[n] # g[n]}
  <2>2. Bad = {}
    <3> SUFFICES ASSUME Bad # {} PROVE FALSE
      OBVIOUS
    <3>1. PICK n \in Bad : \A m \in Bad : n <= m
      <4>1. Bad \in SUBSET Nat
        BY <1>0
      <4> HIDE DEF Bad
      <4> QED BY <4>1, LeastOf
    <3>2. n \in 1..N /\ f[n] # g[n]
      OBVIOUS
    <3>3. n # 1
      BY <1>0, <1>1, <2>1, <3>2 DEF JoinedOneByOne
    <3>4. n - 1 \in 1..N /\ n - 1 \notin Bad
      <4> HIDE DEF Bad
      <4> QED BY <1>0, <3>1, <3>2, <3>3
    <3>5. n \in 2..Len(s) /\ n \in 2..Len(t)
      BY <1>0, <3>2, <3>3
    <3>6. f[n] = f[n - 1] \o t[n] /\ g[n] = g[n - 1] \o s[n]
      BY <1>1, <2>1, <3>5 DEF JoinedOneByOne
    <3> QED BY <1>0, <3>2, <3>4, <3>6
  <2>3. f[N] = g[N]
    <3>1. N \in 1..N
      BY <1>0, <2>0
    <3> QED BY <2>2, <3>1
  <2>4. N + 1 \in 2..Len(t) /\ (N + 1) - 1 = N
    BY <1>0, <2>0
  <2>5. f[N + 1] = f[(N + 1) - 1] \o t[N + 1]
    BY <1>1, <2>4 DEF JoinedOneByOne
  <2>6. FlattenSeq(t) = g[N] \o x
    BY <1>0, <1>1, <2>3, <2>4, <2>5
  <2>7. g[N] \in Seq(C)
    BY <1>0, <2>0, <2>1
  <2> QED BY <2>1, <2>6, <2>7 DEF t
<1> QED BY <1>2, <1>3

OnceUpTo(s, u) ==
    u[0] = <<>> /\ \A i \in 1..Len(s) :
        u[i] = IF s[i] \in Range(u[i - 1]) THEN u[i - 1] ELSE Append(u[i - 1], s[i])

\* The recursion of Once has a solution, of which it is the last value.
LEMMA OnceIs ==
  ASSUME NEW C, NEW s \in Seq(C)
  PROVE  \E u \in [0..Len(s) -> Seq(C)] : OnceUpTo(s, u) /\ Once(s) = u[Len(s)]
<1> DEFINE N == Len(s)
           S == Seq(C)
           step(q, v) == IF v \in Range(q) THEN q ELSE Append(q, v)
           g == [n \in 1..N |-> [q \in S |-> step(q, s[n])]]
           Solves(f) == f = [i \in 0..N |-> IF i = 0 THEN <<>> ELSE step(f[i - 1], s[i])]
<1>0. N \in Nat /\ <<>> \in S /\ \A i \in 1..N : s[i] \in C
  OBVIOUS
<1>1. g \in [1..N -> [S -> S]]
  <2>1. ASSUME NEW n \in 1..N, NEW q \in S PROVE step(q, s[n]) \in S
    BY <1>0
  <2> HIDE DEF S, step
  <2> QED BY <2>1
<1>2. PICK f \in [0..N -> S] : Runs(N, <<>>, g, f)
  <2> HIDE DEF N, S, g
  <2> QED BY <1>0, <1>1, StepsGoOn
<1>3. ASSUME NEW n \in 1..N PROVE f[n] = step(f[n - 1], s[n])
  <2>1. f[n - 1] \in S /\ f[n] = g[n][f[n - 1]]
    <3> HIDE DEF g, S
    <3> QED BY <1>0, <1>2 DEF Runs
  <2> HIDE DEF S, step
  <2> QED BY <2>1
<1>4. Solves(f)
  <2> DEFINE d == [i \in 0..N |-> IF i = 0 THEN <<>> ELSE step(f[i - 1], s[i])]
  <2>1. ASSUME NEW n \in 0..N PROVE f[n] = d[n]
    <3>1. CASE n = 0
      BY <1>2, <3>1 DEF Runs
    <3>2. CASE n # 0
      <4>1. n \in 1..N /\ d[n] = step(f[n - 1], s[n])
        BY <1>0, <3>2
      <4> HIDE DEF d, step
      <4> QED BY <1>3, <4>1
    <3> QED BY <3>1, <3>2
  <2>2. f = [n \in 0..N |-> f[n]] /\ d = [n \in 0..N |-> d[n]]
    BY <1>2
  <2>3. f = d
    <3> HIDE DEF d
    <3> QED BY <2>1, <2>2
  <2> QED BY <2>3
<1> DEFINE c == CHOOSE q : Solves(q)
<1>5. Solves(c)
  <2> HIDE DEF Solves
  <2> QED BY <1>4
<1>6. Once(s) = c[N]
  BY DEF Once
<1> HIDE DEF c
<1>7. c[0] = <<>> /\ \A n \in 1..N : c[n] = step(c[n - 1], s[n])
  <2>1. \A i \in 0..N : c[i] = IF i = 0 THEN <<>> ELSE step(c[i - 1], s[i])
    <3> HIDE DEF step
    <3> QED BY <1>5
  <2>2. 0 \in 0..N /\ \A n \in 1..N : n \in 0..N /\ n # 0
    BY <1>0
  <2> HIDE DEF step
  <2> QED BY <2>1, <2>2
<1> DEFINE Bad == {n \in 0..N : c[n] # f[n]}
<1>8. Bad = {}
  <2> SUFFICES ASSUME Bad # {} PROVE FALSE
    OBVIOUS
  <2>1. PICK n \in Bad : \A m \in Bad : n <= m
    <3>1. Bad \in SUBSET Nat
      BY <1>0
    <3> HIDE DEF Bad
    <3> QED BY <3>1, LeastOf
  <2>2. n \in 0..N /\ c[n] # f[n]
    OBVIOUS
  <2>3. n # 0
    BY <1>2, <1>7, <2>2 DEF Runs
  <2>4. n \in 1..N /\ n - 1 \in 0..N /\ n - 1 \notin Bad
    <3> HIDE DEF Bad
    <3> QED BY <1>0, <2>1, <2>2, <2>3
  <2>5. c[n - 1] = f[n - 1]
    BY <2>4
  <2> HIDE DEF step
  <2> QED BY <1>3, <1>7, <2>2, <2>4, <2>5
<1>9. c[N] = f[N]
  BY <1>0, <1>8
<1>10. OnceUpTo(s, f)
  <2>1. f[0] = <<>>
    BY <1>2 DEF Runs
  <2> QED BY <1>3, <2>1 DEF OnceUpTo
<1> QED BY <1>2, <1>6, <1>9, <1>10

\* Once keeps what there is,
LEMMA OnceKeeps ==
  ASSUME NEW C, NEW s \in Seq(C)
  PROVE  Once(s) \in Seq(C) /\ Range(Once(s)) = Range(s)
<1> DEFINE N == Len(s)
           Upto(n) == {s[j] : j \in 1..n}
<1>0. N \in Nat /\ \A i \in 1..N : s[i] \in C
  OBVIOUS
<1>1. PICK u \in [0..N -> Seq(C)] : OnceUpTo(s, u) /\ Once(s) = u[N]
  BY OnceIs
<1> DEFINE Bad == {n \in 0..N : Range(u[n]) # Upto(n)}
<1>2. Bad = {}
  <2> SUFFICES ASSUME Bad # {} PROVE FALSE
    OBVIOUS
  <2>1. PICK n \in Bad : \A m \in Bad : n <= m
    <3>1. Bad \in SUBSET Nat
      BY <1>0
    <3> HIDE DEF Bad
    <3> QED BY <3>1, LeastOf
  <2>2. n \in 0..N /\ Range(u[n]) # Upto(n)
    OBVIOUS
  <2>3. n # 0
    <3>1. u[0] = <<>> /\ Upto(0) = {} /\ Range(<<>>) = {}
      BY <1>1 DEF OnceUpTo, Range
    <3> HIDE DEF Upto
    <3> QED BY <2>2, <3>1, Zenon
  <2>4. n \in 1..N /\ n - 1 \in 0..N /\ n - 1 \notin Bad
    <3> HIDE DEF Bad
    <3> QED BY <1>0, <2>1, <2>2, <2>3
  <2>5. Range(u[n - 1]) = Upto(n - 1) /\ u[n - 1] \in Seq(C)
    BY <1>1, <2>4
  <2>6. Upto(n) = Upto(n - 1) \cup {s[n]}
    <3>1. \A j : j \in 1..n <=> j \in 1..(n - 1) \/ j = n
      BY <2>4
    <3> QED BY <3>1
  <2>7. u[n] = IF s[n] \in Range(u[n - 1]) THEN u[n - 1] ELSE Append(u[n - 1], s[n])
    BY <1>1, <2>4 DEF OnceUpTo
  <2>8. Range(Append(u[n - 1], s[n])) = Range(u[n - 1]) \cup {s[n]}
    <3> DEFINE q == u[n - 1]
    <3>1. q \in Seq(C) /\ s[n] \in C
      BY <1>0, <2>4, <2>5
    <3> HIDE DEF q
    <3>2. \A i \in 1..(Len(q) + 1) : Append(q, s[n])[i] = IF i = Len(q) + 1 THEN s[n] ELSE q[i]
      BY <3>1
    <3>3. DOMAIN Append(q, s[n]) = 1..(Len(q) + 1) /\ DOMAIN q = 1..Len(q) /\ Len(q) \in Nat
      BY <3>1
    <3>4. \A i : i \in 1..(Len(q) + 1) <=> i \in 1..Len(q) \/ i = Len(q) + 1
      BY <3>3
    <3>5. \A i \in 1..Len(q) : i # Len(q) + 1
      BY <3>3
    <3>6. Range(Append(q, s[n])) = Range(q) \cup {s[n]}
      BY <3>2, <3>3, <3>4, <3>5 DEF Range
    <3> QED BY <3>6 DEF q
  <2> HIDE DEF Upto
  <2> QED BY <2>2, <2>5, <2>6, <2>7, <2>8
<1>3. Range(u[N]) = Upto(N)
  <2>1. N \in 0..N
    BY <1>0
  <2> HIDE DEF Upto
  <2> QED BY <1>2, <2>1
<1>4. Upto(N) = Range(s)
  BY DEF Range
<1>5. u[N] \in Seq(C)
  BY <1>0, <1>1
<1> HIDE DEF Upto
<1> QED BY <1>1, <1>3, <1>4, <1>5

\* and begins as the sequence does, while that has no element twice.
LEMMA OnceBegins ==
  ASSUME NEW C, NEW s \in Seq(C)
  PROVE  /\ Len(s) = 0 => Once(s) = <<>>
         /\ Len(s) = 1 => Once(s) = <<s[1]>>
         /\ Len(s) = 2 /\ s[1] # s[2] => Once(s) = <<s[1], s[2]>>
         /\ Len(s) >= 2 /\ s[1] # s[2] =>
                Len(Once(s)) >= 2 /\ Once(s)[1] = s[1] /\ Once(s)[2] = s[2]
<1> DEFINE N == Len(s)
<1>0. N \in Nat /\ \A i \in 1..N : s[i] \in C
  OBVIOUS
<1>1. PICK u \in [0..N -> Seq(C)] : OnceUpTo(s, u) /\ Once(s) = u[N]
  BY OnceIs
<1>2. u[0] = <<>>
  BY <1>1 DEF OnceUpTo
<1>3. ASSUME N >= 1 PROVE u[1] = <<s[1]>>
  <2>1. 1 \in 1..N /\ 1 - 1 = 0
    BY <1>0, <1>3
  <2>2. u[1] = IF s[1] \in Range(u[0]) THEN u[0] ELSE Append(u[0], s[1])
    BY <1>1, <2>1 DEF OnceUpTo
  <2>3. Range(<<>>) = {}
    BY DEF Range
  <2>4. Append(<<>>, s[1]) = <<s[1]>>
    OBVIOUS
  <2> QED BY <1>2, <2>2, <2>3, <2>4, Zenon
<1>4. ASSUME N >= 2, s[1] # s[2] PROVE u[2] = <<s[1], s[2]>>
  <2>1. 2 \in 1..N /\ 2 - 1 = 1
    BY <1>0, <1>4
  <2>2. u[2] = IF s[2] \in Range(u[1]) THEN u[1] ELSE Append(u[1], s[2])
    BY <1>1, <2>1 DEF OnceUpTo
  <2>3. Range(<<s[1]>>) = {s[1]}
    BY DEF Range
  <2>4. Append(<<s[1]>>, s[2]) = <<s[1], s[2]>>
    <3>1. s[1] \in C /\ s[2] \in C
      BY <1>0, <1>4
    <3> DEFINE a == s[1]
               b == s[2]
    <3> HIDE DEF a, b
    <3>2. Append(<<a>>, b) = <<a, b>>
      BY <3>1 DEF a, b
    <3> QED BY <3>2 DEF a, b
  <2>5. u[1] = <<s[1]>>
    BY <1>0, <1>3, <1>4
  <2>6. s[2] \notin {s[1]}
    BY <1>4
  <2> QED BY <2>2, <2>3, <2>4, <2>5, <2>6, Zenon
<1> DEFINE Begins(q) == Len(q) >= 2 /\ q[1] = s[1] /\ q[2] = s[2]
<1>5. ASSUME N >= 2, s[1] # s[2] PROVE Begins(u[N])
  <2> DEFINE Bad == {n \in 2..N : ~Begins(u[n])}
  <2>1. Bad = {}
    <3> SUFFICES ASSUME Bad # {} PROVE FALSE
      OBVIOUS
    <3>1. PICK n \in Bad : \A m \in Bad : n <= m
      <4>1. Bad \in SUBSET Nat
        BY <1>0
      <4> HIDE DEF Bad
      <4> QED BY <4>1, LeastOf
    <3>2. n \in 2..N /\ ~Begins(u[n])
      OBVIOUS
    <3>3. n # 2
      BY <1>4, <1>5, <3>2
    <3>4. n \in 1..N /\ n - 1 \in 2..N /\ n - 1 \in 0..N /\ n - 1 \notin Bad
      BY <1>0, <3>1, <3>2, <3>3
    <3>5. Begins(u[n - 1]) /\ u[n - 1] \in Seq(C) /\ s[n] \in C
      <4> HIDE DEF Begins
      <4> QED BY <1>0, <1>1, <3>4
    <3>6. u[n] = IF s[n] \in Range(u[n - 1]) THEN u[n - 1] ELSE Append(u[n - 1], s[n])
      BY <1>1, <3>4 DEF OnceUpTo
    <3>7. Begins(Append(u[n - 1], s[n]))
      <4> DEFINE q == u[n - 1]
      <4>1. q \in Seq(C) /\ Len(q) >= 2 /\ q[1] = s[1] /\ q[2] = s[2]
        BY <3>5
      <4> HIDE DEF q
      <4>2. Len(Append(q, s[n])) = Len(q) + 1 /\ Append(q, s[n])[1] = q[1] /\ Append(q, s[n])[2] = q[2]
            /\ Len(q) \in Nat
        <5>1. Len(q) \in Nat /\ 1 \in 1..Len(q) /\ 2 \in 1..Len(q) /\ s[n] \in C
          BY <3>5, <4>1
        <5> QED BY <4>1, <5>1
      <4>3. Begins(Append(q, s[n]))
        BY <4>1, <4>2
      <4> QED BY <4>3 DEF q
    <3> HIDE DEF Begins
    <3> QED BY <3>2, <3>5, <3>6, <3>7
  <2>2. N \in 2..N
    BY <1>0, <1>5
  <2> HIDE DEF Begins
  <2> QED BY <2>1, <2>2
<1>6. ASSUME N = 1 PROVE Once(s) = <<s[1]>>
  BY <1>1, <1>3, <1>6
<1>7. ASSUME N = 2, s[1] # s[2] PROVE Once(s) = <<s[1], s[2]>>
  BY <1>1, <1>4, <1>7
<1>8. ASSUME N = 0 PROVE Once(s) = <<>>
  BY <1>1, <1>2, <1>8
<1> QED BY <1>1, <1>5, <1>6, <1>7, <1>8

-----------------------------------------------------------------------------
(* The order in which the followed configurables are computed.              *)

IsAList(s) == s \in Seq(Range(s))

LEMMA ConcatRange ==
  ASSUME NEW a, NEW b, IsAList(a), IsAList(b)
  PROVE  IsAList(a \o b) /\ Range(a \o b) = Range(a) \cup Range(b)
<1> DEFINE w == a \o b
           S == Range(a) \cup Range(b)
<1>0. a \in Seq(S) /\ b \in Seq(S)
  BY DEF IsAList
<1> HIDE DEF S
<1>1. w \in Seq(S) /\ Len(w) = Len(a) + Len(b) /\ Len(a) \in Nat /\ Len(b) \in Nat
  BY <1>0
<1>2. ASSUME NEW i \in 1..Len(a) PROVE w[i] = a[i]
  BY <1>0, <1>1
<1>3. ASSUME NEW i \in 1..Len(b) PROVE w[Len(a) + i] = b[i]
  BY <1>0, <1>1
<1>4. DOMAIN w = 1..Len(w) /\ DOMAIN a = 1..Len(a) /\ DOMAIN b = 1..Len(b)
  BY <1>0, <1>1
<1> HIDE DEF w
<1>5. ASSUME NEW i \in 1..Len(w) PROVE w[i] \in Range(a) \cup Range(b)
  <2>1. CASE i \in 1..Len(a)
    BY <1>2, <1>4, <2>1 DEF Range
  <2>2. CASE i \notin 1..Len(a)
    <3>1. i - Len(a) \in 1..Len(b) /\ Len(a) + (i - Len(a)) = i
      BY <1>1, <2>2
    <3>2. w[i] = b[i - Len(a)]
      BY <1>3, <3>1
    <3> QED BY <1>4, <3>1, <3>2 DEF Range
  <2> QED BY <2>1, <2>2
<1>6. Range(w) \subseteq Range(a) \cup Range(b)
  BY <1>4, <1>5 DEF Range
<1>7. \A i \in 1..Len(a) : i \in 1..Len(w)
  BY <1>1
<1>8. \A i \in 1..Len(b) : Len(a) + i \in 1..Len(w)
  BY <1>1
<1>9. Range(a) \subseteq Range(w)
  BY <1>2, <1>4, <1>7 DEF Range
<1>10. Range(b) \subseteq Range(w)
  BY <1>3, <1>4, <1>8 DEF Range
<1>11. Range(w) = Range(a) \cup Range(b)
  BY <1>6, <1>9, <1>10
<1>12. w \in Seq(Range(w))
  BY <1>1, <1>11 DEF S
<1> QED BY <1>11, <1>12 DEF w, IsAList

LEMMA Tuples ==
  /\ \A a1 :
       IsAList(<<a1>>) /\ {a1} \subseteq Range(<<a1>>)
  /\ \A a1, a2 :
       IsAList(<<a1, a2>>) /\ {a1, a2} \subseteq Range(<<a1, a2>>)
  /\ \A a1, a2, a3 :
       IsAList(<<a1, a2, a3>>) /\ {a1, a2, a3} \subseteq Range(<<a1, a2, a3>>)
  /\ \A a1, a2, a3, a4 :
       IsAList(<<a1, a2, a3, a4>>) /\ {a1, a2, a3, a4} \subseteq Range(<<a1, a2, a3, a4>>)
  /\ \A a1, a2, a3, a4, a5 :
       IsAList(<<a1, a2, a3, a4, a5>>) /\ {a1, a2, a3, a4, a5} \subseteq Range(<<a1, a2, a3, a4, a5>>)
  /\ \A a1, a2, a3, a4, a5, a6, a7 :
       IsAList(<<a1, a2, a3, a4, a5, a6, a7>>) /\ {a1, a2, a3, a4, a5, a6, a7} \subseteq Range(<<a1, a2, a3, a4, a5, a6, a7>>)
  /\ \A a1, a2, a3, a4, a5, a6, a7, a8, a9 :
       IsAList(<<a1, a2, a3, a4, a5, a6, a7, a8, a9>>) /\ {a1, a2, a3, a4, a5, a6, a7, a8, a9} \subseteq Range(<<a1, a2, a3, a4, a5, a6, a7, a8, a9>>)
<1>1. ASSUME NEW a1
      PROVE  IsAList(<<a1>>) /\ {a1} \subseteq Range(<<a1>>)
  <2> DEFINE s == <<a1>>
  <2>1. DOMAIN s = 1..1 /\ Len(s) = 1 /\ s[1] = a1
    OBVIOUS
  <2>2. s \in Seq({a1})
    OBVIOUS
  <2> HIDE DEF s
  <2>3. {a1} \subseteq Range(s)
    <3>1. 1 \in 1..1
      OBVIOUS
    <3> QED BY <2>1, <3>1 DEF Range
  <2>4. \A i \in 1..Len(s) : s[i] \in Range(s)
    BY <2>1 DEF Range
  <2>5. s \in Seq(Range(s))
    BY <2>2, <2>4
  <2> QED BY <2>3, <2>5 DEF IsAList, s
<1>2. ASSUME NEW a1, NEW a2
      PROVE  IsAList(<<a1, a2>>) /\ {a1, a2} \subseteq Range(<<a1, a2>>)
  <2> DEFINE s == <<a1, a2>>
  <2>1. DOMAIN s = 1..2 /\ Len(s) = 2 /\ s[1] = a1 /\ s[2] = a2
    OBVIOUS
  <2>2. s \in Seq({a1, a2})
    OBVIOUS
  <2> HIDE DEF s
  <2>3. {a1, a2} \subseteq Range(s)
    <3>1. 1 \in 1..2 /\ 2 \in 1..2
      OBVIOUS
    <3> QED BY <2>1, <3>1 DEF Range
  <2>4. \A i \in 1..Len(s) : s[i] \in Range(s)
    BY <2>1 DEF Range
  <2>5. s \in Seq(Range(s))
    BY <2>2, <2>4
  <2> QED BY <2>3, <2>5 DEF IsAList, s
<1>3. ASSUME NEW a1, NEW a2, NEW a3
      PROVE  IsAList(<<a1, a2, a3>>) /\ {a1, a2, a3} \subseteq Range(<<a1, a2, a3>>)
  <2> DEFINE s == <<a1, a2, a3>>
  <2>1. DOMAIN s = 1..3 /\ Len(s) = 3 /\ s[1] = a1 /\ s[2] = a2 /\ s[3] = a3
    OBVIOUS
  <2>2. s \in Seq({a1, a2, a3})
    OBVIOUS
  <2> HIDE DEF s
  <2>3. {a1, a2, a3} \subseteq Range(s)
    <3>1. 1 \in 1..3 /\ 2 \in 1..3 /\ 3 \in 1..3
      OBVIOUS
    <3> QED BY <2>1, <3>1 DEF Range
  <2>4. \A i \in 1..Len(s) : s[i] \in Range(s)
    BY <2>1 DEF Range
  <2>5. s \in Seq(Range(s))
    BY <2>2, <2>4
  <2> QED BY <2>3, <2>5 DEF IsAList, s
<1>4. ASSUME NEW a1, NEW a2, NEW a3, NEW a4
      PROVE  IsAList(<<a1, a2, a3, a4>>) /\ {a1, a2, a3, a4} \subseteq Range(<<a1, a2, a3, a4>>)
  <2> DEFINE s == <<a1, a2, a3, a4>>
  <2>1. DOMAIN s = 1..4 /\ Len(s) = 4 /\ s[1] = a1 /\ s[2] = a2 /\ s[3] = a3 /\ s[4] = a4
    OBVIOUS
  <2>2. s \in Seq({a1, a2, a3, a4})
    OBVIOUS
  <2> HIDE DEF s
  <2>3. {a1, a2, a3, a4} \subseteq Range(s)
    <3>1. 1 \in 1..4 /\ 2 \in 1..4 /\ 3 \in 1..4 /\ 4 \in 1..4
      OBVIOUS
    <3> QED BY <2>1, <3>1 DEF Range
  <2>4. \A i \in 1..Len(s) : s[i] \in Range(s)
    BY <2>1 DEF Range
  <2>5. s \in Seq(Range(s))
    BY <2>2, <2>4
  <2> QED BY <2>3, <2>5 DEF IsAList, s
<1>5. ASSUME NEW a1, NEW a2, NEW a3, NEW a4, NEW a5
      PROVE  IsAList(<<a1, a2, a3, a4, a5>>) /\ {a1, a2, a3, a4, a5} \subseteq Range(<<a1, a2, a3, a4, a5>>)
  <2> DEFINE s == <<a1, a2, a3, a4, a5>>
  <2>1. DOMAIN s = 1..5 /\ Len(s) = 5 /\ s[1] = a1 /\ s[2] = a2 /\ s[3] = a3 /\ s[4] = a4 /\ s[5] = a5
    OBVIOUS
  <2>2. s \in Seq({a1, a2, a3, a4, a5})
    OBVIOUS
  <2> HIDE DEF s
  <2>3. {a1, a2, a3, a4, a5} \subseteq Range(s)
    <3>1. 1 \in 1..5 /\ 2 \in 1..5 /\ 3 \in 1..5 /\ 4 \in 1..5 /\ 5 \in 1..5
      OBVIOUS
    <3> QED BY <2>1, <3>1 DEF Range
  <2>4. \A i \in 1..Len(s) : s[i] \in Range(s)
    BY <2>1 DEF Range
  <2>5. s \in Seq(Range(s))
    BY <2>2, <2>4
  <2> QED BY <2>3, <2>5 DEF IsAList, s
<1>6. ASSUME NEW a1, NEW a2, NEW a3, NEW a4, NEW a5, NEW a6, NEW a7
      PROVE  IsAList(<<a1, a2, a3, a4, a5, a6, a7>>) /\ {a1, a2, a3, a4, a5, a6, a7} \subseteq Range(<<a1, a2, a3, a4, a5, a6, a7>>)
  <2> DEFINE s == <<a1, a2, a3, a4, a5, a6, a7>>
  <2>1. DOMAIN s = 1..7 /\ Len(s) = 7 /\ s[1] = a1 /\ s[2] = a2 /\ s[3] = a3 /\ s[4] = a4 /\ s[5] = a5 /\ s[6] = a6 /\ s[7] = a7
    OBVIOUS
  <2>2. s \in Seq({a1, a2, a3, a4, a5, a6, a7})
    OBVIOUS
  <2> HIDE DEF s
  <2>3. {a1, a2, a3, a4, a5, a6, a7} \subseteq Range(s)
    <3>1. 1 \in 1..7 /\ 2 \in 1..7 /\ 3 \in 1..7 /\ 4 \in 1..7 /\ 5 \in 1..7 /\ 6 \in 1..7 /\ 7 \in 1..7
      OBVIOUS
    <3> QED BY <2>1, <3>1 DEF Range
  <2>4. \A i \in 1..Len(s) : s[i] \in Range(s)
    BY <2>1 DEF Range
  <2>5. s \in Seq(Range(s))
    BY <2>2, <2>4
  <2> QED BY <2>3, <2>5 DEF IsAList, s
<1>7. ASSUME NEW a1, NEW a2, NEW a3, NEW a4, NEW a5, NEW a6, NEW a7, NEW a8, NEW a9
      PROVE  IsAList(<<a1, a2, a3, a4, a5, a6, a7, a8, a9>>) /\ {a1, a2, a3, a4, a5, a6, a7, a8, a9} \subseteq Range(<<a1, a2, a3, a4, a5, a6, a7, a8, a9>>)
  <2> DEFINE s == <<a1, a2, a3, a4, a5, a6, a7, a8, a9>>
  <2>1. DOMAIN s = 1..9 /\ Len(s) = 9 /\ s[1] = a1 /\ s[2] = a2 /\ s[3] = a3 /\ s[4] = a4 /\ s[5] = a5 /\ s[6] = a6 /\ s[7] = a7 /\ s[8] = a8 /\ s[9] = a9
    OBVIOUS
  <2>2. s \in Seq({a1, a2, a3, a4, a5, a6, a7, a8, a9})
    OBVIOUS
  <2> HIDE DEF s
  <2>3. {a1, a2, a3, a4, a5, a6, a7, a8, a9} \subseteq Range(s)
    <3>1. 1 \in 1..9 /\ 2 \in 1..9 /\ 3 \in 1..9 /\ 4 \in 1..9 /\ 5 \in 1..9 /\ 6 \in 1..9 /\ 7 \in 1..9 /\ 8 \in 1..9 /\ 9 \in 1..9
      OBVIOUS
    <3> QED BY <2>1, <3>1 DEF Range
  <2>4. \A i \in 1..Len(s) : s[i] \in Range(s)
    BY <2>1 DEF Range
  <2>5. s \in Seq(Range(s))
    BY <2>2, <2>4
  <2> QED BY <2>3, <2>5 DEF IsAList, s
<1> QED BY <1>1, <1>2, <1>3, <1>4, <1>5, <1>6, <1>7

LEMMA RowsListed ==
  ASSUME NEW names, NEW rc, NEW env, IsAList(names)
  PROVE  /\ IsAList(Rows(names, rc, env))
         /\ \A name \in Range(names) : Row(name, rc, env, {}) \in Range(Rows(names, rc, env))
<1> DEFINE r == Rows(names, rc, env)
           n == Len(names)
           R(i) == Row(names[i], rc, env, {})
<1>1. r = [i \in 1..n |-> R(i)] /\ n \in Nat /\ DOMAIN names = 1..n
  BY DEF Rows, IsAList
<1> HIDE DEF r, n, R
<1>2. \A i \in 1..n : R(i) \in Range(r)
  BY <1>1 DEF Range
<1>3. r \in Seq(Range(r))
  <2> DEFINE T == Range(r)
  <2>1. \A i \in 1..n : R(i) \in T
    BY <1>2
  <2> HIDE DEF T
  <2>2. [i \in 1..n |-> R(i)] \in Seq(T)
    BY <1>1, <2>1
  <2> QED BY <1>1, <2>2 DEF T
<1>4. \A name \in Range(names) : \E i \in 1..n : name = names[i]
  BY <1>1 DEF Range
<1>5. \A name \in Range(names) : Row(name, rc, env, {}) \in Range(r)
  BY <1>2, <1>4 DEF R
<1> QED BY <1>3, <1>5 DEF r, IsAList

LEMMA PrefixRows ==
  /\ IsAList(PrefixConfigurables)
  /\ \A name \in {"target_prefix", "env_name", "spec_file_env_name"} :
       \E r \in Range(PrefixConfigurables) : r.name = name
<1> DEFINE tp == Row("target_prefix", "none", TRUE,
                     {"root_prefix", "envs_dirs", "env_name", "spec_file_env_name",
                      "use_target_prefix_fallback", "use_root_prefix_fallback"})
           en == Row("env_name", "none", FALSE, {"root_prefix", "spec_file_env_name", "envs_dirs"})
           sp == Row("spec_file_env_name", "none", FALSE, {"file_specs", "root_prefix"})
           p1 == <<Row("root_prefix", "none", TRUE, {"create_base", "rc_files"})>>
           p2 == CliOnly(<<"create_base">>)
           p3 == <<tp, Row("relocate_prefix", "none", TRUE, {"target_prefix"})>>
           p4 == CliOnly(<<"use_target_prefix_fallback", "use_root_prefix_fallback">>)
           p5 == <<Row("target_prefix_checks", "none", FALSE, {"target_prefix", "rc_files"}), en,
                   Row("envs_dirs", "home", TRUE, {"root_prefix"}),
                   Row("pkgs_dirs", "target", TRUE, {"root_prefix"})>>
           p6 == RcEnv(<<"platform">>)
           p7 == <<sp, Row("specs", "none", FALSE, {"file_specs"})>>
           p8 == CliOnly(<<"others_pkg_mgrs_specs">>)
           p9 == RcEnv(<<"experimental", "experimental_repodata_parsing">>)
           p10 == Rows(<<"debug">>, "none", TRUE)
<1>1. PrefixConfigurables = p1 \o p2 \o p3 \o p4 \o p5 \o p6 \o p7 \o p8 \o p9 \o p10
  BY Zenon DEF PrefixConfigurables
<1>2. IsAList(p2) /\ IsAList(p4) /\ IsAList(p6) /\ IsAList(p8) /\ IsAList(p9) /\ IsAList(p10)
  BY Tuples, RowsListed, Zenon DEF CliOnly, RcEnv
<1>3. IsAList(p1)
  BY Tuples
<1>4. IsAList(p3) /\ tp \in Range(p3)
  BY Tuples
<1>5. IsAList(p5) /\ en \in Range(p5)
  BY Tuples
<1>6. IsAList(p7) /\ sp \in Range(p7)
  BY Tuples
<1>7. tp.name = "target_prefix" /\ en.name = "env_name" /\ sp.name = "spec_file_env_name"
  BY DEF Row
<1> HIDE DEF tp, en, sp, p1, p2, p3, p4, p5, p6, p7, p8, p9, p10
<1> DEFINE q2 == p1 \o p2
           q3 == q2 \o p3
           q4 == q3 \o p4
           q5 == q4 \o p5
           q6 == q5 \o p6
           q7 == q6 \o p7
           q8 == q7 \o p8
           q9 == q8 \o p9
           q10 == q9 \o p10
<1>8. PrefixConfigurables = q10
  BY <1>1
<1>9. IsAList(q2)
  BY <1>2, <1>3, ConcatRange
<1> HIDE DEF q2
<1>10. IsAList(q3) /\ Range(q3) = Range(q2) \cup Range(p3)
  BY <1>4, <1>9, ConcatRange
<1> HIDE DEF q3
<1>11. IsAList(q4) /\ Range(q4) = Range(q3) \cup Range(p4)
  BY <1>2, <1>10, ConcatRange
<1> HIDE DEF q4
<1>12. IsAList(q5) /\ Range(q5) = Range(q4) \cup Range(p5)
  BY <1>5, <1>11, ConcatRange
<1> HIDE DEF q5
<1>13. IsAList(q6) /\ Range(q6) = Range(q5) \cup Range(p6)
  BY <1>2, <1>12, ConcatRange
<1> HIDE DEF q6
<1>14. IsAList(q7) /\ Range(q7) = Range(q6) \cup Range(p7)
  BY <1>6, <1>13, ConcatRange
<1> HIDE DEF q7
<1>15. IsAList(q8) /\ Range(q8) = Range(q7) \cup Range(p8)
  BY <1>2, <1>14, ConcatRange
<1> HIDE DEF q8
<1>16. IsAList(q9) /\ Range(q9) = Range(q8) \cup Range(p9)
  BY <1>2, <1>15, ConcatRange
<1> HIDE DEF q9
<1>17. IsAList(q10) /\ Range(q10) = Range(q9) \cup Range(p10)
  BY <1>2, <1>16, ConcatRange
<1> HIDE DEF q10
<1>18. tp \in Range(q10) /\ en \in Range(q10) /\ sp \in Range(q10)
  BY <1>4, <1>5, <1>6, <1>10, <1>11, <1>12, <1>13, <1>14, <1>15, <1>16, <1>17
<1>19. \A name \in {"target_prefix", "env_name", "spec_file_env_name"} :
         \E r \in Range(q10) : r.name = name
  BY <1>7, <1>18
<1> QED BY <1>8, <1>17, <1>19

LEMMA ChannelRows ==
  /\ IsAList(ChannelConfigurables)
  /\ \E r \in Range(ChannelConfigurables) : r.name = "channels" /\ r.rc = "target"
<1> DEFINE ch == Row("channels", "target", TRUE, {"file_specs"})
           p1 == <<ch>>
           p2 == RcEnv(<<"channel_alias", "default_channels", "custom_channels">>)
           p3 == <<Row("custom_multichannels", "target", FALSE,
                       {"default_channels", "target_prefix", "root_prefix"})>>
           p4 == RcEnv(<<"mirrored_channels", "override_channels_enabled">>)
           p5 == Rows(<<"repodata_use_zst", "repodata_has_zst">>, "target", FALSE)
<1>1. ChannelConfigurables = p1 \o p2 \o p3 \o p4 \o p5
  BY Zenon DEF ChannelConfigurables
<1>2. IsAList(p2) /\ IsAList(p4) /\ IsAList(p5)
  BY Tuples, RowsListed, Zenon DEF RcEnv
<1>3. IsAList(p1) /\ IsAList(p3) /\ ch \in Range(p1)
  BY Tuples
<1>4. ch.name = "channels" /\ ch.rc = "target"
  BY DEF Row
<1> HIDE DEF ch, p1, p2, p3, p4, p5
<1> DEFINE q2 == p1 \o p2
           q3 == q2 \o p3
           q4 == q3 \o p4
           q5 == q4 \o p5
<1>5. ChannelConfigurables = q5
  BY <1>1
<1>6. IsAList(q2) /\ Range(q2) = Range(p1) \cup Range(p2)
  BY <1>2, <1>3, ConcatRange
<1> HIDE DEF q2
<1>7. IsAList(q3) /\ Range(q3) = Range(q2) \cup Range(p3)
  BY <1>3, <1>6, ConcatRange
<1> HIDE DEF q3
<1>8. IsAList(q4) /\ Range(q4) = Range(q3) \cup Range(p4)
  BY <1>2, <1>7, ConcatRange
<1> HIDE DEF q4
<1>9. IsAList(q5) /\ Range(q5) = Range(q4) \cup Range(p5)
  BY <1>2, <1>8, ConcatRange
<1> HIDE DEF q5
<1>10. ch \in Range(q5)
  BY <1>3, <1>6, <1>7, <1>8, <1>9
<1> QED BY <1>4, <1>5, <1>9, <1>10

LEMMA SolverRows ==
  /\ IsAList(SolverConfigurables)
  /\ \E r \in Range(SolverConfigurables) : r.name = "file_specs"
<1> DEFINE fs == Row("file_specs", "none", FALSE, {})
           p1 == RcEnv(<<"channel_priority">>)
           p2 == CliOnly(<<"explicit_install", "file_specs">>)
           p3 == Rows(<<"no_pin">>, "none", TRUE)
           p4 == RcEnv(<<"no_py_pin", "add_pip_as_python_dependency", "pinned_packages">>)
           p5 == CliOnly(<<"freeze_installed", "no_deps", "only_deps", "force_reinstall">>)
           p6 == RcEnv(<<"allow_uninstall", "allow_downgrade", "order_solver_request">>)
           p7 == CliOnly(<<"categories">>)
           p8 == Rows(<<"retry_clean_cache">>, "none", TRUE)
<1>1. SolverConfigurables = p1 \o p2 \o p3 \o p4 \o p5 \o p6 \o p7 \o p8
  BY Zenon DEF SolverConfigurables
<1>2. IsAList(p1) /\ IsAList(p2) /\ IsAList(p3) /\ IsAList(p4) /\ IsAList(p5) /\ IsAList(p6)
      /\ IsAList(p7) /\ IsAList(p8)
  BY Tuples, RowsListed, Zenon DEF CliOnly, RcEnv
<1>3. fs \in Range(p2)
  <2> DEFINE names == <<"explicit_install", "file_specs">>
  <2>1. IsAList(names) /\ "file_specs" \in Range(names)
    BY Tuples
  <2> HIDE DEF names
  <2>2. fs \in Range(Rows(names, "none", FALSE))
    BY <2>1, RowsListed, Zenon
  <2> QED BY <2>2 DEF CliOnly, names
<1>4. fs.name = "file_specs"
  BY DEF Row
<1> HIDE DEF fs, p1, p2, p3, p4, p5, p6, p7, p8
<1> DEFINE q2 == p1 \o p2
           q3 == q2 \o p3
           q4 == q3 \o p4
           q5 == q4 \o p5
           q6 == q5 \o p6
           q7 == q6 \o p7
           q8 == q7 \o p8
<1>5. SolverConfigurables = q8
  BY <1>1
<1>6. IsAList(q2) /\ Range(q2) = Range(p1) \cup Range(p2)
  BY <1>2, ConcatRange
<1> HIDE DEF q2
<1>7. IsAList(q3) /\ Range(q3) = Range(q2) \cup Range(p3)
  BY <1>2, <1>6, ConcatRange
<1> HIDE DEF q3
<1>8. IsAList(q4) /\ Range(q4) = Range(q3) \cup Range(p4)
  BY <1>2, <1>7, ConcatRange
<1> HIDE DEF q4
<1>9. IsAList(q5) /\ Range(q5) = Range(q4) \cup Range(p5)
  BY <1>2, <1>8, ConcatRange
<1> HIDE DEF q5
<1>10. IsAList(q6) /\ Range(q6) = Range(q5) \cup Range(p6)
  BY <1>2, <1>9, ConcatRange
<1> HIDE DEF q6
<1>11. IsAList(q7) /\ Range(q7) = Range(q6) \cup Range(p7)
  BY <1>2, <1>10, ConcatRange
<1> HIDE DEF q7
<1>12. IsAList(q8) /\ Range(q8) = Range(q7) \cup Range(p8)
  BY <1>2, <1>11, ConcatRange
<1> HIDE DEF q8
<1>13. fs \in Range(q8)
  BY <1>3, <1>6, <1>7, <1>8, <1>9, <1>10, <1>11, <1>12
<1> QED BY <1>4, <1>5, <1>12, <1>13

LEMMA NetworkRows == IsAList(NetworkConfigurables)
<1> DEFINE p1 == RcEnv(<<"cacert_path">>)
           p2 == Rows(<<"local_repodata_ttl">>, "target", FALSE)
           p3 == RcEnv(<<"offline", "ssl_no_revoke">>)
           p4 == <<Row("ssl_verify", "target", TRUE, {"cacert_path", "offline"})>>
           p5 == Rows(<<"proxy_servers">>, "target", FALSE)
           p6 == RcEnv(<<"remote_connect_timeout_secs", "remote_backoff_factor", "remote_max_retries">>)
<1>1. NetworkConfigurables = p1 \o p2 \o p3 \o p4 \o p5 \o p6
  BY Zenon DEF NetworkConfigurables
<1>2. IsAList(p1) /\ IsAList(p2) /\ IsAList(p3) /\ IsAList(p4) /\ IsAList(p5) /\ IsAList(p6)
  BY Tuples, RowsListed, Zenon DEF CliOnly, RcEnv
<1> HIDE DEF p1, p2, p3, p4, p5, p6
<1> DEFINE q2 == p1 \o p2
           q3 == q2 \o p3
           q4 == q3 \o p4
           q5 == q4 \o p5
           q6 == q5 \o p6
<1>3. NetworkConfigurables = q6
  BY <1>1
<1>4. IsAList(q2)
  BY <1>2, ConcatRange
<1> HIDE DEF q2
<1>5. IsAList(q3)
  BY <1>2, <1>4, ConcatRange
<1> HIDE DEF q3
<1>6. IsAList(q4)
  BY <1>2, <1>5, ConcatRange
<1> HIDE DEF q4
<1>7. IsAList(q5)
  BY <1>2, <1>6, ConcatRange
<1> HIDE DEF q5
<1>8. IsAList(q6)
  BY <1>2, <1>7, ConcatRange
<1> HIDE DEF q6
<1> QED BY <1>3, <1>8

LEMMA LinkRows == IsAList(LinkConfigurables)
<1> DEFINE p1 == RcEnv(<<"download_threads", "extract_threads", "allow_softlinks", "always_copy">>)
           p2 == <<Row("always_softlink", "target", TRUE, {"always_copy"})>>
           p3 == RcEnv(<<"show_anaconda_channel_warnings", "shortcuts", "safety_checks",
               "extra_safety_checks", "verify_artifacts", "trusted_channels", "lock_timeout",
               "use_lockfiles", "compile_pyc">>)
<1>1. LinkConfigurables = p1 \o p2 \o p3
  BY Zenon DEF LinkConfigurables
<1>2. IsAList(p1) /\ IsAList(p2) /\ IsAList(p3)
  BY Tuples, RowsListed, Zenon DEF CliOnly, RcEnv
<1> HIDE DEF p1, p2, p3
<1> DEFINE q2 == p1 \o p2
           q3 == q2 \o p3
<1>3. LinkConfigurables = q3
  BY <1>1
<1>4. IsAList(q2)
  BY <1>2, ConcatRange
<1> HIDE DEF q2
<1>5. IsAList(q3)
  BY <1>2, <1>4, ConcatRange
<1> HIDE DEF q3
<1> QED BY <1>3, <1>5

LEMMA OutputRows == IsAList(OutputConfigurables)
<1> DEFINE p1 == RcEnv(<<"always_yes", "auto_activate_base">>)
           p2 == Rows(<<"dry_run", "download_only">>, "none", TRUE)
           p3 == <<Row("log_level", "target", TRUE, {"json", "verbose"})>>
           p4 == RcEnv(<<"log_backtrace", "log_pattern">>)
           p5 == <<Row("json", "target", TRUE, {"print_config_only", "print_context_only"})>>
           p6 == RcEnv(<<"changeps1", "shell_completion", "env_prompt">>)
<1>1. OutputConfigurables = p1 \o p2 \o p3 \o p4 \o p5 \o p6
  BY Zenon DEF OutputConfigurables
<1>2. IsAList(p1) /\ IsAList(p2) /\ IsAList(p3) /\ IsAList(p4) /\ IsAList(p5) /\ IsAList(p6)
  BY Tuples, RowsListed, Zenon DEF CliOnly, RcEnv
<1> HIDE DEF p1, p2, p3, p4, p5, p6
<1> DEFINE q2 == p1 \o p2
           q3 == q2 \o p3
           q4 == q3 \o p4
           q5 == q4 \o p5
           q6 == q5 \o p6
<1>3. OutputConfigurables = q6
  BY <1>1
<1>4. IsAList(q2)
  BY <1>2, ConcatRange
<1> HIDE DEF q2
<1>5. IsAList(q3)
  BY <1>2, <1>4, ConcatRange
<1> HIDE DEF q3
<1>6. IsAList(q4)
  BY <1>2, <1>5, ConcatRange
<1> HIDE DEF q4
<1>7. IsAList(q5)
  BY <1>2, <1>6, ConcatRange
<1> HIDE DEF q5
<1>8. IsAList(q6)
  BY <1>2, <1>7, ConcatRange
<1> HIDE DEF q6
<1> QED BY <1>3, <1>8

LEMMA SourceRows == IsAList(SourceConfigurables)
<1> DEFINE p1 == <<Row("print_config_only", "none", FALSE, {"debug"}),
      Row("print_context_only", "none", FALSE, {"debug"})>>
           p2 == CliOnly(<<"show_all_configs", "show_all_rc_configs", "show_config_descriptions",
               "show_config_groups", "show_config_long_descriptions", "show_config_sources",
               "show_config_values">>)
           p3 == <<Row("quiet", "target", TRUE, {"json", "print_config_only", "print_context_only"})>>
           p4 == CliOnly(<<"verbose">>)
           p5 == <<Row("rc_files", "none", TRUE, {"no_rc"})>>
           p6 == Rows(<<"override_rc_files", "no_rc", "no_env">>, "none", TRUE)
<1>1. SourceConfigurables = p1 \o p2 \o p3 \o p4 \o p5 \o p6
  BY Zenon DEF SourceConfigurables
<1>2. IsAList(p1) /\ IsAList(p2) /\ IsAList(p3) /\ IsAList(p4) /\ IsAList(p5) /\ IsAList(p6)
  BY Tuples, RowsListed, Zenon DEF CliOnly, RcEnv
<1> HIDE DEF p1, p2, p3, p4, p5, p6
<1> DEFINE q2 == p1 \o p2
           q3 == q2 \o p3
           q4 == q3 \o p4
           q5 == q4 \o p5
           q6 == q5 \o p6
<1>3. SourceConfigurables = q6
  BY <1>1
<1>4. IsAList(q2)
  BY <1>2, ConcatRange
<1> HIDE DEF q2
<1>5. IsAList(q3)
  BY <1>2, <1>4, ConcatRange
<1> HIDE DEF q3
<1>6. IsAList(q4)
  BY <1>2, <1>5, ConcatRange
<1> HIDE DEF q4
<1>7. IsAList(q5)
  BY <1>2, <1>6, ConcatRange
<1> HIDE DEF q5
<1>8. IsAList(q6)
  BY <1>2, <1>7, ConcatRange
<1> HIDE DEF q6
<1> QED BY <1>3, <1>8

LEMMA ConfigurableRows ==
  /\ \A name \in Tracked : \E r \in Range(Configurables) : r.name = name
  /\ "channels" \in OfLevel({"target"})
<1> DEFINE p1 == PrefixConfigurables
           p2 == ChannelConfigurables
           p3 == NetworkConfigurables
           p4 == SolverConfigurables
           p5 == LinkConfigurables
           p6 == OutputConfigurables
           p7 == SourceConfigurables
           q2 == p1 \o p2
           q3 == q2 \o p3
           q4 == q3 \o p4
           q5 == q4 \o p5
           q6 == q5 \o p6
           q7 == q6 \o p7
<1>1. Configurables = q7
  BY DEF Configurables
<1>2. IsAList(q2) /\ Range(q2) = Range(p1) \cup Range(p2)
  BY PrefixRows, ChannelRows, ConcatRange
<1> HIDE DEF q2
<1>3. IsAList(q3) /\ Range(q3) = Range(q2) \cup Range(p3)
  BY <1>2, NetworkRows, ConcatRange
<1> HIDE DEF q3
<1>4. IsAList(q4) /\ Range(q4) = Range(q3) \cup Range(p4)
  BY <1>3, SolverRows, ConcatRange
<1> HIDE DEF q4
<1>5. IsAList(q5) /\ Range(q5) = Range(q4) \cup Range(p5)
  BY <1>4, LinkRows, ConcatRange
<1> HIDE DEF q5
<1>6. IsAList(q6) /\ Range(q6) = Range(q5) \cup Range(p6)
  BY <1>5, OutputRows, ConcatRange
<1> HIDE DEF q6
<1>7. IsAList(q7) /\ Range(q7) = Range(q6) \cup Range(p7)
  BY <1>6, SourceRows, ConcatRange
<1> HIDE DEF q7, p1, p2, p3, p4, p5, p6, p7
<1>8. Range(p1) \subseteq Range(q7) /\ Range(p2) \subseteq Range(q7) /\ Range(p4) \subseteq Range(q7)
  BY <1>2, <1>3, <1>4, <1>5, <1>6, <1>7
<1>9. \A name \in {"target_prefix", "env_name", "spec_file_env_name"} :
         \E r \in Range(q7) : r.name = name
  BY <1>8, PrefixRows DEF p1
<1>10. \E r \in Range(q7) : r.name = "channels" /\ r.rc = "target"
  BY <1>8, ChannelRows DEF p2
<1>11. \E r \in Range(q7) : r.name = "file_specs"
  BY <1>8, SolverRows DEF p4
<1>12. "channels" \in OfLevel({"target"})
  BY <1>1, <1>10 DEF OfLevel
<1>13. \A name \in Tracked : \E r \in Range(q7) : r.name = name
  BY <1>9, <1>10, <1>11 DEF Tracked
<1> QED BY <1>1, <1>12, <1>13

\* The order of the followed configurables in the loading sequence.
Comes(c, d) == Position(c) < Position(d)
Placed(c) == Position(c) \in 1..Len(loadingSequence)
InOrder ==
    /\ \A c \in Tracked : Position(c) \in Nat
    /\ Comes("file_specs", "spec_file_env_name") /\ Comes("spec_file_env_name", "env_name")
    /\ Comes("env_name", "target_prefix") /\ Comes("target_prefix", "channels")

LEMMA HooksGiveTheOrder ==
  ASSUME HooksAreInOrder, configPc # "sequencing" PROVE InOrder
<1> DEFINE seq == loadingSequence
           names == {row.name : row \in Range(Configurables)}
<1>1. seq \in Seq(names) /\ names \subseteq Range(seq)
  BY DEF HooksAreInOrder
<1>2. /\ \A i \in DOMAIN seq : seq[i] \notin {seq[j] : j \in 1..(i - 1)}
      /\ \A i \in DOMAIN seq : HookReads(seq[i]) \subseteq {seq[j] : j \in 1..(i - 1)}
      /\ \A i \in DOMAIN seq : HookSets(seq[i]) \cap {seq[j] : j \in 1..i} = {}
  BY DEF HooksAreInOrder
<1>3. Tracked \subseteq names
  BY ConfigurableRows
<1> HIDE DEF names
<1>4. Len(seq) \in Nat /\ DOMAIN seq = 1..Len(seq)
  BY <1>1
<1> HIDE DEF seq
<1>5. ASSUME NEW i \in DOMAIN seq, NEW j \in DOMAIN seq, seq[i] = seq[j] PROVE i = j
  <2>1. ASSUME i < j PROVE FALSE
    <3>1. i \in 1..(j - 1)
      BY <1>4, <2>1
    <3> QED BY <1>2, <1>5, <3>1
  <2>2. ASSUME j < i PROVE FALSE
    <3>1. j \in 1..(i - 1)
      BY <1>4, <2>2
    <3> QED BY <1>2, <1>5, <3>1
  <2> QED BY <1>4, <2>1, <2>2
<1>6. ASSUME NEW c \in Tracked PROVE Position(c) \in DOMAIN seq /\ seq[Position(c)] = c
  <2>1. \E i \in DOMAIN seq : seq[i] = c
    BY <1>1, <1>3 DEF Range
  <2> QED BY <2>1 DEF Position, seq
<1>7. ASSUME NEW c \in Tracked, NEW d \in Tracked, c \in HookReads(d) PROVE Comes(c, d)
  <2>1. c \in {seq[j] : j \in 1..(Position(d) - 1)}
    BY <1>2, <1>6, <1>7
  <2>2. PICK j \in 1..(Position(d) - 1) : c = seq[j]
    BY <2>1
  <2>3. j \in DOMAIN seq /\ Position(d) \in Nat
    BY <1>4, <1>6, <2>2
  <2>4. j = Position(c)
    BY <1>5, <1>6, <2>2, <2>3
  <2> QED BY <2>2, <2>3, <2>4 DEF Comes
<1>8. ASSUME NEW c \in Tracked, NEW d \in Tracked, d \in HookSets(c) PROVE Comes(c, d)
  <2>1. d \notin {seq[j] : j \in 1..Position(c)}
    BY <1>2, <1>6, <1>8
  <2>2. Position(d) \notin 1..Position(c)
    BY <1>6, <2>1
  <2> QED BY <1>4, <1>6, <2>2 DEF Comes
<1>9. /\ "spec_file_env_name" \in HookSets("file_specs") /\ "spec_file_env_name" \in HookReads("env_name")
      /\ "target_prefix" \in HookSets("env_name") /\ "channels" \in HookSets("target_prefix")
  BY ConfigurableRows, Zenon DEF HookSets, HookReads
<1>10. {"file_specs", "spec_file_env_name", "env_name", "target_prefix", "channels"} \subseteq Tracked
  BY DEF Tracked
<1>11. /\ Comes("file_specs", "spec_file_env_name") /\ Comes("spec_file_env_name", "env_name")
       /\ Comes("env_name", "target_prefix") /\ Comes("target_prefix", "channels")
  BY <1>7, <1>8, <1>9, <1>10
<1>12. \A c \in Tracked : Position(c) \in Nat
  BY <1>4, <1>6
<1> QED BY <1>11, <1>12 DEF InOrder

\* What is computed next
LEMMA NextIs ==
  ASSUME InOrder, NEW c \in Tracked \ computed,
         \A d \in Tracked \ computed : d = c \/ Comes(c, d)
  PROVE  NextToCompute = c
<1> DEFINE Rest == Tracked \ computed
           IsNext(e) == \A d \in Rest : Position(e) <= Position(d)
<1>1. \A d \in Rest : Position(d) \in Nat
  BY DEF InOrder
<1>2. IsNext(c)
  BY <1>1 DEF Comes
<1>3. ASSUME NEW e \in Rest, IsNext(e) PROVE e = c
  BY <1>1, <1>3 DEF Comes
<1> HIDE DEF Rest
<1>4. NextToCompute = CHOOSE e \in Rest : IsNext(e)
  BY DEF NextToCompute, Rest
<1>5. c \in Rest
  BY DEF Rest
<1> HIDE DEF IsNext
<1> QED BY <1>2, <1>3, <1>4, <1>5

\* What a value is made of.
Word == EnvNames \cup {"no value", Nameless, "of the file", "x", "prefix of", "given", "home",
                       "of the variable", "fallback"}

LEMMA NameIsNoMark ==
  \A n \in EnvNames : n # "no value" /\ n # Nameless /\ n # "of the file"
BY ConfigConstants, Zenon

LEMMA LongIsAValue == \A a, b : <<a, b>> # NoValue
<1>1. \A a, b, c : <<a, b>> # <<c>>
  OBVIOUS
<1> QED BY <1>1, Zenon DEF NoValue

LEMMA ShortIsAValue == \A a : a # "no value" => <<a>> # NoValue
<1>1. \A a, b : <<a>> = <<b>> => a = b
  OBVIOUS
<1> QED BY <1>1, Zenon DEF NoValue

LEMMA TwoWords ==
  /\ \A a \in Word : <<a>> \in Seq(Word)
  /\ \A a \in Word, b \in Word : <<a, b>> \in Seq(Word)
  /\ <<>> \in Seq(Word)
<1> DEFINE W == Word
<1> HIDE DEF W
<1>1. /\ \A a \in W : <<a>> \in Seq(W)
      /\ \A a \in W, b \in W : <<a, b>> \in Seq(W)
      /\ <<>> \in Seq(W)
  OBVIOUS
<1> QED BY <1>1 DEF W

LEMMA SpecFileIs ==
  ASSUME NEW f \in SpecFiles
  PROVE  \E n \in EnvNames \cup {Nameless} : f = <<n>> \/ f = <<n, "of the file">>
BY Zenon DEF SpecFiles, FileNames

\* What is given for a configurable
LEMMA ValuesAre ==
  ASSUME NEW c \in Tracked \ {"spec_file_env_name"}, NEW v \in ValuesFor(c)
  PROVE  /\ v \in Seq(Word) /\ v # NoValue
         /\ c = "channels" => v = <<"of the file", "x">>
         /\ c = "file_specs" => v \in SpecFiles
         /\ c = "env_name" => \E n \in EnvNames : v = <<n>>
<1>0. Nameless \in Word /\ "of the file" \in Word /\ "x" \in Word /\ "given" \in Word
      /\ EnvNames \subseteq Word
  BY Zenon DEF Word
<1>1. CASE c = "channels"
  <2>1. v = <<"of the file", "x">>
    BY <1>1 DEF ValuesFor
  <2>2. v \in Seq(Word)
    BY <1>0, <2>1, TwoWords, Zenon
  <2> QED BY <1>1, <2>1, <2>2, LongIsAValue
<1>2. CASE c = "file_specs"
  <2>1. v \in SpecFiles
    BY <1>2 DEF ValuesFor
  <2>2. PICK n \in EnvNames \cup {Nameless} : v = <<n>> \/ v = <<n, "of the file">>
    BY <2>1, SpecFileIs
  <2>3. n \in Word
    BY <1>0
  <2>4. v \in Seq(Word)
    BY <1>0, <2>2, <2>3, TwoWords, Zenon
  <2>5. n # "no value"
    <3>1. "no value" # Nameless
      BY DEF Nameless
    <3> QED BY <3>1, NameIsNoMark, Zenon
  <2>6. v # NoValue
    BY <2>2, <2>5, LongIsAValue, ShortIsAValue, Zenon
  <2> QED BY <1>2, <2>1, <2>4, <2>6
<1>3. CASE c = "env_name"
  <2>1. PICK n \in EnvNames : v = <<n>>
    BY <1>3 DEF ValuesFor
  <2>2. v \in Seq(Word)
    BY <1>0, <2>1, TwoWords, Zenon
  <2>3. v # NoValue
    BY <2>1, NameIsNoMark, ShortIsAValue, Zenon
  <2> QED BY <1>3, <2>1, <2>2, <2>3
<1>4. CASE c = "target_prefix"
  <2>1. v = <<"given">>
    BY <1>4 DEF ValuesFor
  <2>2. v \in Seq(Word)
    BY <1>0, <2>1, TwoWords, Zenon
  <2>3. "given" # "no value"
    OBVIOUS
  <2>4. v # NoValue
    BY <2>1, <2>3, ShortIsAValue, Zenon
  <2> QED BY <1>4, <2>2, <2>4
<1> QED BY <1>1, <1>2, <1>3, <1>4 DEF Tracked

-----------------------------------------------------------------------------
(* What has been given since the last teardown                              *)

LEMMA GivenNothing == given = {} => \A from, c : GivenFor(from, c) = NoValue
BY DEF GivenFor

Gives(from, c, v) ==
    (~\E g \in given : g[1] = from /\ g[2] = c) /\ given' = given \cup {<<from, c, v>>}

LEMMA GivenMore ==
  \A from, c, v : Gives(from, c, v) =>
      /\ GivenFor(from, c)' = v
      /\ \A f, d : f # from \/ d # c => GivenFor(f, d)' = GivenFor(f, d)
<1> SUFFICES ASSUME NEW from, NEW c, NEW v, Gives(from, c, v)
             PROVE  /\ GivenFor(from, c)' = v
                    /\ \A f, d : f # from \/ d # c => GivenFor(f, d)' = GivenFor(f, d)
  OBVIOUS
<1> DEFINE Of(set, f, d) == {g \in set : g[1] = f /\ g[2] = d}
           Third(S) == IF S = {} THEN NoValue ELSE (CHOOSE g \in S : TRUE)[3]
           new == <<from, c, v>>
<1>1. new[1] = from /\ new[2] = c /\ new[3] = v
  OBVIOUS
<1> HIDE DEF new
<1>2. \A f, d : GivenFor(f, d) = Third(Of(given, f, d)) /\ GivenFor(f, d)' = Third(Of(given', f, d))
  BY DEF GivenFor
<1>3. Of(given', from, c) = {new} /\ Of(given, from, c) = {}
  BY <1>1 DEF new, Gives
<1>4. ASSUME NEW f, NEW d, f # from \/ d # c PROVE Of(given', f, d) = Of(given, f, d)
  BY <1>1, <1>4 DEF new, Gives
<1>5. Third({new}) = v
  BY <1>1
<1>6. Third({}) = NoValue
  OBVIOUS
<1> HIDE DEF Of, Third
<1> QED BY <1>2, <1>3, <1>4, <1>5, <1>6, Zenon

LEMMA GivenLess ==
  ASSUME given' = {g \in given : g[1] = "API" /\ g[2] \notin SingleOpLifetime}
  PROVE  /\ \A c : GivenFor("CLI", c)' = NoValue
         /\ \A c \in SingleOpLifetime : GivenFor("API", c)' = NoValue
         /\ \A c : c \notin SingleOpLifetime => GivenFor("API", c)' = GivenFor("API", c)
<1> DEFINE Of(set, f, d) == {g \in set : g[1] = f /\ g[2] = d}
           Third(S) == IF S = {} THEN NoValue ELSE (CHOOSE g \in S : TRUE)[3]
<1>2. \A f, d : GivenFor(f, d) = Third(Of(given, f, d)) /\ GivenFor(f, d)' = Third(Of(given', f, d))
  BY DEF GivenFor
<1>3. \A c : Of(given', "CLI", c) = {}
  <2>1. "CLI" # "API"
    OBVIOUS
  <2> QED BY <2>1
<1>4. \A c \in SingleOpLifetime : Of(given', "API", c) = {}
  OBVIOUS
<1>5. \A c : c \notin SingleOpLifetime => Of(given', "API", c) = Of(given, "API", c)
  OBVIOUS
<1>6. Third({}) = NoValue
  OBVIOUS
<1> HIDE DEF Of, Third
<1> QED BY <1>2, <1>3, <1>4, <1>5, <1>6, Zenon

-----------------------------------------------------------------------------
(* The invariant                                                            *)

GivenTyped ==
    /\ \A from \in {"API", "CLI"}, c \in Tracked \ {"spec_file_env_name"} :
           GivenFor(from, c) = NoValue \/ GivenFor(from, c) \in ValuesFor(c)
    /\ GivenFor("API", "spec_file_env_name") = NoValue
    /\ GivenFor("CLI", "spec_file_env_name") = NoValue
    /\ GivenFor("API", "file_specs") = NoValue

ValuesTyped ==
    /\ configValue \in [Tracked -> Seq(Word)] /\ cliConfig \in [Tracked -> Seq(Word)]
    /\ apiConfigured \subseteq Tracked \ {"file_specs", "spec_file_env_name"}
    /\ rcChannels \in Seq(Seq(Word))

StartsAsGiven(s) == Len(s) >= 2 /\ s[1] = "of the file" /\ s[2] = "x"
\* A list set through the API stays at the head of the configured one.
ListStays ==
    /\ "channels" \in apiConfigured <=> GivenFor("API", "channels") # NoValue
    /\ "channels" \in apiConfigured => StartsAsGiven(configValue["channels"])

LEMMA Joining ==
  ASSUME NEW T
  PROVE  /\ \A v \in T, r \in Seq(T) : <<v>> \o r \in Seq(T) /\ <<v>> \o r # <<>> /\ (<<v>> \o r)[1] = v
         /\ \A r \in Seq(T) : <<>> \o r = r /\ r \o <<>> = r
         /\ \A a \in Seq(T), b \in Seq(T), c \in Seq(T) : (a \o b) \o c = a \o (b \o c)
         /\ \A a \in Seq(T), b \in Seq(T) : a \o b \in Seq(T)
         /\ <<>> \in Seq(T) /\ \A v \in T : <<v>> \in Seq(T)
<1>1. ASSUME NEW v \in T, NEW r \in Seq(T)
      PROVE  <<v>> \o r \in Seq(T) /\ <<v>> \o r # <<>> /\ (<<v>> \o r)[1] = v
  <2> DEFINE w == <<v>> \o r
  <2>1. w \in Seq(T) /\ Len(w) = 1 + Len(r) /\ Len(r) \in Nat
    OBVIOUS
  <2>2. w[1] = v
    OBVIOUS
  <2>3. w # <<>>
    <3> HIDE DEF w
    <3> QED BY <2>1, EmptySeq
  <2> QED BY <2>1, <2>2, <2>3
<1>2. ASSUME NEW r \in Seq(T) PROVE <<>> \o r = r /\ r \o <<>> = r
  OBVIOUS
<1>3. ASSUME NEW a \in Seq(T), NEW b \in Seq(T), NEW c \in Seq(T)
      PROVE  (a \o b) \o c = a \o (b \o c)
  OBVIOUS
<1>4. ASSUME NEW a \in Seq(T), NEW b \in Seq(T) PROVE a \o b \in Seq(T)
  OBVIOUS
<1>5. <<>> \in Seq(T) /\ \A v \in T : <<v>> \in Seq(T)
  OBVIOUS
<1> QED BY <1>1, <1>2, <1>3, <1>4, <1>5

FromApi(c) == IF c \in apiConfigured THEN <<configValue[c]>> ELSE <<>>
FromCli(c) == IF cliConfig[c] # NoValue THEN <<cliConfig[c]>> ELSE <<>>
FromVariable(c) == IF c = "target_prefix" /\ targetVar THEN <<<<"of the variable">>>> ELSE <<>>
FromRc(c) == IF c = "channels" THEN rcChannels ELSE <<>>

LEMMA SourcesTyped ==
  ASSUME ValuesTyped, NEW c \in Tracked
  PROVE  /\ SourceValues(c) = FromApi(c) \o (FromCli(c) \o (FromVariable(c) \o FromRc(c)))
         /\ FromApi(c) \in Seq(Seq(Word)) /\ FromCli(c) \in Seq(Seq(Word))
         /\ FromVariable(c) \in Seq(Seq(Word)) /\ FromRc(c) \in Seq(Seq(Word))
         /\ configValue[c] \in Seq(Word) /\ cliConfig[c] \in Seq(Word)
<1> DEFINE T == Seq(Word)
           a == FromApi(c)
           b == FromCli(c)
           v == FromVariable(c)
           r == FromRc(c)
<1>1. configValue[c] \in T /\ cliConfig[c] \in T /\ rcChannels \in Seq(T)
  BY Zenon DEF ValuesTyped
<1>2. <<"of the variable">> \in T
  <2>1. "of the variable" \in Word
    BY Zenon DEF Word
  <2> QED BY <2>1, TwoWords
<1>3. SourceValues(c) = ((a \o b) \o v) \o r
  BY Zenon DEF SourceValues, FromApi, FromCli, FromVariable, FromRc
<1> HIDE DEF T
<1>4. a \in Seq(T) /\ b \in Seq(T) /\ v \in Seq(T) /\ r \in Seq(T)
  BY <1>1, <1>2, Joining, Zenon DEF FromApi, FromCli, FromVariable, FromRc
<1> HIDE DEF a, b, v, r
<1>5. ((a \o b) \o v) \o r = a \o (b \o (v \o r))
  <2>0. ASSUME NEW x \in Seq(T), NEW y \in Seq(T), NEW z \in Seq(T) PROVE (x \o y) \o z = x \o (y \o z)
    OBVIOUS
  <2>1. (a \o b) \in Seq(T) /\ v \o r \in Seq(T)
    BY <1>4
  <2>2. ((a \o b) \o v) \o r = (a \o b) \o (v \o r)
    <3> DEFINE ab == a \o b
    <3>1. ab \in Seq(T)
      BY <2>1
    <3> HIDE DEF ab
    <3>2. (ab \o v) \o r = ab \o (v \o r)
      BY <1>4, <3>1
    <3> QED BY <3>2 DEF ab
  <2>3. (a \o b) \o (v \o r) = a \o (b \o (v \o r))
    <3> DEFINE vr == v \o r
    <3>1. vr \in Seq(T)
      BY <2>1
    <3> HIDE DEF vr
    <3>2. (a \o b) \o vr = a \o (b \o vr)
      BY <1>4, <3>1
    <3> QED BY <3>2 DEF vr
  <2> QED BY <2>2, <2>3
<1> QED BY <1>1, <1>3, <1>4, <1>5 DEF a, b, v, r, T

LEMMA FlattenOne ==
  /\ FlattenSeq(<<>>) = <<>>
  /\ \A C : \A x \in Seq(C) : FlattenSeq(<<x>>) = x
<1>1. FlattenSeq(<<>>) = <<>>
  BY DEF FlattenSeq
<1>2. ASSUME NEW C, NEW x \in Seq(C) PROVE FlattenSeq(<<x>>) = x
  <2>1. <<>> \in Seq(Seq(C)) /\ Append(<<>>, x) = <<x>> /\ <<>> \o x = x
    OBVIOUS
  <2>2. FlattenSeq(Append(<<>>, x)) = FlattenSeq(<<>>) \o x
    BY <2>1, FlattenAppend
  <2> QED BY <1>1, <2>1, <2>2, Zenon
<1> QED BY <1>1, <1>2

LEMMA FlattenTyped ==
  ASSUME NEW C, NEW s \in Seq(Seq(C)) PROVE FlattenSeq(s) \in Seq(C)
<1>1. <<>> \in Seq(C)
  OBVIOUS
<1> QED BY <1>1, FlattenAppend


\* The value of a source is the one of the highest rank,
LEMMA MergedOne ==
  ASSUME ValuesTyped, NEW c \in {"spec_file_env_name", "env_name", "target_prefix"}
  PROVE  Merged(c) = IF c \in apiConfigured THEN configValue[c]
                     ELSE IF cliConfig[c] # NoValue THEN cliConfig[c]
                     ELSE IF c = "target_prefix" /\ targetVar THEN <<"of the variable">> ELSE <<>>
<1> DEFINE T == Seq(Word)
           a == FromApi(c)
           b == FromCli(c)
           v == FromVariable(c)
           r == FromRc(c)
           w == <<"of the variable">>
<1>0. c \in Tracked /\ c # "channels" /\ c # "file_specs"
  BY DEF Tracked
<1>1. /\ SourceValues(c) = a \o (b \o (v \o r))
      /\ a \in Seq(T) /\ b \in Seq(T) /\ v \in Seq(T) /\ r \in Seq(T)
      /\ configValue[c] \in T /\ cliConfig[c] \in T
  BY <1>0, SourcesTyped
<1>2. r = <<>>
  BY <1>0 DEF FromRc
<1>3. Merged(c) = IF SourceValues(c) = <<>> THEN DefaultValue[c] ELSE SourceValues(c)[1]
  BY <1>0, Zenon DEF Merged
<1>4. DefaultValue[c] = <<>>
  BY <1>0 DEF DefaultValue
<1>5. w \in T
  <2>1. "of the variable" \in Word
    BY Zenon DEF Word
  <2> QED BY <2>1, TwoWords
<1>6. /\ a = IF c \in apiConfigured THEN <<configValue[c]>> ELSE <<>>
      /\ b = IF cliConfig[c] # NoValue THEN <<cliConfig[c]>> ELSE <<>>
      /\ v = IF c = "target_prefix" /\ targetVar THEN <<w>> ELSE <<>>
  BY DEF FromApi, FromCli, FromVariable
<1> HIDE DEF a, b, v, r, T, w
<1>7. v \o r = v /\ b \o v \in Seq(T)
  BY <1>1, <1>2, Joining
<1>8. SourceValues(c) = a \o (b \o v)
  BY <1>1, <1>7
<1>9. CASE c \in apiConfigured
  <2>1. a = <<configValue[c]>>
    BY <1>6, <1>9
  <2>2. SourceValues(c) # <<>> /\ SourceValues(c)[1] = configValue[c]
    BY <1>1, <1>7, <1>8, <2>1, Joining
  <2> QED BY <1>3, <1>9, <2>2, Zenon
<1>10. CASE c \notin apiConfigured /\ cliConfig[c] # NoValue
  <2>1. a = <<>> /\ b = <<cliConfig[c]>>
    BY <1>6, <1>10
  <2>2. SourceValues(c) = b \o v
    BY <1>7, <1>8, <2>1, Joining
  <2>3. SourceValues(c) # <<>> /\ SourceValues(c)[1] = cliConfig[c]
    BY <1>1, <2>1, <2>2, Joining
  <2> QED BY <1>3, <1>10, <2>3, Zenon
<1>11. CASE c \notin apiConfigured /\ cliConfig[c] = NoValue
  <2>1. a = <<>> /\ b = <<>>
    BY <1>6, <1>11
  <2>2. SourceValues(c) = v
    BY <1>1, <1>7, <1>8, <2>1, Joining
  <2>3. CASE c = "target_prefix" /\ targetVar
    <3>1. v = <<w>>
      BY <1>6, <2>3
    <3>2. <<w>> # <<>> /\ <<w>>[1] = w
      OBVIOUS
    <3>3. SourceValues(c) # <<>> /\ SourceValues(c)[1] = w
      BY <2>2, <3>1, <3>2
    <3> QED BY <1>3, <1>11, <2>3, <3>3, Zenon DEF w
  <2>4. CASE ~(c = "target_prefix" /\ targetVar)
    <3>1. SourceValues(c) = <<>>
      BY <1>6, <2>2, <2>4
    <3> QED BY <1>3, <1>4, <1>11, <2>4, <3>1, Zenon
  <2> QED BY <2>3, <2>4
<1> QED BY <1>9, <1>10, <1>11

\* the one spec file is read as it was given,
LEMMA MergedFile ==
  ASSUME ValuesTyped
  PROVE  Merged("file_specs") = IF cliConfig["file_specs"] = NoValue THEN <<>>
                                ELSE Once(cliConfig["file_specs"])
<1> DEFINE c == "file_specs"
           x == cliConfig[c]
<1>0. c \in Tracked /\ c # "channels" /\ c # "target_prefix" /\ c \notin apiConfigured
  BY DEF Tracked, ValuesTyped
<1>1. SourceValues(c) = FromApi(c) \o (FromCli(c) \o (FromVariable(c) \o FromRc(c))) /\ x \in Seq(Word)
      /\ FromCli(c) \in Seq(Seq(Word))
  BY <1>0, SourcesTyped
<1>2. FromApi(c) = <<>> /\ FromVariable(c) = <<>> /\ FromRc(c) = <<>>
  BY <1>0 DEF FromApi, FromVariable, FromRc
<1>3. SourceValues(c) = FromCli(c)
  <2>1. <<>> \o <<>> = <<>>
    OBVIOUS
  <2> DEFINE f == FromCli(c)
  <2>2. f \in Seq(Seq(Word))
    BY <1>1
  <2> HIDE DEF f
  <2>3. <<>> \o (f \o <<>>) = f
    BY <2>2
  <2>4. SourceValues(c) = <<>> \o (f \o (<<>> \o <<>>))
    BY <1>1, <1>2, Zenon DEF f
  <2> QED BY <2>1, <2>3, <2>4, Zenon DEF f
<1>4. FromCli(c) = IF x # NoValue THEN <<x>> ELSE <<>>
  BY DEF FromCli
<1>5. Merged(c) = IF SourceValues(c) = <<>> THEN DefaultValue[c] ELSE Once(FlattenSeq(SourceValues(c)))
  BY Zenon DEF Merged
<1>6. DefaultValue[c] = <<>>
  BY <1>0 DEF DefaultValue
<1>7. FlattenSeq(<<x>>) = x /\ <<x>> # <<>>
  BY <1>1, FlattenOne
<1> HIDE DEF x
<1>8. Merged(c) = IF x = NoValue THEN <<>> ELSE Once(x)
  BY <1>3, <1>4, <1>5, <1>6, <1>7, Zenon
<1> QED BY <1>8 DEF x

\* and lists are joined.
LEMMA MergedList ==
  ASSUME ValuesTyped
  PROVE  Merged("channels") = Once(FlattenSeq(FromApi("channels") \o (FromCli("channels") \o rcChannels)))
<1> DEFINE c == "channels"
<1>0. c \in Tracked /\ c # "target_prefix"
  BY DEF Tracked
<1>1. /\ SourceValues(c) = FromApi(c) \o (FromCli(c) \o (FromVariable(c) \o FromRc(c)))
      /\ FromRc(c) \in Seq(Seq(Word))
  BY <1>0, SourcesTyped
<1>2. FromVariable(c) = <<>> /\ FromRc(c) = rcChannels
  BY <1>0 DEF FromVariable, FromRc
<1>3. SourceValues(c) = FromApi(c) \o (FromCli(c) \o rcChannels)
  BY <1>1, <1>2, Joining
<1>5. Merged(c) = IF SourceValues(c) = <<>> THEN DefaultValue[c] ELSE Once(FlattenSeq(SourceValues(c)))
  BY Zenon DEF Merged
<1>6. DefaultValue[c] = <<>>
  BY <1>0 DEF DefaultValue
<1>7. Once(FlattenSeq(<<>>)) = <<>>
  <2>1. <<>> \in Seq({}) /\ Len(<<>>) = 0
    OBVIOUS
  <2>2. Once(<<>>) = <<>>
    BY <2>1, OnceBegins
  <2> QED BY <2>2, FlattenOne
<1> QED BY <1>3, <1>5, <1>6, <1>7, Zenon

LEMMA MergedTyped ==
  ASSUME ValuesTyped, NEW c \in Tracked PROVE Merged(c) \in Seq(Word)
<1>0. <<>> \in Seq(Word) /\ <<"of the variable">> \in Seq(Word)
  <2>1. "of the variable" \in Word
    BY Zenon DEF Word
  <2> QED BY <2>1, TwoWords
<1>1. configValue[c] \in Seq(Word) /\ cliConfig[c] \in Seq(Word)
  BY SourcesTyped
<1>2. CASE c \in {"spec_file_env_name", "env_name", "target_prefix"}
  BY <1>0, <1>1, <1>2, MergedOne, Zenon
<1>3. CASE c = "file_specs"
  <2>1. Once(cliConfig[c]) \in Seq(Word)
    BY <1>1, OnceKeeps
  <2> QED BY <1>0, <1>3, <2>1, MergedFile, Zenon
<1>4. CASE c = "channels"
  <2> DEFINE T == Seq(Word)
             s == FromApi(c) \o (FromCli(c) \o rcChannels)
  <2>1. FromApi(c) \in Seq(T) /\ FromCli(c) \in Seq(T) /\ rcChannels \in Seq(T)
    BY SourcesTyped, Zenon DEF ValuesTyped
  <2>2. s \in Seq(T)
    BY <2>1, Joining
  <2> HIDE DEF s
  <2>3. FlattenSeq(s) \in Seq(Word)
    BY <2>2, FlattenTyped
  <2>4. Once(FlattenSeq(s)) \in Seq(Word)
    BY <2>3, OnceKeeps
  <2> QED BY <1>4, <2>4, MergedList, Zenon DEF s
<1> QED BY <1>2, <1>3, <1>4 DEF Tracked

\* The first of some values
LEMMA FirstAt ==
  ASSUME NEW s, DOMAIN s \in SUBSET Nat, NEW k \in DOMAIN s, s[k] # NoValue,
         \A i \in DOMAIN s : i < k => s[i] = NoValue
  PROVE  FirstOf(s) = s[k]
<1> DEFINE set == {i \in DOMAIN s : s[i] # NoValue}
<1>1. k \in set /\ \A i \in set : k <= i
  OBVIOUS
<1>2. set \subseteq Nat
  OBVIOUS
<1> HIDE DEF set
<1>3. \A x \in set : (\A y \in set : x <= y) => x = k
  BY <1>1, <1>2
<1>4. Min(set) = k
  BY <1>1, <1>3 DEF Min
<1>5. set # {}
  BY <1>1
<1> QED BY <1>1, <1>4, <1>5, Zenon DEF FirstOf, set

LEMMA FirstOfThree ==
  ASSUME NEW a, NEW b, NEW c
  PROVE  FirstOf(<<a, b, c>>) =
           IF a # NoValue THEN a ELSE IF b # NoValue THEN b ELSE c
<1> DEFINE s == <<a, b, c>>
<1>1. DOMAIN s = 1..3 /\ s[1] = a /\ s[2] = b /\ s[3] = c
  OBVIOUS
<1> HIDE DEF s
<1>2. DOMAIN s \in SUBSET Nat /\ \A i \in DOMAIN s : i = 1 \/ i = 2 \/ i = 3
  BY <1>1
<1>3. CASE a # NoValue
  <2>1. 1 \in DOMAIN s /\ \A i \in DOMAIN s : i < 1 => s[i] = NoValue
    BY <1>1, <1>2, <1>3
  <2>2. FirstOf(s) = s[1]
    BY <1>1, <1>2, <1>3, <2>1, FirstAt, Zenon
  <2> QED BY <1>1, <1>3, <2>2, Zenon DEF s
<1>4. CASE a = NoValue /\ b # NoValue
  <2>1. 2 \in DOMAIN s /\ \A i \in DOMAIN s : i < 2 => s[i] = NoValue
    BY <1>1, <1>2, <1>4
  <2>2. FirstOf(s) = s[2]
    BY <1>1, <1>2, <1>4, <2>1, FirstAt, Zenon
  <2> QED BY <1>1, <1>4, <2>2, Zenon DEF s
<1>5. CASE a = NoValue /\ b = NoValue /\ c # NoValue
  <2>1. 3 \in DOMAIN s /\ \A i \in DOMAIN s : i < 3 => s[i] = NoValue
    BY <1>1, <1>2, <1>5
  <2>2. FirstOf(s) = s[3]
    BY <1>1, <1>2, <1>5, <2>1, FirstAt, Zenon
  <2> QED BY <1>1, <1>5, <2>2, Zenon DEF s
<1>6. CASE a = NoValue /\ b = NoValue /\ c = NoValue
  <2>1. {i \in DOMAIN s : s[i] # NoValue} = {}
    BY <1>1, <1>2, <1>6
  <2>2. FirstOf(s) = NoValue
    BY <2>1, Zenon DEF FirstOf
  <2> QED BY <1>6, <2>2, Zenon DEF s
<1> QED BY <1>3, <1>4, <1>5, <1>6, Zenon

LEMMA FirstOfSix ==
  ASSUME NEW a, NEW b, NEW c, NEW d, NEW e, NEW f, f # NoValue
  PROVE  FirstOf(<<a, b, c, d, e, f>>) =
           IF a # NoValue THEN a ELSE IF b # NoValue THEN b ELSE IF c # NoValue THEN c
           ELSE IF d # NoValue THEN d ELSE IF e # NoValue THEN e ELSE f
<1> DEFINE s == <<a, b, c, d, e, f>>
<1>1. DOMAIN s = 1..6 /\ s[1] = a /\ s[2] = b /\ s[3] = c /\ s[4] = d /\ s[5] = e /\ s[6] = f
  OBVIOUS
<1> HIDE DEF s
<1>2. DOMAIN s \in SUBSET Nat /\ \A i \in DOMAIN s : i = 1 \/ i = 2 \/ i = 3 \/ i = 4 \/ i = 5 \/ i = 6
  BY <1>1
<1>3. CASE a # NoValue
  <2>1. 1 \in DOMAIN s /\ \A i \in DOMAIN s : i < 1 => s[i] = NoValue
    BY <1>1, <1>2, <1>3
  <2>2. FirstOf(s) = s[1]
    BY <1>1, <1>2, <1>3, <2>1, FirstAt, Zenon
  <2> QED BY <1>1, <1>3, <2>2, Zenon DEF s
<1>4. CASE a = NoValue /\ b # NoValue
  <2>1. 2 \in DOMAIN s /\ \A i \in DOMAIN s : i < 2 => s[i] = NoValue
    BY <1>1, <1>2, <1>4
  <2>2. FirstOf(s) = s[2]
    BY <1>1, <1>2, <1>4, <2>1, FirstAt, Zenon
  <2> QED BY <1>1, <1>4, <2>2, Zenon DEF s
<1>5. CASE a = NoValue /\ b = NoValue /\ c # NoValue
  <2>1. 3 \in DOMAIN s /\ \A i \in DOMAIN s : i < 3 => s[i] = NoValue
    BY <1>1, <1>2, <1>5
  <2>2. FirstOf(s) = s[3]
    BY <1>1, <1>2, <1>5, <2>1, FirstAt, Zenon
  <2> QED BY <1>1, <1>5, <2>2, Zenon DEF s
<1>6. CASE a = NoValue /\ b = NoValue /\ c = NoValue /\ d # NoValue
  <2>1. 4 \in DOMAIN s /\ \A i \in DOMAIN s : i < 4 => s[i] = NoValue
    BY <1>1, <1>2, <1>6
  <2>2. FirstOf(s) = s[4]
    BY <1>1, <1>2, <1>6, <2>1, FirstAt, Zenon
  <2> QED BY <1>1, <1>6, <2>2, Zenon DEF s
<1>7. CASE a = NoValue /\ b = NoValue /\ c = NoValue /\ d = NoValue /\ e # NoValue
  <2>1. 5 \in DOMAIN s /\ \A i \in DOMAIN s : i < 5 => s[i] = NoValue
    BY <1>1, <1>2, <1>7
  <2>2. FirstOf(s) = s[5]
    BY <1>1, <1>2, <1>7, <2>1, FirstAt, Zenon
  <2> QED BY <1>1, <1>7, <2>2, Zenon DEF s
<1>8. CASE a = NoValue /\ b = NoValue /\ c = NoValue /\ d = NoValue /\ e = NoValue
  <2>1. 6 \in DOMAIN s /\ \A i \in DOMAIN s : i < 6 => s[i] = NoValue
    BY <1>1, <1>2, <1>8
  <2>2. FirstOf(s) = s[6]
    BY <1>1, <1>2, <1>8, <2>1, FirstAt, Zenon
  <2> QED BY <1>1, <1>8, <2>2, Zenon DEF s
<1> QED BY <1>3, <1>4, <1>5, <1>6, <1>7, <1>8, Zenon

\* A spec file is read as it was given: it names nothing twice.
LEMMA FileIs ==
  ASSUME NEW f \in SpecFiles
  PROVE  /\ Once(f) = f /\ f # NoValue /\ f # <<>>
         /\ FileName(f) # NoValue /\ FileName(f) \in Seq(Word)
         /\ FileChannels(f) \in {<<>>, <<"of the file">>}
<1>1. PICK n \in EnvNames \cup {Nameless} : f = <<n>> \/ f = <<n, "of the file">>
  BY SpecFileIs
<1>2. n # "of the file" /\ n # "no value" /\ n \in Word
  <2>1. Nameless # "of the file" /\ Nameless # "no value"
    BY DEF Nameless
  <2>2. n # "of the file" /\ n # "no value"
    BY <2>1, NameIsNoMark, Zenon
  <2>3. n \in Word
    BY Zenon DEF Word
  <2> QED BY <2>2, <2>3
<1>3. ASSUME NEW a, NEW b
      PROVE  /\ <<a>> # <<>> /\ <<a, b>> # <<>> /\ <<a>>[1] = a /\ <<a, b>>[1] = a
             /\ Tail(<<a>>) = <<>> /\ Tail(<<a, b>>) = <<b>>
  OBVIOUS
<1>4. ASSUME NEW a, NEW b, a # b PROVE Once(<<a>>) = <<a>> /\ Once(<<a, b>>) = <<a, b>>
  <2>1. <<a>> \in Seq({a, b}) /\ Len(<<a>>) = 1 /\ <<a>>[1] = a
    OBVIOUS
  <2>2. <<a, b>> \in Seq({a, b}) /\ Len(<<a, b>>) = 2 /\ <<a, b>>[1] = a /\ <<a, b>>[2] = b
    OBVIOUS
  <2>3. Once(<<a>>) = <<a>>
    BY <2>1, OnceBegins, Zenon
  <2>4. Once(<<a, b>>) = <<a, b>>
    BY <1>4, <2>2, OnceBegins, Zenon
  <2> QED BY <2>3, <2>4
<1>5. Once(f) = f
  BY <1>1, <1>2, <1>4, Zenon
<1>6. f # NoValue
  BY <1>1, <1>2, LongIsAValue, ShortIsAValue, Zenon
<1>7. f # <<>> /\ f[1] = n /\ FileChannels(f) \in {<<>>, <<"of the file">>}
  <2>1. CASE f = <<n>>
    <3>1. <<n>> # <<>> /\ <<n>>[1] = n /\ Tail(<<n>>) = <<>>
      BY <1>3
    <3> QED BY <2>1, <3>1, Zenon DEF FileChannels
  <2>2. CASE f = <<n, "of the file">>
    <3>1. <<n, "of the file">> # <<>> /\ <<n, "of the file">>[1] = n
          /\ Tail(<<n, "of the file">>) = <<"of the file">>
      BY <1>3, Zenon
    <3> QED BY <2>2, <3>1, Zenon DEF FileChannels
  <2> QED BY <1>1, <2>1, <2>2
<1>8. <<>> # NoValue
  <2>1. \A a : <<a>> # <<>>
    OBVIOUS
  <2> QED BY <2>1, Zenon DEF NoValue
<1>9. FileName(f) # NoValue /\ FileName(f) \in Seq(Word)
  BY <1>2, <1>7, <1>8, ShortIsAValue, TwoWords, Zenon DEF FileName
<1> QED BY <1>5, <1>6, <1>7, <1>9

EndsOf(C) == {<<>>} \cup {<<v>> : v \in Seq(C)}

\* What rc files there are comes after the rest.
LEMMA FlattenLast ==
  ASSUME NEW C, NEW s \in Seq(Seq(C)), NEW r \in EndsOf(C)
  PROVE  /\ FlattenSeq(s \o r) = FlattenSeq(s) \o FlattenSeq(r) /\ FlattenSeq(r) \in Seq(C)
         /\ FlattenSeq(s) \in Seq(C) /\ r \in Seq(Seq(C)) /\ s \o r \in Seq(Seq(C))
<1> DEFINE T == Seq(C)
           w == FlattenSeq(s)
<1>0. s \in Seq(T) /\ w \in T /\ <<>> \in T
  BY FlattenTyped
<1>1. CASE r = <<>>
  <2>1. FlattenSeq(r) = <<>>
    BY <1>1, FlattenOne
  <2>2. w \o <<>> = w
    <3>1. w \in Seq(C)
      BY <1>0
    <3> HIDE DEF w
    <3> QED BY <3>1
  <2> HIDE DEF T
  <2>3. s \o r = s /\ r \in Seq(T)
    BY <1>0, <1>1
  <2> QED BY <1>0, <2>1, <2>2, <2>3 DEF T
<1>2. CASE r # <<>>
  <2>0. PICK x \in T : r = <<x>>
    BY <1>2 DEF EndsOf
  <2>1. FlattenSeq(r) = x
    BY <2>0, FlattenOne
  <2>2. FlattenSeq(Append(s, x)) = w \o x
    BY FlattenAppend
  <2> HIDE DEF T
  <2>3. s \o r = Append(s, x) /\ r \in Seq(T) /\ s \o r \in Seq(T)
    BY <1>0, <2>0
  <2> QED BY <1>0, <2>1, <2>2, <2>3, Zenon DEF T
<1> QED BY <1>1, <1>2

LEMMA FlattenMore ==
  ASSUME NEW C, NEW s \in Seq(Seq(C)), NEW r \in EndsOf(C), NEW q \in EndsOf(C)
  PROVE  FlattenSeq(s \o (r \o q)) = FlattenSeq(s) \o FlattenSeq(r \o q) /\ FlattenSeq(r \o q) \in Seq(C)
<1> DEFINE T == Seq(C)
           P == Seq(T)
           F(z) == FlattenSeq(z)
           Ends == EndsOf(C)
<1>0. ASSUME NEW a \in P, NEW z \in Ends
      PROVE  F(a \o z) = F(a) \o F(z) /\ F(z) \in T /\ F(a) \in T /\ z \in P /\ a \o z \in P
  BY <1>0, FlattenLast
<1>1. s \in P /\ r \in Ends /\ q \in Ends
  OBVIOUS
<1>2. ASSUME NEW a \in P, NEW b \in P, NEW c \in P PROVE (a \o b) \o c = a \o (b \o c)
  <2> HIDE DEF T
  <2> QED OBVIOUS
<1>3. ASSUME NEW a \in T, NEW b \in T, NEW c \in T
      PROVE  (a \o b) \o c = a \o (b \o c) /\ a \o b \in T
  OBVIOUS
<1> HIDE DEF T, P, F, Ends
<1>4. F(s \o r) = F(s) \o F(r) /\ F(r) \in T /\ F(s) \in T /\ r \in P /\ s \o r \in P
  BY <1>0, <1>1
<1>5. F(r \o q) = F(r) \o F(q) /\ F(q) \in T /\ q \in P
  BY <1>0, <1>1, <1>4
<1>6. F((s \o r) \o q) = F(s \o r) \o F(q)
  BY <1>0, <1>1, <1>4
<1>7. (s \o r) \o q = s \o (r \o q)
  BY <1>1, <1>2, <1>4, <1>5, Zenon
<1>8. (F(s) \o F(r)) \o F(q) = F(s) \o (F(r) \o F(q)) /\ F(r) \o F(q) \in T
  BY <1>3, <1>4, <1>5, Zenon
<1>9. F(s \o (r \o q)) = F(s) \o F(r \o q) /\ F(r \o q) \in T
  BY <1>4, <1>5, <1>6, <1>7, <1>8, Zenon
<1> QED BY <1>9 DEF F, T

\* The first sequence stays at the head.
LEMMA FlattenBegins ==
  ASSUME NEW C, NEW x \in Seq(C), NEW q \in Seq(Seq(C))
  PROVE  LET whole == FlattenSeq(<<x>> \o q)
         IN  /\ whole \in Seq(C) /\ Len(x) <= Len(whole)
             /\ \A i \in 1..Len(x) : whole[i] = x[i]
<1> DEFINE T == Seq(C)
           s == <<x>> \o q
           whole == FlattenSeq(s)
<1>0. x \in T /\ q \in Seq(T)
  OBVIOUS
<1>1. s \in Seq(T) /\ s # <<>> /\ s[1] = x
  <2> HIDE DEF T
  <2> QED BY <1>0, Joining
<1>2. PICK L \in [0..Len(s) -> Nat] : PiecesAt(s, whole, L)
  <2> HIDE DEF s
  <2> QED BY <1>1, FlattenIs
<1>3. whole \in Seq(C)
  <2> HIDE DEF s
  <2> QED BY <1>1, FlattenTyped
<1> HIDE DEF s, whole
<1>4. Len(s) \in Nat /\ Len(s) # 0
  BY <1>1, EmptySeq
<1>5. 1 \in 1..Len(s) /\ 1 - 1 = 0
  BY <1>4
<1>6. /\ L[0] = 0 /\ L[1] = L[1 - 1] + Len(s[1]) /\ L[1] <= Len(whole)
      /\ \A i \in 1..Len(s[1]) : whole[L[1 - 1] + i] = s[1][i]
  BY <1>2, <1>5 DEF PiecesAt
<1>7. Len(x) \in Nat
  OBVIOUS
<1>8. L[1] = Len(x)
  BY <1>1, <1>5, <1>6, <1>7
<1>9. ASSUME NEW i \in 1..Len(x) PROVE whole[i] = x[i]
  <2>1. L[1 - 1] + i = i
    BY <1>5, <1>6
  <2> QED BY <1>1, <1>6, <2>1
<1> QED BY <1>3, <1>6, <1>8, <1>9 DEF whole, s

-----------------------------------------------------------------------------
(* The stages of the first load after a teardown                            *)

Api(c) == GivenFor("API", c)
Cli(c) == GivenFor("CLI", c)

ApiAsGiven(v, api) ==
    \A c \in {"env_name", "target_prefix"} :
        /\ c \in api <=> Api(c) # NoValue
        /\ Api(c) # NoValue => v[c] = Api(c)
\* Nothing but what was given for this operation is set.
Fresh(v, api, cli) == ApiAsGiven(v, api) /\ \A c \in Tracked : cli[c] = Cli(c)

\* file_specs_hook
OrNone(v) == IF v = NoValue THEN <<>> ELSE v
ListOfFile == IF FileGiven = NoValue THEN <<>> ELSE FileChannels(FileGiven)
CliChannels == IF ListOfFile = <<>> THEN Cli("channels") ELSE OrNone(Cli("channels")) \o ListOfFile
AfterFile(v, api, cli) ==
    /\ ApiAsGiven(v, api)
    /\ \A c \in {"env_name", "target_prefix"} : cli[c] = Cli(c)
    /\ cli["spec_file_env_name"] = NameOfFile /\ cli["channels"] = CliChannels
AfterFileName(v, api, cli) == AfterFile(v, api, cli) /\ v["spec_file_env_name"] = OrNone(NameOfFile)

\* env_name_hook: a name from the command line or from the file decides the
\* prefix unless one was given; so does a name set through the API.
NameDecides == Cli("env_name") # NoValue \/ (Api("env_name") = NoValue /\ NameOfFile # NoValue)
AfterName(v, api, cli) ==
    /\ "target_prefix" \in api <=> Api("target_prefix") # NoValue \/ Api("env_name") # NoValue
    /\ Api("target_prefix") # NoValue => v["target_prefix"] = Api("target_prefix")
    /\ Api("target_prefix") = NoValue /\ Api("env_name") # NoValue =>
           v["target_prefix"] = PrefixOf(NameAsked)
    /\ Cli("target_prefix") # NoValue => cli["target_prefix"] = Cli("target_prefix")
    /\ Cli("target_prefix") = NoValue /\ NameDecides => cli["target_prefix"] = PrefixOf(NameAsked)
    /\ Cli("target_prefix") = NoValue /\ ~NameDecides => cli["target_prefix"] = NoValue
    /\ cli["channels"] = CliChannels

\* target_prefix_hook
AfterPrefix(v, cli, rc) ==
    v["target_prefix"] = PrefixAsked /\ cli["channels"] = CliChannels /\ rc = RcChannels(PrefixAsked)

ListsAsked == <<OrNone(Cli("channels")), ListOfFile>> \o RcChannels(PrefixAsked)
AfterChannels(v) ==
    /\ v["target_prefix"] = PrefixAsked
    /\ Api("channels") = NoValue => v["channels"] = Once(FlattenSeq(ListsAsked))
    /\ Api("channels") # NoValue => /\ IsPrefix(Api("channels"), v["channels"])
                                    /\ Range(FlattenSeq(ListsAsked)) \subseteq Range(v["channels"])

-----------------------------------------------------------------------------
(* What each stage does                                                     *)

LEMMA OneSet ==
  ASSUME NEW S, NEW T, NEW f \in [S -> T], NEW a \in S, NEW u \in T
  PROVE  /\ [f EXCEPT ![a] = u] \in [S -> T] /\ [f EXCEPT ![a] = u][a] = u
         /\ \A c \in S : c # a => [f EXCEPT ![a] = u][c] = f[c]
OBVIOUS

LEMMA TwoSet ==
  ASSUME NEW S, NEW T, NEW f \in [S -> T], NEW a \in S, NEW u \in T, NEW b \in S, NEW w \in T, a # b,
         NEW g, g = [f EXCEPT ![a] = u, ![b] = w]
  PROVE  /\ g \in [S -> T] /\ g[a] = u /\ g[b] = w
         /\ \A c \in S : c # a /\ c # b => g[c] = f[c]
OBVIOUS

\* What is asked for does not change while it is loaded.
LEMMA AskedStays ==
  ASSUME given' = given, targetVar' = targetVar, rcAt' = rcAt
  PROVE  /\ \A f, c : GivenFor(f, c)' = GivenFor(f, c)
         /\ NameOfFile' = NameOfFile /\ NameAsked' = NameAsked /\ PrefixAsked' = PrefixAsked
         /\ \A p : RcChannels(p)' = RcChannels(p)
         /\ FileGiven' = FileGiven /\ CliChannels' = CliChannels /\ ListsAsked' = ListsAsked
<1>1. \A f, c : GivenFor(f, c)' = GivenFor(f, c)
  <2> DEFINE Of(set, f, d) == {g \in set : g[1] = f /\ g[2] = d}
             Third(S) == IF S = {} THEN NoValue ELSE (CHOOSE g \in S : TRUE)[3]
  <2>1. \A f, d : GivenFor(f, d) = Third(Of(given, f, d)) /\ GivenFor(f, d)' = Third(Of(given', f, d))
    BY DEF GivenFor
  <2> HIDE DEF Of, Third
  <2> QED BY <2>1, Zenon
<1>2. FileGiven' = FileGiven /\ NameOfFile' = NameOfFile
  BY <1>1, Zenon DEF FileGiven, NameOfFile
<1>3. NameAsked' = NameAsked
  BY <1>1, <1>2, Zenon DEF NameAsked
<1>4. PrefixOfName' = PrefixOfName
  BY <1>3, Zenon DEF PrefixOfName
<1>5. PrefixAsked' = PrefixAsked
  BY <1>1, <1>4, Zenon DEF PrefixAsked
<1>6. \A p : RcChannels(p)' = RcChannels(p)
  BY Zenon DEF RcChannels, RcChannelsAt
<1>7. ListOfFile' = ListOfFile /\ CliChannels' = CliChannels
  BY <1>1, <1>2, Zenon DEF ListOfFile, CliChannels, Cli
<1>8. ListsAsked' = ListsAsked
  BY <1>1, <1>5, <1>6, <1>7, Zenon DEF ListsAsked, Cli
<1> QED BY <1>1, <1>2, <1>3, <1>5, <1>6, <1>7, <1>8, Zenon

LEMMA ComputeIs ==
  ASSUME Compute
  PROVE  /\ configPc = "loading" /\ ~Throws(NextToCompute)
         /\ NextToCompute = "file_specs" =>
               /\ configValue' = [configValue EXCEPT !["file_specs"] = Merged("file_specs")]
               /\ FileSpecsHook(Merged("file_specs")) /\ rcChannels' = rcChannels
         /\ NextToCompute = "env_name" => EnvNameHook(Merged("env_name")) /\ rcChannels' = rcChannels
         /\ NextToCompute = "target_prefix" =>
               /\ configValue' = [configValue EXCEPT
                                    !["target_prefix"] = TargetPrefix(Merged("target_prefix"))]
               /\ rcChannels' = RcChannels(configValue'["target_prefix"])
               /\ cliConfig' = cliConfig /\ apiConfigured' = apiConfigured
         /\ NextToCompute \in {"spec_file_env_name", "channels"} =>
               /\ configValue' = [configValue EXCEPT ![NextToCompute] = Merged(NextToCompute)]
               /\ cliConfig' = cliConfig /\ apiConfigured' = apiConfigured /\ rcChannels' = rcChannels
         /\ computed' = computed \cup {NextToCompute}
         /\ configPc' = IF computed' = Tracked THEN "loaded" ELSE "loading"
         /\ loadingSequence' = loadingSequence /\ targetVar' = targetVar /\ rcAt' = rcAt
         /\ given' = given /\ loads' = loads /\ loadsSince' = loadsSince
<1> DEFINE c == NextToCompute
<1>1. configPc = "loading" /\ ~Throws(c) /\ computed' = computed \cup {c}
      /\ configPc' = IF computed' = Tracked THEN "loaded" ELSE "loading"
  BY Zenon DEF Compute
<1>2. /\ loadingSequence' = loadingSequence /\ targetVar' = targetVar /\ rcAt' = rcAt
      /\ given' = given /\ loads' = loads /\ loadsSince' = loadsSince
  BY DEF Compute, sequenceVars
<1>3. CASE c = "file_specs"
  BY <1>1, <1>2, <1>3 DEF Compute
<1>4. CASE c = "env_name"
  BY <1>1, <1>2, <1>4 DEF Compute
<1>5. CASE c = "target_prefix"
  BY <1>1, <1>2, <1>5 DEF Compute
<1>6. CASE c \in {"spec_file_env_name", "channels"}
  BY <1>1, <1>2, <1>6 DEF Compute
<1>7. CASE c \notin {"file_specs", "env_name", "target_prefix", "spec_file_env_name", "channels"}
  BY <1>1, <1>2, <1>7, Zenon
<1> QED BY <1>3, <1>4, <1>5, <1>6, <1>7, Zenon

LEMMA HeadIsTyped ==
  ASSUME NEW W, NEW m \in Seq(W), m # <<>> PROVE m[1] \in W /\ Tail(m) \in Seq(W)
OBVIOUS

LEMMA PrefixTyped ==
  ASSUME NEW name \in Seq(Word), name # <<>>
  PROVE  PrefixOf(name) \in Seq(Word) /\ PrefixOf(name) # NoValue /\ PrefixOf(name) # <<>>
<1>1. name[1] \in Word
  <2> DEFINE W == Word
  <2> HIDE DEF W
  <2>1. name \in Seq(W)
    BY DEF W
  <2>2. name[1] \in W
    BY <2>1, HeadIsTyped
  <2> QED BY <2>2 DEF W
<1>2. "prefix of" \in Word
  BY Zenon DEF Word
<1>3. \A a, b : <<a, b>> # <<>>
  OBVIOUS
<1> QED BY <1>1, <1>2, <1>3, TwoWords, LongIsAValue, Zenon DEF PrefixOf

\* file_specs_hook
LEMMA FileHookIs ==
  ASSUME ValuesTyped, NEW m \in Seq(Word), FileSpecsHook(m)
  PROVE  /\ cliConfig' \in [Tracked -> Seq(Word)] /\ apiConfigured' = apiConfigured
         /\ m = <<>> => cliConfig' = cliConfig
         /\ \A c \in Tracked : c # "channels" /\ c # "spec_file_env_name" => cliConfig'[c] = cliConfig[c]
         /\ m # <<>> =>
              /\ cliConfig'["channels"] = IF FileChannels(m) = <<>> THEN cliConfig["channels"]
                                          ELSE OrNone(cliConfig["channels"]) \o FileChannels(m)
              /\ cliConfig'["spec_file_env_name"] =
                    IF FileName(m) = <<>> \/ Configured("spec_file_env_name")
                    THEN cliConfig["spec_file_env_name"] ELSE FileName(m)
<1> DEFINE T == Seq(Word)
           ch == "channels"
           sp == "spec_file_env_name"
           u == IF FileChannels(m) = <<>> THEN cliConfig[ch] ELSE OrNone(cliConfig[ch]) \o FileChannels(m)
           w == IF FileName(m) = <<>> \/ Configured(sp) THEN cliConfig[sp] ELSE FileName(m)
<1>0. cliConfig \in [Tracked -> T] /\ ch \in Tracked /\ sp \in Tracked /\ ch # sp
  BY Zenon DEF ValuesTyped, Tracked
<1>1. CASE m = <<>>
  <2>1. cliConfig' = cliConfig /\ apiConfigured' = apiConfigured
    BY <1>1 DEF FileSpecsHook
  <2> QED BY <1>0, <1>1, <2>1, Zenon
<1>2. CASE m # <<>>
  <2>1. cliConfig' = [cliConfig EXCEPT ![ch] = u, ![sp] = w] /\ apiConfigured' = apiConfigured
    BY <1>2, Zenon DEF FileSpecsHook, OrNone
  <2>2. m[1] \in Word /\ Tail(m) \in T
    <3> DEFINE W == Word
    <3> HIDE DEF W
    <3>1. m \in Seq(W)
      BY DEF W
    <3>2. m[1] \in W /\ Tail(m) \in Seq(W)
      BY <1>2, <3>1, HeadIsTyped
    <3> QED BY <3>2 DEF W
  <2>3. u \in T
    <3>1. \A a \in T, b \in T : a \o b \in T
      OBVIOUS
    <3>2. <<>> \in T /\ cliConfig[ch] \in T
      BY <1>0, TwoWords, Zenon
    <3> QED BY <2>2, <3>1, <3>2, Zenon DEF FileChannels, OrNone
  <2>4. w \in T
    <3>1. cliConfig[sp] \in T
      BY <1>0, Zenon
    <3>2. FileName(m) \in T
      BY <2>2, TwoWords, Zenon DEF FileName
    <3> QED BY <3>1, <3>2, Zenon
  <2> HIDE DEF T, u, w, ch, sp
  <2>5. /\ cliConfig' \in [Tracked -> T] /\ cliConfig'[ch] = u /\ cliConfig'[sp] = w
        /\ \A c \in Tracked : c # ch /\ c # sp => cliConfig'[c] = cliConfig[c]
    BY <1>0, <2>1, <2>3, <2>4, TwoSet
  <2> QED BY <1>2, <2>1, <2>5, Zenon DEF T, u, w, ch, sp
<1> QED BY <1>1, <1>2

\* env_name_hook
TheName(m) == IF Unnamed(m) THEN configValue["spec_file_env_name"] ELSE m
ToCli(m) == /\ TheName(m) # <<>> /\ cliConfig["target_prefix"] = NoValue
            /\ IF Unnamed(m) THEN TheName(m) # NoValue ELSE cliConfig["env_name"] # NoValue
ToApi(m) == TheName(m) # <<>> /\ "target_prefix" \notin apiConfigured /\ "env_name" \in apiConfigured

LEMMA NameHookIs ==
  ASSUME ValuesTyped, NEW m \in Seq(Word), EnvNameHook(m)
  PROVE  /\ cliConfig' \in [Tracked -> Seq(Word)] /\ configValue' \in [Tracked -> Seq(Word)]
         /\ apiConfigured' = apiConfigured \cup (IF ToApi(m) THEN {"target_prefix"} ELSE {})
         /\ cliConfig'["target_prefix"] = IF ToCli(m) THEN PrefixOf(TheName(m))
                                          ELSE cliConfig["target_prefix"]
         /\ configValue'["target_prefix"] = IF ToApi(m) THEN PrefixOf(TheName(m))
                                            ELSE configValue["target_prefix"]
         /\ \A c \in Tracked : c # "env_name" /\ c # "target_prefix" =>
                cliConfig'[c] = cliConfig[c] /\ configValue'[c] = configValue[c]
<1> DEFINE T == Seq(Word)
           en == "env_name"
           tp == "target_prefix"
           ofFile == Unnamed(m)
           name == TheName(m)
           cli == IF ofFile THEN [cliConfig EXCEPT ![en] = name] ELSE cliConfig
           toCli == name # <<>> /\ cli[tp] = NoValue /\ cli[en] # NoValue
           toApi == ToApi(m)
           w == IF toApi THEN PrefixOf(name) ELSE configValue[tp]
           p == PrefixOf(name)
<1>0. /\ cliConfig \in [Tracked -> T] /\ configValue \in [Tracked -> T] /\ en \in Tracked /\ tp \in Tracked
      /\ en # tp
  BY Zenon DEF ValuesTyped, Tracked
<1>1. /\ cliConfig' = IF toCli THEN [cli EXCEPT ![tp] = PrefixOf(name)] ELSE cli
      /\ apiConfigured' = apiConfigured \cup (IF ToApi(m) THEN {tp} ELSE {})
      /\ configValue' = [configValue EXCEPT ![en] = name, ![tp] = w]
  BY Zenon DEF EnvNameHook, TheName, ToApi
<1>2. name \in T
  <2>1. configValue["spec_file_env_name"] \in T
    BY <1>0, Zenon DEF Tracked
  <2> QED BY <2>1, Zenon DEF TheName
<1>3. name # <<>> => PrefixOf(name) \in T
  BY <1>2, PrefixTyped
<1>4. toApi => name # <<>>
  BY Zenon DEF ToApi
<1>5. w \in T
  <2>1. configValue[tp] \in T
    BY <1>0, Zenon
  <2> QED BY <1>3, <1>4, <2>1, Zenon
<1>6. ToCli(m) <=> /\ name # <<>> /\ cliConfig[tp] = NoValue
                   /\ IF ofFile THEN name # NoValue ELSE cliConfig[en] # NoValue
  BY Zenon DEF ToCli
<1>11. p = PrefixOf(TheName(m))
  OBVIOUS
<1> HIDE DEF T, en, tp, name, ofFile, toApi, w, p
<1>7. /\ configValue' \in [Tracked -> T] /\ configValue'[tp] = w
      /\ \A c \in Tracked : c # en /\ c # tp => configValue'[c] = configValue[c]
  BY <1>0, <1>1, <1>2, <1>5, TwoSet
<1>8. /\ cli \in [Tracked -> T] /\ cli[tp] = cliConfig[tp]
      /\ cli[en] = IF ofFile THEN name ELSE cliConfig[en]
      /\ \A c \in Tracked : c # en => cli[c] = cliConfig[c]
  <2>1. CASE ofFile
    <3>1. cli = [cliConfig EXCEPT ![en] = name]
      BY <2>1
    <3> HIDE DEF cli
    <3> QED BY <1>0, <1>2, <2>1, <3>1, OneSet
  <2>2. CASE ~ofFile
    <3>1. cli = cliConfig
      BY <2>2
    <3> HIDE DEF cli
    <3> QED BY <1>0, <2>2, <3>1
  <2> QED BY <2>1, <2>2
<1>9. toCli <=> ToCli(m)
  <2> HIDE DEF cli
  <2> QED BY <1>6, <1>8
<1>10. /\ cliConfig' \in [Tracked -> T]
       /\ cliConfig'[tp] = IF ToCli(m) THEN p ELSE cliConfig[tp]
       /\ \A c \in Tracked : c # en /\ c # tp => cliConfig'[c] = cliConfig[c]
  <2>1. CASE ToCli(m)
    <3>1. cliConfig' = [cli EXCEPT ![tp] = p] /\ p \in T
      BY <1>1, <1>3, <1>6, <1>9, <2>1, Zenon DEF p
    <3> HIDE DEF cli
    <3> QED BY <1>0, <1>8, <2>1, <3>1, OneSet
  <2>2. CASE ~ToCli(m)
    <3>1. cliConfig' = cli
      BY <1>1, <1>9, <2>2, Zenon
    <3> HIDE DEF cli
    <3> QED BY <1>8, <2>2, <3>1
  <2> QED BY <2>1, <2>2
<1> QED BY <1>1, <1>7, <1>10, <1>11, Zenon DEF T, en, tp, w, toApi, name

\* What was given, for each of those followed
LEMMA GivenAre ==
  ASSUME GivenTyped
  PROVE  /\ FileGiven = Cli("file_specs")
         /\ FileGiven = NoValue \/ FileGiven \in SpecFiles
         /\ \A from \in {"API", "CLI"} : GivenFor(from, "env_name") # NoValue =>
               \E n \in EnvNames : GivenFor(from, "env_name") = <<n>>
         /\ \A from \in {"API", "CLI"} : GivenFor(from, "target_prefix") # NoValue =>
               GivenFor(from, "target_prefix") = <<"given">>
         /\ \A from \in {"API", "CLI"} : GivenFor(from, "channels") # NoValue =>
               GivenFor(from, "channels") = <<"of the file", "x">>
         /\ Cli("spec_file_env_name") = NoValue
<1>1. ASSUME NEW from \in {"API", "CLI"}, NEW c \in Tracked \ {"spec_file_env_name"}
      PROVE  GivenFor(from, c) = NoValue \/ GivenFor(from, c) \in ValuesFor(c)
  BY Zenon DEF GivenTyped
<1>2. {"file_specs", "env_name", "target_prefix", "channels"} \subseteq Tracked \ {"spec_file_env_name"}
  BY DEF Tracked
<1>3. FileGiven = NoValue \/ FileGiven \in SpecFiles
  <2>1. "CLI" \in {"API", "CLI"} /\ "file_specs" \in Tracked \ {"spec_file_env_name"}
    BY <1>2
  <2>2. ValuesFor("file_specs") = SpecFiles
    BY DEF ValuesFor
  <2> QED BY <1>1, <2>1, <2>2, Zenon DEF FileGiven
<1>4. ASSUME NEW from \in {"API", "CLI"}
      PROVE  /\ GivenFor(from, "env_name") # NoValue =>
                   \E n \in EnvNames : GivenFor(from, "env_name") = <<n>>
             /\ GivenFor(from, "target_prefix") # NoValue => GivenFor(from, "target_prefix") = <<"given">>
             /\ GivenFor(from, "channels") # NoValue =>
                   GivenFor(from, "channels") = <<"of the file", "x">>
  <2>1. /\ GivenFor(from, "env_name") = NoValue \/ GivenFor(from, "env_name") \in ValuesFor("env_name")
        /\ \/ GivenFor(from, "target_prefix") = NoValue
           \/ GivenFor(from, "target_prefix") \in ValuesFor("target_prefix")
        /\ GivenFor(from, "channels") = NoValue \/ GivenFor(from, "channels") \in ValuesFor("channels")
    BY <1>1, <1>2, Zenon
  <2>2. /\ ValuesFor("env_name") = {<<n>> : n \in EnvNames}
        /\ ValuesFor("target_prefix") = {<<"given">>}
        /\ ValuesFor("channels") = {<<"of the file", "x">>}
    BY DEF ValuesFor
  <2> QED BY <2>1, <2>2, Zenon
<1> QED BY <1>3, <1>4, Zenon DEF FileGiven, Cli, GivenTyped

\* The name of the file, if it has one
LEMMA NameOfFileIs ==
  ASSUME GivenTyped
  PROVE  /\ NameOfFile = NoValue \/ NameOfFile # <<>>
         /\ FileGiven = NoValue => NameOfFile = NoValue
         /\ FileGiven # NoValue => NameOfFile = IF FileName(FileGiven) = <<>> THEN NoValue ELSE FileName(FileGiven)
         /\ NameOfFile = NoValue \/ NameOfFile \in Seq(Word)
<1>1. FileGiven # NoValue => FileName(FileGiven) \in Seq(Word)
  BY GivenAre, FileIs, Zenon
<1> QED BY <1>1, Zenon DEF NameOfFile

LEMMA FileStage ==
  ASSUME GivenTyped, ValuesTyped, Fresh(configValue, apiConfigured, cliConfig),
         configValue' = [configValue EXCEPT !["file_specs"] = Merged("file_specs")],
         FileSpecsHook(Merged("file_specs"))
  PROVE  AfterFile(configValue', apiConfigured', cliConfig')
<1> DEFINE m == Merged("file_specs")
           f == FileGiven
           sp == "spec_file_env_name"
<1>1. {"file_specs", "env_name", "target_prefix", "channels", sp} \subseteq Tracked
  BY DEF Tracked
<1>2. \A c \in Tracked : cliConfig[c] = Cli(c)
  BY Zenon DEF Fresh
<1>3. m = IF f = NoValue THEN <<>> ELSE f
  <2>1. m = IF cliConfig["file_specs"] = NoValue THEN <<>> ELSE Once(cliConfig["file_specs"])
    BY MergedFile, Zenon
  <2>2. cliConfig["file_specs"] = f
    BY <1>1, <1>2, GivenAre, Zenon
  <2>3. f # NoValue => Once(f) = f
    BY GivenAre, FileIs, Zenon
  <2> QED BY <2>1, <2>2, <2>3, Zenon
<1>4. m \in Seq(Word)
  BY <1>1, MergedTyped, Zenon
<1> HIDE DEF m, f, sp
<1>5. /\ apiConfigured' = apiConfigured
      /\ m = <<>> => cliConfig' = cliConfig
      /\ \A c \in Tracked : c # "channels" /\ c # sp => cliConfig'[c] = cliConfig[c]
      /\ m # <<>> =>
              /\ cliConfig'["channels"] = IF FileChannels(m) = <<>> THEN cliConfig["channels"]
                                          ELSE OrNone(cliConfig["channels"]) \o FileChannels(m)
              /\ cliConfig'[sp] = IF FileName(m) = <<>> \/ Configured(sp) THEN cliConfig[sp] ELSE FileName(m)
  BY <1>4, FileHookIs, Zenon DEF m, sp
<1>6. configValue' \in [Tracked -> Seq(Word)]
      /\ \A c \in Tracked : c # "file_specs" => configValue'[c] = configValue[c]
  <2>1. "file_specs" \in Tracked /\ configValue \in [Tracked -> Seq(Word)]
    BY <1>1 DEF ValuesTyped
  <2>2. configValue' = [configValue EXCEPT !["file_specs"] = m]
    BY Zenon DEF m
  <2> DEFINE fs == "file_specs"
  <2> HIDE DEF fs
  <2>3. configValue' = [configValue EXCEPT ![fs] = m] /\ fs \in Tracked
    BY <2>1, <2>2, Zenon DEF fs
  <2>4. configValue' \in [Tracked -> Seq(Word)] /\ \A c \in Tracked : c # fs => configValue'[c] = configValue[c]
    BY <1>4, <2>1, <2>3, OneSet, ZenonT(60)
  <2> QED BY <2>4, Zenon DEF fs
<1>7. ApiAsGiven(configValue', apiConfigured')
  <2>1. \A c \in {"env_name", "target_prefix"} : c \in Tracked /\ c # "file_specs"
    BY <1>1
  <2>2. ApiAsGiven(configValue, apiConfigured)
    BY Zenon DEF Fresh
  <2> QED BY <1>5, <1>6, <2>1, <2>2, Zenon DEF ApiAsGiven
<1>8. \A c \in {"env_name", "target_prefix"} : cliConfig'[c] = Cli(c)
  <2>1. \A c \in {"env_name", "target_prefix"} : c \in Tracked /\ c # "channels" /\ c # sp
    BY <1>1 DEF sp
  <2> QED BY <1>2, <1>5, <2>1, Zenon
<1>9. cliConfig[sp] = NoValue /\ ~Configured(sp)
  <2>1. cliConfig[sp] = NoValue
    BY <1>1, <1>2, GivenAre, Zenon DEF sp
  <2>2. sp \notin apiConfigured /\ sp # "target_prefix"
    BY DEF ValuesTyped, sp
  <2> QED BY <2>1, <2>2, Zenon DEF Configured
<1>10. f # NoValue => f # <<>>
  BY GivenAre, FileIs, Zenon DEF f
<1>11. cliConfig'[sp] = NameOfFile
  <2>1. f = NoValue => NameOfFile = NoValue
    BY NameOfFileIs, Zenon DEF f
  <2>2. f # NoValue => NameOfFile = IF FileName(f) = <<>> THEN NoValue ELSE FileName(f)
    BY NameOfFileIs, Zenon DEF f
  <2> QED BY <1>3, <1>5, <1>9, <1>10, <2>1, <2>2, Zenon
<1>12. cliConfig'["channels"] = CliChannels
  <2>1. cliConfig["channels"] = Cli("channels")
    BY <1>1, <1>2, Zenon
  <2>2. ListOfFile = IF f = NoValue THEN <<>> ELSE FileChannels(f)
    BY Zenon DEF ListOfFile, f
  <2> QED BY <1>3, <1>5, <1>10, <2>1, <2>2, Zenon DEF CliChannels
<1> QED BY <1>7, <1>8, <1>11, <1>12, Zenon DEF AfterFile, sp

LEMMA FileNameStage ==
  ASSUME GivenTyped, ValuesTyped, AfterFile(configValue, apiConfigured, cliConfig),
         configValue' = [configValue EXCEPT !["spec_file_env_name"] = Merged("spec_file_env_name")],
         cliConfig' = cliConfig, apiConfigured' = apiConfigured
  PROVE  AfterFileName(configValue', apiConfigured', cliConfig')
<1> DEFINE sp == "spec_file_env_name"
           m == Merged(sp)
<1>1. sp \in Tracked /\ configValue \in [Tracked -> Seq(Word)] /\ m \in Seq(Word)
  <2>1. sp \in Tracked
    BY DEF Tracked
  <2> QED BY <2>1, MergedTyped, Zenon DEF ValuesTyped
<1>2. m = OrNone(NameOfFile)
  <2>1. sp \notin apiConfigured /\ sp # "target_prefix"
    BY DEF ValuesTyped
  <2>2. cliConfig[sp] = NameOfFile
    BY Zenon DEF AfterFile
  <2>3. sp \in {"spec_file_env_name", "env_name", "target_prefix"}
    OBVIOUS
  <2>4. m = IF sp \in apiConfigured THEN configValue[sp]
            ELSE IF cliConfig[sp] # NoValue THEN cliConfig[sp]
            ELSE IF sp = "target_prefix" /\ targetVar THEN <<"of the variable">> ELSE <<>>
    BY <2>3, MergedOne, Zenon
  <2> HIDE DEF m, sp
  <2> QED BY <2>1, <2>2, <2>4, Zenon DEF OrNone
<1> HIDE DEF m
<1>3. configValue' = [configValue EXCEPT ![sp] = m]
  BY Zenon DEF m
<1> HIDE DEF sp
<1>4. configValue'[sp] = m /\ \A c \in Tracked : c # sp => configValue'[c] = configValue[c]
  BY <1>1, <1>3, OneSet, Zenon
<1>5. \A c \in {"env_name", "target_prefix"} : c \in Tracked /\ c # sp
  BY DEF sp, Tracked
<1>6. ApiAsGiven(configValue', apiConfigured')
  BY <1>4, <1>5, Zenon DEF ApiAsGiven, AfterFile
<1>7. AfterFile(configValue', apiConfigured', cliConfig')
  BY <1>6, Zenon DEF AfterFile
<1> QED BY <1>2, <1>4, <1>7, Zenon DEF AfterFileName, sp

LEMMA NameAskedIs ==
  ASSUME GivenTyped
  PROVE  /\ NameAsked = IF Api("env_name") # NoValue THEN Api("env_name")
                        ELSE IF Cli("env_name") # NoValue THEN Cli("env_name") ELSE NameOfFile
         /\ NameAsked # NoValue => NameAsked # <<>> /\ NameAsked \in Seq(Word)
         /\ Api("env_name") # <<>> /\ Cli("env_name") # <<>>
<1>1. NameAsked = IF Api("env_name") # NoValue THEN Api("env_name")
                  ELSE IF Cli("env_name") # NoValue THEN Cli("env_name") ELSE NameOfFile
  BY FirstOfThree, Zenon DEF NameAsked, Api, Cli
<1>2. ASSUME NEW from \in {"API", "CLI"}
      PROVE  /\ GivenFor(from, "env_name") # <<>>
             /\ GivenFor(from, "env_name") # NoValue => GivenFor(from, "env_name") \in Seq(Word)
  <2>1. \A a : <<a>> # <<>>
    OBVIOUS
  <2>2. NoValue # <<>>
    BY <2>1, Zenon DEF NoValue
  <2>3. EnvNames \subseteq Word
    BY DEF Word
  <2>4. CASE GivenFor(from, "env_name") # NoValue
    <3>1. PICK n \in EnvNames : GivenFor(from, "env_name") = <<n>>
      BY <2>4, GivenAre, Zenon
    <3>2. n \in Word
      BY <2>3
    <3> QED BY <2>1, <3>1, <3>2, TwoWords, Zenon
  <2> QED BY <2>2, <2>4, Zenon
<1>3. /\ Api("env_name") # <<>> /\ Cli("env_name") # <<>>
      /\ Api("env_name") # NoValue => Api("env_name") \in Seq(Word)
      /\ Cli("env_name") # NoValue => Cli("env_name") \in Seq(Word)
  BY <1>2, Zenon DEF Api, Cli
<1> QED BY <1>1, <1>3, NameOfFileIs, Zenon

LEMMA NameStage ==
  ASSUME GivenTyped, ValuesTyped, AfterFileName(configValue, apiConfigured, cliConfig),
         EnvNameHook(Merged("env_name"))
  PROVE  AfterName(configValue', apiConfigured', cliConfig')
<1> DEFINE en == "env_name"
           tp == "target_prefix"
           sp == "spec_file_env_name"
           m == Merged(en)
           name == TheName(m)
           p == PrefixOf(name)
<1>1. {en, tp, sp, "channels"} \subseteq Tracked /\ en # tp /\ sp # tp /\ sp # en
      /\ "channels" # en /\ "channels" # tp /\ sp \notin apiConfigured
  BY DEF Tracked, ValuesTyped
<1>2. /\ \A c \in {en, tp} : (c \in apiConfigured <=> Api(c) # NoValue)
                             /\ (Api(c) # NoValue => configValue[c] = Api(c)) /\ cliConfig[c] = Cli(c)
      /\ cliConfig[sp] = NameOfFile /\ cliConfig["channels"] = CliChannels
      /\ configValue[sp] = OrNone(NameOfFile)
  BY Zenon DEF AfterFileName, AfterFile, ApiAsGiven
<1>3. m = IF Api(en) # NoValue THEN Api(en) ELSE IF Cli(en) # NoValue THEN Cli(en) ELSE <<>>
  <2>1. en \in {"spec_file_env_name", "env_name", "target_prefix"}
    OBVIOUS
  <2>2. m = IF en \in apiConfigured THEN configValue[en]
            ELSE IF cliConfig[en] # NoValue THEN cliConfig[en]
            ELSE IF en = "target_prefix" /\ targetVar THEN <<"of the variable">> ELSE <<>>
    BY <2>1, MergedOne, Zenon
  <2>3. en # "target_prefix" /\ en \in {en, tp}
    OBVIOUS
  <2> HIDE DEF m, en
  <2> QED BY <1>2, <2>2, <2>3, Zenon
<1>4. m \in Seq(Word)
  BY <1>1, MergedTyped, Zenon
<1>5. Unnamed(m) <=> Api(en) = NoValue /\ Cli(en) = NoValue /\ NameOfFile # NoValue
  <2>1. Configured(en) <=> Api(en) # NoValue \/ Cli(en) # NoValue
    <3>1. Configured(en) <=> en \in apiConfigured \/ cliConfig[en] # NoValue
      BY <1>1, Zenon DEF Configured
    <3> QED BY <1>2, <3>1, Zenon
  <2>2. Configured(sp) <=> NameOfFile # NoValue
    <3>1. Configured(sp) <=> sp \in apiConfigured \/ cliConfig[sp] # NoValue
      BY <1>1, Zenon DEF Configured
    <3> QED BY <1>1, <1>2, <3>1, Zenon
  <2> QED BY <2>1, <2>2, Zenon DEF Unnamed
<1>6. name = IF Unnamed(m) THEN configValue[sp] ELSE m
  BY Zenon DEF TheName
<1>7. /\ ToCli(m) <=> /\ name # <<>> /\ cliConfig[tp] = NoValue
                      /\ IF Unnamed(m) THEN name # NoValue ELSE cliConfig[en] # NoValue
      /\ ToApi(m) <=> name # <<>> /\ tp \notin apiConfigured /\ en \in apiConfigured
  BY Zenon DEF ToCli, ToApi
<1>8. /\ apiConfigured' = apiConfigured \cup (IF ToApi(m) THEN {tp} ELSE {})
      /\ cliConfig'[tp] = IF ToCli(m) THEN p ELSE cliConfig[tp]
      /\ configValue'[tp] = IF ToApi(m) THEN p ELSE configValue[tp]
      /\ \A c \in Tracked : c # en /\ c # tp => cliConfig'[c] = cliConfig[c]
  BY <1>4, NameHookIs, Zenon
<1>9. /\ NameAsked = IF Api(en) # NoValue THEN Api(en) ELSE IF Cli(en) # NoValue THEN Cli(en) ELSE NameOfFile
      /\ NameAsked # NoValue => NameAsked # <<>>
      /\ Api(en) # <<>> /\ Cli(en) # <<>>
  BY NameAskedIs, Zenon
<1>10. NameDecides <=> Cli(en) # NoValue \/ (Api(en) = NoValue /\ NameOfFile # NoValue)
  BY Zenon DEF NameDecides
<1> HIDE DEF m, name, p, en, tp, sp
<1>11. name = OrNone(NameAsked)
  BY <1>2, <1>3, <1>5, <1>6, <1>9, Zenon DEF OrNone
<1>12. ToCli(m) <=> Cli(tp) = NoValue /\ NameDecides
  <2>1. cliConfig[tp] = Cli(tp) /\ cliConfig[en] = Cli(en)
    BY <1>2
  <2>2. name # <<>> <=> NameAsked # NoValue
    BY <1>9, <1>11, Zenon DEF OrNone
  <2>3. NameAsked # NoValue => name = NameAsked
    BY <1>11, Zenon DEF OrNone
  <2>4. NameAsked = NoValue <=> Api(en) = NoValue /\ Cli(en) = NoValue /\ NameOfFile = NoValue
    BY <1>9, Zenon
  <2> QED BY <1>5, <1>7, <1>10, <2>1, <2>2, <2>3, <2>4, Zenon
<1>13. ToApi(m) <=> Api(tp) = NoValue /\ Api(en) # NoValue
  <2>1. (tp \in apiConfigured <=> Api(tp) # NoValue) /\ (en \in apiConfigured <=> Api(en) # NoValue)
    BY <1>2
  <2>2. Api(en) # NoValue => name # <<>>
    BY <1>9, <1>11, Zenon DEF OrNone
  <2> QED BY <1>7, <2>1, <2>2, Zenon
<1>14. NameAsked # NoValue => p = PrefixOf(NameAsked)
  BY <1>11, Zenon DEF OrNone, p
<1>15. tp \in apiConfigured' <=> Api(tp) # NoValue \/ Api(en) # NoValue
  <2>1. tp \in apiConfigured' <=> tp \in apiConfigured \/ ToApi(m)
    BY <1>8
  <2>2. tp \in apiConfigured <=> Api(tp) # NoValue
    BY <1>2
  <2> QED BY <1>13, <2>1, <2>2, Zenon
<1>16. /\ Api(tp) # NoValue => configValue'[tp] = Api(tp)
       /\ Api(tp) = NoValue /\ Api(en) # NoValue => configValue'[tp] = PrefixOf(NameAsked)
  <2>1. Api(tp) # NoValue => configValue[tp] = Api(tp)
    BY <1>2
  <2> QED BY <1>8, <1>9, <1>13, <1>14, <2>1, Zenon
<1>17. /\ Cli(tp) # NoValue => cliConfig'[tp] = Cli(tp)
       /\ Cli(tp) = NoValue /\ NameDecides => cliConfig'[tp] = PrefixOf(NameAsked)
       /\ Cli(tp) = NoValue /\ ~NameDecides => cliConfig'[tp] = NoValue
  <2>1. cliConfig[tp] = Cli(tp)
    BY <1>2
  <2>2. NameDecides => NameAsked # NoValue
    BY <1>9, <1>10, Zenon
  <2> QED BY <1>8, <1>12, <1>14, <2>1, <2>2, Zenon
<1>18. cliConfig'["channels"] = CliChannels
  BY <1>1, <1>2, <1>8, Zenon
<1> QED BY <1>15, <1>16, <1>17, <1>18, Zenon DEF AfterName, en, tp

LEMMA PrefixAskedIs ==
  ASSUME GivenTyped
  PROVE  /\ PrefixAsked =
              IF Api("target_prefix") # NoValue THEN Api("target_prefix")
              ELSE IF Api("env_name") # NoValue THEN PrefixOf(NameAsked)
              ELSE IF Cli("target_prefix") # NoValue THEN Cli("target_prefix")
              ELSE IF NameAsked # NoValue THEN PrefixOf(NameAsked)
              ELSE IF targetVar THEN <<"of the variable">> ELSE <<"fallback">>
         /\ PrefixAsked # <<>> /\ PrefixAsked \in Seq(Word)
         /\ NameAsked # NoValue => PrefixOf(NameAsked) # NoValue
<1> DEFINE a == Api("target_prefix")
           e == Api("env_name")
           c == Cli("target_prefix")
           n == NameAsked
           p == PrefixOfName
           b == IF e = NoValue THEN NoValue ELSE p
           v == <<"of the variable">>
           w == IF targetVar THEN v ELSE NoValue
           f == <<"fallback">>
           is == IF a # NoValue THEN a ELSE IF e # NoValue THEN PrefixOf(n) ELSE IF c # NoValue THEN c
                 ELSE IF n # NoValue THEN PrefixOf(n) ELSE IF targetVar THEN v ELSE f
<1>1. f # NoValue /\ v # NoValue
  BY ShortIsAValue
<1>2. n # NoValue => PrefixOf(n) \in Seq(Word) /\ PrefixOf(n) # NoValue /\ PrefixOf(n) # <<>>
  BY NameAskedIs, PrefixTyped, Zenon
<1>3. PrefixAsked = FirstOf(<<a, b, c, p, w, f>>)
  BY Zenon DEF PrefixAsked, Api, Cli
<1>4. p = IF n = NoValue THEN NoValue ELSE PrefixOf(n)
  BY Zenon DEF PrefixOfName
<1>5. e # NoValue => n # NoValue
  BY NameAskedIs, Zenon
<1>6. \A x : <<x>> # <<>>
  OBVIOUS
<1>7. /\ a # NoValue => a = <<"given">>
      /\ c # NoValue => c = <<"given">>
  BY GivenAre, Zenon DEF Api, Cli
<1>8. <<"given">> \in Seq(Word) /\ v \in Seq(Word) /\ f \in Seq(Word)
  <2>1. "given" \in Word /\ "of the variable" \in Word /\ "fallback" \in Word
    BY Zenon DEF Word
  <2> QED BY <2>1, TwoWords, Zenon
<1>9. v # <<>> /\ f # <<>> /\ (a # NoValue => a # <<>>) /\ (c # NoValue => c # <<>>)
  BY <1>6, <1>7, Zenon
<1> HIDE DEF a, e, c, n, p, b, v, w, f
<1>10. FirstOf(<<a, b, c, p, w, f>>) =
           IF a # NoValue THEN a ELSE IF b # NoValue THEN b ELSE IF c # NoValue THEN c
           ELSE IF p # NoValue THEN p ELSE IF w # NoValue THEN w ELSE f
  BY <1>1, FirstOfSix
<1>11. /\ b # NoValue <=> e # NoValue
       /\ b # NoValue => b = PrefixOf(n)
       /\ p # NoValue <=> n # NoValue
       /\ p # NoValue => p = PrefixOf(n)
       /\ w # NoValue <=> targetVar
       /\ w # NoValue => w = v
  BY <1>1, <1>2, <1>4, <1>5, Zenon DEF b, w
<1>12. PrefixAsked = is
  BY <1>3, <1>10, <1>11, Zenon
<1>13. is # <<>> /\ is \in Seq(Word)
  BY <1>2, <1>5, <1>7, <1>8, <1>9, Zenon
<1> HIDE DEF is
<1>14. PrefixAsked # <<>> /\ PrefixAsked \in Seq(Word)
  BY <1>12, <1>13
<1> QED BY <1>2, <1>12, <1>14, Zenon DEF is, a, e, c, n, v, f

LEMMA PrefixStage ==
  ASSUME GivenTyped, ValuesTyped, AfterName(configValue, apiConfigured, cliConfig),
         configValue' = [configValue EXCEPT !["target_prefix"] = TargetPrefix(Merged("target_prefix"))],
         rcChannels' = RcChannels(configValue'["target_prefix"]), cliConfig' = cliConfig
  PROVE  AfterPrefix(configValue', cliConfig', rcChannels')
<1> DEFINE tp == "target_prefix"
           m == Merged(tp)
           a == Api(tp)
           e == Api("env_name")
           c == Cli(tp)
           n == NameAsked
           v == <<"of the variable">>
           f == <<"fallback">>
           k == cliConfig[tp]
           q == Cli("env_name")
<1>1. /\ tp \in apiConfigured <=> a # NoValue \/ e # NoValue
      /\ a # NoValue => configValue[tp] = a
      /\ a = NoValue /\ e # NoValue => configValue[tp] = PrefixOf(n)
      /\ c # NoValue => k = c
      /\ c = NoValue /\ NameDecides => k = PrefixOf(n)
      /\ c = NoValue /\ ~NameDecides => k = NoValue
      /\ cliConfig["channels"] = CliChannels
  BY Zenon DEF AfterName
<1>2. m = IF tp \in apiConfigured THEN configValue[tp]
          ELSE IF k # NoValue THEN k ELSE IF targetVar THEN v ELSE <<>>
  <2>1. tp \in {"spec_file_env_name", "env_name", "target_prefix"}
    OBVIOUS
  <2>2. m = IF tp \in apiConfigured THEN configValue[tp]
            ELSE IF k # NoValue THEN k ELSE IF tp = "target_prefix" /\ targetVar THEN v ELSE <<>>
    BY <2>1, MergedOne, Zenon
  <2>3. tp = "target_prefix"
    OBVIOUS
  <2> HIDE DEF tp, m, k, v
  <2> QED BY <2>2, <2>3, Zenon
<1>3. /\ PrefixAsked = IF a # NoValue THEN a ELSE IF e # NoValue THEN PrefixOf(n) ELSE IF c # NoValue THEN c
                       ELSE IF n # NoValue THEN PrefixOf(n) ELSE IF targetVar THEN v ELSE f
      /\ PrefixAsked # <<>>
      /\ n # NoValue => PrefixOf(n) # NoValue
  BY PrefixAskedIs, Zenon
<1>4. /\ n = IF e # NoValue THEN e ELSE IF q # NoValue THEN q ELSE NameOfFile
      /\ NameDecides <=> q # NoValue \/ (e = NoValue /\ NameOfFile # NoValue)
  BY NameAskedIs, Zenon DEF NameDecides
<1>5. TargetPrefix(m) = IF m = <<>> THEN f ELSE m
  BY Zenon DEF TargetPrefix
<1>6. tp \in Tracked /\ configValue \in [Tracked -> Seq(Word)] /\ m \in Seq(Word) /\ f \in Seq(Word)
  <2>1. tp \in Tracked /\ "fallback" \in Word
    BY Zenon DEF Tracked, Word
  <2> QED BY <2>1, MergedTyped, TwoWords, Zenon DEF ValuesTyped
<1>13. configValue' = [configValue EXCEPT ![tp] = TargetPrefix(m)] /\ rcChannels' = RcChannels(configValue'[tp])
  BY Zenon
<1> HIDE DEF tp, m, a, e, c, n, v, f, k, q
<1>7. TargetPrefix(m) = PrefixAsked
  <2>1. CASE a # NoValue \/ e # NoValue
    <3>1. m = PrefixAsked
      BY <1>1, <1>2, <1>3, <2>1, Zenon
    <3> QED BY <1>3, <1>5, <3>1, Zenon
  <2>2. CASE a = NoValue /\ e = NoValue /\ c # NoValue
    <3>1. m = PrefixAsked
      BY <1>1, <1>2, <1>3, <2>2, Zenon
    <3> QED BY <1>3, <1>5, <3>1, Zenon
  <2>3. CASE a = NoValue /\ e = NoValue /\ c = NoValue /\ n # NoValue
    <3>1. NameDecides
      BY <1>4, <2>3, Zenon
    <3>2. k = PrefixOf(n) /\ k # NoValue
      BY <1>1, <1>3, <2>3, <3>1, Zenon
    <3>3. m = PrefixAsked
      BY <1>1, <1>2, <1>3, <2>3, <3>2, Zenon
    <3> QED BY <1>3, <1>5, <3>3, Zenon
  <2>4. CASE a = NoValue /\ e = NoValue /\ c = NoValue /\ n = NoValue
    <3>1. ~NameDecides
      BY <1>4, <2>4, Zenon
    <3>2. k = NoValue
      BY <1>1, <2>4, <3>1, Zenon
    <3>3. m = IF targetVar THEN v ELSE <<>>
      BY <1>1, <1>2, <2>4, <3>2, Zenon
    <3>4. PrefixAsked = IF targetVar THEN v ELSE f
      BY <1>3, <2>4, Zenon
    <3> QED BY <1>3, <1>5, <3>3, <3>4, Zenon
  <2> QED BY <2>1, <2>2, <2>3, <2>4
<1>8. TargetPrefix(m) \in Seq(Word)
  BY <1>5, <1>6, Zenon
<1>9. configValue'[tp] = PrefixAsked
  BY <1>6, <1>7, <1>8, <1>13, OneSet, Zenon
<1> QED BY <1>1, <1>9, <1>13, Zenon DEF AfterPrefix, tp

LEMMA AppendTwo == \A a, b : Append(<<a>>, b) = <<a, b>>
<1>1. ASSUME NEW C, NEW a \in C, NEW b \in C PROVE Append(<<a>>, b) = <<a, b>>
  <2> DEFINE v == <<a>>
             t == <<a, b>>
             n == Len(v) + 1
  <2>1. v \in Seq(C) /\ Len(v) = 1 /\ v[1] = a
    OBVIOUS
  <2>2. t \in Seq(C) /\ Len(t) = 2 /\ t[1] = a /\ t[2] = b
    OBVIOUS
  <2> HIDE DEF v, t
  <2>3. Append(v, b) \in Seq(C) /\ Len(Append(v, b)) = n /\ Append(v, b)[n] = b
    <3>1. Append(v, b) \in Seq(C)
      BY <2>1
    <3>2. Len(Append(v, b)) = Len(v) + 1
      <4>1. ASSUME NEW q \in Seq(C) PROVE Len(Append(q, b)) = Len(q) + 1
        OBVIOUS
      <4>2. v \in Seq(C)
        BY <2>1
      <4> QED BY <4>1, <4>2, Zenon
    <3>3. Append(v, b)[Len(v) + 1] = b
      <4>1. ASSUME NEW q \in Seq(C) PROVE Append(q, b)[Len(q) + 1] = b
        OBVIOUS
      <4> QED BY <2>1, <4>1
    <3> QED BY <3>1, <3>2, <3>3, Zenon
  <2>4. n = 2
    BY <2>1
  <2>5. Append(v, b)[1] = a
    BY <2>1
  <2> DEFINE w == Append(v, b)
  <2> HIDE DEF n
  <2>6. w \in Seq(C) /\ Len(w) = 2 /\ w[1] = a /\ w[2] = b
    BY <2>3, <2>4, <2>5, Zenon
  <2> HIDE DEF w
  <2>7. \A i \in 1..2 : w[i] = t[i]
    BY <2>2, <2>6
  <2>8. w = t
    BY <2>2, <2>6, <2>7, SeqEqual
  <2> QED BY <2>8 DEF v, t, w
<1>2. ASSUME NEW a, NEW b PROVE a \in {a, b} /\ b \in {a, b}
  OBVIOUS
<1> QED BY <1>1, <1>2, Zenon

LEMMA FlattenTwo ==
  ASSUME NEW C, NEW a \in Seq(C), NEW b \in Seq(C) PROVE FlattenSeq(<<a, b>>) = a \o b
<1>1. <<a>> \in Seq(Seq(C)) /\ Append(<<a>>, b) = <<a, b>>
  <2> DEFINE T == Seq(C)
  <2>1. a \in T /\ b \in T
    OBVIOUS
  <2> HIDE DEF T
  <2>2. <<a>> \in Seq(T)
    BY <2>1
  <2>3. Append(<<a>>, b) = <<a, b>>
    BY AppendTwo, Zenon
  <2> QED BY <2>2, <2>3 DEF T
<1>2. FlattenSeq(Append(<<a>>, b)) = FlattenSeq(<<a>>) \o b
  BY <1>1, FlattenAppend
<1>3. FlattenSeq(<<a>>) = a
  BY FlattenOne, Zenon
<1> QED BY <1>1, <1>2, <1>3, Zenon

LEMMA RcAre ==
  ASSUME NEW p \in Seq(Word)
  PROVE  /\ RcChannels(p) \in Seq(Seq(Word))
         /\ \A s \in Seq(Seq(Word)) :
               /\ FlattenSeq(s \o RcChannels(p)) = FlattenSeq(s) \o FlattenSeq(RcChannels(p))
               /\ FlattenSeq(RcChannels(p)) \in Seq(Word)
<1> DEFINE T == Seq(Word)
           h == <<"home">>
           r == RcChannelsAt(p)
           q == RcChannelsAt(h)
<1>1. h \in T
  <2>1. "home" \in Word
    BY Zenon DEF Word
  <2> QED BY <2>1, TwoWords, Zenon
<1>2. (r = <<>> \/ r = <<p>>) /\ (q = <<>> \/ q = <<h>>)
  BY Zenon DEF RcChannelsAt
<1>3. RcChannels(p) = r \o q
  BY Zenon DEF RcChannels
<1>4. r \in Seq(T) /\ q \in Seq(T) /\ r \o q \in Seq(T)
  <2> HIDE DEF T, r, q, h
  <2>1. p \in T
    BY DEF T
  <2>2. <<>> \in Seq(T) /\ <<p>> \in Seq(T) /\ <<h>> \in Seq(T)
    BY <1>1, <2>1
  <2>3. r \in Seq(T) /\ q \in Seq(T)
    BY <1>2, <2>2, Zenon
  <2> QED BY <2>3
<1> HIDE DEF r, q, h
<1>5. ASSUME NEW s \in Seq(T)
      PROVE FlattenSeq(s \o (r \o q)) = FlattenSeq(s) \o FlattenSeq(r \o q) /\ FlattenSeq(r \o q) \in T
  <2>1. r \in EndsOf(Word) /\ q \in EndsOf(Word)
    BY <1>1, <1>2 DEF EndsOf
  <2> QED BY <2>1, FlattenMore
<1> QED BY <1>3, <1>4, <1>5, Zenon

\* The channels of the operation, joined
LEMMA ListsAre ==
  ASSUME GivenTyped, PrefixAsked \in Seq(Word)
  PROVE  LET rc == RcChannels(PrefixAsked)
             s == IF CliChannels # NoValue THEN <<CliChannels>> ELSE <<>>
         IN  /\ FlattenSeq(ListsAsked) = FlattenSeq(s \o rc)
             /\ CliChannels \in Seq(Word)
<1> DEFINE T == Seq(Word)
           rc == RcChannels(PrefixAsked)
           a == OrNone(Cli("channels"))
           b == ListOfFile
           k == CliChannels
           s == IF k # NoValue THEN <<k>> ELSE <<>>
           ab == <<a, b>>
           F(z) == FlattenSeq(z)
<1>1. <<>> \in T /\ NoValue \in T /\ Cli("channels") \in T /\ <<>> # NoValue
  <2>1. "of the file" \in Word /\ "x" \in Word /\ "no value" \in Word
    BY Zenon DEF Word
  <2>2. NoValue \in T
    BY <2>1, TwoWords, Zenon DEF NoValue
  <2>3. \A x : <<x>> # <<>>
    OBVIOUS
  <2> QED BY <2>1, <2>2, <2>3, TwoWords, GivenAre, Zenon DEF Cli, NoValue
<1>2. b \in {<<>>, <<"of the file">>} /\ b \in T
  <2>1. b \in {<<>>, <<"of the file">>}
    BY GivenAre, FileIs, Zenon DEF ListOfFile
  <2>2. "of the file" \in Word
    BY Zenon DEF Word
  <2> QED BY <1>1, <2>1, <2>2, TwoWords, Zenon
<1>3. a \in T /\ (Cli("channels") = NoValue => a = <<>>) /\ (Cli("channels") # NoValue => a = Cli("channels"))
  BY <1>1, Zenon DEF OrNone
<1>4. k = IF b = <<>> THEN Cli("channels") ELSE a \o b
  BY Zenon DEF CliChannels
<1>5. a \o <<>> = a /\ <<>> \o b = b /\ a \o b \in T
  <2>1. a \in T /\ b \in T
    BY <1>2, <1>3
  <2> HIDE DEF a, b
  <2> QED BY <2>1
<1>6. F(ab) = a \o b
  BY <1>2, <1>3, FlattenTwo, Zenon
<1>7. ListsAsked = ab \o rc
  BY Zenon DEF ListsAsked
<1>8. ab \in Seq(T)
  <2>1. a \in T /\ b \in T
    BY <1>2, <1>3
  <2> HIDE DEF a, b, T
  <2> QED BY <2>1
<1>9. /\ \A z \in Seq(T) : F(z \o rc) = F(z) \o F(rc)
      /\ F(rc) \in T
  <2>1. <<>> \in Seq(T)
    OBVIOUS
  <2> QED BY <2>1, RcAre, Zenon
<1>10. F(<<>>) = <<>> /\ \A x \in T : F(<<x>>) = x
  BY FlattenOne, Zenon
<1>11. k \in T
  BY <1>1, <1>4, <1>5, Zenon
<1>12. k = NoValue => b = <<>> /\ a = <<>>
  <2>1. ASSUME NEW x \in T PROVE x \o <<"of the file">> # NoValue
    <3>1. "of the file" # "no value"
      OBVIOUS
    <3> DEFINE g == "of the file"
               w == "no value"
    <3> HIDE DEF g, w
    <3>2. g # w
      BY <3>1 DEF g, w
    <3>3. x \o <<g>> # <<w>>
      <4> DEFINE y == x \o <<g>>
                 n == Len(x)
      <4>1. n \in Nat /\ Len(y) = n + 1 /\ y[n + 1] = g
        OBVIOUS
      <4> HIDE DEF y, n
      <4>2. ASSUME y = <<w>> PROVE FALSE
        <5>1. Len(y) = 1 /\ y[1] = w
          BY <4>2
        <5>2. n \in Nat /\ n + 1 = 1
          BY <4>1, <5>1, Zenon
        <5>3. y[n + 1] = g /\ n + 1 = 1
          BY <4>1, <5>2, Zenon
        <5>4. y[1] = g
          BY <5>3, Zenon
        <5> QED BY <3>2, <5>1, <5>4, Zenon
      <4> QED BY <4>2 DEF y
    <3> QED BY <3>3, Zenon DEF g, w, NoValue
  <2> QED BY <1>2, <1>3, <1>4, <2>1, Zenon
<1>13. <<>> \in Seq(T) /\ <<k>> \in Seq(T)
  <2> HIDE DEF k, T
  <2> QED BY <1>11
<1>14. k # NoValue => k = a \o b
  BY <1>3, <1>4, <1>5, Zenon
<1> HIDE DEF F, k, ab, rc, a, b, T
<1>15. F(ab \o rc) = F(s \o rc)
  <2>1. CASE k # NoValue
    <3>1. s = <<k>> /\ F(s) = a \o b
      BY <1>10, <1>11, <1>14, <2>1, Zenon
    <3> QED BY <1>6, <1>8, <1>9, <1>13, <3>1, Zenon
  <2>2. CASE k = NoValue
    <3>1. s = <<>> /\ F(s) = <<>> /\ a \o b = <<>>
      BY <1>5, <1>10, <1>12, <2>2, Zenon
    <3> QED BY <1>6, <1>8, <1>9, <1>13, <3>1, Zenon
  <2> QED BY <2>1, <2>2
<1> QED BY <1>7, <1>11, <1>15, Zenon DEF F, k, rc, T

LEMMA PrefixOfTwo ==
  ASSUME NEW C, NEW a, NEW b, NEW u \in Seq(C), Len(u) >= 2, u[1] = a, u[2] = b
  PROVE  IsPrefix(<<a, b>>, u)
<1> DEFINE t == <<a, b>>
           s == SubSeq(u, 1, 2)
           r == SubSeq(t, 1, 2)
<1>1. t \in Seq({a, b}) /\ Len(t) = 2 /\ t[1] = a /\ t[2] = b
  OBVIOUS
<1> HIDE DEF t
<1>2. r \in Seq({a, b}) /\ Len(r) = 2 /\ r[1] = a /\ r[2] = b
  BY <1>1
<1>3. s \in Seq(C) /\ Len(s) = 2 /\ s[1] = a /\ s[2] = b
  OBVIOUS
<1> HIDE DEF s, r
<1>4. s \in Seq(C \cup {a, b}) /\ r \in Seq(C \cup {a, b})
  <2> DEFINE D == C \cup {a, b}
  <2>1. \A i \in 1..2 : s[i] \in C /\ r[i] \in {a, b}
    BY <1>2, <1>3
  <2> QED BY <1>2, <1>3
<1>5. \A i \in 1..2 : s[i] = r[i]
  BY <1>2, <1>3
<1>6. s = r
  BY <1>2, <1>3, <1>4, <1>5, SeqEqual
<1>7. Len(t) = 2 /\ 2 <= Len(u)
  BY <1>1
<1>8. IsPrefix(t, u)
  BY <1>6, <1>7, Zenon DEF IsPrefix, s, r
<1> QED BY <1>8 DEF t

LEMMA JoinedRange ==
  ASSUME NEW C, NEW a \in Seq(C), NEW b \in Seq(C) PROVE Range(a \o b) = Range(a) \cup Range(b)
<1>1. IsAList(a) /\ IsAList(b)
  BY DEF IsAList, Range
<1> QED BY <1>1, ConcatRange

\* A list set through the API stays first,
LEMMA ListFirst ==
  ASSUME NEW v \in Seq(Word), StartsAsGiven(v), NEW q \in Seq(Seq(Word)), NEW w, w = FlattenSeq(<<v>> \o q)
  PROVE  /\ IsPrefix(<<"of the file", "x">>, Once(w)) /\ StartsAsGiven(Once(w))
         /\ w \in Seq(Word) /\ Range(Once(w)) = Range(w)
<1> DEFINE T == Seq(Word)
           u == Once(w)
<1>6. w \in T /\ Len(v) <= Len(w) /\ \A i \in 1..Len(v) : w[i] = v[i]
  BY FlattenBegins
<1>7. Len(v) >= 2 /\ v[1] = "of the file" /\ v[2] = "x" /\ Len(v) \in Nat
  <2>1. Len(v) \in Nat
    OBVIOUS
  <2> QED BY <2>1, Zenon DEF StartsAsGiven
<1>8. Len(w) >= 2 /\ w[1] = "of the file" /\ w[2] = "x" /\ w[1] # w[2]
  <2>1. 1 \in 1..Len(v) /\ 2 \in 1..Len(v)
    <3> DEFINE n == Len(v)
    <3>1. n \in Nat /\ n >= 2
      BY <1>7, Zenon
    <3> HIDE DEF n
    <3>2. 1 \in 1..n /\ 2 \in 1..n
      BY <3>1
    <3> QED BY <3>2 DEF n
  <2>2. w[1] = "of the file" /\ w[2] = "x"
    BY <1>6, <1>7, <2>1, Zenon
  <2>3. Len(w) >= 2
    <3>1. Len(w) \in Nat
      BY <1>6
    <3> DEFINE n == Len(v)
               l == Len(w)
    <3>2. l \in Nat /\ n \in Nat /\ n >= 2 /\ n <= l
      BY <1>6, <1>7, <3>1, Zenon
    <3> HIDE DEF n, l
    <3>3. l >= 2
      BY <3>2
    <3> QED BY <3>3 DEF l
  <2>4. "of the file" # "x"
    OBVIOUS
  <2> QED BY <2>2, <2>3, <2>4, Zenon
<1>9. u \in T /\ Range(u) = Range(w)
  BY <1>6, OnceKeeps
<1>10. Len(u) >= 2 /\ u[1] = w[1] /\ u[2] = w[2]
  BY <1>6, <1>8, OnceBegins, Zenon
<1>11. IsPrefix(<<"of the file", "x">>, u)
  <2> DEFINE a == "of the file"
             b == "x"
  <2> HIDE DEF u
  <2>1. u[1] = a /\ u[2] = b
    BY <1>8, <1>10, Zenon
  <2> HIDE DEF a, b
  <2>2. IsPrefix(<<a, b>>, u)
    BY <1>9, <1>10, <2>1, PrefixOfTwo
  <2> QED BY <2>2 DEF a, b
<1>12. StartsAsGiven(u)
  BY <1>8, <1>10, Zenon DEF StartsAsGiven
<1> QED BY <1>6, <1>9, <1>11, <1>12, Zenon

\* and nothing after it is lost.
LEMMA ApiListFirst ==
  ASSUME NEW v \in Seq(Word), StartsAsGiven(v), NEW p \in Seq(Word),
         NEW s, s = <<>> \/ \E k \in Seq(Word) : s = <<k>>
  PROVE  LET whole == Once(FlattenSeq(<<v>> \o (s \o RcChannels(p))))
         IN  /\ IsPrefix(<<"of the file", "x">>, whole) /\ StartsAsGiven(whole)
             /\ Range(FlattenSeq(s \o RcChannels(p))) \subseteq Range(whole)
<1> DEFINE T == Seq(Word)
           rc == RcChannels(p)
           F(z) == FlattenSeq(z)
           w == F(<<v>> \o (s \o rc))
           u == Once(w)
<1>1. rc \in Seq(T) /\ F(rc) \in T /\ \A z \in Seq(T) : F(z \o rc) = F(z) \o F(rc)
  <2>1. <<>> \in Seq(T)
    OBVIOUS
  <2> QED BY <2>1, RcAre, Zenon
<1>2. s \in EndsOf(Word)
  BY DEF EndsOf
<1>3. v \in T /\ <<v>> \in Seq(T) /\ s \in Seq(T) /\ s \o rc \in Seq(T)
  <2>1. CASE s = <<>>
    <3> HIDE DEF T, rc
    <3>1. v \in T
      BY DEF T
    <3> QED BY <1>1, <2>1, <3>1
  <2>2. CASE s # <<>>
    <3>1. PICK k \in T : s = <<k>>
      BY <2>2
    <3>2. v \in T
      OBVIOUS
    <3> HIDE DEF T, rc
    <3> QED BY <1>1, <3>1, <3>2
  <2> QED BY <2>1, <2>2
<1>4. F(<<v>> \o s) = v \o F(s) /\ F(s) \in T /\ <<v>> \o s \in Seq(T)
  <2>1. F(<<v>>) = v
    BY FlattenOne, Zenon
  <2>2. F(<<v>> \o s) = F(<<v>>) \o F(s) /\ F(s) \in T /\ <<v>> \o s \in Seq(T)
    BY <1>2, <1>3, FlattenLast
  <2> QED BY <2>1, <2>2, Zenon
<1>5. w = (v \o F(s)) \o F(rc) /\ F(s \o rc) = F(s) \o F(rc)
  <2>1. <<v>> \o (s \o rc) = (<<v>> \o s) \o rc
    <3> DEFINE n == <<v>>
    <3>1. n \in Seq(T)
      BY <1>3
    <3> HIDE DEF n, rc, T
    <3>2. n \o (s \o rc) = (n \o s) \o rc
      BY <1>1, <1>3, <3>1, SMTT(60)
    <3> QED BY <3>2 DEF n
  <2> QED BY <1>1, <1>3, <1>4, <2>1, Zenon
<1>6. IsPrefix(<<"of the file", "x">>, u) /\ StartsAsGiven(u) /\ Range(u) = Range(w)
  <2> DEFINE q == s \o rc
  <2>1. q \in Seq(T) /\ w = FlattenSeq(<<v>> \o q)
    BY <1>3
  <2> HIDE DEF q, w
  <2> QED BY <2>1, ListFirst
<1>13. Range(F(s \o rc)) \subseteq Range(w)
  <2> DEFINE fs == F(s)
             fr == F(rc)
  <2>1. v \in T /\ fs \in T /\ fr \in T
    BY <1>1, <1>4
  <2>2. w = (v \o fs) \o fr /\ F(s \o rc) = fs \o fr
    BY <1>5
  <2> HIDE DEF fs, fr
  <2>3. v \o fs \in T
    BY <2>1
  <2>4. Range(w) = Range(v \o fs) \cup Range(fr)
    <3> DEFINE vf == v \o fs
    <3>1. vf \in T /\ w = vf \o fr
      BY <2>2, <2>3
    <3> HIDE DEF vf
    <3>2. Range(vf \o fr) = Range(vf) \cup Range(fr)
      BY <2>1, <3>1, JoinedRange
    <3> QED BY <3>1, <3>2, Zenon DEF vf
  <2>5. Range(v \o fs) = Range(v) \cup Range(fs) /\ Range(fs \o fr) = Range(fs) \cup Range(fr)
    BY <2>1, JoinedRange
  <2> QED BY <2>2, <2>4, <2>5, Zenon
<1> QED BY <1>6, <1>13, Zenon

LEMMA ChannelsStage ==
  ASSUME GivenTyped, ValuesTyped, ListStays, AfterPrefix(configValue, cliConfig, rcChannels),
         configValue' = [configValue EXCEPT !["channels"] = Merged("channels")]
  PROVE  AfterChannels(configValue')
<1> DEFINE ch == "channels"
           tp == "target_prefix"
           m == Merged(ch)
           T == Seq(Word)
           s == FromCli(ch)
           rc == RcChannels(PrefixAsked)
<1>1. ch \in Tracked /\ tp \in Tracked /\ ch # tp /\ configValue \in [Tracked -> T] /\ m \in T
  <2>1. ch \in Tracked /\ tp \in Tracked /\ ch # tp
    BY DEF Tracked
  <2> QED BY <2>1, MergedTyped, Zenon DEF ValuesTyped
<1>2. configValue'[ch] = m /\ configValue'[tp] = configValue[tp]
  <2>1. configValue' = [configValue EXCEPT ![ch] = m]
    BY Zenon
  <2> HIDE DEF ch, tp, m, T
  <2> QED BY <1>1, <2>1, OneSet
<1>3. configValue[tp] = PrefixAsked /\ cliConfig[ch] = CliChannels /\ rcChannels = rc
  BY Zenon DEF AfterPrefix
<1>4. s = IF CliChannels # NoValue THEN <<CliChannels>> ELSE <<>>
  BY <1>3, Zenon DEF FromCli
<1>5. PrefixAsked \in T
  BY PrefixAskedIs, Zenon
<1>6. FlattenSeq(ListsAsked) = FlattenSeq(s \o rc) /\ CliChannels \in T
  <2> DEFINE k == CliChannels
  <2> HIDE DEF k
  <2>1. /\ FlattenSeq(ListsAsked) = FlattenSeq((IF k # NoValue THEN <<k>> ELSE <<>>) \o rc) /\ k \in T
    BY <1>5, ListsAre DEF k
  <2>2. s = IF k # NoValue THEN <<k>> ELSE <<>>
    BY <1>4 DEF k
  <2> HIDE DEF s
  <2> QED BY <2>1, <2>2, Zenon DEF k
<1>7. m = Once(FlattenSeq(FromApi(ch) \o (s \o rc)))
  BY <1>3, MergedList, Zenon
<1>8. ch \in apiConfigured <=> Api(ch) # NoValue
  BY Zenon DEF ListStays, Api
<1>9. Api(ch) = NoValue => m = Once(FlattenSeq(ListsAsked))
  <2> SUFFICES ASSUME Api(ch) = NoValue PROVE m = Once(FlattenSeq(ListsAsked))
    OBVIOUS
  <2>1. FromApi(ch) = <<>>
    BY <1>8, Zenon DEF FromApi
  <2>2. s \o rc \in Seq(T)
    <3>1. s \in Seq(T)
      BY <1>1, SourcesTyped, Zenon
    <3>2. rc \in Seq(T)
      BY <1>5, RcAre, Zenon
    <3> HIDE DEF s, rc, T
    <3> QED BY <3>1, <3>2
  <2> DEFINE q == s \o rc
  <2>3. <<>> \o q = q
    <3> HIDE DEF q, T
    <3> QED BY <2>2 DEF q
  <2> QED BY <1>6, <1>7, <2>1, <2>3, Zenon
<1>10. Api(ch) # NoValue => /\ IsPrefix(Api(ch), m)
                            /\ Range(FlattenSeq(ListsAsked)) \subseteq Range(m)
  <2> SUFFICES ASSUME Api(ch) # NoValue
               PROVE  IsPrefix(Api(ch), m) /\ Range(FlattenSeq(ListsAsked)) \subseteq Range(m)
    OBVIOUS
  <2>1. FromApi(ch) = <<configValue[ch]>> /\ StartsAsGiven(configValue[ch]) /\ configValue[ch] \in T
    BY <1>1, <1>8, Zenon DEF FromApi, ListStays
  <2>2. Api(ch) = <<"of the file", "x">>
    BY GivenAre, Zenon DEF Api
  <2>3. s = <<>> \/ \E k \in T : s = <<k>>
    BY <1>4, <1>6, Zenon
  <2>4. m = Once(FlattenSeq(<<configValue[ch]>> \o (s \o rc)))
    BY <1>7, <2>1, Zenon
  <2> HIDE DEF s, m
  <2>5. /\ IsPrefix(<<"of the file", "x">>, m)
        /\ Range(FlattenSeq(s \o rc)) \subseteq Range(m)
    BY <1>5, <2>1, <2>3, <2>4, ApiListFirst, Zenon
  <2> QED BY <1>6, <2>2, <2>5, Zenon
<1> HIDE DEF m
<1> QED BY <1>2, <1>3, <1>9, <1>10, Zenon DEF AfterChannels

Done1 == {"file_specs"}
Done2 == {"file_specs", "spec_file_env_name"}
Done3 == {"file_specs", "spec_file_env_name", "env_name"}
Done4 == {"file_specs", "spec_file_env_name", "env_name", "target_prefix"}

PcInv ==
    /\ configPc \in {"sequencing", "idle", "loading", "loaded", "failed"}
    /\ loadsSince \in Nat
    /\ configPc = "sequencing" => loads = 0 /\ loadsSince = 0 /\ given = {}
    /\ configPc # "sequencing" => InOrder
    /\ configPc = "loading" => computed \in {{}, Done1, Done2, Done3, Done4}
    /\ configPc = "loaded" => computed = Tracked

LoadingInv(done, v, api, cli, rc) ==
    /\ done = {} => Fresh(v, api, cli)
    /\ done = Done1 => AfterFile(v, api, cli)
    /\ done = Done2 => AfterFileName(v, api, cli)
    /\ done = Done3 => AfterName(v, api, cli)
    /\ done = Done4 => AfterPrefix(v, cli, rc)
    /\ done = Tracked => AfterChannels(v)

StageInv ==
    /\ loadsSince = 0 => /\ configPc \in {"sequencing", "idle"}
                         /\ Fresh(configValue, apiConfigured, cliConfig)
    /\ loadsSince = 1 =>
          /\ configPc \in {"loading", "loaded"} =>
                LoadingInv(computed, configValue, apiConfigured, cliConfig, rcChannels)
          /\ configPc = "failed" => Cli("env_name") # NoValue /\ Cli("target_prefix") # NoValue

ConfigInv == PcInv /\ GivenTyped /\ ValuesTyped /\ ListStays /\ StageInv

LEMMA InvIsEnough == ASSUME ConfigInv PROVE OperationsAreIndependent
<1> SUFFICES ASSUME loadsSince = 1
             PROVE  /\ configPc = "failed" => GivenFor("CLI", "env_name") # NoValue
                                              /\ GivenFor("CLI", "target_prefix") # NoValue
                    /\ configPc = "loaded" => AfterChannels(configValue)
  BY Zenon DEF OperationsAreIndependent, AfterChannels, ListsAsked, ListOfFile, OrNone, Api, Cli
<1>1. configPc = "loaded" => computed = Tracked
  BY DEF ConfigInv, PcInv
<1> QED BY <1>1, Zenon DEF ConfigInv, StageInv, LoadingInv, Cli

\* The order of the hooks gives the order of the stages.
LEMMA NextOf ==
  ASSUME InOrder, configPc = "loading", computed \in {{}, Done1, Done2, Done3, Done4}
  PROVE  /\ computed = {} => NextToCompute = "file_specs"
         /\ computed = Done1 => NextToCompute = "spec_file_env_name"
         /\ computed = Done2 => NextToCompute = "env_name"
         /\ computed = Done3 => NextToCompute = "target_prefix"
         /\ computed = Done4 => NextToCompute = "channels"
<1> DEFINE fs == "file_specs"
           sp == "spec_file_env_name"
           en == "env_name"
           tp == "target_prefix"
           ch == "channels"
<1>1. /\ Position(fs) \in Nat /\ Position(sp) \in Nat /\ Position(en) \in Nat /\ Position(tp) \in Nat
      /\ Position(ch) \in Nat
      /\ Position(fs) < Position(sp) /\ Position(sp) < Position(en) /\ Position(en) < Position(tp)
      /\ Position(tp) < Position(ch)
  BY DEF InOrder, Comes, Tracked
<1>2. /\ Comes(fs, sp) /\ Comes(fs, en) /\ Comes(fs, tp) /\ Comes(fs, ch)
      /\ Comes(sp, en) /\ Comes(sp, tp) /\ Comes(sp, ch) /\ Comes(en, tp) /\ Comes(en, ch) /\ Comes(tp, ch)
  <2> HIDE DEF fs, sp, en, tp, ch
  <2> QED BY <1>1 DEF Comes
<1>3. Tracked = {fs, sp, en, tp, ch} /\ Done1 = {fs} /\ Done2 = {fs, sp} /\ Done3 = {fs, sp, en}
      /\ Done4 = {fs, sp, en, tp}
  BY DEF Tracked, Done1, Done2, Done3, Done4
<1>4. /\ fs # sp /\ fs # en /\ fs # tp /\ fs # ch /\ sp # en /\ sp # tp /\ sp # ch /\ en # tp /\ en # ch
      /\ tp # ch
  OBVIOUS
<1> HIDE DEF fs, sp, en, tp, ch
<1>5. ASSUME computed = {} PROVE NextToCompute = fs
  <2>1. Tracked \ computed = {fs, sp, en, tp, ch}
    BY <1>3, <1>5
  <2> QED BY <1>2, <2>1, NextIs
<1>6. ASSUME computed = Done1 PROVE NextToCompute = sp
  <2>1. Tracked \ computed = {sp, en, tp, ch}
    BY <1>3, <1>4, <1>6
  <2> QED BY <1>2, <2>1, NextIs
<1>7. ASSUME computed = Done2 PROVE NextToCompute = en
  <2>1. Tracked \ computed = {en, tp, ch}
    BY <1>3, <1>4, <1>7
  <2> QED BY <1>2, <2>1, NextIs
<1>8. ASSUME computed = Done3 PROVE NextToCompute = tp
  <2>1. Tracked \ computed = {tp, ch}
    BY <1>3, <1>4, <1>8
  <2> QED BY <1>2, <2>1, NextIs
<1>9. ASSUME computed = Done4 PROVE NextToCompute = ch
  <2>1. Tracked \ computed = {ch}
    BY <1>3, <1>4, <1>9
  <2> QED BY <1>2, <2>1, NextIs
<1> QED BY <1>5, <1>6, <1>7, <1>8, <1>9, Zenon DEF fs, sp, en, tp, ch

LEMMA DoneAre ==
  /\ {} \cup {"file_specs"} = Done1 /\ Done1 \cup {"spec_file_env_name"} = Done2
  /\ Done2 \cup {"env_name"} = Done3 /\ Done3 \cup {"target_prefix"} = Done4
  /\ Done4 \cup {"channels"} = Tracked
  /\ {} # Done1 /\ {} # Done2 /\ {} # Done3 /\ {} # Done4 /\ {} # Tracked
  /\ Done1 # Done2 /\ Done1 # Done3 /\ Done1 # Done4 /\ Done1 # Tracked
  /\ Done2 # Done3 /\ Done2 # Done4 /\ Done2 # Tracked
  /\ Done3 # Done4 /\ Done3 # Tracked /\ Done4 # Tracked
<1>1. /\ "channels" \in Tracked /\ "channels" \notin Done4 /\ "channels" \notin Done3
      /\ "channels" \notin Done2 /\ "channels" \notin Done1
  BY DEF Tracked, Done1, Done2, Done3, Done4
<1>2. /\ "target_prefix" \in Done4 /\ "target_prefix" \notin Done3 /\ "target_prefix" \notin Done2
      /\ "target_prefix" \notin Done1
  BY DEF Done1, Done2, Done3, Done4
<1>3. /\ "env_name" \in Done3 /\ "env_name" \notin Done2 /\ "env_name" \notin Done1
  BY DEF Done1, Done2, Done3
<1>4. "spec_file_env_name" \in Done2 /\ "spec_file_env_name" \notin Done1
  BY DEF Done1, Done2
<1>5. {} \cup {"file_specs"} = Done1 /\ Done1 \cup {"spec_file_env_name"} = Done2
  BY DEF Done1, Done2
<1>6. Done2 \cup {"env_name"} = Done3 /\ Done3 \cup {"target_prefix"} = Done4
  BY DEF Done2, Done3, Done4
<1>7. Done4 \cup {"channels"} = Tracked
  BY DEF Done4, Tracked
<1>8. "file_specs" \in Done1
  BY DEF Done1
<1> QED BY <1>1, <1>2, <1>3, <1>4, <1>5, <1>6, <1>7, <1>8, Zenon

-----------------------------------------------------------------------------
LEMMA GivenSame ==
  ASSUME given' = given
  PROVE  /\ \A f, c : GivenFor(f, c)' = GivenFor(f, c)
         /\ GivenTyped => GivenTyped'
         /\ \A v, api, cli : Fresh(v, api, cli)' <=> Fresh(v, api, cli)
<1>1. \A f, c : GivenFor(f, c)' = GivenFor(f, c)
  <2> DEFINE Of(set, f, d) == {g \in set : g[1] = f /\ g[2] = d}
             Third(S) == IF S = {} THEN NoValue ELSE (CHOOSE g \in S : TRUE)[3]
  <2>1. \A f, d : GivenFor(f, d) = Third(Of(given, f, d)) /\ GivenFor(f, d)' = Third(Of(given', f, d))
    BY DEF GivenFor
  <2> HIDE DEF Of, Third
  <2> QED BY <2>1, Zenon
<1>2. GivenTyped => GivenTyped'
  BY <1>1, Zenon DEF GivenTyped
<1>3. \A v, api, cli : Fresh(v, api, cli)' <=> Fresh(v, api, cli)
  BY <1>1, Zenon DEF Fresh, ApiAsGiven, Api, Cli
<1> QED BY <1>1, <1>2, <1>3, Zenon

LEMMA StagesStay ==
  ASSUME given' = given, targetVar' = targetVar, rcAt' = rcAt,
         LoadingInv(computed', configValue', apiConfigured', cliConfig', rcChannels')
  PROVE  LoadingInv(computed, configValue, apiConfigured, cliConfig, rcChannels)'
<1>1. /\ \A f, c : GivenFor(f, c)' = GivenFor(f, c)
      /\ NameOfFile' = NameOfFile /\ NameAsked' = NameAsked /\ PrefixAsked' = PrefixAsked
      /\ \A p : RcChannels(p)' = RcChannels(p)
      /\ CliChannels' = CliChannels /\ ListsAsked' = ListsAsked
  BY AskedStays, Zenon
<1>2. \A c : Api(c)' = Api(c) /\ Cli(c)' = Cli(c)
  BY <1>1, Zenon DEF Api, Cli
<1>3. NameDecides' <=> NameDecides
  BY <1>1, <1>2, Zenon DEF NameDecides
<1>4. Fresh(configValue', apiConfigured', cliConfig') => Fresh(configValue, apiConfigured, cliConfig)'
  BY <1>2, Zenon DEF Fresh, ApiAsGiven
<1>5. AfterFile(configValue', apiConfigured', cliConfig') => AfterFile(configValue, apiConfigured, cliConfig)'
  BY <1>1, <1>2, Zenon DEF AfterFile, ApiAsGiven
<1>6. AfterFileName(configValue', apiConfigured', cliConfig')
      => AfterFileName(configValue, apiConfigured, cliConfig)'
  BY <1>1, <1>5, Zenon DEF AfterFileName
<1>7. AfterName(configValue', apiConfigured', cliConfig') => AfterName(configValue, apiConfigured, cliConfig)'
  BY <1>1, <1>2, <1>3, Zenon DEF AfterName
<1>8. AfterPrefix(configValue', cliConfig', rcChannels') => AfterPrefix(configValue, cliConfig, rcChannels)'
  BY <1>1, Zenon DEF AfterPrefix
<1>9. AfterChannels(configValue') => AfterChannels(configValue)'
  BY <1>1, <1>2, Zenon DEF AfterChannels
<1> QED BY <1>4, <1>5, <1>6, <1>7, <1>8, <1>9, Zenon DEF LoadingInv

LEMMA LoadingTyped ==
  ASSUME GivenTyped, ValuesTyped, ListStays, Compute, NextToCompute \in Tracked
  PROVE  ValuesTyped' /\ ListStays'
<1> DEFINE c == NextToCompute
           T == Seq(Word)
           m == Merged(c)
           ch == "channels"
           en == "env_name"
           tp == "target_prefix"
<1>1. /\ configValue \in [Tracked -> T] /\ cliConfig \in [Tracked -> T] /\ rcChannels \in Seq(T)
      /\ apiConfigured \subseteq Tracked \ {"file_specs", "spec_file_env_name"}
  BY Zenon DEF ValuesTyped
<1>2. m \in T
  BY MergedTyped, Zenon
<1>3. ch \in Tracked /\ en \in Tracked /\ tp \in Tracked /\ ch # en /\ ch # tp
      /\ tp \in Tracked \ {"file_specs", "spec_file_env_name"}
  BY DEF Tracked
<1>4. given' = given
  BY ComputeIs, Zenon
<1>5. /\ ch \in apiConfigured <=> GivenFor("API", ch) # NoValue
      /\ ch \in apiConfigured => StartsAsGiven(configValue[ch])
      /\ GivenFor("API", ch)' = GivenFor("API", ch)
  BY <1>4, GivenSame, Zenon DEF ListStays
<1>6. ASSUME configValue' \in [Tracked -> T], cliConfig' \in [Tracked -> T], rcChannels' \in Seq(T),
             apiConfigured' = apiConfigured \/ apiConfigured' = apiConfigured \cup {tp},
             ch \in apiConfigured => StartsAsGiven(configValue'[ch])
      PROVE  ValuesTyped' /\ ListStays'
  <2>1. apiConfigured' \subseteq Tracked \ {"file_specs", "spec_file_env_name"}
    BY <1>1, <1>3, <1>6
  <2>2. ch \in apiConfigured' <=> ch \in apiConfigured
    BY <1>3, <1>6
  <2>3. ValuesTyped'
    BY <1>6, <2>1, Zenon DEF ValuesTyped
  <2>4. ListStays'
    BY <1>5, <1>6, <2>2, Zenon DEF ListStays
  <2> QED BY <2>3, <2>4
<1>7. ASSUME configValue' = [configValue EXCEPT ![c] = m]
      PROVE  configValue' \in [Tracked -> T] /\ configValue'[c] = m
             /\ \A d \in Tracked : d # c => configValue'[d] = configValue[d]
  <2> HIDE DEF c, m, T
  <2>1. c \in Tracked
    BY DEF c
  <2> QED BY <1>1, <1>2, <1>7, <2>1, OneSet
<1>8. CASE c = "file_specs"
  <2>1. configValue' = [configValue EXCEPT ![c] = m] /\ FileSpecsHook(m) /\ rcChannels' = rcChannels
    BY <1>8, ComputeIs, Zenon
  <2>2. cliConfig' \in [Tracked -> T] /\ apiConfigured' = apiConfigured
    BY <1>2, <2>1, FileHookIs, Zenon
  <2>3. configValue' \in [Tracked -> T] /\ configValue'[ch] = configValue[ch]
    <3>1. ch # c
      BY <1>8
    <3> QED BY <1>3, <1>7, <2>1, <3>1, Zenon
  <2> HIDE DEF m, c
  <2> QED BY <1>1, <1>5, <1>6, <2>1, <2>2, <2>3, Zenon
<1>9. CASE c = en
  <2>1. EnvNameHook(m) /\ rcChannels' = rcChannels
    BY <1>9, ComputeIs, Zenon
  <2>2. /\ cliConfig' \in [Tracked -> T] /\ configValue' \in [Tracked -> T]
        /\ apiConfigured' = apiConfigured \cup (IF ToApi(m) THEN {tp} ELSE {})
        /\ configValue'[ch] = configValue[ch]
    BY <1>2, <1>3, <2>1, NameHookIs, Zenon
  <2> HIDE DEF m
  <2>3. apiConfigured' = apiConfigured \/ apiConfigured' = apiConfigured \cup {tp}
    BY <2>2
  <2> QED BY <1>1, <1>5, <1>6, <2>1, <2>2, <2>3, Zenon
<1>10. CASE c = tp
  <2>1. /\ configValue' = [configValue EXCEPT ![tp] = TargetPrefix(m)]
        /\ rcChannels' = RcChannels(configValue'[tp])
        /\ cliConfig' = cliConfig /\ apiConfigured' = apiConfigured
    BY <1>10, ComputeIs, Zenon
  <2>2. TargetPrefix(m) \in T
    <3>1. "fallback" \in Word
      BY Zenon DEF Word
    <3>2. <<"fallback">> \in T
      BY <3>1, TwoWords, Zenon
    <3> QED BY <1>2, <3>2, Zenon DEF TargetPrefix
  <2>3. configValue' \in [Tracked -> T] /\ configValue'[ch] = configValue[ch] /\ configValue'[tp] \in T
    <3> DEFINE w == TargetPrefix(m)
    <3> HIDE DEF w, T, tp, ch, m, c
    <3>1. configValue' = [configValue EXCEPT ![tp] = w] /\ w \in T
      BY <2>1, <2>2 DEF w
    <3> QED BY <1>1, <1>3, <3>1, OneSet
  <2>4. rcChannels' \in Seq(T)
    BY <2>1, <2>3, RcAre, Zenon
  <2> HIDE DEF m, c
  <2> QED BY <1>1, <1>5, <1>6, <2>1, <2>3, <2>4, Zenon
<1>11. CASE c = "spec_file_env_name"
  <2>1. /\ configValue' = [configValue EXCEPT ![c] = m] /\ rcChannels' = rcChannels
        /\ cliConfig' = cliConfig /\ apiConfigured' = apiConfigured
    BY <1>11, ComputeIs, Zenon
  <2>2. configValue' \in [Tracked -> T] /\ configValue'[ch] = configValue[ch]
    <3>1. ch # c
      BY <1>11
    <3> QED BY <1>3, <1>7, <2>1, <3>1, Zenon
  <2> HIDE DEF m, c
  <2> QED BY <1>1, <1>5, <1>6, <2>1, <2>2, Zenon
<1>12. CASE c = ch
  <2>1. /\ configValue' = [configValue EXCEPT ![c] = m] /\ rcChannels' = rcChannels
        /\ cliConfig' = cliConfig /\ apiConfigured' = apiConfigured
    BY <1>12, ComputeIs, Zenon
  <2>2. configValue' \in [Tracked -> T] /\ configValue'[ch] = m
    BY <1>7, <1>12, <2>1, Zenon
  <2>3. ch \in apiConfigured => StartsAsGiven(m)
    <3> SUFFICES ASSUME ch \in apiConfigured PROVE StartsAsGiven(m)
      OBVIOUS
    <3> DEFINE v == configValue[ch]
               q == FromCli(ch) \o rcChannels
               w == FlattenSeq(<<v>> \o q)
    <3>1. FromApi(ch) = <<v>>
      BY Zenon DEF FromApi
    <3>2. m = Once(w)
      BY <1>12, <3>1, MergedList, Zenon
    <3>3. v \in T /\ StartsAsGiven(v)
      BY <1>1, <1>3, <1>5, Zenon
    <3>4. q \in Seq(T)
      <4>1. FromCli(ch) \in Seq(T)
        BY <1>3, SourcesTyped, Zenon
      <4> DEFINE f == FromCli(ch)
      <4> HIDE DEF T, f
      <4>2. f \in Seq(T)
        BY <4>1 DEF f
      <4>3. f \o rcChannels \in Seq(T)
        BY <1>1, <4>2
      <4> QED BY <4>3 DEF f
    <3> HIDE DEF m, v, q
    <3>5. StartsAsGiven(Once(w))
      BY <3>3, <3>4, ListFirst, Zenon
    <3> QED BY <3>2, <3>5, Zenon
  <2> HIDE DEF m, c
  <2> QED BY <1>1, <1>6, <2>1, <2>2, <2>3, Zenon
<1> QED BY <1>8, <1>9, <1>10, <1>11, <1>12 DEF Tracked

LEMMA InvUnfolds ==
  ConfigInv <=> PcInv /\ GivenTyped /\ ValuesTyped /\ ListStays /\ StageInv
BY DEF ConfigInv

LEMMA InvInit == ASSUME ConfigInit PROVE ConfigInv
<1>1. /\ configPc = "sequencing" /\ configValue = DefaultValue /\ apiConfigured = {}
      /\ cliConfig = [c \in Tracked |-> NoValue] /\ rcChannels = <<>> /\ given = {} /\ loads = 0 /\ loadsSince = 0
  BY DEF ConfigInit
<1>2. \A f, c : GivenFor(f, c) = NoValue
  BY <1>1, GivenNothing
<1>3. <<>> \in Seq(Word) /\ NoValue \in Seq(Word)
  <2>1. "no value" \in Word
    BY Zenon DEF Word
  <2> QED BY <2>1, TwoWords, Zenon DEF NoValue
<1>4. /\ cliConfig \in [Tracked -> Seq(Word)] /\ configValue \in [Tracked -> Seq(Word)]
      /\ \A c \in Tracked : cliConfig[c] = NoValue
  <2> DEFINE T == Seq(Word)
  <2> HIDE DEF T
  <2>1. <<>> \in T /\ NoValue \in T
    BY <1>3 DEF T
  <2>2. /\ cliConfig \in [Tracked -> T] /\ configValue \in [Tracked -> T]
        /\ \A c \in Tracked : cliConfig[c] = NoValue
    BY <1>1, <2>1, Zenon DEF DefaultValue
  <2> QED BY <2>2 DEF T
<1>5. ValuesTyped
  <2>1. <<>> \in Seq(Seq(Word))
    OBVIOUS
  <2> QED BY <1>1, <1>4, <2>1, Zenon DEF ValuesTyped
<1>6. GivenTyped
  BY <1>2, Zenon DEF GivenTyped
<1>7. ListStays
  BY <1>1, <1>2, Zenon DEF ListStays
<1>8. Fresh(configValue, apiConfigured, cliConfig)
  BY <1>1, <1>2, <1>4, Zenon DEF Fresh, ApiAsGiven, Api, Cli
<1>9. PcInv
  BY <1>1 DEF PcInv
<1>10. StageInv
  <2>1. loadsSince # 1
    BY <1>1
  <2> QED BY <1>1, <1>8, <2>1, Zenon DEF StageInv
<1> QED BY <1>5, <1>6, <1>7, <1>9, <1>10, InvUnfolds

\* The invariant is kept when only the place in the program changes.
LEMMA ValuesStay ==
  ASSUME GivenTyped, ValuesTyped, ListStays, given' = given, configValue' = configValue,
         apiConfigured' = apiConfigured, cliConfig' = cliConfig, rcChannels' = rcChannels \/ rcChannels' = <<>>
  PROVE  GivenTyped' /\ ValuesTyped' /\ ListStays'
<1>1. <<>> \in Seq(Seq(Word))
  OBVIOUS
<1>2. ValuesTyped'
  BY <1>1, Zenon DEF ValuesTyped
<1>3. GivenTyped' /\ ListStays'
  BY GivenSame, Zenon DEF ListStays
<1> QED BY <1>2, <1>3

OrderGiven == HooksAreInOrder /\ configPc # "sequencing" => InOrder

LEMMA AddNextStep ==
  ASSUME ConfigInv, AddNext, LoadingIsInOrder', OrderGiven' PROVE ConfigInv'
<1>1. /\ configPc = "sequencing" /\ configPc' \in {"sequencing", "idle"}
      /\ given' = given /\ configValue' = configValue /\ apiConfigured' = apiConfigured
      /\ cliConfig' = cliConfig /\ rcChannels' = rcChannels /\ loads' = loads /\ loadsSince' = loadsSince
  BY Zenon DEF AddNext
<1>2. PcInv /\ GivenTyped /\ ValuesTyped /\ ListStays /\ StageInv
  BY InvUnfolds
<1>3. loads = 0 /\ loadsSince = 0 /\ given = {}
  BY <1>1, <1>2 DEF PcInv
<1>4. GivenTyped' /\ ValuesTyped' /\ ListStays'
  BY <1>1, <1>2, ValuesStay
<1>5. configPc' # "sequencing" => InOrder'
  <2>1. HooksAreInOrder'
    BY <1>1, <1>3, Zenon DEF LoadingIsInOrder
  <2> QED BY <2>1, Zenon DEF OrderGiven
<1>6. PcInv'
  BY <1>1, <1>3, <1>5 DEF PcInv
<1>7. StageInv'
  <2>1. Fresh(configValue, apiConfigured, cliConfig)'
    <3>1. Fresh(configValue, apiConfigured, cliConfig)
      BY <1>2, <1>3, Zenon DEF StageInv
    <3> QED BY <1>1, <3>1, GivenSame, Zenon
  <2>2. loadsSince' # 1
    BY <1>1, <1>3
  <2> QED BY <1>1, <2>1, <2>2, Zenon DEF StageInv
<1> QED BY <1>4, <1>6, <1>7, Zenon DEF ConfigInv

LEMMA BeginLoadStep == ASSUME ConfigInv, BeginLoad PROVE ConfigInv'
<1>1. /\ configPc = "idle" /\ configPc' = "loading" /\ computed' = {} /\ loadsSince' = loadsSince + 1
      /\ given' = given /\ configValue' = configValue /\ apiConfigured' = apiConfigured
      /\ cliConfig' = cliConfig /\ rcChannels' = <<>> /\ loadingSequence' = loadingSequence
  BY DEF BeginLoad, sequenceVars
<1>2. PcInv /\ GivenTyped /\ ValuesTyped /\ ListStays /\ StageInv
  BY InvUnfolds
<1>3. GivenTyped' /\ ValuesTyped' /\ ListStays'
  BY <1>1, <1>2, ValuesStay
<1>4. InOrder' /\ loadsSince \in Nat
  <2>1. InOrder /\ loadsSince \in Nat
    BY <1>1, <1>2, Zenon DEF PcInv
  <2> QED BY <1>1, <2>1, Zenon DEF InOrder, Comes, Position
<1>5. PcInv'
  BY <1>1, <1>4 DEF PcInv
<1>6. StageInv'
  <2>1. loadsSince' = 1 => loadsSince = 0
    BY <1>1, <1>4
  <2>2. loadsSince' # 0
    BY <1>1, <1>4
  <2>3. loadsSince' = 1 => Fresh(configValue, apiConfigured, cliConfig)'
    <3>1. loadsSince = 0 => Fresh(configValue, apiConfigured, cliConfig)
      BY <1>2, Zenon DEF StageInv
    <3> QED BY <1>1, <2>1, <3>1, GivenSame, Zenon
  <2>4. loadsSince' = 1 => LoadingInv(computed, configValue, apiConfigured, cliConfig, rcChannels)'
    BY <1>1, <2>3, DoneAre, Zenon DEF LoadingInv
  <2>5. configPc' # "failed"
    BY <1>1
  <2> QED BY <2>2, <2>4, <2>5, Zenon DEF StageInv
<1> QED BY <1>3, <1>5, <1>6, Zenon DEF ConfigInv

LEMMA ComputeStep == ASSUME ConfigInv, Compute PROVE ConfigInv'
<1> DEFINE c == NextToCompute
<1>1. PcInv /\ GivenTyped /\ ValuesTyped /\ ListStays /\ StageInv
  BY InvUnfolds
<1>2. /\ configPc = "loading" /\ computed' = computed \cup {c}
      /\ configPc' = IF computed' = Tracked THEN "loaded" ELSE "loading"
      /\ loadingSequence' = loadingSequence /\ targetVar' = targetVar /\ rcAt' = rcAt
      /\ given' = given /\ loads' = loads /\ loadsSince' = loadsSince
  BY ComputeIs, Zenon
<1>3. InOrder /\ computed \in {{}, Done1, Done2, Done3, Done4} /\ loadsSince \in Nat
  <2>1. configPc # "sequencing"
    BY <1>2
  <2> QED BY <1>1, <1>2, <2>1, Zenon DEF PcInv
<1>4. /\ computed = {} => c = "file_specs"
      /\ computed = Done1 => c = "spec_file_env_name"
      /\ computed = Done2 => c = "env_name"
      /\ computed = Done3 => c = "target_prefix"
      /\ computed = Done4 => c = "channels"
  BY <1>2, <1>3, NextOf, Zenon
<1>5. c \in Tracked
  BY <1>3, <1>4, Zenon DEF Tracked
<1>6. ValuesTyped' /\ ListStays'
  BY <1>1, <1>5, LoadingTyped, Zenon
<1>7. GivenTyped'
  BY <1>1, <1>2, GivenSame, Zenon
<1> HIDE DEF c
<1>8. /\ computed = {} => computed' = Done1
      /\ computed = Done1 => computed' = Done2
      /\ computed = Done2 => computed' = Done3
      /\ computed = Done3 => computed' = Done4
      /\ computed = Done4 => computed' = Tracked
  BY <1>2, <1>4, DoneAre, Zenon
<1>9. PcInv'
  <2>1. configPc' \in {"loading", "loaded"} /\ configPc' # "sequencing"
    BY <1>2
  <2>2. configPc' = "loading" => computed' \in {{}, Done1, Done2, Done3, Done4}
    <3>1. configPc' = "loading" => computed' # Tracked
      <4>1. "loaded" # "loading"
        OBVIOUS
      <4> QED BY <1>2, <4>1, Zenon
    <3> QED BY <1>3, <1>8, <3>1, Zenon
  <2>3. configPc' = "loaded" => computed' = Tracked
    <3>1. "loaded" # "loading"
      OBVIOUS
    <3> QED BY <1>2, <3>1, Zenon
  <2>4. InOrder'
    BY <1>2, <1>3, Zenon DEF InOrder, Comes, Position
  <2>5. loadsSince' \in Nat
    BY <1>2, <1>3, Zenon
  <2>6. configPc' \in {"sequencing", "idle", "loading", "loaded", "failed"}
    BY <2>1
  <2> QED BY <2>1, <2>2, <2>3, <2>4, <2>5, <2>6, Zenon DEF PcInv
<1>10. StageInv'
  <2>1. loadsSince' # 0
    <3>1. configPc \notin {"sequencing", "idle"}
      BY <1>2
    <3> QED BY <1>1, <1>2, <3>1, Zenon DEF StageInv
  <2>2. configPc' # "failed"
    BY <1>2
  <2>3. ASSUME loadsSince' = 1
        PROVE  LoadingInv(computed, configValue, apiConfigured, cliConfig, rcChannels)'
    <3>1. LoadingInv(computed, configValue, apiConfigured, cliConfig, rcChannels)
      <4>1. configPc \in {"loading", "loaded"} /\ loadsSince = 1
        BY <1>2, <2>3
      <4> QED BY <1>1, <4>1, Zenon DEF StageInv
    <3>2. LoadingInv(computed', configValue', apiConfigured', cliConfig', rcChannels')
      <4>1. CASE computed = {}
        <5>1. c = "file_specs" /\ computed' = Done1
          BY <1>4, <1>8, <4>1, Zenon
        <5>2. Fresh(configValue, apiConfigured, cliConfig)
          BY <3>1, <4>1, Zenon DEF LoadingInv
        <5>3. /\ configValue' = [configValue EXCEPT !["file_specs"] = Merged("file_specs")]
              /\ FileSpecsHook(Merged("file_specs"))
          BY <5>1, ComputeIs, Zenon DEF c
        <5>4. AfterFile(configValue', apiConfigured', cliConfig')
          BY <1>1, <5>2, <5>3, FileStage, Zenon
        <5> QED BY <5>1, <5>4, DoneAre, Zenon DEF LoadingInv
      <4>2. CASE computed = Done1
        <5>1. c = "spec_file_env_name" /\ computed' = Done2
          BY <1>4, <1>8, <4>2, Zenon
        <5>2. AfterFile(configValue, apiConfigured, cliConfig)
          BY <3>1, <4>2, Zenon DEF LoadingInv
        <5>3. /\ configValue' = [configValue EXCEPT !["spec_file_env_name"] = Merged("spec_file_env_name")]
              /\ cliConfig' = cliConfig /\ apiConfigured' = apiConfigured
          BY <5>1, ComputeIs, Zenon DEF c
        <5>4. AfterFileName(configValue', apiConfigured', cliConfig')
          BY <1>1, <5>2, <5>3, FileNameStage, Zenon
        <5> QED BY <5>1, <5>4, DoneAre, Zenon DEF LoadingInv
      <4>3. CASE computed = Done2
        <5>1. c = "env_name" /\ computed' = Done3
          BY <1>4, <1>8, <4>3, Zenon
        <5>2. AfterFileName(configValue, apiConfigured, cliConfig)
          BY <3>1, <4>3, Zenon DEF LoadingInv
        <5>3. EnvNameHook(Merged("env_name"))
          BY <5>1, ComputeIs, Zenon DEF c
        <5>4. AfterName(configValue', apiConfigured', cliConfig')
          BY <1>1, <5>2, <5>3, NameStage, Zenon
        <5> QED BY <5>1, <5>4, DoneAre, Zenon DEF LoadingInv
      <4>4. CASE computed = Done3
        <5>1. c = "target_prefix" /\ computed' = Done4
          BY <1>4, <1>8, <4>4, Zenon
        <5>2. AfterName(configValue, apiConfigured, cliConfig)
          BY <3>1, <4>4, Zenon DEF LoadingInv
        <5>3. /\ configValue' = [configValue EXCEPT
                                   !["target_prefix"] = TargetPrefix(Merged("target_prefix"))]
              /\ rcChannels' = RcChannels(configValue'["target_prefix"]) /\ cliConfig' = cliConfig
          BY <5>1, ComputeIs, Zenon DEF c
        <5>4. AfterPrefix(configValue', cliConfig', rcChannels')
          BY <1>1, <5>2, <5>3, PrefixStage, Zenon
        <5> QED BY <5>1, <5>4, DoneAre, Zenon DEF LoadingInv
      <4>5. CASE computed = Done4
        <5>1. c = "channels" /\ computed' = Tracked
          BY <1>4, <1>8, <4>5, Zenon
        <5>2. AfterPrefix(configValue, cliConfig, rcChannels)
          BY <3>1, <4>5, Zenon DEF LoadingInv
        <5>3. configValue' = [configValue EXCEPT !["channels"] = Merged("channels")]
          BY <5>1, ComputeIs, Zenon DEF c
        <5>4. AfterChannels(configValue')
          BY <1>1, <5>2, <5>3, ChannelsStage, Zenon
        <5> QED BY <5>1, <5>4, DoneAre, Zenon DEF LoadingInv
      <4> QED BY <1>3, <4>1, <4>2, <4>3, <4>4, <4>5, Zenon
    <3> QED BY <1>2, <3>2, StagesStay, Zenon
  <2> QED BY <2>1, <2>2, <2>3, Zenon DEF StageInv
<1> QED BY <1>6, <1>7, <1>9, <1>10, Zenon DEF ConfigInv

LEMMA ThrowStep == ASSUME ConfigInv, ComputeThrows PROVE ConfigInv'
<1> DEFINE T == Seq(Word)
           en == "env_name"
           ch == "channels"
           m == Merged(en)
<1>1. PcInv /\ GivenTyped /\ ValuesTyped /\ ListStays /\ StageInv
  BY InvUnfolds
<1>2. /\ configPc = "loading" /\ configPc' = "failed" /\ NextToCompute = en /\ NameAndPrefix
      /\ loadingSequence' = loadingSequence /\ given' = given /\ loadsSince' = loadsSince
      /\ apiConfigured' = apiConfigured /\ cliConfig' = cliConfig /\ rcChannels' = rcChannels
  BY DEF ComputeThrows, Throws, sequenceVars
<1>3. configValue' = [configValue EXCEPT ![en] = m]
  BY <1>2, Zenon DEF ComputeThrows
<1>4. InOrder /\ computed \in {{}, Done1, Done2, Done3, Done4} /\ loadsSince \in Nat
  <2>1. configPc # "sequencing"
    BY <1>2
  <2> QED BY <1>1, <1>2, <2>1, Zenon DEF PcInv
<1>5. computed = Done2
  <2>1. /\ en # "file_specs" /\ en # "spec_file_env_name" /\ en # "target_prefix" /\ en # "channels"
    OBVIOUS
  <2> QED BY <1>2, <1>4, <2>1, NextOf, Zenon
<1>6. en \in Tracked /\ ch \in Tracked /\ ch # en /\ configValue \in [Tracked -> T] /\ m \in T
  <2>1. en \in Tracked /\ ch \in Tracked /\ ch # en
    BY DEF Tracked
  <2> QED BY <1>1, <2>1, MergedTyped, Zenon DEF ValuesTyped
<1>7. configValue' \in [Tracked -> T] /\ configValue'[ch] = configValue[ch]
  <2> HIDE DEF en, ch, m, T
  <2> QED BY <1>3, <1>6, OneSet
<1>8. ValuesTyped' /\ ListStays' /\ GivenTyped'
  <2>1. ValuesTyped'
    BY <1>1, <1>2, <1>7, Zenon DEF ValuesTyped
  <2>2. ListStays'
    BY <1>1, <1>2, <1>7, GivenSame, Zenon DEF ListStays
  <2> QED BY <1>1, <1>2, <2>1, <2>2, GivenSame, Zenon
<1>9. PcInv'
  <2>1. InOrder'
    BY <1>2, <1>4, Zenon DEF InOrder, Comes, Position
  <2> QED BY <1>2, <1>4, <2>1 DEF PcInv
<1>10. StageInv'
  <2>1. loadsSince' # 0
    <3>1. configPc \notin {"sequencing", "idle"}
      BY <1>2
    <3> QED BY <1>1, <1>2, <3>1, Zenon DEF StageInv
  <2>2. ASSUME loadsSince' = 1 PROVE (Cli("env_name") # NoValue /\ Cli("target_prefix") # NoValue)'
    <3>1. configPc \in {"loading", "loaded"} /\ loadsSince = 1
      BY <1>2, <2>2
    <3>2. LoadingInv(computed, configValue, apiConfigured, cliConfig, rcChannels)
      BY <1>1, <3>1, Zenon DEF StageInv
    <3>3. AfterFileName(configValue, apiConfigured, cliConfig)
      BY <1>5, <3>2, Zenon DEF LoadingInv
    <3>4. cliConfig["env_name"] = Cli("env_name") /\ cliConfig["target_prefix"] = Cli("target_prefix")
      BY <3>3, Zenon DEF AfterFileName, AfterFile
    <3>5. Cli("env_name") # NoValue /\ Cli("target_prefix") # NoValue
      BY <1>2, <3>4, Zenon DEF NameAndPrefix
    <3> QED BY <1>2, <3>5, GivenSame, Zenon DEF Cli
  <2>3. configPc' \notin {"loading", "loaded"}
    BY <1>2
  <2> QED BY <2>1, <2>2, <2>3, Zenon DEF StageInv
<1> QED BY <1>8, <1>9, <1>10, Zenon DEF ConfigInv

LEMMA TeardownStep ==
  ASSUME ConfigInv, OperationTeardown, configPc' = "idle", configPc # "sequencing",
         loadingSequence' = loadingSequence
  PROVE  ConfigInv'
<1> DEFINE T == Seq(Word)
           S == SingleOpLifetime
           ch == "channels"
<1>1. PcInv /\ GivenTyped /\ ValuesTyped /\ ListStays /\ StageInv
  BY InvUnfolds
<1>2. /\ cliConfig' = [c \in Tracked |-> NoValue] /\ apiConfigured' = apiConfigured \ S
      /\ configValue' = [c \in Tracked |-> IF c \in S THEN DefaultValue[c] ELSE configValue[c]]
      /\ rcChannels' = rcChannels /\ loadsSince' = 0
      /\ given' = {g \in given : g[1] = "API" /\ g[2] \notin SingleOpLifetime}
  BY DEF OperationTeardown, ClearedAtTeardown
<1>3. /\ \A c : GivenFor("CLI", c)' = NoValue
      /\ \A c \in SingleOpLifetime : GivenFor("API", c)' = NoValue
      /\ \A c : c \notin SingleOpLifetime => GivenFor("API", c)' = GivenFor("API", c)
  BY <1>2, GivenLess, Zenon
<1>4. ch \in Tracked /\ ch \notin S /\ S = {"spec_file_env_name", "env_name", "target_prefix"}
      /\ "file_specs" \notin S
  BY DEF Tracked, SingleOpLifetime
<1>5. NoValue \in T /\ <<>> \in T
  <2>1. "no value" \in Word
    BY Zenon DEF Word
  <2> QED BY <2>1, TwoWords, Zenon DEF NoValue
<1>6. configValue \in [Tracked -> T] /\ rcChannels \in Seq(T)
      /\ apiConfigured \subseteq Tracked \ {"file_specs", "spec_file_env_name"}
  BY <1>1, Zenon DEF ValuesTyped
<1> HIDE DEF T, S, ch
<1>7. /\ cliConfig' \in [Tracked -> T] /\ configValue' \in [Tracked -> T]
      /\ \A c \in Tracked : cliConfig'[c] = NoValue
      /\ configValue'[ch] = configValue[ch]
  <2>1. cliConfig' \in [Tracked -> T] /\ \A c \in Tracked : cliConfig'[c] = NoValue
    BY <1>2, <1>5, Zenon
  <2>2. \A c \in Tracked : DefaultValue[c] = <<>>
    BY Zenon DEF DefaultValue
  <2>3. \A c \in Tracked : (IF c \in S THEN DefaultValue[c] ELSE configValue[c]) \in T
    BY <1>5, <1>6, <2>2, Zenon
  <2>4. configValue' \in [Tracked -> T]
    BY <1>2, <2>3, Zenon
  <2>5. configValue'[ch] = configValue[ch]
    BY <1>2, <1>4, Zenon
  <2> QED BY <2>1, <2>4, <2>5
<1>8. ValuesTyped'
  <2>1. apiConfigured' \subseteq Tracked \ {"file_specs", "spec_file_env_name"}
    BY <1>2, <1>6
  <2> QED BY <1>2, <1>6, <1>7, <2>1, Zenon DEF ValuesTyped, T
<1>9. GivenTyped'
  <2>1. \A c \in Tracked \ {"spec_file_env_name"} :
           GivenFor("API", c)' = NoValue \/ GivenFor("API", c)' \in ValuesFor(c)
    BY <1>1, <1>3, Zenon DEF GivenTyped
  <2>2. GivenFor("API", "spec_file_env_name")' = NoValue
    BY <1>1, <1>3, Zenon DEF GivenTyped
  <2>3. GivenFor("API", "file_specs")' = NoValue
    BY <1>1, <1>3, Zenon DEF GivenTyped
  <2> QED BY <1>3, <2>1, <2>2, <2>3, Zenon DEF GivenTyped
<1>10. ListStays'
  <2>1. ch \in apiConfigured' <=> ch \in apiConfigured
    BY <1>2, <1>4, Zenon
  <2>2. GivenFor("API", ch)' = GivenFor("API", ch)
    BY <1>3, <1>4, Zenon DEF S
  <2> QED BY <1>1, <1>7, <2>1, <2>2, Zenon DEF ListStays, ch
<1>11. Fresh(configValue, apiConfigured, cliConfig)'
  <2>1. \A c \in {"env_name", "target_prefix"} : c \notin apiConfigured' /\ c \in SingleOpLifetime
    BY <1>2, <1>4 DEF S
  <2>2. \A c \in {"env_name", "target_prefix"} : c \notin apiConfigured' /\ Api(c)' = NoValue
    BY <1>3, <2>1, Zenon DEF Api
  <2>3. \A c \in Tracked : cliConfig'[c] = Cli(c)'
    BY <1>3, <1>7, Zenon DEF Cli
  <2> QED BY <2>2, <2>3, Zenon DEF Fresh, ApiAsGiven
<1>12. PcInv'
  <2>1. InOrder'
    BY <1>1, Zenon DEF PcInv, InOrder, Comes, Position
  <2> QED BY <1>2, <2>1 DEF PcInv
<1>13. StageInv'
  <2>1. loadsSince' # 1 /\ configPc' \in {"sequencing", "idle"}
    BY <1>2
  <2> QED BY <1>11, <2>1, Zenon DEF StageInv
<1> QED BY <1>8, <1>9, <1>10, <1>12, <1>13, Zenon DEF ConfigInv

LEMMA EndOperationStep == ASSUME ConfigInv, EndOperation PROVE ConfigInv'
<1>1. /\ configPc \in {"loaded", "failed"} /\ configPc # "sequencing" /\ configPc' = "idle"
      /\ loadingSequence' = loadingSequence
  BY DEF EndOperation, sequenceVars
<1>2. CASE OperationTeardown
  BY <1>1, <1>2, TeardownStep
<1>3. CASE ~OperationTeardown
  <2>1. /\ cliConfig' = cliConfig /\ apiConfigured' = apiConfigured /\ configValue' = configValue
        /\ rcChannels' = rcChannels /\ given' = given /\ loadsSince' = loadsSince
    BY <1>3 DEF EndOperation
  <2>2. PcInv /\ GivenTyped /\ ValuesTyped /\ ListStays /\ StageInv
    BY InvUnfolds
  <2>3. GivenTyped' /\ ValuesTyped' /\ ListStays'
    BY <2>1, <2>2, ValuesStay
  <2>4. InOrder' /\ loadsSince' \in Nat
    BY <1>1, <2>1, <2>2, Zenon DEF PcInv, InOrder, Comes, Position
  <2>5. PcInv'
    BY <1>1, <2>4 DEF PcInv
  <2>6. StageInv'
    <3>1. configPc \notin {"sequencing", "idle"} /\ configPc' \notin {"loading", "loaded", "failed"}
      BY <1>1
    <3>2. loadsSince' # 0
      BY <2>1, <2>2, <3>1, Zenon DEF StageInv
    <3>3. configPc' \notin {"loading", "loaded"} /\ configPc' # "failed"
      BY <1>1
    <3> QED BY <3>2, <3>3, Zenon DEF StageInv
  <2> QED BY <2>3, <2>5, <2>6, Zenon DEF ConfigInv
<1> QED BY <1>2, <1>3

LEMMA SetConfigStep == ASSUME ConfigInv, SetConfig PROVE ConfigInv'
<1> DEFINE T == Seq(Word)
           ch == "channels"
<1>1. PcInv /\ GivenTyped /\ ValuesTyped /\ ListStays /\ StageInv
  BY InvUnfolds
<1>2. /\ configPc = "idle" /\ configPc' = "idle" /\ loadingSequence' = loadingSequence
      /\ rcChannels' = rcChannels /\ loadsSince' = loadsSince
  BY DEF SetConfig, sequenceVars
<1>3. PICK from \in {"API", "CLI"}, c \in Tracked \ {"spec_file_env_name"} : \E v \in ValuesFor(c) :
        /\ ~\E g \in given : g[1] = from /\ g[2] = c
        /\ given' = given \cup {<<from, c, v>>}
        /\ IF from = "CLI" THEN SetCli(c, v) ELSE c # "file_specs" /\ SetApi(c, v)
  BY DEF SetConfig
<1>4. PICK v \in ValuesFor(c) :
        /\ ~\E g \in given : g[1] = from /\ g[2] = c
        /\ given' = given \cup {<<from, c, v>>}
        /\ IF from = "CLI" THEN SetCli(c, v) ELSE c # "file_specs" /\ SetApi(c, v)
  BY <1>3
<1>5. /\ GivenFor(from, c)' = v
      /\ \A f, d : f # from \/ d # c => GivenFor(f, d)' = GivenFor(f, d)
  <2>1. Gives(from, c, v)
    BY <1>4, Zenon DEF Gives
  <2>2. GivenFor(from, c)' = v
    BY <2>1, GivenMore
  <2>3. \A f, d : f # from \/ d # c => GivenFor(f, d)' = GivenFor(f, d)
    BY <2>1, GivenMore
  <2> QED BY <2>2, <2>3
<1>6. /\ v \in T /\ v # NoValue
      /\ c = "channels" => v = <<"of the file", "x">>
  BY ValuesAre, Zenon
<1>7. /\ configValue \in [Tracked -> T] /\ cliConfig \in [Tracked -> T] /\ rcChannels \in Seq(T)
      /\ apiConfigured \subseteq Tracked \ {"file_specs", "spec_file_env_name"}
  BY <1>1, Zenon DEF ValuesTyped
<1>8. c \in Tracked /\ c # "spec_file_env_name" /\ ch \in Tracked
  BY DEF Tracked
<1>9. InOrder' /\ loadsSince \in Nat
  <2>1. configPc # "sequencing"
    BY <1>2
  <2> QED BY <1>1, <1>2, <2>1, Zenon DEF PcInv, InOrder, Comes, Position
<1>10. PcInv'
  BY <1>2, <1>9 DEF PcInv
<1>11. "API" # "CLI"
  OBVIOUS
<1>12. GivenTyped'
  <2>1. ASSUME NEW f \in {"API", "CLI"}, NEW d \in Tracked \ {"spec_file_env_name"}
        PROVE  GivenFor(f, d)' = NoValue \/ GivenFor(f, d)' \in ValuesFor(d)
    <3>1. CASE f = from /\ d = c
      BY <1>4, <1>5, <3>1, Zenon
    <3>2. CASE f # from \/ d # c
      BY <1>1, <1>5, <3>2, Zenon DEF GivenTyped
    <3> QED BY <3>1, <3>2
  <2>2. GivenFor("API", "file_specs")' = NoValue
    <3>1. "API" # from \/ "file_specs" # c
      BY <1>4, <1>11, Zenon
    <3> QED BY <1>1, <1>5, <3>1, Zenon DEF GivenTyped
  <2>3. GivenFor("API", "spec_file_env_name")' = NoValue /\ GivenFor("CLI", "spec_file_env_name")' = NoValue
    BY <1>1, <1>5, <1>8, Zenon DEF GivenTyped
  <2> QED BY <2>1, <2>2, <2>3, Zenon DEF GivenTyped
<1>13. StageInv' <=> (loadsSince = 0 => Fresh(configValue, apiConfigured, cliConfig)')
  <2>1. configPc' \in {"sequencing", "idle"} /\ configPc' \notin {"loading", "loaded"} /\ configPc' # "failed"
    BY <1>2
  <2> QED BY <1>2, <2>1, Zenon DEF StageInv
<1>14. loadsSince = 0 => Fresh(configValue, apiConfigured, cliConfig)
  BY <1>1, Zenon DEF StageInv
<1>15. CASE from = "CLI"
  <2>1. cliConfig' = [cliConfig EXCEPT ![c] = v] /\ configValue' = configValue /\ apiConfigured' = apiConfigured
    BY <1>4, <1>15 DEF SetCli
  <2>2. /\ cliConfig' \in [Tracked -> T] /\ cliConfig'[c] = v
        /\ \A d \in Tracked : d # c => cliConfig'[d] = cliConfig[d]
    <3> HIDE DEF T, ch
    <3> QED BY <1>6, <1>7, <1>8, <2>1, OneSet
  <2>3. \A d : GivenFor("API", d)' = GivenFor("API", d)
    BY <1>5, <1>11, <1>15, Zenon
  <2>4. ValuesTyped'
    BY <1>2, <1>7, <2>1, <2>2, Zenon DEF ValuesTyped
  <2>5. ListStays'
    BY <1>1, <2>1, <2>3, Zenon DEF ListStays
  <2>6. ASSUME loadsSince = 0 PROVE Fresh(configValue, apiConfigured, cliConfig)'
    <3>1. ASSUME NEW d \in Tracked PROVE cliConfig'[d] = GivenFor("CLI", d)'
      <4>1. cliConfig[d] = GivenFor("CLI", d)
        BY <1>14, <2>6, Zenon DEF Fresh, Cli
      <4>2. CASE d = c
        BY <1>5, <1>15, <2>2, <4>2, Zenon
      <4>3. CASE d # c
        BY <1>5, <1>15, <2>2, <4>1, <4>3, Zenon
      <4> QED BY <4>2, <4>3
    <3>2. ApiAsGiven(configValue, apiConfigured)'
      BY <1>14, <2>1, <2>3, <2>6, Zenon DEF Fresh, ApiAsGiven, Api
    <3> QED BY <3>1, <3>2, Zenon DEF Fresh, Cli, ApiAsGiven
  <2> QED BY <1>10, <1>12, <1>13, <2>4, <2>5, <2>6, Zenon DEF ConfigInv
<1>16. CASE from = "API"
  <2>1. /\ configValue' = [configValue EXCEPT ![c] = v] /\ apiConfigured' = apiConfigured \cup {c}
        /\ cliConfig' = cliConfig /\ c # "file_specs"
    BY <1>4, <1>11, <1>16 DEF SetApi
  <2>2. /\ configValue' \in [Tracked -> T] /\ configValue'[c] = v
        /\ \A d \in Tracked : d # c => configValue'[d] = configValue[d]
    <3> HIDE DEF T, ch
    <3> QED BY <1>6, <1>7, <1>8, <2>1, OneSet
  <2>3. /\ GivenFor("API", c)' = v /\ \A d : d # c => GivenFor("API", d)' = GivenFor("API", d)
        /\ \A d : GivenFor("CLI", d)' = GivenFor("CLI", d)
    BY <1>5, <1>11, <1>16, Zenon
  <2>4. ValuesTyped'
    <3>1. apiConfigured' \subseteq Tracked \ {"file_specs", "spec_file_env_name"}
      BY <1>7, <1>8, <2>1
    <3> QED BY <1>2, <1>7, <2>1, <2>2, <3>1, Zenon DEF ValuesTyped
  <2>5. ListStays'
    <3>1. CASE c = ch
      <4>1. ch \in apiConfigured' /\ configValue'[ch] = <<"of the file", "x">> /\ GivenFor("API", ch)' # NoValue
        BY <1>6, <2>1, <2>2, <2>3, <3>1
      <4>2. StartsAsGiven(<<"of the file", "x">>)
        <5>1. \A a, b : Len(<<a, b>>) = 2 /\ <<a, b>>[1] = a /\ <<a, b>>[2] = b
          OBVIOUS
        <5>2. 2 >= 2
          OBVIOUS
        <5> QED BY <5>1, <5>2, Zenon DEF StartsAsGiven
      <4> QED BY <4>1, <4>2, Zenon DEF ListStays
    <3>2. CASE c # ch
      <4>1. (ch \in apiConfigured' <=> ch \in apiConfigured) /\ configValue'[ch] = configValue[ch]
            /\ GivenFor("API", ch)' = GivenFor("API", ch)
        BY <1>8, <2>1, <2>2, <2>3, <3>2
      <4> QED BY <1>1, <4>1, Zenon DEF ListStays
    <3> QED BY <3>1, <3>2
  <2>6. ASSUME loadsSince = 0 PROVE Fresh(configValue, apiConfigured, cliConfig)'
    <3>1. /\ \A d \in Tracked : cliConfig[d] = GivenFor("CLI", d)
          /\ \A d \in {"env_name", "target_prefix"} :
                /\ d \in apiConfigured <=> GivenFor("API", d) # NoValue
                /\ GivenFor("API", d) # NoValue => configValue[d] = GivenFor("API", d)
      BY <1>14, <2>6, Zenon DEF Fresh, ApiAsGiven, Api, Cli
    <3>2. \A d \in Tracked : cliConfig'[d] = GivenFor("CLI", d)'
      BY <2>1, <2>3, <3>1, Zenon
    <3>3. ASSUME NEW d \in {"env_name", "target_prefix"}
          PROVE  /\ d \in apiConfigured' <=> GivenFor("API", d)' # NoValue
                 /\ GivenFor("API", d)' # NoValue => configValue'[d] = GivenFor("API", d)'
      <4>1. d \in Tracked
        BY DEF Tracked
      <4>2. CASE d = c
        BY <1>6, <2>1, <2>2, <2>3, <4>2
      <4>3. CASE d # c
        <5>1. d \in apiConfigured' <=> d \in apiConfigured
          BY <2>1, <4>3
        <5> QED BY <2>2, <2>3, <3>1, <4>1, <4>3, <5>1, Zenon
      <4> QED BY <4>2, <4>3
    <3> QED BY <3>2, <3>3, Zenon DEF Fresh, ApiAsGiven, Api, Cli
  <2> QED BY <1>10, <1>12, <1>13, <2>4, <2>5, <2>6, Zenon DEF ConfigInv
<1> QED BY <1>15, <1>16

LEMMA StutterStep == ASSUME ConfigInv, UNCHANGED configVars PROVE ConfigInv'
<1>1. /\ given' = given /\ configValue' = configValue /\ apiConfigured' = apiConfigured
      /\ cliConfig' = cliConfig /\ rcChannels' = rcChannels /\ loadingSequence' = loadingSequence
      /\ configPc' = configPc /\ computed' = computed /\ loads' = loads /\ loadsSince' = loadsSince
      /\ targetVar' = targetVar /\ rcAt' = rcAt
  BY DEF configVars
<1>2. PcInv /\ GivenTyped /\ ValuesTyped /\ ListStays /\ StageInv
  BY InvUnfolds
<1>3. GivenTyped' /\ ValuesTyped' /\ ListStays'
  BY <1>1, <1>2, ValuesStay
<1>4. InOrder => InOrder'
  BY <1>1, Zenon DEF InOrder, Comes, Position
<1>5. PcInv'
  BY <1>1, <1>2, <1>4, Zenon DEF PcInv
<1>6. StageInv'
  <2>1. Fresh(configValue, apiConfigured, cliConfig) => Fresh(configValue, apiConfigured, cliConfig)'
    BY <1>1, GivenSame, Zenon
  <2>2. LoadingInv(computed, configValue, apiConfigured, cliConfig, rcChannels)
        => LoadingInv(computed, configValue, apiConfigured, cliConfig, rcChannels)'
    BY <1>1, StagesStay, Zenon
  <2>3. /\ Cli("env_name")' = Cli("env_name") /\ Cli("target_prefix")' = Cli("target_prefix")
    BY <1>1, GivenSame, Zenon DEF Cli
  <2> QED BY <1>1, <1>2, <2>1, <2>2, <2>3, Zenon DEF StageInv
<1> QED BY <1>3, <1>5, <1>6, Zenon DEF ConfigInv

\* Once the hooks are in the order that TLC computes from the declarations,
\* the first operation after a teardown is for the environment and the channels
\* it was asked for, whatever was given, read and loaded before it
\* (configuration.cpp: compute, env_name_hook, target_prefix_hook,
\* operation_teardown).
THEOREM OperationsStayIndependent ==
  ConfigSpec /\ []LoadingIsInOrder => []OperationsAreIndependent
<1>1. ConfigInit => ConfigInv
  BY InvInit
<1>2. OrderGiven
  BY HooksGiveTheOrder, Zenon DEF OrderGiven
<1>3. ConfigInv /\ [ConfigNext]_configVars /\ LoadingIsInOrder' /\ OrderGiven' => ConfigInv'
  BY AddNextStep, BeginLoadStep, ComputeStep, ThrowStep, EndOperationStep, SetConfigStep, StutterStep, Zenon
     DEF ConfigNext
<1>4. ConfigInv => OperationsAreIndependent
  BY InvIsEnough
<1> QED BY <1>1, <1>2, <1>3, <1>4, PTL DEF ConfigSpec

\* As ConfigurationIsRight has it, with that order itself.
COROLLARY ConfigurationStaysRight ==
  ConfigSpec /\ []LoadingIsInOrder => []ConfigurationIsRight
<1>1. LoadingIsInOrder /\ OperationsAreIndependent => ConfigurationIsRight
  BY Zenon DEF ConfigurationIsRight
<1> QED BY <1>1, OperationsStayIndependent, PTL

\* What the user writes is taken as it was meant, whatever the environments, the
\* values, the shells, the prefixes and the expressions: the three parts keep
\* nothing of each other, and each keeps its own promise.
THEOREM SettingsStayRight ==
  SettingsSpec /\ []LoadingIsInOrder => []SettingsAreRight
<1>1. ConfigurationIsRight /\ StartUpFilesAreRight /\ ExpressionTypeOK /\ ExpressionUnderstood
      => SettingsAreRight
  BY Zenon DEF SettingsAreRight
<1> QED BY <1>1, ConfigurationStaysRight, StartUpFilesStayRight, ExpressionsAreUnderstood, PTL
       DEF SettingsSpec
=============================================================================
