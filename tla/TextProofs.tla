----------------------------- MODULE TextProofs -----------------------------
(***************************************************************************)
(* Proofs about texts and their way through the handlers, for texts of any *)
(* words and any length.                                                   *)
(***************************************************************************)
EXTENDS TextEvents, Recursion

\* What find returns.
LEMMA FindIs ==
  ASSUME NEW S, NEW s \in Seq(S), NEW d, NEW p \in Nat \ {0}
  PROVE  /\ Find(s, d, p) \in 1 .. Len(s) + 1
         /\ p <= Len(s) + 1 => Find(s, d, p) >= p
         /\ \A i \in p .. Len(s) : i < Find(s, d, p) => s[i] # d
         /\ Find(s, d, p) <= Len(s) => s[Find(s, d, p)] = d
<1> DEFINE found == {i \in p .. Len(s) : s[i] = d}
           least == CHOOSE i \in found : \A j \in found : i <= j
<1>1. Find(s, d, p) = IF found = {} THEN Len(s) + 1 ELSE least
  BY DEF Find
<1>2. found # {} => least \in found /\ \A j \in found : least <= j
  <2>1. found \subseteq 0 .. Len(s) /\ Len(s) \in Nat
    OBVIOUS
  <2> HIDE DEF found
  <2> QED
    BY <2>1, HasLeast
<1>3. \A i : i \in found <=> i \in p .. Len(s) /\ s[i] = d
  OBVIOUS
<1> HIDE DEF found, least
<1>4. CASE found = {}
  BY <1>1, <1>3, <1>4
<1>5. CASE found # {}
  <2>1. Find(s, d, p) = least /\ least \in found /\ \A j \in found : least <= j
    BY <1>1, <1>2, <1>5
  <2>2. least \in p .. Len(s) /\ s[least] = d
    BY <1>3, <2>1
  <2>3. \A i \in p .. Len(s) : i < least => s[i] # d
    BY <1>3, <2>1, <2>2
  <2> QED
    BY <2>1, <2>2, <2>3
<1> QED
  BY <1>4, <1>5

-----------------------------------------------------------------------------
(* StringTokenize, by the steps of its function.                           *)

Token(s, d, p) ==
  IF p = Find(s, d, p) THEN << >> ELSE <<SubSeq(s, p, Find(s, d, p) - 1)>>

Tokenizes(f, s, d) ==
  /\ \A p \in 1 .. Len(s) + 2 :
       f[p] = IF Find(s, d, p) >= Len(s) THEN Token(s, d, p)
              ELSE Token(s, d, p) \o f[Find(s, d, p) + 1]
  /\ StringTokenize(s, d) = f[1]

LEMMA TokenType ==
  ASSUME NEW S, NEW s \in Seq(S), NEW d, NEW p \in 1 .. Len(s) + 2
  PROVE  Token(s, d, p) \in Seq(Seq(S))
<1> DEFINE c == Find(s, d, p)
<1>1. c \in 1 .. Len(s) + 1
  BY FindIs
<1> HIDE DEF c
<1>2. SubSeq(s, p, c - 1) \in Seq(S)
  <2>1. \A i \in p .. c - 1 : s[i] \in S
    BY <1>1
  <2>2. p \in Int /\ c - 1 \in Int
    BY <1>1
  <2> QED
    BY <2>1, <2>2, SubSeqProperties
<1> DEFINE x == SubSeq(s, p, c - 1)
<1>3. Token(s, d, p) = IF p = c THEN << >> ELSE <<x>>
  BY DEF Token, c
<1> HIDE DEF x
<1> QED
  BY <1>2, <1>3 DEF x

LEMMA TokenizeBy ==
  ASSUME NEW S, NEW s \in Seq(S), NEW d
  PROVE  \E f \in [1 .. Len(s) + 2 -> Seq(Seq(S))] : Tokenizes(f, s, d)
<1> DEFINE n == Len(s)
           D == 1 .. n + 2
           V == Seq(Seq(S))
           cut(p) == Find(s, d, p)
           token(p) == Token(s, d, p)
           rank == [p \in D |-> n + 2 - p]
           next == [p \in D |-> IF cut(p) >= n THEN p ELSE cut(p) + 1]
           step == [x \in D \X V |-> token(x[1]) \o x[2]]
           base == [p \in D |-> token(p)]
           Eq(f) == f = [p \in D |-> IF cut(p) >= n THEN token(p)
                                     ELSE token(p) \o f[cut(p) + 1]]
<1>1. n \in Nat
  OBVIOUS
<1>2. ASSUME NEW p \in D
      PROVE  /\ cut(p) \in 1 .. n + 1 /\ token(p) \in V
             /\ cut(p) < n => cut(p) + 1 \in D /\ cut(p) >= p
  <2>1. cut(p) \in 1 .. n + 1 /\ (p <= n + 1 => cut(p) >= p)
    BY FindIs
  <2>2. token(p) \in V
    BY TokenType
  <2>3. p = n + 2 => cut(p) = n + 1
    <3>1. {i \in n + 2 .. n : s[i] = d} = {}
      BY <1>1
    <3> QED
      BY <3>1 DEF Find
  <2> HIDE DEF cut, token
  <2> QED
    BY <1>1, <2>1, <2>2, <2>3
<1> HIDE DEF n, cut, token
<1>3. rank \in [D -> 0 .. n + 2] /\ n + 2 \in Nat
  BY <1>1
<1>4. next \in [D -> D]
  <2>1. ASSUME NEW p \in D PROVE next[p] \in D
    <3>1. CASE cut(p) >= n
      BY <3>1
    <3>2. CASE ~(cut(p) >= n)
      <4>1. next[p] = cut(p) + 1
        BY <3>2
      <4>2. cut(p) < n
        BY <1>1, <1>2, <3>2
      <4> QED
        BY <1>2, <4>1, <4>2
    <3> QED
      BY <3>1, <3>2
  <2>2. next = [p \in D |-> next[p]]
    OBVIOUS
  <2> HIDE DEF next, D
  <2> QED
    BY <2>1, <2>2
<1>5. step \in [D \X V -> V]
  <2>1. \A a, b \in V : a \o b \in V
    OBVIOUS
  <2>2. \A x \in D \X V : token(x[1]) \in V /\ x[2] \in V
    BY <1>2
  <2> HIDE DEF V, D
  <2> QED
    BY <2>1, <2>2
<1>6. base \in [D -> V]
  BY <1>2
<1>7. PICK g \in [D -> V] : Solves(g, D, rank, next, step, base)
  <2> HIDE DEF D, V, rank, next, step, base
  <2> QED
    BY <1>3, <1>4, <1>5, <1>6, RecursionDefines, Zenon
<1>8. ASSUME NEW p \in D
      PROVE  g[p] = IF cut(p) >= n THEN token(p) ELSE token(p) \o g[cut(p) + 1]
  <2>1. g[p] = IF rank[next[p]] < rank[p] THEN step[<<p, g[next[p]]>>]
               ELSE base[p]
    BY <1>7 DEF Solves
  <2>2. CASE cut(p) >= n
    <3>1. next[p] = p
      BY <2>2
    <3>2. rank[next[p]] = n + 2 - p /\ rank[p] = n + 2 - p
      BY <3>1
    <3>3. ~(rank[next[p]] < rank[p]) /\ base[p] = token(p)
      BY <1>1, <3>2
    <3> HIDE DEF rank, next, step, base, D, V
    <3> QED
      BY <2>1, <2>2, <3>3
  <2>3. CASE ~(cut(p) >= n)
    <3> DEFINE q == cut(p) + 1
    <3>1. next[p] = q
      BY <2>3
    <3>2. q \in D /\ q > p
      <4> DEFINE c == cut(p)
      <4>1. c \in 1 .. n + 1 /\ ~(c >= n)
        BY <1>2, <2>3
      <4>2. c < n => c + 1 \in D /\ c >= p
        BY <1>2
      <4> HIDE DEF c, rank, next, step, base, Eq
      <4>3. c + 1 \in D /\ c + 1 > p
        BY <1>1, <4>1, <4>2
      <4> QED
        BY <4>3 DEF c
    <3> HIDE DEF q
    <3>3. rank[q] = n + 2 - q /\ rank[p] = n + 2 - p
      BY <3>2
    <3>4. rank[q] < rank[p]
      BY <1>1, <3>2, <3>3
    <3>5. g[q] \in V
      BY <3>2
    <3>6. step[<<p, g[q]>>] = token(p) \o g[q]
      <4>1. <<p, g[q]>> \in D \X V
        BY <3>5
      <4> HIDE DEF D, V
      <4> QED
        BY <4>1
    <3> HIDE DEF rank, next, step, base, D, V
    <3> QED
      BY <2>1, <2>3, <3>1, <3>4, <3>6 DEF q
  <2> QED
    BY <2>2, <2>3
<1>9. Eq(g)
  <2> DEFINE e(p) == IF cut(p) >= n THEN token(p) ELSE token(p) \o g[cut(p) + 1]
  <2>1. \A p \in D : g[p] = e(p)
    BY <1>8
  <2>2. g = [p \in D |-> e(p)]
    <3> HIDE DEF e, D, V
    <3> QED
      BY <2>1
  <2> QED
    BY <2>2
<1> DEFINE f == CHOOSE h : Eq(h)
<1>10. Eq(f)
  <2> HIDE DEF Eq
  <2> QED
    BY <1>9
<1>11. StringTokenize(s, d) = f[1]
  BY DEF StringTokenize, n, cut, token, Token
<1> HIDE DEF f
<1>12. ASSUME NEW p \in D
       PROVE  f[p] = IF cut(p) >= n THEN token(p) ELSE token(p) \o f[cut(p) + 1]
  <2> HIDE DEF D, V, rank, next, step, base
  <2> QED
    BY <1>10, Zenon
<1>13. \A p \in 0 .. n + 2 : p >= 1 => f[p] \in V
  <2> DEFINE T == {p \in 0 .. n + 2 : p >= 1 => f[p] \in V}
  <2>1. ASSUME NEW p \in 0 .. n + 2, \A j \in p + 1 .. n + 2 : j \in T
        PROVE  p \in T
    <3>1. CASE p = 0
      BY <3>1
    <3>2. CASE p # 0
      <4>1. p \in D
        BY <3>2
      <4>2. CASE cut(p) >= n
        <5>1. f[p] = token(p)
          BY <1>12, <4>1, <4>2
        <5> HIDE DEF Eq, V, D
        <5>2. f[p] \in V
          BY <1>2, <4>1, <5>1
        <5> QED
          BY <5>2
      <4>3. CASE ~(cut(p) >= n)
        <5> DEFINE q == cut(p) + 1
        <5>1. q \in p + 1 .. n + 2 /\ q >= 1
          <6> DEFINE c == cut(p)
          <6>1. c \in 1 .. n + 1 /\ ~(c >= n)
            BY <1>2, <4>1, <4>3
          <6>2. c < n => c >= p
            BY <1>2, <4>1
          <6> HIDE DEF c
          <6>3. c + 1 \in p + 1 .. n + 2 /\ c + 1 >= 1
            BY <1>1, <4>1, <6>1, <6>2
          <6> QED
            BY <6>3 DEF c
        <5>2. f[p] = token(p) \o f[q]
          BY <1>12, <4>1, <4>3
        <5> HIDE DEF q, Eq, D
        <5>3. f[q] \in V
          BY <2>1, <5>1
        <5>4. token(p) \in V
          BY <1>2, <4>1
        <5>5. f[p] \in V
          BY <5>2, <5>3, <5>4
        <5> HIDE DEF V
        <5> QED
          BY <5>5
      <4> QED
        BY <4>2, <4>3
    <3> QED
      BY <3>1, <3>2
  <2>2. 0 .. n + 2 \subseteq T
    <3> HIDE DEF T
    <3> QED
      BY <1>3, <2>1, Falls
  <2> QED
    BY <2>2
<1>14. f = [p \in D |-> f[p]] /\ \A p \in D : p \in 0 .. n + 2 /\ p >= 1
  BY <1>10
<1> HIDE DEF Eq
<1>15. f \in [D -> V]
  <2> HIDE DEF V, D
  <2> QED
    BY <1>13, <1>14
<1>16. Tokenizes(f, s, d)
  BY <1>11, <1>12 DEF Tokenizes, n, cut, token
<1> QED
  BY <1>15, <1>16 DEF n

\* Tokens are sequences of what the text is one of.
LEMMA TokenizeType ==
  ASSUME NEW S, NEW s \in Seq(S), NEW d
  PROVE  StringTokenize(s, d) \in Seq(Seq(S))
<1>1. PICK f \in [1 .. Len(s) + 2 -> Seq(Seq(S))] : Tokenizes(f, s, d)
  BY TokenizeBy, Zenon
<1>2. 1 \in 1 .. Len(s) + 2
  OBVIOUS
<1> QED
  BY <1>1, <1>2 DEF Tokenizes
-----------------------------------------------------------------------------
(* What it splits into.                                                    *)

\* Where pieces begin, from p on, and which of these are before x.
StartsFrom(s, d, p) == {i \in p .. Len(s) : \E piece \in Pieces(s, d) : piece[1] = i}
StartsWithin(s, d, p, x) == {i \in StartsFrom(s, d, p) : i < x}

LEMMA StartsFinite ==
  ASSUME NEW s, Len(s) \in Nat, NEW d, NEW p \in Nat, NEW x
  PROVE  /\ IsFiniteSet(StartsFrom(s, d, p)) /\ IsFiniteSet(StartsWithin(s, d, p, x))
         /\ Cardinality(StartsFrom(s, d, p)) \in Nat
         /\ Cardinality(StartsWithin(s, d, p, x)) \in Nat
<1>1. StartsFrom(s, d, p) \subseteq p .. Len(s) /\ IsFiniteSet(p .. Len(s))
  BY FS_Interval DEF StartsFrom
<1>2. StartsWithin(s, d, p, x) \subseteq p .. Len(s)
  BY <1>1 DEF StartsWithin
<1> QED
  BY <1>1, <1>2, FS_Subset, FS_CardinalityType

\* Behind a delimiter, the next piece is what lies before the next delimiter,
\* unless nothing does; and the one after it lies behind that.
LEMMA NextPiece ==
  ASSUME NEW S, NEW s \in Seq(S), NEW d, NEW p \in 1 .. Len(s),
         p = 1 \/ s[p - 1] = d, NEW c, c = Find(s, d, p)
  PROVE  /\ c \in p .. Len(s) + 1
         /\ \A piece \in Pieces(s, d) : piece[1] >= p =>
              \/ piece[1] >= c + 1
              \/ c > p /\ piece[1] = p /\ piece[2] = c - 1
         /\ c > p => <<p, c - 1>> \in Pieces(s, d)
<1>1. /\ c \in p .. Len(s) + 1
      /\ \A i \in p .. Len(s) : i < c => s[i] # d
      /\ c <= Len(s) => s[c] = d
  BY FindIs
<1>2. ASSUME NEW piece \in Pieces(s, d), piece[1] >= p, ~(piece[1] >= c + 1)
      PROVE  c > p /\ piece[1] = p /\ piece[2] = c - 1
  <2> DEFINE i == piece[1]
             j == piece[2]
  <2>1. /\ i \in 1 .. Len(s) /\ j \in 1 .. Len(s) /\ i <= j
        /\ \A k \in i .. j : s[k] # d
        /\ i = 1 \/ s[i - 1] = d
        /\ j = Len(s) \/ s[j + 1] = d
    BY DEF Pieces
  <2>2. i >= p /\ i <= c
    BY <1>1, <1>2, <2>1
  <2> HIDE DEF i, j
  <2>3. i = p
    <3>1. CASE i > p
      <4>1. i - 1 \in p .. Len(s) /\ i - 1 < c /\ i # 1
        BY <1>1, <2>1, <2>2, <3>1
      <4> QED
        BY <1>1, <2>1, <4>1
    <3> QED
      BY <2>1, <2>2, <3>1
  <2>4. c > p
    <3>1. s[i] # d
      BY <2>1
    <3> QED
      BY <1>1, <2>1, <2>3, <3>1
  <2>5. ~(j < c - 1)
    <3> SUFFICES ASSUME j < c - 1 PROVE FALSE
      OBVIOUS
    <3>1. j + 1 \in p .. Len(s) /\ j + 1 < c /\ j # Len(s)
      BY <1>1, <2>1, <2>3
    <3> QED
      BY <1>1, <2>1, <3>1
  <2>6. ~(j > c - 1)
    <3> SUFFICES ASSUME j > c - 1 PROVE FALSE
      OBVIOUS
    <3>1. c \in i .. j /\ c <= Len(s)
      BY <1>1, <2>1, <2>3
    <3> QED
      BY <1>1, <2>1, <3>1
  <2> QED
    BY <1>1, <2>1, <2>3, <2>4, <2>5, <2>6 DEF i, j
<1>3. ASSUME c > p PROVE <<p, c - 1>> \in Pieces(s, d)
  <2>1. p \in 1 .. Len(s) /\ c - 1 \in 1 .. Len(s) /\ p <= c - 1
    BY <1>1, <1>3
  <2>2. \A k \in p .. c - 1 : s[k] # d
    BY <1>1
  <2>3. c - 1 = Len(s) \/ s[(c - 1) + 1] = d
    BY <1>1
  <2> QED
    BY <2>1, <2>2, <2>3 DEF Pieces
<1> QED
  BY <1>1, <1>2, <1>3

\* So do the places in which pieces begin.
LEMMA NextStarts ==
  ASSUME NEW S, NEW s \in Seq(S), NEW d, NEW p \in 1 .. Len(s),
         p = 1 \/ s[p - 1] = d, NEW c, c = Find(s, d, p)
  PROVE  /\ c > p => StartsFrom(s, d, p) = StartsFrom(s, d, c + 1) \cup {p}
         /\ ~(c > p) => StartsFrom(s, d, p) = StartsFrom(s, d, c + 1)
         /\ p \notin StartsFrom(s, d, c + 1)
<1>1. /\ c \in p .. Len(s) + 1
      /\ \A piece \in Pieces(s, d) : piece[1] >= p =>
           \/ piece[1] >= c + 1
           \/ c > p /\ piece[1] = p /\ piece[2] = c - 1
      /\ c > p => <<p, c - 1>> \in Pieces(s, d)
  BY NextPiece
<1>2. StartsFrom(s, d, c + 1) \subseteq StartsFrom(s, d, p)
  BY <1>1 DEF StartsFrom
<1>3. ASSUME NEW i \in StartsFrom(s, d, p)
      PROVE  i \in StartsFrom(s, d, c + 1) \/ (c > p /\ i = p)
  <2>1. PICK piece \in Pieces(s, d) : piece[1] = i
    BY DEF StartsFrom
  <2>2. i \in p .. Len(s)
    BY DEF StartsFrom
  <2>3. i >= c + 1 \/ (c > p /\ i = p)
    BY <1>1, <2>1, <2>2
  <2>4. i >= c + 1 => i \in c + 1 .. Len(s)
    BY <1>1, <2>2
  <2> QED
    BY <2>1, <2>3, <2>4 DEF StartsFrom
<1>4. c > p => p \in StartsFrom(s, d, p)
  <2> SUFFICES ASSUME c > p PROVE p \in StartsFrom(s, d, p)
    OBVIOUS
  <2>1. <<p, c - 1>> \in Pieces(s, d) /\ <<p, c - 1>>[1] = p
    BY <1>1
  <2>2. \E piece \in Pieces(s, d) : piece[1] = p
    BY <2>1
  <2>3. p \in p .. Len(s)
    OBVIOUS
  <2> QED
    BY <2>2, <2>3 DEF StartsFrom
<1>5. p \notin StartsFrom(s, d, c + 1)
  BY <1>1 DEF StartsFrom
<1> QED
  BY <1>2, <1>3, <1>4, <1>5

\* tokens are the pieces from p on, in order.
SplitFrom(tokens, s, d, p) ==
  /\ Len(tokens) = Cardinality(StartsFrom(s, d, p))
  /\ \A piece \in Pieces(s, d) : piece[1] >= p =>
       tokens[Cardinality(StartsWithin(s, d, p, piece[1])) + 1]
         = SubSeq(s, piece[1], piece[2])

\* The place of a piece is among the tokens.
LEMMA PlaceWithin ==
  ASSUME NEW S, NEW s \in Seq(S), NEW d, NEW p \in Nat,
         NEW piece \in Pieces(s, d), piece[1] >= p
  PROVE  /\ Cardinality(StartsWithin(s, d, p, piece[1])) \in Nat
         /\ Cardinality(StartsWithin(s, d, p, piece[1])) + 1
              <= Cardinality(StartsFrom(s, d, p))
<1> DEFINE x == piece[1]
           W == StartsWithin(s, d, p, x)
           A == StartsFrom(s, d, p)
<1>1. /\ IsFiniteSet(A) /\ IsFiniteSet(W)
      /\ Cardinality(A) \in Nat /\ Cardinality(W) \in Nat
  <2>1. Len(s) \in Nat
    OBVIOUS
  <2> QED
    BY <2>1, StartsFinite
<1>2. x \in A /\ x \notin W /\ W \subseteq A
  <2>1. x \in 1 .. Len(s) /\ x >= p
    BY DEF Pieces
  <2>2. x \in p .. Len(s)
    BY <2>1
  <2> QED
    BY <2>1, <2>2 DEF StartsFrom, StartsWithin
<1> HIDE DEF x, W, A
<1>3. Cardinality(W \cup {x}) = Cardinality(W) + 1
  BY <1>1, <1>2, FS_AddElement
<1>4. Cardinality(W \cup {x}) <= Cardinality(A)
  <2>1. W \cup {x} \subseteq A
    BY <1>2
  <2> QED
    BY <1>1, <2>1, FS_Subset
<1> QED
  BY <1>1, <1>3, <1>4 DEF x, W, A

\* Behind the end there are no pieces.
LEMMA SplitNothing ==
  ASSUME NEW S, NEW s \in Seq(S), NEW d, NEW p \in Nat, p > Len(s)
  PROVE  SplitFrom(<< >>, s, d, p)
<1>1. p .. Len(s) = {}
  OBVIOUS
<1>2. StartsFrom(s, d, p) = {}
  BY <1>1 DEF StartsFrom
<1>3. Cardinality(StartsFrom(s, d, p)) = 0
  BY <1>2, FS_EmptySet
<1>4. \A piece \in Pieces(s, d) : ~(piece[1] >= p)
  BY DEF Pieces
<1> QED
  BY <1>3, <1>4 DEF SplitFrom

\* What NextPiece says of the pieces from p on.
PiecesBehind(s, d, p, c) ==
  /\ c \in p .. Len(s) + 1
  /\ \A piece \in Pieces(s, d) : piece[1] >= p =>
       \/ piece[1] >= c + 1
       \/ c > p /\ piece[1] = p /\ piece[2] = c - 1

LEMMA NextPieces ==
  ASSUME NEW S, NEW s \in Seq(S), NEW d, NEW p \in 1 .. Len(s),
         p = 1 \/ s[p - 1] = d, NEW c, c = Find(s, d, p)
  PROVE  PiecesBehind(s, d, p, c)
<1>1. /\ c \in p .. Len(s) + 1
      /\ \A piece \in Pieces(s, d) : piece[1] >= p =>
           \/ piece[1] >= c + 1
           \/ c > p /\ piece[1] = p /\ piece[2] = c - 1
      /\ c > p => <<p, c - 1>> \in Pieces(s, d)
  BY NextPiece
<1> QED
  BY <1>1 DEF PiecesBehind

\* A token in front of the tokens behind the next delimiter.
LEMMA SplitMore ==
  ASSUME NEW S, NEW s \in Seq(S), NEW d, NEW p \in 1 .. Len(s),
         p = 1 \/ s[p - 1] = d, NEW c, c = Find(s, d, p), c > p,
         NEW rest \in Seq(Seq(S)), SplitFrom(rest, s, d, c + 1)
  PROVE  SplitFrom(<<SubSeq(s, p, c - 1)>> \o rest, s, d, p)
<1>1. /\ c \in p .. Len(s) + 1
      /\ \A piece \in Pieces(s, d) : piece[1] >= p =>
           \/ piece[1] >= c + 1
           \/ c > p /\ piece[1] = p /\ piece[2] = c - 1
  <2>1. PiecesBehind(s, d, p, c)
    BY NextPieces, Zenon
  <2> QED
    BY <2>1 DEF PiecesBehind
<1> DEFINE x == SubSeq(s, p, c - 1)
           tokens == <<x>> \o rest
           A == StartsFrom(s, d, p)
           B == StartsFrom(s, d, c + 1)
<1>2. A = B \cup {p} /\ p \notin B
  BY NextStarts
<1>3. x \in Seq(S)
  <2>1. \A i \in p .. c - 1 : s[i] \in S
    BY <1>1
  <2>2. p \in Int /\ c - 1 \in Int
    BY <1>1
  <2> QED
    BY <2>1, <2>2, SubSeqProperties
<1> HIDE DEF x
<1>4. /\ Len(tokens) = Len(rest) + 1 /\ tokens[1] = x
      /\ \A k \in 1 .. Len(rest) : tokens[k + 1] = rest[k]
  BY <1>3
<1>5. c + 1 \in Nat /\ Len(s) \in Nat
  BY <1>1
<1>6. IsFiniteSet(B) /\ Cardinality(B) \in Nat /\ Len(rest) = Cardinality(B)
  BY <1>5, StartsFinite DEF SplitFrom
<1>7. Len(tokens) = Cardinality(A)
  <2> HIDE DEF A, B, tokens
  <2>1. Cardinality(A) = Cardinality(B) + 1
    BY <1>2, <1>6, FS_AddElement
  <2> QED
    BY <1>4, <1>6, <2>1
<1>8. ASSUME NEW piece \in Pieces(s, d), piece[1] >= p
      PROVE  tokens[Cardinality(StartsWithin(s, d, p, piece[1])) + 1]
               = SubSeq(s, piece[1], piece[2])
  <2> DEFINE W == StartsWithin(s, d, p, piece[1])
             V == StartsWithin(s, d, c + 1, piece[1])
  <2>1. CASE piece[1] >= c + 1
    <3>1. W = V \cup {p} /\ p \notin V
      <4>1. p < piece[1]
        <5>1. piece[1] \in 1 .. Len(s)
          BY DEF Pieces
        <5> QED
          BY <1>1, <2>1, <5>1
      <4> QED
        BY <1>2, <4>1 DEF StartsWithin
    <3>2. Cardinality(V) \in Nat /\ Cardinality(V) + 1 <= Cardinality(B)
      BY <1>5, <2>1, PlaceWithin
    <3>3. IsFiniteSet(V)
      BY <1>5, StartsFinite
    <3>4. rest[Cardinality(V) + 1] = SubSeq(s, piece[1], piece[2])
      BY <2>1 DEF SplitFrom
    <3> HIDE DEF V, W, B, A, tokens
    <3>5. Cardinality(W) = Cardinality(V) + 1
      BY <3>1, <3>3, FS_AddElement
    <3>6. Cardinality(V) + 1 \in 1 .. Len(rest)
      BY <1>6, <3>2
    <3>7. tokens[(Cardinality(V) + 1) + 1] = rest[Cardinality(V) + 1]
      BY <1>4, <3>6
    <3>8. tokens[Cardinality(W) + 1] = SubSeq(s, piece[1], piece[2])
      BY <3>4, <3>5, <3>7
    <3> QED
      BY <3>8 DEF W
  <2>2. CASE ~(piece[1] >= c + 1)
    <3>1. piece[1] = p /\ piece[2] = c - 1
      BY <1>1, <1>8, <2>2
    <3>2. W = {}
      BY <3>1 DEF StartsWithin, StartsFrom
    <3>3. Cardinality(W) = 0
      BY <3>2, FS_EmptySet
    <3> HIDE DEF W, A, B, tokens
    <3>4. tokens[Cardinality(W) + 1] = SubSeq(s, piece[1], piece[2])
      BY <1>4, <3>1, <3>3 DEF x
    <3> QED
      BY <3>4 DEF W
  <2> QED
    BY <2>1, <2>2
<1> QED
  BY <1>7, <1>8 DEF SplitFrom, x

\* No token, where a delimiter is next.
LEMMA SplitSame ==
  ASSUME NEW S, NEW s \in Seq(S), NEW d, NEW p \in 1 .. Len(s),
         p = 1 \/ s[p - 1] = d, NEW c, c = Find(s, d, p), ~(c > p),
         NEW rest, SplitFrom(rest, s, d, c + 1)
  PROVE  SplitFrom(rest, s, d, p)
<1>1. StartsFrom(s, d, p) = StartsFrom(s, d, c + 1)
  BY NextStarts
<1>2. \A x : StartsWithin(s, d, p, x) = StartsWithin(s, d, c + 1, x)
  BY <1>1 DEF StartsWithin
<1>3. \A piece \in Pieces(s, d) : piece[1] >= p => piece[1] >= c + 1
  BY NextPiece
<1> QED
  BY <1>1, <1>2, <1>3 DEF SplitFrom

\* So the tokens from behind a delimiter on are the pieces from there on.
LEMMA SplitBehind ==
  ASSUME NEW S, NEW s \in Seq(S), NEW d,
         NEW f \in [1 .. Len(s) + 2 -> Seq(Seq(S))], Tokenizes(f, s, d),
         NEW p \in 1 .. Len(s) + 1, p = 1 \/ s[p - 1] = d,
         NEW c, c = Find(s, d, p),
         c < Len(s) => SplitFrom(f[c + 1], s, d, c + 1)
  PROVE  SplitFrom(f[p], s, d, p)
<1>1. Len(s) \in Nat /\ c \in p .. Len(s) + 1
  BY FindIs
<1>2. f[p] = IF c >= Len(s) THEN Token(s, d, p) ELSE Token(s, d, p) \o f[c + 1]
  <2>1. p \in 1 .. Len(s) + 2
    BY <1>1
  <2> QED
    BY <2>1 DEF Tokenizes
<1> DEFINE rest == IF c >= Len(s) THEN << >> ELSE f[c + 1]
<1>3. rest \in Seq(Seq(S))
  <2>1. CASE c >= Len(s)
    BY <2>1
  <2>2. CASE ~(c >= Len(s))
    <3>1. c + 1 \in 1 .. Len(s) + 2
      BY <1>1, <2>2
    <3>2. f[c + 1] \in Seq(Seq(S))
      BY <3>1
    <3> QED
      BY <2>2, <3>2
  <2> QED
    BY <2>1, <2>2
<1>4. SplitFrom(rest, s, d, c + 1)
  <2>1. CASE c >= Len(s)
    <3>1. c + 1 \in Nat /\ c + 1 > Len(s)
      BY <1>1, <2>1
    <3>2. SplitFrom(<< >>, s, d, c + 1)
      BY <3>1, SplitNothing
    <3> QED
      BY <2>1, <3>2
  <2>2. CASE ~(c >= Len(s))
    BY <1>1, <2>2
  <2> QED
    BY <2>1, <2>2
<1>5. f[p] = Token(s, d, p) \o rest
  <2>1. Token(s, d, p) \in Seq(Seq(S))
    <3>1. p \in 1 .. Len(s) + 2
      BY <1>1
    <3> QED
      BY <3>1, TokenType
  <2>2. Token(s, d, p) \o << >> = Token(s, d, p)
    BY <2>1
  <2> QED
    BY <1>2, <2>2
<1> HIDE DEF rest
<1>6. Token(s, d, p) = IF p = c THEN << >> ELSE <<SubSeq(s, p, c - 1)>>
  BY DEF Token
<1>7. CASE p = Len(s) + 1
  <2>1. p = c /\ c >= Len(s)
    BY <1>1, <1>7
  <2>2. f[p] = << >>
    BY <1>2, <1>6, <2>1
  <2>3. p \in Nat /\ p > Len(s)
    BY <1>1, <1>7
  <2> QED
    BY <2>2, <2>3, SplitNothing
<1>8. CASE p # Len(s) + 1 /\ c > p
  <2>1. p \in 1 .. Len(s) /\ p # c
    BY <1>1, <1>8
  <2>2. f[p] = <<SubSeq(s, p, c - 1)>> \o rest
    BY <1>5, <1>6, <2>1
  <2> QED
    <3>1. SplitFrom(<<SubSeq(s, p, c - 1)>> \o rest, s, d, p)
      BY <1>3, <1>4, <1>8, <2>1, SplitMore, ZenonT(30)
    <3> QED
      BY <2>2, <3>1
<1>9. CASE p # Len(s) + 1 /\ ~(c > p)
  <2>1. p \in 1 .. Len(s) /\ p = c
    BY <1>1, <1>9
  <2>2. f[p] = << >> \o rest
    BY <1>5, <1>6, <2>1
  <2>3. f[p] = rest
    BY <1>3, <2>2
  <2> QED
    BY <1>4, <1>9, <2>1, <2>3, SplitSame
<1> QED
  BY <1>7, <1>8, <1>9

\* StringTokenize splits every text.
LEMMA TokenizeIsSplit ==
  ASSUME NEW S, NEW s \in Seq(S), NEW d
  PROVE  IsSplit(StringTokenize(s, d), s, d)
<1>1. PICK f \in [1 .. Len(s) + 2 -> Seq(Seq(S))] : Tokenizes(f, s, d)
  BY TokenizeBy, Zenon
<1>2. Len(s) \in Nat /\ Len(s) + 1 \in Nat
  OBVIOUS
<1> DEFINE IsCut(p) == SplitFrom(f[p], s, d, p)
           behind(p) == p = 1 \/ s[p - 1] = d
           T == {p \in 0 .. Len(s) + 1 : p >= 1 /\ behind(p) => IsCut(p)}
<1>3. ASSUME NEW p \in 0 .. Len(s) + 1, \A q \in p + 1 .. Len(s) + 1 : q \in T
      PROVE  p \in T
  <2> SUFFICES ASSUME p >= 1, behind(p) PROVE IsCut(p)
    OBVIOUS
  <2> DEFINE c == Find(s, d, p)
  <2>1. p \in 1 .. Len(s) + 1
    OBVIOUS
  <2>2. c \in p .. Len(s) + 1 /\ (c <= Len(s) => s[c] = d)
    BY <2>1, FindIs
  <2> HIDE DEF c, IsCut
  <2>3. ASSUME c < Len(s) PROVE IsCut(c + 1)
    <3>1. c + 1 \in p + 1 .. Len(s) + 1 /\ c + 1 >= 1 /\ (c + 1) - 1 = c
      BY <1>2, <2>1, <2>2, <2>3
    <3>2. behind(c + 1)
      BY <1>2, <2>2, <2>3, <3>1
    <3>3. c + 1 \in T
      BY <1>3, <3>1
    <3> QED
      BY <3>1, <3>2, <3>3
  <2>4. c < Len(s) => SplitFrom(f[c + 1], s, d, c + 1)
    BY <2>3 DEF IsCut
  <2> QED
    BY <1>1, <2>1, <2>4, SplitBehind DEF c, IsCut
<1>4. 1 \in 0 .. Len(s) + 1 /\ behind(1)
  BY <1>2
<1>5. IsCut(1)
  <2>1. 0 .. Len(s) + 1 \subseteq T
    <3> HIDE DEF T
    <3> QED
      BY <1>2, <1>3, Falls
  <2>2. 1 \in T
    BY <1>4, <2>1
  <2> HIDE DEF IsCut
  <2> QED
    BY <1>4, <2>2
<1>6. SplitFrom(StringTokenize(s, d), s, d, 1)
  BY <1>1, <1>5 DEF Tokenizes
<1> DEFINE starts == {piece[1] : piece \in Pieces(s, d)}
<1>7. starts = StartsFrom(s, d, 1)
  BY DEF StartsFrom, Pieces
<1>8. ASSUME NEW piece \in Pieces(s, d)
      PROVE  /\ piece[1] >= 1
             /\ StartsWithin(s, d, 1, piece[1]) = {i \in starts : i < piece[1]}
  <2>1. piece[1] >= 1
    BY DEF Pieces
  <2> QED
    BY <1>7, <2>1 DEF StartsWithin
<1> QED
  BY <1>6, <1>7, <1>8 DEF SplitFrom, IsSplit

\* The first token, if the text does not begin with the delimiter.
LEMMA FirstToken ==
  ASSUME NEW S, NEW s \in Seq(S), NEW d, Find(s, d, 1) > 1
  PROVE  /\ Len(StringTokenize(s, d)) >= 1
         /\ StringTokenize(s, d)[1] = SubSeq(s, 1, Find(s, d, 1) - 1)
<1>1. PICK f \in [1 .. Len(s) + 2 -> Seq(Seq(S))] : Tokenizes(f, s, d)
  BY TokenizeBy, Zenon
<1> DEFINE c == Find(s, d, 1)
           x == SubSeq(s, 1, c - 1)
<1>2. Len(s) \in Nat /\ 1 \in 1 .. Len(s) + 2
  OBVIOUS
<1>3. c \in 1 .. Len(s) + 1 /\ c > 1
  BY FindIs
<1>4. f[1] = IF c >= Len(s) THEN Token(s, d, 1) ELSE Token(s, d, 1) \o f[c + 1]
  BY <1>1, <1>2 DEF Tokenizes
<1>5. Token(s, d, 1) = <<x>>
  BY <1>3 DEF Token
<1>6. Token(s, d, 1) \in Seq(Seq(S))
  BY <1>2, TokenType
<1>7. StringTokenize(s, d) = f[1]
  BY <1>1 DEF Tokenizes
<1> HIDE DEF c, x
<1>8. CASE c >= Len(s)
  BY <1>4, <1>5, <1>7, <1>8 DEF c, x
<1>9. CASE ~(c >= Len(s))
  <2>1. c + 1 \in 1 .. Len(s) + 2
    BY <1>2, <1>3
  <2>2. f[c + 1] \in Seq(Seq(S))
    BY <2>1
  <2>3. f[1] = <<x>> \o f[c + 1] /\ <<x>> \in Seq(Seq(S))
    BY <1>4, <1>5, <1>6, <1>9
  <2>4. Len(f[1]) = 1 + Len(f[c + 1]) /\ f[1][1] = x
    BY <2>2, <2>3
  <2> QED
    BY <1>7, <2>2, <2>4 DEF c, x
<1> QED
  BY <1>8, <1>9

\* A text without a token is nothing but delimiters.
LEMMA NoToken ==
  ASSUME NEW S, NEW s \in Seq(S), NEW d, StringTokenize(s, d) = << >>
  PROVE  \A i \in 1 .. Len(s) : s[i] = d
<1> DEFINE bad == {i \in 1 .. Len(s) : s[i] # d}
           starts == {piece[1] : piece \in Pieces(s, d)}
<1>1. CASE bad = {}
  BY <1>1
<1>2. CASE bad # {}
  <2>1. bad \subseteq 0 .. Len(s) /\ Len(s) \in Nat
    OBVIOUS
  <2>2. PICK p \in bad : \A m \in bad : p <= m
    <3> HIDE DEF bad
    <3> QED
      BY <1>2, <2>1, HasLeast
  <2>3. p \in 1 .. Len(s) /\ s[p] # d
    OBVIOUS
  <2>4. p = 1 \/ s[p - 1] = d
    <3> SUFFICES ASSUME p # 1, s[p - 1] # d PROVE FALSE
      OBVIOUS
    <3>1. p - 1 \in bad
      BY <2>3
    <3> QED
      BY <2>2, <2>3, <3>1
  <2> DEFINE c == Find(s, d, p)
  <2>5. c > p
    <3>1. c \in p .. Len(s) + 1 /\ (c <= Len(s) => s[c] = d)
      BY <2>3, FindIs
    <3> HIDE DEF c
    <3> QED
      BY <2>3, <3>1
  <2>6. <<p, c - 1>> \in Pieces(s, d)
    BY <2>3, <2>4, <2>5, NextPiece
  <2>7. p \in starts
    BY <2>6
  <2>8. Cardinality(starts) = 0
    <3>1. IsSplit(StringTokenize(s, d), s, d)
      BY TokenizeIsSplit
    <3>2. Len(StringTokenize(s, d)) = 0
      OBVIOUS
    <3> QED
      BY <3>1, <3>2 DEF IsSplit
  <2>9. IsFiniteSet(starts)
    <3>1. starts \subseteq 1 .. Len(s)
      BY DEF Pieces
    <3>2. IsFiniteSet(1 .. Len(s))
      BY <2>1, FS_Interval
    <3> QED
      BY <3>1, <3>2, FS_Subset
  <2> HIDE DEF starts
  <2> QED
    BY <2>7, <2>8, <2>9, FS_EmptySet
<1> QED
  BY <1>1, <1>2
-----------------------------------------------------------------------------
(* Erasing carriage returns.                                               *)

LEMMA WithoutType ==
  ASSUME NEW S, NEW s \in Seq(S), NEW d
  PROVE  Without(s, d) \in Seq(S)
<1> DEFINE K == {s[i] : i \in DOMAIN s} \ {d}
           value == [ch \in K |-> ch]
<1>1. K \subseteq S
  OBVIOUS
<1>2. Values(value, S)
  <2> HIDE DEF K
  <2> QED
    BY <1>1 DEF Values
<1>3. Selected(s, value) \in Seq(S)
  <2> HIDE DEF value
  <2> QED
    BY <1>2, SelectedType
<1> QED
  BY <1>3 DEF Without

\* A first character that is kept stays the first, and a second the second.
LEMMA WithoutFirst ==
  ASSUME NEW S, NEW s \in Seq(S), NEW d, s # << >>, s[1] # d
  PROVE  /\ Without(s, d) # << >> /\ Without(s, d)[1] = s[1]
         /\ Len(s) = 1 => Len(Without(s, d)) = 1
         /\ Len(s) >= 2 /\ s[2] # d =>
              Len(Without(s, d)) >= 2 /\ Without(s, d)[2] = s[2]
<1> DEFINE K == {s[i] : i \in DOMAIN s} \ {d}
           value == [ch \in K |-> ch]
           t == SubSeq(s, 2, Len(s))
<1>1. K \subseteq S /\ s[1] \in K /\ (Len(s) >= 2 /\ s[2] # d => s[2] \in K)
  OBVIOUS
<1>2. Values(value, S) /\ DOMAIN value = K /\ \A ch \in K : value[ch] = ch
  <2> HIDE DEF K
  <2> QED
    BY <1>1 DEF Values
<1>3. Without(s, d) = Selected(s, value)
  BY DEF Without
<1> HIDE DEF K, value
<1>4. t \in Seq(S) /\ s = <<s[1]>> \o t /\ s[1] \in S /\ Len(s) \in Nat
  BY FirstAndRest
<1> DEFINE r == Selected(t, value)
<1>5. Selected(s, value) = <<s[1]>> \o r
  <2>1. s[1] \in DOMAIN value /\ value[s[1]] = s[1]
    BY <1>1, <1>2
  <2>2. Selected(s, value) = <<value[s[1]]>> \o Selected(t, value)
    BY <1>2, <2>1, SelectedFirst
  <2> QED
    BY <2>1, <2>2
<1> HIDE DEF t
<1>6. r \in Seq(S)
  BY <1>2, <1>4, SelectedType
<1>7. Len(s) = 1 + Len(t) /\ (t # << >> => s[2] = t[1])
  BY <1>4
<1>8. t = << >> => r = << >>
  BY <1>2, SelectedEmpty
<1>9. ASSUME t # << >>, s[2] # d
      PROVE  r # << >> /\ r[1] = s[2]
  <2>1. Len(s) >= 2
    BY <1>4, <1>7, <1>9
  <2>2. t[1] \in DOMAIN value /\ value[t[1]] = t[1] /\ t[1] \in S
    BY <1>1, <1>2, <1>7, <1>9, <2>1
  <2>3. r = <<value[t[1]]>> \o Selected(SubSeq(t, 2, Len(t)), value)
    BY <1>2, <1>4, <1>9, <2>2, SelectedFirst
  <2>4. Selected(SubSeq(t, 2, Len(t)), value) \in Seq(S)
    <3>1. SubSeq(t, 2, Len(t)) \in Seq(S)
      BY <1>4, <1>9, FirstAndRest
    <3> QED
      BY <1>2, <3>1, SelectedType
  <2> HIDE DEF r
  <2> QED
    BY <1>7, <1>9, <2>2, <2>3, <2>4
<1> HIDE DEF r
<1>10. /\ Len(<<s[1]>> \o r) = 1 + Len(r) /\ (<<s[1]>> \o r)[1] = s[1]
       /\ r # << >> => (<<s[1]>> \o r)[2] = r[1]
       /\ <<s[1]>> \o r # << >>
  BY <1>4, <1>6
<1>11. (Len(s) = 1 => t = << >>) /\ (Len(s) >= 2 => t # << >>)
  BY <1>4, <1>7
<1>12. r # << >> => Len(r) >= 1
  BY <1>6
<1>13. Without(s, d) = <<s[1]>> \o r
  BY <1>3, <1>5
<1>14. ASSUME Len(s) = 1 PROVE Len(<<s[1]>> \o r) = 1
  BY <1>8, <1>10, <1>11, <1>14
<1>15. ASSUME Len(s) >= 2, s[2] # d
       PROVE  Len(<<s[1]>> \o r) >= 2 /\ (<<s[1]>> \o r)[2] = s[2]
  <2>1. r # << >> /\ r[1] = s[2]
    BY <1>9, <1>11, <1>15
  <2> QED
    BY <1>6, <1>10, <1>12, <2>1
<1> QED
  BY <1>10, <1>13, <1>14, <1>15

LEMMA ParseType ==
  ASSUME NEW S, NEW s \in Seq(S)
  PROVE  Parse(s) \in Seq(Seq(S))
<1> DEFINE lines == StringTokenize(s, NewLine)
<1>1. lines \in Seq(Seq(S))
  BY TokenizeType
<1> HIDE DEF lines
<1>2. \A i \in DOMAIN lines : Without(lines[i], Return) \in Seq(S)
  <2>1. ASSUME NEW i \in DOMAIN lines PROVE lines[i] \in Seq(S)
    BY <1>1
  <2> QED
    BY <2>1, WithoutType
<1>3. [i \in DOMAIN lines |-> Without(lines[i], Return)] \in Seq(Seq(S))
  <2>1. DOMAIN lines = 1 .. Len(lines) /\ Len(lines) \in Nat
    BY <1>1
  <2> DEFINE w(i) == Without(lines[i], Return)
  <2> HIDE DEF w
  <2>2. \A i \in 1 .. Len(lines) : w(i) \in Seq(S)
    BY <1>2, <2>1 DEF w
  <2>3. [i \in 1 .. Len(lines) |-> w(i)] \in Seq(Seq(S))
    BY <2>1, <2>2
  <2> QED
    BY <2>1, <2>3 DEF w
<1> QED
  BY <1>3 DEF Parse, lines
-----------------------------------------------------------------------------
(* The invariant: the parser is that of the text, and a handler has left   *)
(* the way only where a key it looked up was undefined.                    *)

Read ==
  /\ text \in Seq(Words) /\ parser \in Seq(Seq(Words))
  /\ at # "idle" => parser = Parse(text)
Stuck == at = "undefined" => \E key : Value(key) = Undefined
TextInv == Read /\ Stuck

\* Initially nothing is read.
LEMMA TextInit ==
  Init => TextInv
  BY DEF Init, TextInv, Read, Stuck

\* A text is parsed as it comes; nothing else changes either.
LEMMA ReadStep ==
  ASSUME TextInv, [Next]_vars
  PROVE  Read'
<1>1. CASE Receive
  <2>1. text' \in Seq(Words) /\ parser' = Parse(text')
    BY <1>1, TextsAssumption DEF Receive
  <2>2. parser' \in Seq(Seq(Words))
    BY <2>1, ParseType
  <2> QED
    BY <2>1, <2>2 DEF Read
<1>2. CASE UNCHANGED <<text, parser>> /\ (at' # "idle" => at # "idle")
  BY <1>2 DEF TextInv, Read
<1>3. CASE UNCHANGED vars
  BY <1>2, <1>3 DEF vars
<1>4. CASE Unhandled
  BY <1>2, <1>4 DEF Unhandled
<1>5. CASE OnRequestedName
  BY <1>2, <1>5 DEF OnRequestedName
<1>6. CASE OnAction
  BY <1>2, <1>6 DEF OnAction
<1>7. CASE OnDialogReturn
  BY <1>2, <1>7 DEF OnDialogReturn
<1>8. CASE ApplyAgain
  BY <1>2, <1>8 DEF ApplyAgain
<1>9. CASE Apply
  BY <1>2, <1>9 DEF Apply
<1>10. CASE Refuse
  BY <1>2, <1>10 DEF Refuse
<1>11. CASE Send
  BY <1>2, <1>11 DEF Send
<1>12. CASE Register
  BY <1>2, <1>12 DEF Register
<1> QED
  BY <1>1, <1>3, <1>4, <1>5, <1>6, <1>7, <1>8, <1>9, <1>10, <1>11, <1>12 DEF Next

\* Only a lookup leads to undefined, and by a key of its own.
LEMMA StuckStep ==
  ASSUME TextInv, [Next]_vars
  PROVE  Stuck'
<1>1. ASSUME UNCHANGED parser, NEW key, Value(key) = Undefined
      PROVE  Stuck'
  <2>1. Value(key)' = Undefined
    BY <1>1 DEF Value
  <2> QED
    BY <2>1 DEF Stuck
<1>2. ASSUME at' # "undefined" PROVE Stuck'
  BY <1>2 DEF Stuck
<1>3. CASE UNCHANGED vars
  <2>1. CASE at = "undefined"
    BY <1>1, <1>3, <2>1 DEF vars, TextInv, Stuck
  <2>2. CASE at # "undefined"
    BY <1>2, <1>3, <2>2 DEF vars
  <2> QED
    BY <2>1, <2>2
<1>4. CASE OnRequestedName
  <2>1. UNCHANGED parser
    BY <1>4 DEF OnRequestedName
  <2>2. CASE at' = "send"
    BY <1>2, <2>2
  <2>3. CASE at' # "send"
    <3>1. PICK n \in DOMAIN SerializeKeys : LookUp(SerializeKeys[n], "done")
      BY <1>4, <2>3 DEF OnRequestedName
    <3>2. CASE Value(SerializeKeys[n]) = Undefined
      BY <1>1, <2>1, <3>2
    <3>3. CASE Value(SerializeKeys[n]) # Undefined
      BY <1>2, <3>1, <3>3 DEF LookUp
    <3> QED
      BY <3>2, <3>3
  <2> QED
    BY <2>2, <2>3
<1>5. CASE OnAction
  <2>1. CASE Value("action") = Undefined
    BY <1>1, <1>5, <2>1 DEF OnAction
  <2>2. CASE Value("action") # Undefined
    BY <1>2, <1>5, <2>2 DEF OnAction, LookUp
  <2> QED
    BY <2>1, <2>2
<1>6. CASE OnDialogReturn
  <2>1. CASE Value("dialog_name") = Undefined
    BY <1>1, <1>6, <2>1 DEF OnDialogReturn
  <2>2. CASE Value("dialog_name") # Undefined
    BY <1>2, <1>6, <2>2 DEF OnDialogReturn, LookUp
  <2> QED
    BY <2>1, <2>2
<1>7. CASE Apply
  <2>1. UNCHANGED parser /\ typed' = [i \in DOMAIN Fields |-> Value(Fields[i])]
    BY <1>7 DEF Apply
  <2>2. CASE at' = "undefined"
    <3>1. Undefined \in ToSet(typed')
      BY <1>7, <2>2 DEF Apply
    <3>2. PICK i \in DOMAIN typed' : typed'[i] = Undefined
      BY <3>1 DEF ToSet
    <3>3. Value(Fields[i]) = Undefined
      BY <2>1, <3>2
    <3> QED
      BY <1>1, <2>1, <3>3
  <2>3. CASE at' # "undefined"
    BY <1>2, <2>3
  <2> QED
    BY <2>2, <2>3
<1>8. CASE Receive
  BY <1>2, <1>8 DEF Receive
<1>9. CASE Unhandled
  BY <1>2, <1>9 DEF Unhandled
<1>10. CASE ApplyAgain
  BY <1>2, <1>10 DEF ApplyAgain
<1>11. CASE Refuse
  BY <1>2, <1>11 DEF Refuse
<1>12. CASE Send
  BY <1>2, <1>12 DEF Send
<1>13. CASE Register
  BY <1>2, <1>13 DEF Register
<1> QED
  BY <1>3, <1>4, <1>5, <1>6, <1>7, <1>8, <1>9, <1>10, <1>11, <1>12, <1>13 DEF Next

\* The parser is always that of the text, and undefined values are read.
THEOREM TextSafe ==
  Spec => []TextInv
<1>1. Init => TextInv
  BY TextInit
<1>2. TextInv /\ [Next]_vars => TextInv'
  <2> SUFFICES ASSUME TextInv, [Next]_vars PROVE TextInv'
    OBVIOUS
  <2>1. Read'
    BY ReadStep
  <2>2. Stuck'
    BY StuckStep
  <2> QED
    BY <2>1, <2>2 DEF TextInv
<1> QED
  BY <1>1, <1>2, PTL DEF Spec
-----------------------------------------------------------------------------
(* What follows from it.                                                   *)

\* Whatever text comes, StringTokenize splits it at the line ends, and at the
\* bars, into its longest pieces without one: no character of a client's text
\* is lost, none is in two pieces, and no piece is empty.
THEOREM TokensAreSplits ==
  Spec => []TokenizeSplits
<1>1. TextInv => TokenizeSplits
  <2> SUFFICES ASSUME TextInv PROVE TokenizeSplits
    OBVIOUS
  <2>1. text \in Seq(Words)
    BY DEF TextInv, Read
  <2> QED
    BY <2>1, TokenizeIsSplit DEF TokenizeSplits
<1> QED
  BY <1>1, TextSafe, PTL

\* What Get returns for a key of one word is undefined only by a line that is
\* not empty and has no token.
LEMMA UndefinedLine ==
  ASSUME NEW data \in Seq(Seq(Words)), NEW key, Get(data, key, 1) = Undefined
  PROVE  \E i \in DOMAIN data :
           data[i] # << >> /\ StringTokenize(data[i], Bar) = << >>
<1> DEFINE tokens == [i \in DOMAIN data |-> StringTokenize(data[i], Bar)]
           stops == {i \in DOMAIN data :
                       data[i] # << >> /\ (tokens[i] = << >> \/ tokens[i][1] = key)}
           line == CHOOSE i \in stops : \A j \in stops : i <= j
<1>1. Get(data, key, 1)
        = IF stops = {} THEN << >>
          ELSE IF tokens[line] = << >> THEN Undefined
          ELSE IF 1 >= Len(tokens[line]) THEN << >>
          ELSE tokens[line][1 + 1]
  BY DEF Get
<1>2. Undefined # << >>
  BY DEF Undefined
<1>3. \A i \in DOMAIN data : tokens[i] \in Seq(Seq(Words))
  <2>1. ASSUME NEW i \in DOMAIN data PROVE tokens[i] \in Seq(Seq(Words))
    <3>1. data[i] \in Seq(Words)
      OBVIOUS
    <3> QED
      BY <3>1, TokenizeType
  <2> QED
    BY <2>1
<1>4. stops # {}
  BY <1>1, <1>2
<1>5. line \in stops
  <2>1. stops \subseteq 0 .. Len(data) /\ Len(data) \in Nat
    OBVIOUS
  <2>2. \E i \in stops : \A j \in stops : i <= j
    <3> HIDE DEF stops
    <3> QED
      BY <1>4, <2>1, HasLeast
  <2> HIDE DEF stops
  <2> QED
    BY <2>2
<1>6. line \in DOMAIN data /\ data[line] # << >>
  BY <1>5
<1> HIDE DEF stops, line
<1>7. ASSUME tokens[line] # << >> PROVE FALSE
  <2> DEFINE u == tokens[line]
  <2>1. u \in Seq(Seq(Words))
    BY <1>3, <1>6
  <2> HIDE DEF tokens
  <2>2. ~(1 >= Len(u)) /\ u[2] = Undefined
    BY <1>1, <1>2, <1>4, <1>7
  <2> HIDE DEF u
  <2>3. u[2] \in Seq(Words)
    BY <2>1, <2>2
  <2>4. Undefined \in Seq(Words)
    BY <2>2, <2>3
  <2>5. "undefined" \in Words
    <3>1. Len(Undefined) = 1 /\ Undefined[1] = "undefined"
      BY DEF Undefined
    <3> QED
      BY <2>4, <3>1
  <2> QED
    BY <2>5 DEF Words
<1> QED
  BY <1>6, <1>7

\* A handler reads an undefined value only of a line that is nothing but bars:
\* not of an empty one, and not where a key or a value is missing.
THEOREM OnlyBars ==
  Spec => []OnlyBarsAreUndefined
<1>1. TextInv => OnlyBarsAreUndefined
  <2> SUFFICES ASSUME TextInv, at = "undefined"
               PROVE  \E i \in DOMAIN parser : ToSet(parser[i]) = {Bar}
    BY DEF OnlyBarsAreUndefined
  <2>1. parser \in Seq(Seq(Words))
    BY DEF TextInv, Read
  <2>2. PICK key : Get(parser, <<key>>, 1) = Undefined
    BY DEF TextInv, Stuck, Value
  <2>3. PICK i \in DOMAIN parser :
          parser[i] # << >> /\ StringTokenize(parser[i], Bar) = << >>
    BY <2>1, <2>2, UndefinedLine
  <2>4. parser[i] \in Seq(Words)
    BY <2>1
  <2>5. \A j \in 1 .. Len(parser[i]) : parser[i][j] = Bar
    BY <2>3, <2>4, NoToken
  <2> DEFINE l == parser[i]
  <2>6. l \in Seq(Words) /\ l # << >> /\ \A j \in 1 .. Len(l) : l[j] = Bar
    BY <2>3, <2>4, <2>5
  <2> HIDE DEF l
  <2>7. DOMAIN l = 1 .. Len(l) /\ 1 \in 1 .. Len(l)
    BY <2>6
  <2>8. ToSet(l) = {Bar}
    BY <2>6, <2>7 DEF ToSet
  <2> QED
    BY <2>8 DEF l
<1> QED
  BY <1>1, TextSafe, PTL

\* An event's name is the first word of the text, with a bar or nothing behind.
LEMMA NameFirst ==
  ASSUME NEW S, NEW t \in Seq(S), NEW key, EventName(t) = <<key>>
  PROVE  /\ t # << >> /\ t[1] = key /\ key # Bar
         /\ Len(t) >= 2 => t[2] = Bar
<1> DEFINE c == Find(t, Bar, 1)
<1>1. c \in 1 .. Len(t) + 1 /\ (c <= Len(t) => t[c] = Bar)
      /\ \A i \in 1 .. Len(t) : i < c => t[i] # Bar
  BY FindIs
<1>2. SubSeq(t, 1, c - 1) = <<key>>
  BY DEF EventName
<1> HIDE DEF c
<1>3. Len(SubSeq(t, 1, c - 1)) = c - 1 /\ Len(t) \in Nat
  <2>1. 1 \in Int /\ c - 1 \in Int /\ \A i \in 1 .. c - 1 : t[i] \in S
    BY <1>1
  <2>2. Len(SubSeq(t, 1, c - 1)) = IF 1 <= c - 1 THEN (c - 1) - 1 + 1 ELSE 0
    BY <2>1, SubSeqProperties
  <2> QED
    BY <1>1, <2>2
<1>4. c = 2
  <2>1. Len(SubSeq(t, 1, c - 1)) = 1
    <3>1. Len(<<key>>) = 1
      <4>1. <<key>> \in Seq({key})
        OBVIOUS
      <4> QED
        BY <4>1
    <3> QED
      BY <1>2, <3>1, Zenon
  <2> QED
    BY <1>1, <1>3, <2>1
<1>5. t # << >> /\ 1 \in 1 .. Len(t)
  BY <1>1, <1>3, <1>4
<1>6. t[1] = key
  <2>1. SubSeq(t, 1, 1) = <<t[1]>>
    BY <1>5, SubSeqShort
  <2>2. <<t[1]>> = <<key>>
    BY <1>2, <1>4, <2>1
  <2> QED
    BY <2>2
<1> QED
  BY <1>1, <1>3, <1>4, <1>5, <1>6

\* The first line begins with that word, and with the bar if there is one, so
\* that the word is its first token.
LEMMA FirstLineNamed ==
  ASSUME NEW S, NEW t \in Seq(S), NEW key, EventName(t) = <<key>>,
         key # NewLine, key # Return,
         NEW line, line = Without(SubSeq(t, 1, Find(t, NewLine, 1) - 1), Return)
  PROVE  /\ Len(Parse(t)) >= 1 /\ Parse(t)[1] = line
         /\ line \in Seq(S) /\ line # << >>
         /\ Len(StringTokenize(line, Bar)) >= 1
         /\ StringTokenize(line, Bar)[1] = <<key>>
<1> DEFINE c == Find(t, NewLine, 1)
           raw == SubSeq(t, 1, c - 1)
           lines == StringTokenize(t, NewLine)
<1>1. /\ t # << >> /\ t[1] = key /\ key # Bar
      /\ Len(t) >= 2 => t[2] = Bar
  BY NameFirst
<1>2. /\ Bar # NewLine /\ Bar # Return
  BY DEF Bar, NewLine, Return
<1>3. /\ c \in 1 .. Len(t) + 1 /\ (c <= Len(t) => t[c] = NewLine)
      /\ Len(t) \in Nat /\ Len(t) >= 1
  <2>1. Len(t) \in Nat /\ Len(t) >= 1
    BY <1>1
  <2> QED
    BY <2>1, FindIs
<1>4. c > 1 /\ (Len(t) >= 2 => c > 2)
  <2>1. c # 1
    BY <1>1, <1>3
  <2>2. Len(t) >= 2 => c # 2
    BY <1>1, <1>2, <1>3
  <2> HIDE DEF c
  <2> QED
    BY <1>3, <2>1, <2>2
<1>5. Len(lines) >= 1 /\ lines[1] = raw
  BY <1>4, FirstToken
<1>6. lines \in Seq(Seq(S))
  BY TokenizeType
<1>7. Len(Parse(t)) >= 1 /\ Parse(t)[1] = line
  <2> HIDE DEF lines, raw
  <2>1. Parse(t) = [i \in DOMAIN lines |-> Without(lines[i], Return)]
    BY DEF Parse, lines
  <2>2. DOMAIN lines = 1 .. Len(lines) /\ 1 \in DOMAIN lines /\ Len(lines) \in Nat
    BY <1>5, <1>6
  <2>3. Parse(t)[1] = Without(lines[1], Return)
    BY <2>1, <2>2
  <2>4. Len(Parse(t)) = Len(lines)
    <3>1. Parse(t) \in Seq(Seq(S))
      BY ParseType
    <3>2. DOMAIN Parse(t) = 1 .. Len(lines)
      BY <2>1, <2>2
    <3> QED
      BY <2>2, <3>1, <3>2
  <2> QED
    BY <1>5, <2>3, <2>4 DEF raw
<1>8. /\ raw \in Seq(S) /\ raw # << >> /\ raw[1] = key /\ Len(raw) = c - 1
      /\ Len(raw) >= 2 => raw[2] = Bar
  <2> HIDE DEF c
  <2>1. /\ 1 \in Int /\ c - 1 \in Int
        /\ \A i \in 1 .. c - 1 : t[i] \in S
    BY <1>3
  <2>2. raw \in Seq(S)
    BY <2>1, SubSeqProperties
  <2>3. Len(raw) = IF 1 <= c - 1 THEN (c - 1) - 1 + 1 ELSE 0
    BY <2>1, SubSeqProperties
  <2>4. \A i \in 1 .. (c - 1) - 1 + 1 : raw[i] = t[1 + i - 1]
    BY <2>1, SubSeqProperties
  <2>5. Len(raw) = c - 1
    BY <1>3, <1>4, <2>3
  <2>6. 1 \in 1 .. (c - 1) - 1 + 1 /\ 1 + 1 - 1 = 1
    BY <1>3, <1>4
  <2>7. raw[1] = t[1]
    <3> HIDE DEF raw
    <3> QED
      BY <2>4, <2>6
  <2>8. ASSUME Len(raw) >= 2 PROVE raw[2] = Bar
    <3> HIDE DEF raw
    <3>1. 2 \in 1 .. (c - 1) - 1 + 1 /\ 1 + 2 - 1 = 2 /\ Len(t) >= 2
      BY <1>3, <2>5, <2>8
    <3>2. raw[2] = t[2]
      BY <2>4, <3>1
    <3> QED
      BY <1>1, <3>1, <3>2
  <2> HIDE DEF raw
  <2>9. raw # << >>
    BY <1>3, <1>4, <2>2, <2>5
  <2> QED
    BY <1>1, <2>2, <2>5, <2>7, <2>8, <2>9
<1>9. line = Without(raw, Return)
  OBVIOUS
<1> HIDE DEF raw, c, lines
<1>10. /\ line \in Seq(S) /\ line # << >> /\ line[1] = key
       /\ Len(raw) = 1 => Len(line) = 1
       /\ Len(raw) >= 2 => Len(line) >= 2 /\ line[2] = Bar
  <2>1. line \in Seq(S)
    BY <1>8, <1>9, WithoutType
  <2>2. /\ Without(raw, Return) # << >> /\ Without(raw, Return)[1] = raw[1]
        /\ Len(raw) = 1 => Len(Without(raw, Return)) = 1
        /\ Len(raw) >= 2 /\ raw[2] # Return =>
             Len(Without(raw, Return)) >= 2 /\ Without(raw, Return)[2] = raw[2]
    BY <1>8, WithoutFirst
  <2> QED
    BY <1>2, <1>8, <1>9, <2>1, <2>2
<1>11. Len(line) \in Nat /\ Len(line) >= 1 /\ 1 \in 1 .. Len(line)
  BY <1>10
<1> DEFINE b == Find(line, Bar, 1)
<1>12. b = 2
  <2>1. /\ b \in 1 .. Len(line) + 1
        /\ \A i \in 1 .. Len(line) : i < b => line[i] # Bar
        /\ b <= Len(line) => line[b] = Bar
    BY <1>10, FindIs
  <2>2. Len(raw) = 1 \/ Len(raw) >= 2
    BY <1>3, <1>4, <1>8
  <2> HIDE DEF b
  <2>3. b # 1
    BY <1>1, <1>10, <1>11, <2>1
  <2>4. ~(b > 2)
    <3> SUFFICES ASSUME b > 2 PROVE FALSE
      OBVIOUS
    <3>1. CASE Len(raw) = 1
      BY <1>10, <2>1, <3>1
    <3>2. CASE Len(raw) >= 2
      <4>1. 2 \in 1 .. Len(line) /\ line[2] = Bar
        BY <1>10, <1>11, <3>2
      <4> QED
        BY <2>1, <4>1
    <3> QED
      BY <2>2, <3>1, <3>2
  <2> QED
    BY <1>11, <2>1, <2>3, <2>4
<1>13. Len(StringTokenize(line, Bar)) >= 1
       /\ StringTokenize(line, Bar)[1] = SubSeq(line, 1, b - 1)
  <2>1. Find(line, Bar, 1) > 1
    BY <1>12
  <2> QED
    BY <1>10, <2>1, FirstToken
<1>14. SubSeq(line, 1, b - 1) = <<key>>
  <2>1. b - 1 = 1
    BY <1>12
  <2>2. SubSeq(line, 1, 1) = <<line[1]>>
    BY <1>10, <1>11, SubSeqShort
  <2> QED
    BY <1>10, <2>1, <2>2
<1> QED
  BY <1>7, <1>10, <1>13, <1>14

\* Get stops at the first line, if that has the key.
LEMMA GetFirst ==
  ASSUME NEW S, NEW data \in Seq(Seq(S)), NEW key, Len(data) >= 1,
         data[1] # << >>, Len(StringTokenize(data[1], Bar)) >= 1,
         StringTokenize(data[1], Bar)[1] = key
  PROVE  Get(data, key, 1) = IF Len(StringTokenize(data[1], Bar)) < 2 THEN << >>
                             ELSE StringTokenize(data[1], Bar)[2]
<1> DEFINE tokens == [i \in DOMAIN data |-> StringTokenize(data[i], Bar)]
           stops == {i \in DOMAIN data :
                       data[i] # << >> /\ (tokens[i] = << >> \/ tokens[i][1] = key)}
           line == CHOOSE i \in stops : \A j \in stops : i <= j
           u == StringTokenize(data[1], Bar)
<1>1. Get(data, key, 1)
        = IF stops = {} THEN << >>
          ELSE IF tokens[line] = << >> THEN Undefined
          ELSE IF 1 >= Len(tokens[line]) THEN << >>
          ELSE tokens[line][1 + 1]
  BY DEF Get
<1>2. 1 \in DOMAIN data /\ \A i \in DOMAIN data : i \in Nat /\ 1 <= i
  OBVIOUS
<1>3. tokens[1] = u
  BY <1>2
<1>4. u \in Seq(Seq(S))
  BY TokenizeType
<1>5. 1 \in stops
  BY <1>2, <1>3
<1>6. line = 1
  <2>1. \A i \in stops : i \in Nat /\ 1 <= i
    BY <1>2
  <2> HIDE DEF stops
  <2>2. line \in stops /\ \A j \in stops : line <= j
    BY <1>5, <2>1
  <2>3. line \in Nat /\ 1 <= line /\ line <= 1
    BY <1>5, <2>1, <2>2
  <2> HIDE DEF line
  <2> QED
    BY <2>3
<1> HIDE DEF stops, line, tokens
<1>7. Get(data, key, 1) = IF u = << >> THEN Undefined
                          ELSE IF 1 >= Len(u) THEN << >> ELSE u[1 + 1]
  BY <1>1, <1>3, <1>5, <1>6
<1>8. Len(u) >= 1 /\ u # << >> /\ Len(u) \in Nat
  BY <1>4
<1> HIDE DEF u
<1>9. Get(data, key, 1) = IF Len(u) < 2 THEN << >> ELSE u[2]
  BY <1>7, <1>8
<1> QED
  BY <1>9 DEF u

\* The key by which a text's event is named is read from the text's own first
\* line, whatever the lines behind it hold: the handler that the name chose and
\* the value it looks up first never come from different lines.
THEOREM OwnLineRead ==
  Spec => []HandlersReadOwnLine
<1>1. TextInv => HandlersReadOwnLine
  <2> SUFFICES ASSUME TextInv, at # "idle", EventName(text) \in Events
               PROVE  Get(parser, EventName(text), 1) = OwnValue
    BY DEF HandlersReadOwnLine
  <2>1. text \in Seq(Words) /\ parser = Parse(text) /\ parser \in Seq(Seq(Words))
    BY DEF TextInv, Read
  <2>2. PICK key \in {"requestedName", "action"} : EventName(text) = <<key>>
    BY DEF Events
  <2>3. key # NewLine /\ key # Return
    BY DEF NewLine, Return
  <2>4. FirstLine = Without(SubSeq(text, 1, Find(text, NewLine, 1) - 1), Return)
    BY DEF FirstLine
  <2>5. /\ Len(parser) >= 1 /\ parser[1] = FirstLine
        /\ FirstLine # << >>
        /\ Len(StringTokenize(FirstLine, Bar)) >= 1
        /\ StringTokenize(FirstLine, Bar)[1] = <<key>>
    BY <2>1, <2>2, <2>3, <2>4, FirstLineNamed
  <2>6. Get(parser, <<key>>, 1)
          = IF Len(StringTokenize(parser[1], Bar)) < 2 THEN << >>
            ELSE StringTokenize(parser[1], Bar)[2]
    BY <2>1, <2>5, GetFirst
  <2> QED
    BY <2>2, <2>5, <2>6 DEF OwnValue
<1> QED
  BY <1>1, TextSafe, PTL

\* One joined to the end.
LEMMA CatIn ==
  ASSUME NEW S, NEW a \in Seq(S), NEW b \in Seq(S)
  PROVE  a \o b \in Seq(S)
  OBVIOUS
-----------------------------------------------------------------------------
(* Cutting a text in two, at a delimiter.  A text is cut into its tokens,  *)
(* or into its fields, which are kept when they are empty.                 *)

Ways == {"tokens", "fields"}
Part(how, s, d, p) ==
  IF how = "tokens" /\ p = Find(s, d, p) THEN << >>
  ELSE <<SubSeq(s, p, Find(s, d, p) - 1)>>
Cuts(f, s, d, how) ==
  \A p \in 1 .. Len(s) + 1 :
    f[p] = Part(how, s, d, p)
             \o (IF Find(s, d, p) > Len(s) THEN << >> ELSE f[Find(s, d, p) + 1])

\* The least position of d, by what tells it from all others.
LEMMA FindOnly ==
  ASSUME NEW S, NEW s \in Seq(S), NEW d, NEW p \in 1 .. Len(s) + 1,
         NEW c \in p .. Len(s) + 1, \A i \in p .. c - 1 : s[i] # d,
         c <= Len(s) => s[c] = d
  PROVE  Find(s, d, p) = c
<1> DEFINE b == Find(s, d, p)
<1>1. p \in Nat \ {0} /\ Len(s) \in Nat
  OBVIOUS
<1>2. /\ b \in p .. Len(s) + 1
      /\ \A i \in p .. Len(s) : i < b => s[i] # d
      /\ b <= Len(s) => s[b] = d
  BY <1>1, FindIs
<1> HIDE DEF b
<1>3. ~(b < c)
  BY <1>1, <1>2
<1>4. ~(c < b)
  BY <1>1, <1>2
<1>5. b = c
  BY <1>1, <1>2, <1>3, <1>4
<1> QED
  BY <1>5 DEF b

\* A part holds no delimiter.
LEMMA PartType ==
  ASSUME NEW S, NEW s \in Seq(S), NEW d, NEW p \in 1 .. Len(s) + 1, NEW how
  PROVE  Part(how, s, d, p) \in Seq(Seq(S \ {d}))
<1> DEFINE c == Find(s, d, p)
           x == SubSeq(s, p, c - 1)
<1>1. p \in Nat \ {0} /\ Len(s) \in Nat
  OBVIOUS
<1>2. c \in p .. Len(s) + 1 /\ \A i \in p .. Len(s) : i < c => s[i] # d
  BY <1>1, FindIs
<1>3. x \in Seq(S \ {d})
  <2> HIDE DEF c
  <2>1. \A i \in p .. c - 1 : s[i] \in S \ {d}
    BY <1>1, <1>2
  <2>2. p \in Int /\ c - 1 \in Int
    BY <1>1, <1>2
  <2> QED
    BY <2>1, <2>2, SubSeqProperties
<1>4. Part(how, s, d, p) = IF how = "tokens" /\ p = c THEN << >> ELSE <<x>>
  BY DEF Part
<1> HIDE DEF x, c
<1>5. <<x>> \in Seq(Seq(S \ {d})) /\ << >> \in Seq(Seq(S \ {d}))
  BY <1>3
<1>6. CASE how = "tokens" /\ p = c
  BY <1>4, <1>5, <1>6, Zenon
<1>7. CASE ~(how = "tokens" /\ p = c)
  BY <1>4, <1>5, <1>7, Zenon
<1> QED
  BY <1>6, <1>7

\* s is all that t has from h + 1 to its end or to a delimiter.
Sits(s, t, h, d) ==
  /\ h \in Nat /\ h + Len(s) <= Len(t)
  /\ \A i \in 1 .. Len(s) : t[h + i] = s[i]
  /\ h + Len(s) # Len(t) => t[h + Len(s) + 1] = d

\* There, the same is found and taken.
LEMMA SameThere ==
  ASSUME NEW S, NEW s \in Seq(S), NEW t \in Seq(S), NEW h, NEW d,
         Sits(s, t, h, d), NEW p \in 1 .. Len(s) + 1, NEW how
  PROVE  /\ Find(t, d, h + p) = h + Find(s, d, p)
         /\ Part(how, t, d, h + p) = Part(how, s, d, p)
<1> DEFINE c == Find(s, d, p)
<1>1. /\ p \in Nat \ {0} /\ Len(s) \in Nat /\ Len(t) \in Nat /\ h \in Nat
      /\ h + Len(s) <= Len(t) /\ h + p \in 1 .. Len(t) + 1
  BY DEF Sits
<1>2. /\ c \in p .. Len(s) + 1
      /\ \A i \in p .. Len(s) : i < c => s[i] # d
      /\ c <= Len(s) => s[c] = d
  BY <1>1, FindIs
<1> HIDE DEF c
<1>3. Find(t, d, h + p) = h + c
  <2>1. h + c \in h + p .. Len(t) + 1
    BY <1>1, <1>2
  <2>2. ASSUME NEW i \in h + p .. (h + c) - 1 PROVE t[i] # d
    <3>1. i - h \in p .. Len(s) /\ i - h < c /\ i - h \in 1 .. Len(s) /\ h + (i - h) = i
      BY <1>1, <1>2
    <3>2. t[h + (i - h)] = s[i - h]
      BY <3>1 DEF Sits
    <3>3. s[i - h] # d
      BY <1>2, <3>1
    <3> QED
      BY <3>1, <3>2, <3>3
  <2>3. ASSUME h + c <= Len(t) PROVE t[h + c] = d
    <3>1. CASE c <= Len(s)
      BY <1>1, <1>2, <3>1 DEF Sits
    <3>2. CASE ~(c <= Len(s))
      <4>1. h + c = h + Len(s) + 1 /\ h + Len(s) # Len(t)
        BY <1>1, <1>2, <2>3, <3>2
      <4> QED
        BY <4>1 DEF Sits
    <3> QED
      BY <3>1, <3>2
  <2> DEFINE u == h + p
             v == h + c
  <2>4. /\ u \in 1 .. Len(t) + 1 /\ v \in u .. Len(t) + 1
        /\ \A i \in u .. v - 1 : t[i] # d
        /\ v <= Len(t) => t[v] = d
    <3>1. u \in 1 .. Len(t) + 1 /\ v \in u .. Len(t) + 1
      BY <1>1, <2>1
    <3>2. \A i \in u .. v - 1 : t[i] # d
      BY <2>2, Zenon
    <3>3. v <= Len(t) => t[v] = d
      BY <2>3, Zenon
    <3> QED
      BY <3>1, <3>2, <3>3, Zenon
  <2> HIDE DEF u, v
  <2>5. Find(t, d, u) = v
    BY <2>4, FindOnly
  <2> QED
    BY <2>5 DEF u, v
<1>4. SubSeq(t, h + p, (h + c) - 1) = SubSeq(s, p, c - 1)
  <2> DEFINE x == SubSeq(s, p, c - 1)
             y == SubSeq(t, h + p, (h + c) - 1)
  <2>1. /\ x \in Seq(S) /\ Len(x) = c - p
        /\ \A i \in 1 .. c - p : x[i] = s[p + i - 1]
    <3>1. \A i \in p .. c - 1 : s[i] \in S
      BY <1>1, <1>2
    <3>2. p \in Int /\ c - 1 \in Int /\ (c - 1) - p + 1 = c - p
      BY <1>1, <1>2
    <3>3. /\ x \in Seq(S) /\ Len(x) = IF p <= c - 1 THEN (c - 1) - p + 1 ELSE 0
          /\ \A i \in 1 .. (c - 1) - p + 1 : x[i] = s[p + i - 1]
      BY <3>1, <3>2, SubSeqProperties
    <3> HIDE DEF x
    <3> QED
      BY <1>1, <1>2, <3>2, <3>3
  <2>2. /\ y \in Seq(S) /\ Len(y) = c - p
        /\ \A i \in 1 .. c - p : y[i] = t[(h + p) + i - 1]
    <3> DEFINE u == h + p
               v == (h + c) - 1
    <3>1. \A i \in u .. v : t[i] \in S
      BY <1>1, <1>2
    <3>2. u \in Int /\ v \in Int /\ v - u + 1 = c - p
      BY <1>1, <1>2
    <3>3. (u <= v) <=> (p <= c - 1)
      BY <1>1, <1>2
    <3> HIDE DEF u, v
    <3>4. /\ SubSeq(t, u, v) \in Seq(S)
          /\ Len(SubSeq(t, u, v)) = IF u <= v THEN v - u + 1 ELSE 0
          /\ \A i \in 1 .. v - u + 1 : SubSeq(t, u, v)[i] = t[u + i - 1]
      BY <3>1, <3>2, SubSeqProperties
    <3>5. y = SubSeq(t, u, v)
      BY DEF u, v
    <3> HIDE DEF y
    <3>6. \A i \in 1 .. c - p : y[i] = t[u + i - 1]
      BY <3>2, <3>4, <3>5
    <3>7. Len(y) = c - p
      BY <1>1, <1>2, <3>2, <3>3, <3>4, <3>5
    <3> QED
      BY <3>4, <3>5, <3>6, <3>7 DEF u
  <2> HIDE DEF x, y
  <2>3. ASSUME NEW i \in 1 .. c - p PROVE x[i] = y[i]
    <3>1. p + i - 1 \in 1 .. Len(s) /\ h + (p + i - 1) = (h + p) + i - 1
      BY <1>1, <1>2
    <3>2. t[h + (p + i - 1)] = s[p + i - 1]
      BY <3>1 DEF Sits
    <3> QED
      BY <2>1, <2>2, <3>1, <3>2
  <2>4. x = y
    BY <1>1, <1>2, <2>1, <2>2, <2>3, SeqEqual
  <2> QED
    BY <2>4 DEF x, y
<1> DEFINE u == h + p
           v == h + c
           x == SubSeq(s, p, c - 1)
<1>5. (u = v) <=> (p = c)
  BY <1>1, <1>2
<1>6. Find(t, d, u) = v /\ SubSeq(t, u, v - 1) = x
  BY <1>3, <1>4, Zenon
<1>7. Part(how, s, d, p) = IF how = "tokens" /\ p = c THEN << >> ELSE <<x>>
  BY DEF Part, c
<1> HIDE DEF u, v, x
<1>8. Part(how, t, d, u) = IF how = "tokens" /\ u = v THEN << >> ELSE <<x>>
  BY <1>6, Zenon DEF Part
<1>9. Part(how, t, d, u) = Part(how, s, d, p)
  <2>1. CASE p = c
    BY <1>5, <1>7, <1>8, <2>1, Zenon
  <2>2. CASE p # c
    BY <1>5, <1>7, <1>8, <2>2, Zenon
  <2> QED
    BY <2>1, <2>2
<1> QED
  BY <1>3, <1>9 DEF c, u

Continues(f, g, s, t, h) ==
  f[h + 1] = g[1] \o (IF h + Len(s) = Len(t) THEN << >> ELSE f[h + Len(s) + 2])

\* What is made of s there is what is made of s alone, and of what follows.
LEMMA CutsThere ==
  ASSUME NEW S, NEW s \in Seq(S), NEW t \in Seq(S), NEW h, NEW d, NEW how,
         Sits(s, t, h, d),
         NEW f \in [1 .. Len(t) + 2 -> Seq(Seq(S))], Cuts(f, t, d, how),
         NEW g \in [1 .. Len(s) + 2 -> Seq(Seq(S))], Cuts(g, s, d, how)
  PROVE  Continues(f, g, s, t, h)
<1> DEFINE n == Len(s)
           m == Len(t)
           V == Seq(Seq(S))
           rest == IF h + n = m THEN << >> ELSE f[h + n + 2]
           T == {p \in 0 .. n + 1 : p >= 1 => f[h + p] = g[p] \o rest}
<1>1. n \in Nat /\ m \in Nat /\ h \in Nat /\ h + n <= m
  BY DEF Sits
<1>2. rest \in V
  <2>1. CASE h + n = m
    BY <2>1
  <2>2. CASE h + n # m
    <3> DEFINE e == h + n + 2
    <3>1. e \in 1 .. m + 2
      BY <1>1, <2>2
    <3> HIDE DEF e
    <3>2. f[e] \in V
      BY <3>1
    <3> QED
      BY <2>2, <3>2 DEF e
  <2> QED
    BY <2>1, <2>2
<1>3. ASSUME NEW p \in 0 .. n + 1, \A q \in p + 1 .. n + 1 : q \in T
      PROVE  p \in T
  <2> SUFFICES ASSUME p >= 1 PROVE f[h + p] = g[p] \o rest
    OBVIOUS
  <2> DEFINE c == Find(s, d, p)
             part == Part(how, s, d, p)
             u == h + p
             v == h + c
  <2>1. p \in 1 .. n + 1 /\ u \in 1 .. m + 1
    BY <1>1
  <2>2. c \in p .. n + 1
    BY <1>1, <2>1, FindIs
  <2>3. part \in V
    <3>1. part \in Seq(Seq(S \ {d}))
      BY <2>1, PartType
    <3>2. \A x \in Seq(S \ {d}) : x \in Seq(S)
      OBVIOUS
    <3> HIDE DEF part
    <3> QED
      BY <3>1, <3>2
  <2>4. Find(t, d, u) = v /\ Part(how, t, d, u) = part
    BY <2>1, SameThere
  <2>5. g[p] = part \o (IF c > n THEN << >> ELSE g[c + 1])
    BY <2>1 DEF Cuts
  <2> HIDE DEF u, v, c, part, n, m, rest
  <2>6. f[u] = part \o (IF v > m THEN << >> ELSE f[v + 1])
    BY <2>1, <2>4 DEF Cuts, m
  <2>7. CASE c <= n
    <3>1. ~(c > n) /\ ~(v > m)
      BY <1>1, <2>2, <2>7 DEF v
    <3>2. g[p] = part \o g[c + 1] /\ f[u] = part \o f[v + 1]
      BY <2>5, <2>6, <3>1
    <3>3. f[v + 1] = g[c + 1] \o rest
      <4>1. c + 1 \in p + 1 .. n + 1 /\ c + 1 >= 1 /\ v + 1 = h + (c + 1)
        BY <1>1, <2>1, <2>2, <2>7 DEF v
      <4>2. c + 1 \in T
        BY <1>3, <4>1
      <4> QED
        BY <4>1, <4>2
    <3>4. g[c + 1] \in V
      <4>1. c + 1 \in 1 .. Len(s) + 2
        BY <1>1, <2>1, <2>2, <2>7 DEF n
      <4> QED
        BY <4>1
    <3> DEFINE y == g[c + 1]
    <3>5. y \in V /\ g[p] = part \o y /\ f[u] = part \o (y \o rest)
      BY <3>2, <3>3, <3>4
    <3> HIDE DEF y, V, T
    <3>6. (part \o y) \o rest = part \o (y \o rest)
      <4>1. part \in Seq(Seq(S)) /\ y \in Seq(Seq(S)) /\ rest \in Seq(Seq(S))
        BY <1>2, <2>3, <3>5, Zenon DEF V
      <4>2. Associate(part, y, rest)
        BY <4>1, CatAssociates, Zenon
      <4> QED
        BY <4>2 DEF Associate
    <3> QED
      BY <3>5, <3>6 DEF u
  <2>8. CASE ~(c <= n)
    <3>1. c > n /\ (v > m <=> h + n = m) /\ v + 1 = h + n + 2
      BY <1>1, <2>1, <2>2, <2>8 DEF v
    <3>2. part \o << >> = part
      BY <2>3
    <3>3. g[p] = part
      BY <2>5, <3>1, <3>2
    <3>4. (IF v > m THEN << >> ELSE f[v + 1]) = rest
      <4>1. CASE v > m
        BY <3>1, <4>1 DEF rest
      <4>2. CASE ~(v > m)
        BY <3>1, <4>2 DEF rest
      <4> QED
        BY <4>1, <4>2
    <3>5. f[u] = part \o rest
      BY <2>6, <3>4
    <3> QED
      BY <3>3, <3>5 DEF u
  <2> QED
    BY <2>7, <2>8
<1>4. 1 \in T
  <2>1. 0 .. n + 1 \subseteq T
    <3>1. n + 1 \in Nat
      BY <1>1
    <3> HIDE DEF T, n
    <3> QED
      BY <1>3, <3>1, Falls
  <2>2. 1 \in 0 .. n + 1
    BY <1>1
  <2> QED
    BY <2>1, <2>2
<1> HIDE DEF rest
<1>5. f[h + 1] = g[1] \o rest
  BY <1>4
<1> QED
  BY <1>5 DEF rest, Continues

IsJoined(s, a, d, b) == s = (a \o <<d>>) \o b
OneByOne(f, g, h) == f[1] = g[1] \o h[1]

\* A text cut at one of its delimiters.
LEMMA CutsJoin ==
  ASSUME NEW S, NEW a \in Seq(S), NEW b \in Seq(S), NEW d \in S, NEW how,
         NEW s, IsJoined(s, a, d, b),
         NEW f \in [1 .. Len(s) + 2 -> Seq(Seq(S))], Cuts(f, s, d, how),
         NEW fa \in [1 .. Len(a) + 2 -> Seq(Seq(S))], Cuts(fa, a, d, how),
         NEW fb \in [1 .. Len(b) + 2 -> Seq(Seq(S))], Cuts(fb, b, d, how)
  PROVE  OneByOne(f, fa, fb)
<1> DEFINE x == <<d>>
           y == a \o x
           n == Len(a)
<1>1. x \in Seq(S) /\ Len(x) = 1 /\ x[1] = d
  OBVIOUS
<1> HIDE DEF x
<1>2. y \in Seq(S) /\ Len(y) = n + 1 /\ n \in Nat /\ y[n + 1] = d /\ Starts(a, y)
  <2>1. y \in Seq(S) /\ n \in Nat
    BY <1>1, CatIs, Zenon
  <2>2. Len(y) = n + Len(x)
    BY <1>1, CatIs, Zenon
  <2>3. Starts(a, y)
    BY <1>1, CatIs, Zenon
  <2>4. EndsIn(y, a, x)
    BY <1>1, CatIs, Zenon
  <2>5. y[n + 1] = d
    <3>1. 1 \in 1 .. Len(x)
      BY <1>1
    <3>2. y[n + 1] = x[1]
      BY <2>4, <3>1 DEF EndsIn
    <3> QED
      BY <1>1, <3>2, Zenon
  <2> QED
    BY <1>1, <2>1, <2>2, <2>3, <2>5
<1> HIDE DEF y
<1>3. /\ s \in Seq(S) /\ Len(s) = (n + 1) + Len(b) /\ Len(b) \in Nat
      /\ Starts(y, s) /\ EndsIn(s, y, b)
  <2>1. s = y \o b
    BY DEF y, x, IsJoined
  <2>2. y \o b \in Seq(S) /\ Len(y \o b) = Len(y) + Len(b) /\ Len(b) \in Nat
    BY <1>2, CatIs, Zenon
  <2>3. Starts(y, y \o b)
    BY <1>2, CatIs, Zenon
  <2>4. EndsIn(y \o b, y, b)
    BY <1>2, CatIs, Zenon
  <2> QED
    BY <1>2, <2>1, <2>2, <2>3, <2>4
<1>4. Sits(a, s, 0, d)
  <2>1. \A i \in 1 .. n : s[i] = a[i]
    BY <1>2, <1>3 DEF Starts
  <2>2. s[n + 1] = d
    BY <1>2, <1>3 DEF Starts
  <2>3. 0 + n = n
    BY <1>2
  <2>4. \A i \in 1 .. n : s[0 + i] = a[i]
    BY <1>2, <2>1
  <2>5. 0 + n <= Len(s) /\ s[0 + n + 1] = d
    BY <1>2, <1>3, <2>2
  <2> QED
    BY <2>4, <2>5 DEF Sits
<1>5. Sits(b, s, n + 1, d)
  <2>1. \A i \in 1 .. Len(b) : s[(n + 1) + i] = b[i]
    BY <1>2, <1>3 DEF EndsIn
  <2>2. n + 1 \in Nat /\ (n + 1) + Len(b) <= Len(s) /\ (n + 1) + Len(b) = Len(s)
    BY <1>2, <1>3
  <2> DEFINE k == n + 1
  <2> HIDE DEF k
  <2>3. k \in Nat /\ k + Len(b) <= Len(s) /\ k + Len(b) = Len(s)
        /\ \A i \in 1 .. Len(b) : s[k + i] = b[i]
    BY <2>1, <2>2 DEF k
  <2>4. Sits(b, s, k, d)
    BY <2>3, Zenon DEF Sits
  <2> QED
    BY <2>4 DEF k
<1>6. f[(n + 1) + 1] = fb[1]
  <2> DEFINE k == n + 1
  <2>1. Continues(f, fb, b, s, k)
    BY <1>3, <1>5, CutsThere, Zenon
  <2>2. k + Len(b) = Len(s)
    BY <1>3
  <2> HIDE DEF k
  <2>3. f[k + 1] = fb[1] \o << >>
    BY <2>1, <2>2, Zenon DEF Continues
  <2>4. fb[1] \in Seq(Seq(S))
    <3>1. 1 \in 1 .. Len(b) + 2
      BY <1>3
    <3> QED
      BY <3>1
  <2>5. fb[1] \o << >> = fb[1]
    BY <2>4
  <2> QED
    BY <2>3, <2>5 DEF k
<1>7. Continues(f, fa, a, s, 0)
  BY <1>3, <1>4, CutsThere, Zenon
<1>8. 0 + n # Len(s) /\ 0 + n + 2 = (n + 1) + 1 /\ 0 + 1 = 1
  BY <1>2, <1>3
<1>9. f[1] = fa[1] \o f[(n + 1) + 1]
  BY <1>7, <1>8, Zenon DEF Continues
<1> QED
  BY <1>6, <1>9, Zenon DEF OneByOne

-----------------------------------------------------------------------------
(* What StringTokenize and Split cut a text into.                          *)

Splits(f, s, d) ==
  /\ \A p \in 1 .. Len(s) + 2 :
       f[p] = IF Find(s, d, p) > Len(s) THEN Part("fields", s, d, p)
              ELSE Part("fields", s, d, p) \o f[Find(s, d, p) + 1]
  /\ Split(s, d) = f[1]

\* A part is made of what the text is made of.
LEMMA PartIn ==
  ASSUME NEW S, NEW s \in Seq(S), NEW d, NEW p \in 1 .. Len(s) + 2
  PROVE  Part("fields", s, d, p) \in Seq(Seq(S))
<1> DEFINE c == Find(s, d, p)
           x == SubSeq(s, p, c - 1)
<1>1. c \in 1 .. Len(s) + 1
  BY FindIs
<1> HIDE DEF c
<1>2. x \in Seq(S)
  <2>1. \A i \in p .. c - 1 : s[i] \in S
    BY <1>1
  <2>2. p \in Int /\ c - 1 \in Int
    BY <1>1
  <2> QED
    BY <2>1, <2>2, SubSeqProperties
<1>3. Part("fields", s, d, p) = <<x>>
  BY DEF Part, c
<1> HIDE DEF x
<1>4. <<x>> \in Seq(Seq(S))
  BY <1>2
<1> QED
  BY <1>3, <1>4, Zenon

\* Split exists: its recurrence has a solution for any text.
LEMMA SplitBy ==
  ASSUME NEW S, NEW s \in Seq(S), NEW d
  PROVE  \E f \in [1 .. Len(s) + 2 -> Seq(Seq(S))] : Splits(f, s, d)
<1> DEFINE n == Len(s)
           D == 1 .. n + 2
           V == Seq(Seq(S))
           cut(p) == Find(s, d, p)
           token(p) == Part("fields", s, d, p)
           rank == [p \in D |-> n + 2 - p]
           next == [p \in D |-> IF cut(p) > n THEN p ELSE cut(p) + 1]
           step == [x \in D \X V |-> token(x[1]) \o x[2]]
           base == [p \in D |-> token(p)]
           Eq(f) == f = [p \in D |-> IF cut(p) > n THEN token(p)
                                     ELSE token(p) \o f[cut(p) + 1]]
<1>1. n \in Nat
  OBVIOUS
<1>2. ASSUME NEW p \in D
      PROVE  /\ cut(p) \in 1 .. n + 1 /\ token(p) \in V
             /\ cut(p) <= n => cut(p) + 1 \in D /\ cut(p) >= p
  <2>1. cut(p) \in 1 .. n + 1 /\ (p <= n + 1 => cut(p) >= p)
    BY FindIs
  <2>2. token(p) \in V
    BY PartIn
  <2>3. p = n + 2 => cut(p) = n + 1
    <3>1. {i \in n + 2 .. n : s[i] = d} = {}
      BY <1>1
    <3> QED
      BY <3>1 DEF Find
  <2> HIDE DEF cut, token
  <2> QED
    BY <1>1, <2>1, <2>2, <2>3
<1> HIDE DEF n, cut, token
<1>3. rank \in [D -> 0 .. n + 2] /\ n + 2 \in Nat
  BY <1>1
<1>4. next \in [D -> D]
  <2>1. ASSUME NEW p \in D PROVE next[p] \in D
    <3>1. CASE cut(p) > n
      BY <3>1
    <3>2. CASE ~(cut(p) > n)
      <4>1. next[p] = cut(p) + 1
        BY <3>2
      <4>2. cut(p) <= n
        BY <1>1, <1>2, <3>2
      <4> QED
        BY <1>2, <4>1, <4>2
    <3> QED
      BY <3>1, <3>2
  <2>2. next = [p \in D |-> next[p]]
    OBVIOUS
  <2> HIDE DEF next, D
  <2> QED
    BY <2>1, <2>2
<1>5. step \in [D \X V -> V]
  <2>1. \A a, b \in V : a \o b \in V
    OBVIOUS
  <2>2. \A x \in D \X V : token(x[1]) \in V /\ x[2] \in V
    BY <1>2
  <2> HIDE DEF V, D
  <2> QED
    BY <2>1, <2>2
<1>6. base \in [D -> V]
  BY <1>2
<1>7. PICK g \in [D -> V] : Solves(g, D, rank, next, step, base)
  <2> HIDE DEF D, V, rank, next, step, base
  <2> QED
    BY <1>3, <1>4, <1>5, <1>6, RecursionDefines, Zenon
<1>8. ASSUME NEW p \in D
      PROVE  g[p] = IF cut(p) > n THEN token(p) ELSE token(p) \o g[cut(p) + 1]
  <2>1. g[p] = IF rank[next[p]] < rank[p] THEN step[<<p, g[next[p]]>>]
               ELSE base[p]
    BY <1>7 DEF Solves
  <2>2. CASE cut(p) > n
    <3>1. next[p] = p
      BY <2>2
    <3>2. rank[next[p]] = n + 2 - p /\ rank[p] = n + 2 - p
      BY <3>1
    <3>3. ~(rank[next[p]] < rank[p]) /\ base[p] = token(p)
      BY <1>1, <3>2
    <3> HIDE DEF rank, next, step, base, D, V
    <3> QED
      BY <2>1, <2>2, <3>3
  <2>3. CASE ~(cut(p) > n)
    <3> DEFINE q == cut(p) + 1
    <3>1. next[p] = q
      BY <2>3
    <3>2. q \in D /\ q > p
      <4> DEFINE c == cut(p)
      <4>1. c \in 1 .. n + 1 /\ ~(c > n)
        BY <1>2, <2>3
      <4>2. c <= n => c + 1 \in D /\ c >= p
        BY <1>2
      <4> HIDE DEF c, rank, next, step, base, Eq
      <4>3. c + 1 \in D /\ c + 1 > p
        BY <1>1, <4>1, <4>2
      <4> QED
        BY <4>3 DEF c
    <3> HIDE DEF q
    <3>3. rank[q] = n + 2 - q /\ rank[p] = n + 2 - p
      BY <3>2
    <3>4. rank[q] < rank[p]
      BY <1>1, <3>2, <3>3
    <3>5. g[q] \in V
      BY <3>2
    <3>6. step[<<p, g[q]>>] = token(p) \o g[q]
      <4>1. <<p, g[q]>> \in D \X V
        BY <3>5
      <4> HIDE DEF D, V
      <4> QED
        BY <4>1
    <3> HIDE DEF rank, next, step, base, D, V
    <3> QED
      BY <2>1, <2>3, <3>1, <3>4, <3>6 DEF q
  <2> QED
    BY <2>2, <2>3
<1>9. Eq(g)
  <2> DEFINE e(p) == IF cut(p) > n THEN token(p) ELSE token(p) \o g[cut(p) + 1]
  <2>1. \A p \in D : g[p] = e(p)
    BY <1>8
  <2>2. g = [p \in D |-> e(p)]
    <3> HIDE DEF e, D, V
    <3> QED
      BY <2>1
  <2> QED
    BY <2>2
<1> DEFINE f == CHOOSE h : Eq(h)
<1>10. Eq(f)
  <2> HIDE DEF Eq
  <2> QED
    BY <1>9
<1>11. Split(s, d) = f[1]
  BY DEF Split, n, cut, token, Part
<1> HIDE DEF f
<1>12. ASSUME NEW p \in D
       PROVE  f[p] = IF cut(p) > n THEN token(p) ELSE token(p) \o f[cut(p) + 1]
  <2> HIDE DEF D, V, rank, next, step, base
  <2> QED
    BY <1>10, Zenon
<1>13. \A p \in 0 .. n + 2 : p >= 1 => f[p] \in V
  <2> DEFINE T == {p \in 0 .. n + 2 : p >= 1 => f[p] \in V}
  <2>1. ASSUME NEW p \in 0 .. n + 2, \A j \in p + 1 .. n + 2 : j \in T
        PROVE  p \in T
    <3>1. CASE p = 0
      BY <3>1
    <3>2. CASE p # 0
      <4>1. p \in D
        BY <3>2
      <4>2. CASE cut(p) > n
        <5>1. f[p] = token(p)
          BY <1>12, <4>1, <4>2
        <5> HIDE DEF Eq, V, D
        <5>2. f[p] \in V
          BY <1>2, <4>1, <5>1
        <5> QED
          BY <5>2
      <4>3. CASE ~(cut(p) > n)
        <5> DEFINE q == cut(p) + 1
        <5>1. q \in p + 1 .. n + 2 /\ q >= 1
          <6> DEFINE c == cut(p)
          <6>1. c \in 1 .. n + 1 /\ ~(c > n)
            BY <1>2, <4>1, <4>3
          <6>2. c <= n => c >= p
            BY <1>2, <4>1
          <6> HIDE DEF c
          <6>3. c + 1 \in p + 1 .. n + 2 /\ c + 1 >= 1
            BY <1>1, <4>1, <6>1, <6>2
          <6> QED
            BY <6>3 DEF c
        <5>2. f[p] = token(p) \o f[q]
          BY <1>12, <4>1, <4>3
        <5> HIDE DEF q, Eq, D
        <5>3. f[q] \in V
          BY <2>1, <5>1
        <5>4. token(p) \in V
          BY <1>2, <4>1
        <5>5. f[p] \in V
          BY <5>2, <5>3, <5>4
        <5> HIDE DEF V
        <5> QED
          BY <5>5
      <4> QED
        BY <4>2, <4>3
    <3> QED
      BY <3>1, <3>2
  <2>2. 0 .. n + 2 \subseteq T
    <3> HIDE DEF T
    <3> QED
      BY <1>3, <2>1, Falls
  <2> QED
    BY <2>2
<1>14. f = [p \in D |-> f[p]] /\ \A p \in D : p \in 0 .. n + 2 /\ p >= 1
  BY <1>10
<1> HIDE DEF Eq
<1>15. f \in [D -> V]
  <2> HIDE DEF V, D
  <2> QED
    BY <1>13, <1>14
<1>16. Splits(f, s, d)
  BY <1>11, <1>12 DEF Splits, n, cut, token
<1> QED
  BY <1>15, <1>16 DEF n

Cut(how, s, d) == IF how = "fields" THEN Split(s, d) ELSE StringTokenize(s, d)
CutsTo(f, s, d, how) == Cuts(f, s, d, how) /\ f[1] = Cut(how, s, d)

\* Both ways of cutting are solutions of one recurrence.
LEMMA CutBy ==
  ASSUME NEW S, NEW s \in Seq(S), NEW d, NEW how \in Ways
  PROVE  \E f \in [1 .. Len(s) + 2 -> Seq(Seq(S))] : CutsTo(f, s, d, how)
<1> DEFINE n == Len(s)
<1>1. n \in Nat /\ n + 1 \in 1 .. n + 2 /\ n + 1 \in Nat \ {0}
  OBVIOUS
<1>2. Find(s, d, n + 1) = n + 1
  BY <1>1, FindIs
<1>3. \A p \in 1 .. n + 1 : p \in 1 .. n + 2 /\ Find(s, d, p) \in 1 .. n + 1
  BY <1>1, FindIs
<1>4. CASE how = "fields"
  <2>1. PICK f \in [1 .. n + 2 -> Seq(Seq(S))] : Splits(f, s, d)
    BY SplitBy, Zenon
  <2>2. ASSUME NEW p \in 1 .. n + 1
        PROVE  f[p] = Part(how, s, d, p)
                 \o (IF Find(s, d, p) > n THEN << >> ELSE f[Find(s, d, p) + 1])
    <3> DEFINE c == Find(s, d, p)
               part == Part("fields", s, d, p)
    <3>1. f[p] = IF c > n THEN part ELSE part \o f[c + 1]
      BY <1>3, <2>1 DEF Splits
    <3>2. part \in Seq(Seq(S))
      BY <1>3, PartIn
    <3> HIDE DEF part, c
    <3>3. part \o << >> = part
      BY <3>2
    <3>4. f[p] = part \o (IF c > n THEN << >> ELSE f[c + 1])
      <4>1. CASE c > n
        BY <3>1, <3>3, <4>1
      <4>2. CASE ~(c > n)
        BY <3>1, <4>2
      <4> QED
        BY <4>1, <4>2
    <3>5. how = "fields"
      BY <1>4
    <3> QED
      BY <3>4, <3>5, Zenon DEF part, c
  <2>3. Cuts(f, s, d, how)
    BY <2>2, Zenon DEF Cuts, n
  <2>4. f[1] = Cut(how, s, d)
    BY <1>4, <2>1, Zenon DEF Cut, Splits
  <2> QED
    BY <2>1, <2>3, <2>4, Zenon DEF CutsTo, n
<1>5. CASE how = "tokens"
  <2>1. PICK f \in [1 .. n + 2 -> Seq(Seq(S))] : Tokenizes(f, s, d)
    BY TokenizeBy, Zenon
  <2>2. f[n + 1] = << >>
    <3>1. f[n + 1] = Token(s, d, n + 1)
      BY <1>1, <1>2, <2>1 DEF Tokenizes
    <3> QED
      BY <1>2, <3>1 DEF Token
  <2>3. ASSUME NEW p \in 1 .. n + 1
        PROVE  f[p] = Part(how, s, d, p)
                 \o (IF Find(s, d, p) > n THEN << >> ELSE f[Find(s, d, p) + 1])
    <3> DEFINE c == Find(s, d, p)
               part == Token(s, d, p)
    <3>1. f[p] = IF c >= n THEN part ELSE part \o f[c + 1]
      BY <1>3, <2>1 DEF Tokenizes
    <3>2. part \in Seq(Seq(S))
      BY <1>3, TokenType
    <3>3. c \in 1 .. n + 1
      BY <1>3
    <3>4. part = Part(how, s, d, p)
      BY <1>5 DEF Part, Token
    <3> HIDE DEF part, c
    <3>5. part \o << >> = part
      BY <3>2
    <3>6. f[p] = part \o (IF c > n THEN << >> ELSE f[c + 1])
      <4>1. CASE c = n + 1
        <5>1. c > n /\ c >= n
          BY <1>1, <4>1
        <5> QED
          BY <3>1, <3>5, <5>1, Zenon
      <4>2. CASE c = n
        <5>1. ~(c > n) /\ c >= n /\ c + 1 = n + 1
          BY <1>1, <4>2
        <5> QED
          BY <2>2, <3>1, <3>5, <5>1, Zenon
      <4>3. CASE c \in 1 .. n - 1
        <5>1. ~(c > n) /\ ~(c >= n)
          BY <1>1, <4>3
        <5> QED
          BY <3>1, <5>1, Zenon
      <4> QED
        BY <1>1, <3>3, <4>1, <4>2, <4>3
    <3> QED
      BY <3>4, <3>6, Zenon DEF c
  <2>4. Cuts(f, s, d, how)
    BY <2>3, Zenon DEF Cuts, n
  <2>5. f[1] = Cut(how, s, d)
    BY <1>5, <2>1, Zenon DEF Cut, Tokenizes
  <2> QED
    BY <2>1, <2>4, <2>5, Zenon DEF CutsTo, n
<1> QED
  BY <1>4, <1>5 DEF Ways

\* A text is cut at each of its delimiters by itself.
Joins(how, a, b, d) ==
  Cut(how, (a \o <<d>>) \o b, d) = Cut(how, a, d) \o Cut(how, b, d)

\* The law of cutting: behind a delimiter it starts afresh.
LEMMA CutJoins ==
  ASSUME NEW S, NEW a \in Seq(S), NEW b \in Seq(S), NEW d \in S,
         NEW how \in Ways
  PROVE  Joins(how, a, b, d)
<1> DEFINE x == <<d>>
           s == (a \o x) \o b
<1>1. x \in Seq(S)
  OBVIOUS
<1>2. s \in Seq(S)
  BY <1>1
<1> HIDE DEF x
<1>3. s = (a \o <<d>>) \o b
  BY DEF x
<1> HIDE DEF s
<1>4. PICK f \in [1 .. Len(s) + 2 -> Seq(Seq(S))] : CutsTo(f, s, d, how)
  BY <1>2, CutBy, Zenon
<1>5. PICK fa \in [1 .. Len(a) + 2 -> Seq(Seq(S))] : CutsTo(fa, a, d, how)
  BY CutBy, Zenon
<1>6. PICK fb \in [1 .. Len(b) + 2 -> Seq(Seq(S))] : CutsTo(fb, b, d, how)
  BY CutBy, Zenon
<1>7. f[1] = fa[1] \o fb[1]
  <2>1. /\ Cuts(f, s, d, how) /\ Cuts(fa, a, d, how) /\ Cuts(fb, b, d, how)
    BY <1>4, <1>5, <1>6 DEF CutsTo
  <2>2. IsJoined(s, a, d, b)
    BY <1>3 DEF IsJoined
  <2>3. OneByOne(f, fa, fb)
    BY <2>1, <2>2, CutsJoin, Zenon
  <2> QED
    BY <2>3 DEF OneByOne
<1> QED
  BY <1>3, <1>4, <1>5, <1>6, <1>7, Zenon DEF CutsTo, Joins

\* No delimiter is left.
LEMMA CutFree ==
  ASSUME NEW S, NEW s \in Seq(S), NEW d, NEW how \in Ways
  PROVE  Cut(how, s, d) \in Seq(Seq(S \ {d}))
<1> DEFINE n == Len(s)
           V == Seq(Seq(S \ {d}))
<1>1. PICK f \in [1 .. Len(s) + 2 -> Seq(Seq(S))] : CutsTo(f, s, d, how)
  BY CutBy, Zenon
<1> DEFINE T == {p \in 0 .. n + 1 : p >= 1 => f[p] \in V}
<1>2. n \in Nat /\ n + 1 \in Nat
  OBVIOUS
<1>3. ASSUME NEW p \in 0 .. n + 1, \A q \in p + 1 .. n + 1 : q \in T
      PROVE  p \in T
  <2> SUFFICES ASSUME p >= 1 PROVE f[p] \in V
    OBVIOUS
  <2> DEFINE c == Find(s, d, p)
             part == Part(how, s, d, p)
             rest == IF c > n THEN << >> ELSE f[c + 1]
  <2>1. p \in 1 .. n + 1
    BY <1>2
  <2>2. c \in p .. n + 1
    BY <1>2, <2>1, FindIs
  <2>3. part \in V
    BY <2>1, PartType
  <2>4. f[p] = part \o rest
    BY <1>1, <2>1 DEF CutsTo, Cuts
  <2> HIDE DEF c, part
  <2>5. rest \in V
    <3>1. CASE c > n
      BY <3>1
    <3>2. CASE ~(c > n)
      <4>1. c + 1 \in p + 1 .. n + 1 /\ c + 1 >= 1
        BY <1>2, <2>1, <2>2, <3>2
      <4> HIDE DEF V
      <4>2. f[c + 1] \in V
        BY <1>3, <4>1
      <4> QED
        BY <3>2, <4>2
    <3> QED
      BY <3>1, <3>2
  <2> HIDE DEF rest
  <2>6. part \o rest \in V
    BY <2>3, <2>5, CatIn
  <2> HIDE DEF V
  <2> QED
    BY <2>4, <2>6
<1>4. 1 \in T
  <2>1. 0 .. n + 1 \subseteq T
    <3> HIDE DEF T, n
    <3> QED
      BY <1>2, <1>3, Falls
  <2>2. 1 \in 0 .. n + 1
    BY <1>2
  <2> QED
    BY <2>1, <2>2
<1> HIDE DEF V
<1>5. f[1] \in V
  BY <1>4
<1> QED
  BY <1>1, <1>5 DEF CutsTo, V

\* A text without the delimiter is one piece, if it is any.
LEMMA CutNone ==
  ASSUME NEW S, NEW d, NEW s \in Seq(S \ {d}), NEW how \in Ways
  PROVE  /\ how = "fields" \/ s # << >> => Cut(how, s, d) = <<s>>
         /\ how = "tokens" /\ s = << >> => Cut(how, s, d) = << >>
<1> DEFINE n == Len(s)
<1>1. PICK f \in [1 .. Len(s) + 2 -> Seq(Seq(S \ {d}))] : CutsTo(f, s, d, how)
  BY CutBy, Zenon
<1>2. n \in Nat /\ 1 \in 1 .. n + 1
  OBVIOUS
<1>3. Find(s, d, 1) = n + 1
  <2>1. n + 1 \in 1 .. n + 1 /\ \A i \in 1 .. (n + 1) - 1 : s[i] # d
    BY <1>2
  <2>2. ~(n + 1 <= n)
    BY <1>2
  <2> DEFINE c == n + 1
  <2>3. c \in 1 .. Len(s) + 1 /\ (\A i \in 1 .. c - 1 : s[i] # d) /\ (c <= Len(s) => s[c] = d)
    BY <2>1, <2>2
  <2> HIDE DEF c
  <2>4. Find(s, d, 1) = c
    BY <1>2, <2>3, FindOnly
  <2> QED
    BY <2>4 DEF c
<1>4. SubSeq(s, 1, (n + 1) - 1) = s
  <2>1. (n + 1) - 1 = n
    BY <1>2
  <2>2. SubSeq(s, 1, n) = s
    OBVIOUS
  <2> QED
    BY <2>1, <2>2
<1>5. f[1] = Part(how, s, d, 1) \o << >>
  <2>1. n + 1 > n
    BY <1>2
  <2> QED
    BY <1>1, <1>2, <1>3, <2>1 DEF CutsTo, Cuts
<1>6. Part(how, s, d, 1) \in Seq(Seq(S \ {d}))
  <2>1. Part(how, s, d, 1) \in Seq(Seq((S \ {d}) \ {d}))
    BY <1>2, PartType
  <2>2. (S \ {d}) \ {d} = S \ {d}
    OBVIOUS
  <2> QED
    BY <2>1, <2>2, Zenon
<1>7. f[1] = Part(how, s, d, 1)
  BY <1>5, <1>6
<1>8. (1 = n + 1) <=> s = << >>
  BY <1>2
<1>9. Part(how, s, d, 1) = IF how = "tokens" /\ 1 = n + 1 THEN << >> ELSE <<s>>
  <2> DEFINE c == n + 1
  <2>1. Find(s, d, 1) = c /\ SubSeq(s, 1, c - 1) = s
    BY <1>3, <1>4
  <2> HIDE DEF c
  <2>2. Part(how, s, d, 1) = IF how = "tokens" /\ 1 = c THEN << >> ELSE <<s>>
    BY <2>1, Zenon DEF Part
  <2> QED
    BY <2>2 DEF c
<1>10. f[1] = Cut(how, s, d)
  BY <1>1 DEF CutsTo
<1>11. ASSUME how = "fields" \/ s # << >> PROVE Cut(how, s, d) = <<s>>
  BY <1>7, <1>8, <1>9, <1>10, <1>11, Zenon
<1>12. ASSUME how = "tokens" /\ s = << >> PROVE Cut(how, s, d) = << >>
  BY <1>7, <1>8, <1>9, <1>10, <1>12, Zenon
<1> QED
  BY <1>11, <1>12

-----------------------------------------------------------------------------
(* What Parse makes of GetAsString.                                        *)

Writes(f, data) ==
  /\ f[0] = << >>
  /\ \A i \in 1 .. Len(data) : f[i] = (f[i - 1] \o data[i]) \o <<NewLine>>
  /\ GetAsString(data) = f[Len(data)]

\* GetAsString exists: its recurrence has a solution for any lines.
LEMMA StringBy ==
  ASSUME NEW S, NewLine \in S, NEW data \in Seq(Seq(S))
  PROVE  \E f \in [0 .. Len(data) -> Seq(S)] : Writes(f, data)
<1> DEFINE n == Len(data)
           V == Seq(S)
           none == << >>
           step == [p \in (1 .. n) \X V |-> (p[2] \o data[p[1]]) \o <<NewLine>>]
           Eq(f) == f = [i \in 0 .. n |-> IF i = 0 THEN << >>
                                          ELSE (f[i - 1] \o data[i]) \o <<NewLine>>]
<1>1. n \in Nat /\ none \in V /\ <<NewLine>> \in V /\ \A i \in 1 .. n : data[i] \in V
  OBVIOUS
<1>2. step \in [(1 .. n) \X V -> V]
  <2>1. \A a, b, c \in V : (a \o b) \o c \in V
    BY CatIn
  <2>2. \A p \in (1 .. n) \X V : p[2] \in V /\ data[p[1]] \in V
    BY <1>1
  <2> HIDE DEF V, n
  <2> QED
    BY <1>1, <2>1, <2>2
<1>3. PICK g \in [0 .. n -> V] : CountsUp(g, n, step, none)
  <2> HIDE DEF n, V, none, step
  <2> QED
    BY <1>1, <1>2, CountUpDefines, Zenon
<1>4. g[0] = << >> /\ \A i \in 1 .. n : g[i] = (g[i - 1] \o data[i]) \o <<NewLine>>
  <2>1. ASSUME NEW i \in 1 .. n PROVE g[i] = (g[i - 1] \o data[i]) \o <<NewLine>>
    <3>1. i - 1 \in 0 .. n /\ g[i - 1] \in V
      <4>1. i - 1 \in 0 .. n
        BY <1>1
      <4> HIDE DEF n, step, V
      <4> QED
        BY <4>1
    <3> DEFINE p == <<i, g[i - 1]>>
    <3>2. p \in (1 .. n) \X V /\ p[1] = i /\ p[2] = g[i - 1]
      BY <3>1
    <3>3. g[i] = step[p]
      <4> HIDE DEF n, step
      <4> QED
        BY <1>3 DEF CountsUp
    <3> HIDE DEF p, n, V
    <3>4. step[p] = (p[2] \o data[p[1]]) \o <<NewLine>>
      BY <3>2
    <3> QED
      BY <3>2, <3>3, <3>4
  <2> QED
    BY <1>3, <2>1 DEF CountsUp
<1>5. Eq(g)
  <2> DEFINE e(i) == IF i = 0 THEN << >> ELSE (g[i - 1] \o data[i]) \o <<NewLine>>
  <2>1. ASSUME NEW i \in 0 .. n PROVE g[i] = e(i)
    <3>1. i = 0 \/ i \in 1 .. n
      BY <1>1
    <3> HIDE DEF n, step, V
    <3>2. CASE i = 0
      BY <1>4, <3>2
    <3>3. CASE i # 0
      BY <1>4, <3>1, <3>3
    <3> QED
      BY <3>2, <3>3
  <2>2. g = [i \in 0 .. n |-> e(i)]
    <3> HIDE DEF e, n, step, V
    <3> QED
      BY <2>1
  <2> QED
    BY <2>2
<1> DEFINE f == CHOOSE h : Eq(h)
<1>6. Eq(f)
  <2> HIDE DEF Eq
  <2> QED
    BY <1>5
<1>7. GetAsString(data) = f[n]
  BY DEF GetAsString
<1> HIDE DEF f
<1>8. f[0] = << >> /\ \A i \in 1 .. n : f[i] = (f[i - 1] \o data[i]) \o <<NewLine>>
  <2>1. ASSUME NEW i \in 0 .. n
        PROVE  f[i] = IF i = 0 THEN << >> ELSE (f[i - 1] \o data[i]) \o <<NewLine>>
    <3> HIDE DEF n, step, V
    <3> QED
      BY <1>6, Zenon
  <2>2. 0 \in 0 .. n /\ \A i \in 1 .. n : i \in 0 .. n /\ i # 0
    BY <1>1
  <2> HIDE DEF n, step, Eq, V
  <2> QED
    BY <2>1, <2>2
<1>9. \A i \in 0 .. n : f[i] \in V
  <2> DEFINE T == {i \in 0 .. n : f[i] \in V}
  <2>1. 0 \in T
    <3>1. 0 \in 0 .. n /\ f[0] \in V
      <4> HIDE DEF n, V
      <4> QED
        BY <1>1, <1>8
    <3> QED
      BY <3>1
  <2>2. ASSUME NEW i \in 1 .. n, i - 1 \in T PROVE i \in T
    <3>1. i \in 0 .. n /\ f[i - 1] \in V /\ data[i] \in V
      BY <1>1, <2>2
    <3>2. f[i] = (f[i - 1] \o data[i]) \o <<NewLine>>
      BY <1>8
    <3>3. (f[i - 1] \o data[i]) \o <<NewLine>> \in V
      BY <1>1, <3>1
    <3> HIDE DEF V
    <3> QED
      BY <3>1, <3>2, <3>3
  <2>3. 0 .. n \subseteq T
    <3> HIDE DEF T, n
    <3> QED
      BY <1>1, <2>1, <2>2, Rises
  <2> QED
    BY <2>3
<1>10. f = [i \in 0 .. n |-> f[i]]
  BY <1>6
<1> HIDE DEF n, step, Eq, V
<1>11. f \in [0 .. n -> V]
  BY <1>9, <1>10
<1> QED
  BY <1>7, <1>8, <1>11 DEF Writes, n, V

\* Nothing is erased where there is nothing to erase.
LEMMA WithoutNone ==
  ASSUME NEW S, NEW d, NEW s \in Seq(S \ {d})
  PROVE  Without(s, d) = s
<1> DEFINE n == Len(s)
           K == {s[i] : i \in DOMAIN s} \ {d}
           value == [ch \in K |-> ch]
<1>1. n \in Nat /\ K \subseteq S /\ \A i \in 1 .. n : s[i] \in K
  OBVIOUS
<1>2. Values(value, S) /\ DOMAIN value = K /\ \A ch \in K : value[ch] = ch
  <2> HIDE DEF K
  <2> QED
    BY <1>1 DEF Values
<1>3. Without(s, d) = Selected(s, value)
  BY DEF Without
<1> HIDE DEF value, K
<1>4. PICK f \in [0 .. n -> Seq(S)] : Selects(f, s, value)
  BY <1>2, SelectedBy, Zenon
<1> DEFINE T == {i \in 0 .. n : f[i] = SubSeq(s, 1, i)}
<1>5. 0 \in T
  <2>1. f[0] = << >> /\ 0 \in 0 .. n /\ SubSeq(s, 1, 0) = << >>
    BY <1>1, <1>4 DEF Selects
  <2> QED
    BY <2>1
<1>6. ASSUME NEW i \in 1 .. n, i - 1 \in T PROVE i \in T
  <2>1. s[i] \in DOMAIN value /\ value[s[i]] = s[i]
    BY <1>1, <1>2
  <2>2. f[i] = Append(f[i - 1], s[i])
    BY <1>4, <2>1 DEF Selects
  <2>3. f[i - 1] = SubSeq(s, 1, i - 1)
    BY <1>6
  <2>4. Append(SubSeq(s, 1, i - 1), s[i]) = SubSeq(s, 1, i)
    OBVIOUS
  <2>5. f[i] = SubSeq(s, 1, i)
    BY <2>2, <2>3, <2>4, Zenon
  <2>6. i \in 0 .. n
    BY <1>1
  <2> QED
    BY <2>5, <2>6
<1>7. f[n] = SubSeq(s, 1, n)
  <2>1. 0 .. n \subseteq T
    <3> HIDE DEF T, n
    <3> QED
      BY <1>1, <1>5, <1>6, Rises
  <2>2. n \in T
    BY <1>1, <2>1
  <2> QED
    BY <2>2
<1>8. SubSeq(s, 1, n) = s
  OBVIOUS
<1> QED
  BY <1>3, <1>4, <1>7, <1>8 DEF Selects

\* Lines that are not empty are what the text made of them is parsed into.
LEMMA ParseOfString ==
  ASSUME NEW S, NewLine \in S, Return \in S,
         NEW data \in Seq(Seq(S \ {NewLine, Return})),
         \A i \in DOMAIN data : data[i] # << >>
  PROVE  Parse(GetAsString(data)) = data
<1> DEFINE n == Len(data)
           tok(s) == StringTokenize(s, NewLine)
           V == Seq(S)
           W == Seq(Seq(S))
<1>1. /\ n \in Nat /\ DOMAIN data = 1 .. n
      /\ \A i \in 1 .. n : /\ data[i] \in Seq(S \ {NewLine, Return})
                           /\ data[i] # << >>
  OBVIOUS
<1>2. \A x \in Seq(S \ {NewLine, Return}) :
        x \in V /\ x \in Seq(S \ {NewLine}) /\ x \in Seq(S \ {Return})
  OBVIOUS
<1>3. data \in W
  BY <1>2
<1>4. PICK f \in [0 .. n -> Seq(S)] : Writes(f, data)
  BY <1>3, StringBy, Zenon
<1>5. \A s \in V : tok(s) \in W
  BY TokenizeType
<1>6. ASSUME NEW i \in 1 .. n
      PROVE  tok(data[i]) = <<data[i]>> /\ data[i] \in V
  <2>1. data[i] \in Seq(S \ {NewLine}) /\ data[i] # << >> /\ data[i] \in V
    BY <1>1, <1>2
  <2>2. "tokens" \in Ways
    BY DEF Ways
  <2>3. Cut("tokens", data[i], NewLine) = <<data[i]>>
    BY <2>1, <2>2, CutNone, ZenonT(40)
  <2> QED
    BY <2>1, <2>3 DEF Cut
<1>7. ASSUME NEW a \in V, NEW b \in V
      PROVE  tok((a \o <<NewLine>>) \o b) = tok(a) \o tok(b)
  <2>1. "tokens" \in Ways
    BY DEF Ways
  <2>2. Joins("tokens", a, b, NewLine)
    BY <2>1, CutJoins, Zenon
  <2> QED
    BY <2>2 DEF Joins, Cut
<1> DEFINE first(i) == SubSeq(data, 1, i)
           IsFirst(i) == \A t \in V : tok(f[i] \o t) = first(i) \o tok(t)
           T == {i \in 0 .. n : IsFirst(i)}
<1>8. \A i \in 0 .. n : f[i] \in V /\ first(i) \in W
  <2>1. ASSUME NEW i \in 0 .. n PROVE f[i] \in V /\ first(i) \in W
    <3>1. \A j \in 1 .. i : data[j] \in Seq(S)
      BY <1>1, <1>2
    <3>2. first(i) \in Seq(Seq(S))
      BY <3>1, SubSeqProperties
    <3> QED
      BY <3>2
  <2> QED
    BY <2>1
<1> HIDE DEF tok
<1>9. 0 \in T
  <2>1. f[0] = << >> /\ first(0) = << >> /\ 0 \in 0 .. n
    BY <1>1, <1>4 DEF Writes
  <2>2. ASSUME NEW t \in V PROVE tok(f[0] \o t) = first(0) \o tok(t)
    <3>1. << >> \o t = t
      OBVIOUS
    <3>2. << >> \o tok(t) = tok(t)
      BY <1>5
    <3> QED
      BY <2>1, <3>1, <3>2
  <2> HIDE DEF V, first
  <2> QED
    BY <2>1, <2>2
<1>10. ASSUME NEW i \in 1 .. n, i - 1 \in T PROVE i \in T
  <2> DEFINE l == f[i - 1]
             x == data[i]
             u == first(i - 1)
  <2>1. i - 1 \in 0 .. n /\ i \in 0 .. n
    BY <1>1
  <2>2. l \in V /\ x \in V /\ u \in W /\ tok(x) = <<x>>
    BY <1>6, <1>8, <2>1
  <2>3. f[i] = (l \o x) \o <<NewLine>>
    BY <1>4 DEF Writes
  <2>4. tok(l \o x) = u \o tok(x)
    BY <1>10, <2>2
  <2>5. u \o <<x>> = first(i)
    <3>1. Append(SubSeq(data, 1, i - 1), data[i]) = SubSeq(data, 1, i)
      OBVIOUS
    <3>2. u \o <<x>> = Append(u, x)
      BY <2>2
    <3> QED
      BY <3>1, <3>2
  <2> HIDE DEF l, x, u, first, V, W
  <2>6. l \o x \in V
    BY <2>2, CatIn DEF V
  <2>7. ASSUME NEW t \in V PROVE tok(f[i] \o t) = first(i) \o tok(t)
    <3>1. tok(((l \o x) \o <<NewLine>>) \o t) = tok(l \o x) \o tok(t)
      BY <1>7, <2>6
    <3> QED
      BY <2>2, <2>3, <2>4, <2>5, <3>1, Zenon
  <2> QED
    BY <2>1, <2>7
<1>11. n \in T
  <2>1. 0 .. n \subseteq T
    <3> HIDE DEF T, n
    <3> QED
      BY <1>1, <1>9, <1>10, Rises
  <2>2. n \in 0 .. n
    BY <1>1
  <2> HIDE DEF T, n
  <2> QED
    BY <2>1, <2>2
<1>12. tok(GetAsString(data)) = data
  <2> DEFINE none == << >>
  <2>1. none \in V /\ f[n] \in V /\ GetAsString(data) = f[n]
    BY <1>1, <1>4, <1>8 DEF Writes
  <2>2. tok(f[n] \o none) = first(n) \o tok(none)
    BY <1>11, <2>1
  <2>3. f[n] \o none = f[n]
    BY <2>1
  <2>4. tok(none) = none
    <3>1. "tokens" \in Ways /\ none \in Seq(S \ {NewLine}) /\ none = << >>
      BY DEF Ways
    <3>2. Cut("tokens", none, NewLine) = << >>
      BY <3>1, CutNone
    <3> QED
      BY <3>2 DEF Cut, tok
  <2>5. first(n) = data
    OBVIOUS
  <2>6. data \o none = data
    OBVIOUS
  <2> HIDE DEF none, first
  <2> QED
    BY <2>1, <2>2, <2>3, <2>4, <2>5, <2>6
<1>13. \A i \in 1 .. n : Without(data[i], Return) = data[i]
  BY <1>1, <1>2, WithoutNone
<1>14. Parse(GetAsString(data)) = [i \in DOMAIN data |-> Without(data[i], Return)]
  BY <1>12 DEF Parse, tok
<1>15. data = [i \in DOMAIN data |-> data[i]]
  OBVIOUS
<1> HIDE DEF n
<1> QED
  BY <1>1, <1>13, <1>14, <1>15
=============================================================================
