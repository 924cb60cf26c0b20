----------------------------- MODULE Recursion -----------------------------
(***************************************************************************)
(* What the proofs about recursive functions rest on.  A recursive         *)
(* function f[x \in D] == e is some f with f = [x \in D |-> e], if there   *)
(* is one: RecursionDefines shows that there is, and Rises that what holds *)
(* at one index and is passed on holds at all.  Both come from the least   *)
(* element of a set of numbers, which the well-founded order on the finite *)
(* subsets of an interval provides.                                        *)
(***************************************************************************)
EXTENDS SeqFolds, Integers, FiniteSets, SequencesExt, FiniteSetTheorems,
        SequenceTheorems, TLAPS

\* A set of numbers up to k that is not empty has a least element.
LEMMA HasLeast ==
  ASSUME NEW k \in Nat, NEW T, T \subseteq 0 .. k, T # {}
  PROVE  \E n \in T : \A m \in T : n <= m
<1> DEFINE R == StrictSubsetOrdering(0 .. k)
           upTo == {0 .. n : n \in T}
<1>1. IsWellFoundedOn(R, SUBSET (0 .. k))
  <2>1. FiniteSubsetsOf(0 .. k) = SUBSET (0 .. k)
    <3>1. 0 \in Int /\ k \in Int
      OBVIOUS
    <3>2. IsFiniteSet(0 .. k)
      BY <3>1, FS_Interval
    <3> QED
      BY <3>2, FS_FiniteSubsetsOfFinite
  <2> HIDE DEF R
  <2>2. IsWellFoundedOn(R, FiniteSubsetsOf(0 .. k))
    BY FS_StrictSubsetOrderingWellFounded DEF R
  <2> QED
    BY <2>1, <2>2
<1>2. upTo \subseteq SUBSET (0 .. k) /\ upTo # {}
  <2>1. \A n \in T : 0 .. n \subseteq 0 .. k
    OBVIOUS
  <2> QED
    BY <2>1
<1>3. \E s \in upTo : \A r \in upTo : ~(<<r, s>> \in R)
  <2> HIDE DEF R, upTo
  <2> QED
    BY <1>1, <1>2, WFMin
<1>4. PICK n \in T : \A m \in T : ~(<<0 .. m, 0 .. n>> \in R)
  <2> HIDE DEF R
  <2> QED
    BY <1>3
<1>5. \A m \in T : n <= m
  <2> SUFFICES ASSUME NEW m \in T, m < n
               PROVE  FALSE
    OBVIOUS
  <2>1. 0 .. m \subseteq 0 .. n /\ n \in 0 .. n /\ n \notin 0 .. m
    OBVIOUS
  <2>2. 0 .. m \in SUBSET (0 .. k) /\ 0 .. n \in SUBSET (0 .. k)
    OBVIOUS
  <2>3. 0 .. m # 0 .. n
    BY <2>1
  <2>4. <<0 .. m, 0 .. n>> \in R
    BY <2>1, <2>2, <2>3, SMT DEF StrictSubsetOrdering
  <2> QED
    BY <1>4, <2>4
<1> QED
  BY <1>5

\* What holds at 0 and is passed from each index to the next holds up to n.
LEMMA Rises ==
  ASSUME NEW n \in Nat, NEW T, 0 \in T,
         \A i \in 1 .. n : i - 1 \in T => i \in T
  PROVE  0 .. n \subseteq T
<1> DEFINE bad == {i \in 0 .. n : i \notin T}
<1>1. CASE bad = {}
  BY <1>1
<1>2. CASE bad # {}
  <2>1. bad \subseteq 0 .. n
    OBVIOUS
  <2>2. PICK i \in bad : \A m \in bad : i <= m
    <3> HIDE DEF bad
    <3> QED
      BY <1>2, <2>1, HasLeast
  <2>3. i \in 1 .. n /\ i \notin T
    BY <2>2
  <2>4. i - 1 \in T
    BY <2>2, <2>3
  <2> QED
    BY <2>3, <2>4
<1> QED
  BY <1>1, <1>2

\* The same downwards, from what holds at all later indices.
LEMMA Falls ==
  ASSUME NEW n \in Nat, NEW T,
         \A i \in 0 .. n : (\A j \in i + 1 .. n : j \in T) => i \in T
  PROVE  0 .. n \subseteq T
<1> DEFINE bad == {i \in 0 .. n : n - i \notin T}
<1>1. CASE bad = {}
  <2> SUFFICES ASSUME NEW i \in 0 .. n PROVE i \in T
    OBVIOUS
  <2>1. n - i \in 0 .. n /\ n - (n - i) = i
    OBVIOUS
  <2> QED
    BY <1>1, <2>1
<1>2. CASE bad # {}
  <2>1. bad \subseteq 0 .. n
    OBVIOUS
  <2>2. PICK i \in bad : \A m \in bad : i <= m
    <3> HIDE DEF bad
    <3> QED
      BY <1>2, <2>1, HasLeast
  <2>3. n - i \in 0 .. n /\ n - i \notin T
    BY <2>2
  <2>4. ASSUME NEW j \in n - i + 1 .. n PROVE j \in T
    <3>1. n - j \in 0 .. n /\ n - (n - j) = j /\ n - j < i
      BY <2>2
    <3> QED
      BY <2>2, <3>1
  <2> QED
    BY <2>3, <2>4
<1> QED
  BY <1>1, <1>2

\* f is made by recursion over D: its value at d comes from the one at next[d]
\* where next leads to a lower rank, and is base[d] where it does not.
Solves(f, D, rank, next, step, base) ==
  \A d \in D :
    f[d] = IF rank[next[d]] < rank[d] THEN step[<<d, f[next[d]]>>] ELSE base[d]

\* There is such a function.
LEMMA RecursionDefines ==
  ASSUME NEW D, NEW V, NEW k \in Nat,
         NEW rank \in [D -> 0 .. k], NEW next \in [D -> D],
         NEW step \in [D \X V -> V], NEW base \in [D -> V]
  PROVE  \E f \in [D -> V] : Solves(f, D, rank, next, step, base)
<1> DEFINE Made(f, d) == IF rank[next[d]] < rank[d]
                         THEN step[<<d, f[next[d]]>>] ELSE base[d]
           T == {i \in 0 .. k : \E f \in [D -> V] : \A d \in D :
                                  rank[d] <= i => f[d] = Made(f, d)}
<1>1. 0 \in T
  <2>1. \A d \in D : rank[d] <= 0 => Made(base, d) = base[d]
    OBVIOUS
  <2> QED
    BY <2>1
<1>2. ASSUME NEW i \in 1 .. k, i - 1 \in T
      PROVE  i \in T
  <2>1. PICK f \in [D -> V] :
          \A d \in D : rank[d] <= i - 1 => f[d] = Made(f, d)
    BY <1>2
  <2> DEFINE g == [d \in D |-> Made(f, d)]
  <2>2. \A d \in D : Made(f, d) \in V
    OBVIOUS
  <2>3. g \in [D -> V]
    BY <2>2
  <2>4. \A d \in D : rank[d] <= i => g[d] = Made(g, d)
    <3> SUFFICES ASSUME NEW d \in D, rank[d] <= i
                 PROVE  Made(f, d) = Made(g, d)
      OBVIOUS
    <3>1. CASE rank[next[d]] < rank[d]
      <4>1. rank[next[d]] <= i - 1 /\ next[d] \in D
        BY <3>1
      <4>2. g[next[d]] = f[next[d]]
        BY <2>1, <4>1
      <4> QED
        BY <4>2
    <3>2. CASE ~(rank[next[d]] < rank[d])
      BY <3>2
    <3> QED
      BY <3>1, <3>2
  <2> HIDE DEF g, Made
  <2> QED
    BY <2>3, <2>4
<1>3. k \in T
  <2> HIDE DEF T
  <2>1. 0 .. k \subseteq T
    BY <1>1, <1>2, Rises
  <2> QED
    BY <2>1
<1>4. PICK f \in [D -> V] : \A d \in D : rank[d] <= k => f[d] = Made(f, d)
  BY <1>3
<1> QED
  BY <1>4 DEF Solves

\* The form of it for functions over the indices of a sequence.
CountsUp(f, n, step, base) ==
  /\ f[0] = base
  /\ \A i \in 1 .. n : f[i] = step[<<i, f[i - 1]>>]

LEMMA CountUpDefines ==
  ASSUME NEW V, NEW n \in Nat, NEW base \in V,
         NEW step \in [(1 .. n) \X V -> V]
  PROVE  \E f \in [0 .. n -> V] : CountsUp(f, n, step, base)
<1> DEFINE rank == [i \in 0 .. n |-> i]
           next == [i \in 0 .. n |-> IF i = 0 THEN 0 ELSE i - 1]
           all == [p \in (0 .. n) \X V |-> IF p[1] = 0 THEN base ELSE step[p]]
           none == [i \in 0 .. n |-> base]
<1>1. /\ rank \in [0 .. n -> 0 .. n] /\ next \in [0 .. n -> 0 .. n]
      /\ none \in [0 .. n -> V]
  OBVIOUS
<1>2. all \in [(0 .. n) \X V -> V]
  <2> SUFFICES ASSUME NEW p \in (0 .. n) \X V, p[1] # 0
               PROVE  step[p] \in V
    OBVIOUS
  <2>1. p \in (1 .. n) \X V
    OBVIOUS
  <2> QED
    BY <2>1
<1>3. PICK f \in [0 .. n -> V] : Solves(f, 0 .. n, rank, next, all, none)
  <2> HIDE DEF rank, next, all, none
  <2> QED
    BY <1>1, <1>2, RecursionDefines, Zenon
<1>4. f[0] = base
  <2>1. 0 \in 0 .. n /\ next[0] = 0 /\ ~(rank[0] < rank[0]) /\ none[0] = base
    OBVIOUS
  <2> HIDE DEF rank, next, all, none
  <2> QED
    BY <1>3, <2>1 DEF Solves
<1>5. ASSUME NEW i \in 1 .. n PROVE f[i] = step[<<i, f[i - 1]>>]
  <2>1. next[i] = i - 1 /\ rank[next[i]] < rank[i]
    OBVIOUS
  <2>2. ASSUME NEW v \in V PROVE all[<<i, v>>] = step[<<i, v>>]
    <3>1. <<i, v>> \in (0 .. n) \X V /\ <<i, v>>[1] = i
      OBVIOUS
    <3> QED
      BY <3>1
  <2>3. all[<<i, f[i - 1]>>] = step[<<i, f[i - 1]>>]
    <3>1. i - 1 \in 0 .. n /\ f[i - 1] \in V
      OBVIOUS
    <3> HIDE DEF all
    <3> QED
      BY <2>2, <3>1
  <2>4. f[i] = all[<<i, f[i - 1]>>]
    <3> HIDE DEF rank, next, all
    <3> QED
      BY <1>3, <2>1 DEF Solves
  <2> QED
    BY <2>3, <2>4
<1> QED
  BY <1>4, <1>5 DEF CountsUp

-----------------------------------------------------------------------------
(* Selected, by the steps of its function.                                 *)

\* The values of the elements that count.
Values(value, R) == value \in [DOMAIN value -> R]

Selects(f, s, value) ==
  /\ f[0] = << >>
  /\ \A i \in 1 .. Len(s) :
       f[i] = IF s[i] \in DOMAIN value THEN Append(f[i - 1], value[s[i]])
              ELSE f[i - 1]
  /\ Selected(s, value) = f[Len(s)]

LEMMA SelectedBy ==
  ASSUME NEW S, NEW s \in Seq(S), NEW R, NEW value, Values(value, R)
  PROVE  \E f \in [0 .. Len(s) -> Seq(R)] : Selects(f, s, value)
<1> DEFINE K == DOMAIN value
<1>0. value \in [K -> R]
  BY DEF Values
<1> USE <1>0
<1> HIDE DEF K
<1> DEFINE n == Len(s)
           step == [p \in (1 .. n) \X Seq(R) |->
                      IF s[p[1]] \in DOMAIN value
                      THEN Append(p[2], value[s[p[1]]]) ELSE p[2]]
           Eq(f) == f = [i \in 0 .. n |->
                           IF i = 0 THEN << >>
                           ELSE IF s[i] \in DOMAIN value
                           THEN Append(f[i - 1], value[s[i]])
                           ELSE f[i - 1]]
<1>1. step \in [(1 .. n) \X Seq(R) -> Seq(R)]
  BY DEF Values
<1>2. << >> \in Seq(R) /\ n \in Nat
  OBVIOUS
<1>3. PICK g \in [0 .. n -> Seq(R)] : CountsUp(g, n, step, << >>)
  <2> HIDE DEF n, step
  <2> QED
    BY <1>1, <1>2, CountUpDefines, Zenon
<1>4. Eq(g)
  <2>1. g[0] = << >>
    BY <1>3 DEF CountsUp
  <2>2. ASSUME NEW i \in 1 .. n
        PROVE  g[i] = IF s[i] \in DOMAIN value
                      THEN Append(g[i - 1], value[s[i]]) ELSE g[i - 1]
    <3>1. <<i, g[i - 1]>> \in (1 .. n) \X Seq(R)
      OBVIOUS
    <3>2. g[i] = step[<<i, g[i - 1]>>]
      BY <1>3 DEF CountsUp
    <3> QED
      BY <3>1, <3>2
  <2> DEFINE e(i) == IF i = 0 THEN << >>
                     ELSE IF s[i] \in DOMAIN value
                     THEN Append(g[i - 1], value[s[i]]) ELSE g[i - 1]
  <2>3. ASSUME NEW i \in 0 .. n PROVE g[i] = e(i)
    <3>1. CASE i = 0
      BY <2>1, <3>1
    <3>2. CASE i # 0
      <4>1. i \in 1 .. n
        BY <3>2
      <4> QED
        BY <2>2, <3>2, <4>1
    <3> QED
      BY <3>1, <3>2
  <2>4. g = [i \in 0 .. n |-> e(i)]
    <3> HIDE DEF e, n, step
    <3> QED
      BY <2>3
  <2> QED
    BY <2>4
<1> DEFINE f == CHOOSE h : Eq(h)
<1>5. Eq(f)
  <2> HIDE DEF Eq
  <2> QED
    BY <1>4
<1>6. Selected(s, value) = f[n]
  BY DEF Selected
<1> HIDE DEF f
<1>7. /\ f[0] = << >>
      /\ \A i \in 1 .. n :
           f[i] = IF s[i] \in DOMAIN value THEN Append(f[i - 1], value[s[i]])
                  ELSE f[i - 1]
  <2>1. ASSUME NEW i \in 0 .. n
        PROVE  f[i] = IF i = 0 THEN << >>
                      ELSE IF s[i] \in DOMAIN value
                      THEN Append(f[i - 1], value[s[i]]) ELSE f[i - 1]
    <3> HIDE DEF n, step
    <3> QED
      BY <1>5, Zenon
  <2>2. 0 \in 0 .. n /\ \A i \in 1 .. n : i \in 0 .. n /\ i # 0
    BY <1>2
  <2> HIDE DEF n, step, Eq
  <2>3. f[0] = << >>
    BY <2>1, <2>2
  <2>4. ASSUME NEW i \in 1 .. n
        PROVE  f[i] = IF s[i] \in DOMAIN value
                      THEN Append(f[i - 1], value[s[i]]) ELSE f[i - 1]
    BY <2>1, <2>2
  <2> QED
    BY <2>3, <2>4
<1>8. f \in [0 .. n -> Seq(R)]
  <2> DEFINE T == {i \in 0 .. n : f[i] \in Seq(R)}
  <2>1. 0 \in T
    <3>1. 0 \in 0 .. n /\ f[0] \in Seq(R)
      <4> HIDE DEF n, step, Eq
      <4> QED
        BY <1>2, <1>7
    <3> QED
      BY <3>1
  <2>2. ASSUME NEW i \in 1 .. n, i - 1 \in T PROVE i \in T
    <3>1. i \in 0 .. n /\ f[i - 1] \in Seq(R)
      BY <2>2
    <3>2. s[i] \in DOMAIN value => value[s[i]] \in R
      BY DEF Values
    <3>3. f[i] \in Seq(R)
      <4> HIDE DEF Eq, step, n, T
      <4>1. CASE s[i] \in DOMAIN value
        <5>1. f[i] = Append(f[i - 1], value[s[i]])
          BY <1>7, <4>1
        <5> QED
          BY <3>1, <3>2, <4>1, <5>1
      <4>2. CASE s[i] \notin DOMAIN value
        <5>1. f[i] = f[i - 1]
          BY <1>7, <4>2
        <5> QED
          BY <3>1, <5>1
      <4> QED
        BY <4>1, <4>2
    <3> QED
      BY <3>1, <3>3
  <2>3. 0 .. n \subseteq T
    <3> HIDE DEF T, n
    <3> QED
      BY <2>1, <2>2, <1>2, Rises
  <2>4. DOMAIN f = 0 .. n /\ f = [i \in 0 .. n |-> f[i]]
    BY <1>5
  <2> QED
    BY <2>3, <2>4
<1> QED
  BY <1>6, <1>7, <1>8 DEF Selects

\* Appending an element selects its value at the end, or nothing.
LEMMA SelectedStep ==
  ASSUME NEW S, NEW s \in Seq(S), NEW e \in S,
         NEW R, NEW value, Values(value, R)
  PROVE  Selected(Append(s, e), value) =
           IF e \in DOMAIN value THEN Append(Selected(s, value), value[e])
           ELSE Selected(s, value)
<1> DEFINE n == Len(s)
           t == Append(s, e)
<1>1. t \in Seq(S) /\ Len(t) = n + 1 /\ t[n + 1] = e /\ n \in Nat
      /\ \A i \in 1 .. n : t[i] = s[i]
  OBVIOUS
<1>2. PICK f \in [0 .. n -> Seq(R)] : Selects(f, s, value)
  BY SelectedBy, Zenon
<1>3. PICK g \in [0 .. Len(t) -> Seq(R)] : Selects(g, t, value)
  <2> HIDE DEF t
  <2> QED
    BY <1>1, SelectedBy, Zenon
<1> HIDE DEF t
<1>4. g[n] = f[n]
  <2> DEFINE T == {i \in 0 .. n : g[i] = f[i]}
  <2>1. 0 \in T
    BY <1>2, <1>3 DEF Selects
  <2>2. ASSUME NEW i \in 1 .. n, i - 1 \in T PROVE i \in T
    <3>1. i \in 1 .. Len(t) /\ t[i] = s[i]
      <4> HIDE DEF n
      <4> QED
        BY <1>1
    <3> QED
      BY <1>2, <1>3, <2>2, <3>1 DEF Selects
  <2>3. 0 .. n \subseteq T
    <3> HIDE DEF T
    <3> QED
      BY <1>1, <2>1, <2>2, Rises
  <2> QED
    BY <2>3
<1>5. g[n + 1] = IF e \in DOMAIN value THEN Append(g[n], value[e]) ELSE g[n]
  <2>1. n + 1 \in 1 .. Len(t) /\ (n + 1) - 1 = n
    BY <1>1
  <2> QED
    BY <1>1, <1>3, <2>1 DEF Selects
<1>6. Selected(s, value) = f[n] /\ Selected(t, value) = g[n + 1]
  BY <1>1, <1>2, <1>3 DEF Selects
<1>7. Selected(t, value) = IF e \in DOMAIN value
                           THEN Append(Selected(s, value), value[e])
                           ELSE Selected(s, value)
  BY <1>4, <1>5, <1>6
<1> QED
  BY <1>7 DEF t

LEMMA SelectedKeeps ==
  ASSUME NEW S, NEW s \in Seq(S), NEW R, NEW value, Values(value, R),
         NEW e \in S, e \in DOMAIN value
  PROVE  Selected(Append(s, e), value) = Append(Selected(s, value), value[e])
  BY SelectedStep

LEMMA SelectedSkips ==
  ASSUME NEW S, NEW s \in Seq(S), NEW R, NEW value, Values(value, R),
         NEW e \in S, e \notin DOMAIN value
  PROVE  Selected(Append(s, e), value) = Selected(s, value)
  BY SelectedStep

\* What is selected depends only on the values of the elements there are.
SameValues(s, v, w) ==
  \A i \in 1 .. Len(s) :
    /\ s[i] \in DOMAIN v <=> s[i] \in DOMAIN w
    /\ s[i] \in DOMAIN v => v[s[i]] = w[s[i]]

LEMMA SelectedSame ==
  ASSUME NEW S, NEW s \in Seq(S), NEW R, NEW v, NEW w,
         Values(v, R), Values(w, R), SameValues(s, v, w)
  PROVE  Selected(s, v) = Selected(s, w)
<1> DEFINE n == Len(s)
<1>1. n \in Nat /\ n \in 0 .. n /\ 0 \in 0 .. n
  OBVIOUS
<1>2. PICK f \in [0 .. n -> Seq(R)] : Selects(f, s, v)
  BY SelectedBy, Zenon
<1>3. PICK g \in [0 .. n -> Seq(R)] : Selects(g, s, w)
  BY SelectedBy, Zenon
<1> DEFINE T == {i \in 0 .. n : f[i] = g[i]}
<1>4. 0 \in T
  BY <1>1, <1>2, <1>3 DEF Selects
<1>5. ASSUME NEW i \in 1 .. n, i - 1 \in T PROVE i \in T
  <2>1. f[i - 1] = g[i - 1] /\ i \in 0 .. n
    BY <1>5
  <2>2. CASE s[i] \in DOMAIN v
    <3>1. s[i] \in DOMAIN w /\ v[s[i]] = w[s[i]]
      BY <2>2 DEF SameValues
    <3>2. f[i] = Append(f[i - 1], v[s[i]])
      BY <1>2, <2>2 DEF Selects
    <3>3. g[i] = Append(g[i - 1], w[s[i]])
      BY <1>3, <3>1 DEF Selects
    <3> QED
      BY <2>1, <3>1, <3>2, <3>3
  <2>3. CASE s[i] \notin DOMAIN v
    <3>1. s[i] \notin DOMAIN w
      BY <2>3 DEF SameValues
    <3>2. f[i] = f[i - 1]
      BY <1>2, <2>3 DEF Selects
    <3>3. g[i] = g[i - 1]
      BY <1>3, <3>1 DEF Selects
    <3> QED
      BY <2>1, <3>2, <3>3
  <2> QED
    BY <2>2, <2>3
<1>6. n \in T
  <2>1. 0 .. n \subseteq T
    <3> HIDE DEF T
    <3> QED
      BY <1>1, <1>4, <1>5, Rises
  <2> QED
    BY <1>1, <2>1
<1> QED
  BY <1>2, <1>3, <1>6 DEF Selects

\* Nothing is selected from nothing; what is selected is a sequence of values.
LEMMA SelectedEmpty ==
  ASSUME NEW R, NEW value, Values(value, R)
  PROVE  Selected(<< >>, value) = << >>
<1>1. << >> \in Seq({}) /\ Len(<< >>) = 0
  OBVIOUS
<1>2. \E f \in [0 .. Len(<< >>) -> Seq(R)] : Selects(f, << >>, value)
  BY <1>1, SelectedBy, Zenon
<1> QED
  BY <1>1, <1>2 DEF Selects

LEMMA SelectedType ==
  ASSUME NEW S, NEW s \in Seq(S), NEW R, NEW value, Values(value, R)
  PROVE  Selected(s, value) \in Seq(R)
<1>1. PICK f \in [0 .. Len(s) -> Seq(R)] : Selects(f, s, value)
  BY SelectedBy, Zenon
<1> QED
  BY <1>1 DEF Selects

\* To append to the second of two parts is to append to the whole.
LEMMA AppendCat ==
  ASSUME NEW S, NEW h \in Seq(S), NEW q \in Seq(S), NEW e \in S
  PROVE  h \o Append(q, e) = Append(h \o q, e)
<1>1. h \o Append(q, e) \in Seq(S) /\ Append(h \o q, e) \in Seq(S)
  OBVIOUS
<1>2. Len(h \o Append(q, e)) = Len(Append(h \o q, e))
  OBVIOUS
<1>3. ASSUME NEW i \in 1..Len(h \o Append(q, e))
      PROVE  (h \o Append(q, e))[i] = Append(h \o q, e)[i]
  <2>1. CASE i <= Len(h)
    BY <2>1
  <2>2. CASE i > Len(h) /\ i <= Len(h) + Len(q)
    BY <2>2
  <2>3. CASE i = Len(h) + Len(q) + 1
    BY <2>3
  <2> QED
    BY <2>1, <2>2, <2>3
<1> QED
  BY <1>1, <1>2, <1>3, SeqEqual

\* The parts of a sequence are selected from one after the other.
LEMMA SelectedCat ==
  ASSUME NEW S, NEW s \in Seq(S), NEW t \in Seq(S),
         NEW R, NEW value, Values(value, R)
  PROVE  Selected(s \o t, value) = Selected(s, value) \o Selected(t, value)
<1> DEFINE n == Len(t)
           U(i) == SubSeq(t, 1, i)
           T == {i \in 0 .. n : Selected(s \o U(i), value)
                                  = Selected(s, value) \o Selected(U(i), value)}
<1>1. n \in Nat /\ \A i \in 0 .. n : U(i) \in Seq(S)
  OBVIOUS
<1>2. Selected(s, value) \in Seq(R)
      /\ \A i \in 0 .. n : Selected(U(i), value) \in Seq(R)
  BY <1>1, SelectedType
<1>3. 0 \in T
  <2>1. U(0) = << >> /\ s \o << >> = s
    OBVIOUS
  <2>2. Selected(s, value) \o << >> = Selected(s, value)
    BY <1>2
  <2>3. Selected(<< >>, value) = << >>
    BY SelectedEmpty, Zenon
  <2>4. 0 \in 0 .. n
    BY <1>1
  <2> HIDE DEF U
  <2>5. Selected(s \o U(0), value) = Selected(s, value) \o Selected(U(0), value)
    BY <2>1, <2>2, <2>3
  <2> QED
    BY <2>4, <2>5
<1>4. ASSUME NEW i \in 1 .. n, i - 1 \in T PROVE i \in T
  <2> DEFINE u == U(i - 1)
             e == t[i]
  <2>1. u \in Seq(S) /\ e \in S /\ U(i) = Append(u, e)
    OBVIOUS
  <2>2. s \o Append(u, e) = Append(s \o u, e) /\ s \o u \in Seq(S)
    BY <2>1
  <2>3. Selected(s \o u, value) = Selected(s, value) \o Selected(u, value)
    BY <1>4
  <2>4. Selected(u, value) \in Seq(R) /\ (e \in DOMAIN value => value[e] \in R)
    BY <2>1, SelectedType DEF Values
  <2> HIDE DEF u, e, U
  <2> DEFINE a == Selected(s, value)
             b == Selected(u, value)
  <2>5. /\ a \in Seq(R) /\ b \in Seq(R) /\ (e \in DOMAIN value => value[e] \in R)
        /\ Selected(s \o u, value) = a \o b
    BY <1>2, <2>3, <2>4
  <2>6. CASE e \in DOMAIN value
    <3>1. Selected(U(i), value) = Append(b, value[e])
      BY <2>1, <2>6, SelectedKeeps
    <3>2. \A v \in Seq(S) :
            Selected(Append(v, e), value) = Append(Selected(v, value), value[e])
      BY <2>1, <2>6, SelectedKeeps
    <3> HIDE DEF a, b
    <3>3. a \o Append(b, value[e]) = Append(a \o b, value[e])
      BY <2>5, <2>6, AppendCat
    <3>4. Selected(s \o U(i), value) = a \o Selected(U(i), value)
      <4>1. Selected(Append(s \o u, e), value)
              = Append(Selected(s \o u, value), value[e])
        BY <2>2, <3>2
      <4> QED
        BY <2>1, <2>2, <2>5, <3>1, <3>3, <4>1
    <3> QED
      BY <3>4 DEF a
  <2>7. CASE e \notin DOMAIN value
    <3>1. Selected(U(i), value) = b
      BY <2>1, <2>7, SelectedSkips
    <3>2. \A v \in Seq(S) : Selected(Append(v, e), value) = Selected(v, value)
      BY <2>1, <2>7, SelectedSkips
    <3> HIDE DEF a, b
    <3>3. Selected(s \o U(i), value) = a \o Selected(U(i), value)
      <4>1. Selected(Append(s \o u, e), value) = Selected(s \o u, value)
        BY <2>2, <3>2
      <4> QED
        BY <2>1, <2>2, <2>5, <3>1, <4>1
    <3> QED
      BY <3>3 DEF a
  <2> QED
    BY <2>6, <2>7
<1>5. n \in T
  <2> HIDE DEF T
  <2>1. 0 .. n \subseteq T
    BY <1>1, <1>3, <1>4, Rises
  <2> QED
    BY <1>1, <2>1
<1>6. U(n) = t
  OBVIOUS
<1> QED
  BY <1>5, <1>6

LEMMA SelectedOne ==
  ASSUME NEW S, NEW R, NEW value, Values(value, R),
         NEW e \in S, e \in DOMAIN value
  PROVE  Selected(<<e>>, value) = <<value[e]>>
<1> DEFINE none == << >>
<1>1. none \in Seq(S) /\ Append(none, e) = <<e>>
  OBVIOUS
<1>2. Selected(Append(none, e), value) = Append(Selected(none, value), value[e])
  <2>1. ASSUME NEW v \in Seq(S)
        PROVE  Selected(Append(v, e), value) = Append(Selected(v, value), value[e])
    BY SelectedKeeps
  <2> HIDE DEF none
  <2> QED
    BY <1>1, <2>1
<1>3. Selected(<< >>, value) = << >>
  BY SelectedEmpty, Zenon
<1>4. value[e] \in R
  BY DEF Values
<1> QED
  BY <1>1, <1>2, <1>3, <1>4

\* A sequence is its first element and the rest.
LEMMA FirstAndRest ==
  ASSUME NEW S, NEW s \in Seq(S), s # << >>
  PROVE  /\ SubSeq(s, 2, Len(s)) \in Seq(S)
         /\ s = <<s[1]>> \o SubSeq(s, 2, Len(s))
         /\ s[1] \in S /\ Len(s) \in Nat /\ Len(s) >= 1
<1>1. Len(s) \in Nat /\ Len(s) >= 1 /\ s[1] \in S
  OBVIOUS
<1>2. 1 \in 1 .. Len(s) /\ Len(s) \in 1 .. Len(s) /\ 1 + 1 = 2
  BY <1>1
<1>3. SubSeq(s, 1, Len(s)) = <<s[1]>> \o SubSeq(s, 1 + 1, Len(s))
  BY <1>2, SubSeqRecursiveFirst
<1>4. SubSeq(s, 1, Len(s)) = s
  BY SubSeqFull
<1>5. SubSeq(s, 2, Len(s)) \in Seq(S)
  <2>1. \A i \in 2 .. Len(s) : s[i] \in S
    OBVIOUS
  <2>2. 2 \in Int /\ Len(s) \in Int
    BY <1>1
  <2> QED
    BY <2>1, <2>2, SubSeqProperties
<1> QED
  BY <1>1, <1>2, <1>3, <1>4, <1>5

\* The first of what is selected.
LEMMA SelectedFirst ==
  ASSUME NEW S, NEW s \in Seq(S), s # << >>,
         NEW R, NEW value, Values(value, R), s[1] \in DOMAIN value
  PROVE  Selected(s, value)
           = <<value[s[1]]>> \o Selected(SubSeq(s, 2, Len(s)), value)
<1>1. /\ SubSeq(s, 2, Len(s)) \in Seq(S) /\ s[1] \in S
      /\ s = <<s[1]>> \o SubSeq(s, 2, Len(s))
  BY FirstAndRest
<1> DEFINE a == <<s[1]>>
           t == SubSeq(s, 2, Len(s))
<1>2. a \in Seq(S) /\ t \in Seq(S) /\ s = a \o t
  BY <1>1
<1>3. Selected(a, value) = <<value[s[1]]>>
  BY <1>1, SelectedOne
<1> HIDE DEF a, t
<1>4. Selected(a \o t, value) = Selected(a, value) \o Selected(t, value)
  BY <1>2, SelectedCat
<1> QED
  BY <1>2, <1>3, <1>4 DEF t

-----------------------------------------------------------------------------
(* SumOf, by the steps of its function.                                    *)

Sums(f, s) ==
  /\ f[0] = 0
  /\ \A i \in 1 .. Len(s) : f[i] = f[i - 1] + s[i]
  /\ SumOf(s) = f[Len(s)]

LEMMA SumBy ==
  ASSUME NEW s \in Seq(Nat)
  PROVE  \E f \in [0 .. Len(s) -> Nat] : Sums(f, s)
<1> DEFINE n == Len(s)
           step == [p \in (1 .. n) \X Nat |-> p[2] + s[p[1]]]
           Eq(f) == f = [i \in 0 .. n |-> IF i = 0 THEN 0 ELSE f[i - 1] + s[i]]
<1>1. step \in [(1 .. n) \X Nat -> Nat] /\ 0 \in Nat /\ n \in Nat
  OBVIOUS
<1>2. PICK g \in [0 .. n -> Nat] : CountsUp(g, n, step, 0)
  <2> HIDE DEF n, step
  <2> QED
    BY <1>1, CountUpDefines, Zenon
<1>3. g[0] = 0 /\ \A i \in 1 .. n : g[i] = g[i - 1] + s[i]
  <2>1. ASSUME NEW i \in 1 .. n PROVE g[i] = g[i - 1] + s[i]
    <3>0. i - 1 \in 0 .. n /\ g[i - 1] \in Nat
      <4>1. i - 1 \in 0 .. n
        BY <1>1
      <4> HIDE DEF n, step
      <4> QED
        BY <4>1
    <3> HIDE DEF n, step
    <3>1. <<i, g[i - 1]>> \in (1 .. n) \X Nat
      BY <3>0
    <3> USE DEF step
    <3>2. g[i] = step[<<i, g[i - 1]>>]
      BY <1>2 DEF CountsUp
    <3> QED
      BY <3>1, <3>2
  <2> QED
    BY <1>2, <2>1 DEF CountsUp
<1>4. Eq(g)
  <2> DEFINE e(i) == IF i = 0 THEN 0 ELSE g[i - 1] + s[i]
  <2>1. ASSUME NEW i \in 0 .. n PROVE g[i] = e(i)
    <3>1. i = 0 \/ i \in 1 .. n
      OBVIOUS
    <3> QED
      BY <1>3, <3>1
  <2>2. g = [i \in 0 .. n |-> e(i)]
    <3> HIDE DEF e, n, step
    <3> QED
      BY <2>1
  <2> QED
    BY <2>2
<1> DEFINE f == CHOOSE h : Eq(h)
<1>5. Eq(f)
  <2> HIDE DEF Eq
  <2> QED
    BY <1>4
<1>6. SumOf(s) = f[n]
  BY DEF SumOf
<1> HIDE DEF f
<1>7. f[0] = 0 /\ \A i \in 1 .. n : f[i] = f[i - 1] + s[i]
  <2>1. ASSUME NEW i \in 0 .. n
        PROVE  f[i] = IF i = 0 THEN 0 ELSE f[i - 1] + s[i]
    <3> HIDE DEF n, step
    <3> QED
      BY <1>5, Zenon
  <2>2. 0 \in 0 .. n /\ \A i \in 1 .. n : i \in 0 .. n /\ i # 0
    BY <1>1
  <2> HIDE DEF n, step, Eq
  <2> QED
    BY <2>1, <2>2
<1>8. \A i \in 0 .. n : f[i] \in Nat
  <2> DEFINE T == {i \in 0 .. n : f[i] \in Nat}
  <2>1. 0 \in T
    BY <1>1, <1>7
  <2>2. ASSUME NEW i \in 1 .. n, i - 1 \in T PROVE i \in T
    <3>1. i \in 0 .. n /\ f[i - 1] \in Nat /\ s[i] \in Nat
      BY <2>2
    <3>2. f[i] = f[i - 1] + s[i]
      BY <1>7
    <3> QED
      BY <3>1, <3>2
  <2>3. 0 .. n \subseteq T
    <3> HIDE DEF T, n
    <3> QED
      BY <1>1, <2>1, <2>2, Rises
  <2> QED
    BY <2>3
<1>9. f = [i \in 0 .. n |-> f[i]]
  BY <1>5
<1> HIDE DEF n, step, Eq
<1>10. f \in [0 .. n -> Nat]
  BY <1>8, <1>9
<1> QED
  BY <1>6, <1>7, <1>10 DEF Sums, n

LEMMA SumType ==
  ASSUME NEW s \in Seq(Nat)
  PROVE  SumOf(s) \in Nat
<1>1. PICK f \in [0 .. Len(s) -> Nat] : Sums(f, s)
  BY SumBy, Zenon
<1>2. Len(s) \in 0 .. Len(s)
  OBVIOUS
<1> QED
  BY <1>1, <1>2 DEF Sums

LEMMA SumEmpty ==
  SumOf(<< >>) = 0
<1>1. << >> \in Seq(Nat) /\ Len(<< >>) = 0
  OBVIOUS
<1>2. PICK f \in [0 .. Len(<< >>) -> Nat] : Sums(f, << >>)
  BY <1>1, SumBy, Zenon
<1> QED
  BY <1>1, <1>2 DEF Sums

LEMMA SumAppend ==
  ASSUME NEW s \in Seq(Nat), NEW e \in Nat
  PROVE  SumOf(Append(s, e)) = SumOf(s) + e
<1> DEFINE n == Len(s)
           t == Append(s, e)
<1>1. t \in Seq(Nat) /\ Len(t) = n + 1 /\ t[n + 1] = e /\ n \in Nat
      /\ \A i \in 1 .. n : t[i] = s[i]
  OBVIOUS
<1>2. PICK f \in [0 .. n -> Nat] : Sums(f, s)
  BY SumBy, Zenon
<1>3. PICK g \in [0 .. Len(t) -> Nat] : Sums(g, t)
  <2> HIDE DEF t
  <2> QED
    BY <1>1, SumBy, Zenon
<1> HIDE DEF t
<1>4. g[n] = f[n]
  <2> DEFINE T == {i \in 0 .. n : g[i] = f[i]}
  <2>1. 0 \in T
    BY <1>2, <1>3 DEF Sums
  <2>2. ASSUME NEW i \in 1 .. n, i - 1 \in T PROVE i \in T
    <3>1. i \in 1 .. Len(t) /\ t[i] = s[i]
      <4> HIDE DEF n
      <4> QED
        BY <1>1
    <3> QED
      BY <1>2, <1>3, <2>2, <3>1 DEF Sums
  <2>3. 0 .. n \subseteq T
    <3> HIDE DEF T
    <3> QED
      BY <1>1, <2>1, <2>2, Rises
  <2> QED
    BY <2>3
<1>5. g[n + 1] = g[n] + e
  <2>1. n + 1 \in 1 .. Len(t) /\ (n + 1) - 1 = n
    BY <1>1
  <2> QED
    BY <1>1, <1>3, <2>1 DEF Sums
<1>6. SumOf(s) = f[n] /\ SumOf(t) = g[n + 1]
  BY <1>1, <1>2, <1>3 DEF Sums
<1> QED
  BY <1>4, <1>5, <1>6 DEF t

LEMMA SumCat ==
  ASSUME NEW s \in Seq(Nat), NEW t \in Seq(Nat)
  PROVE  SumOf(s \o t) = SumOf(s) + SumOf(t)
<1> DEFINE n == Len(t)
           U(i) == SubSeq(t, 1, i)
           T == {i \in 0 .. n : SumOf(s \o U(i)) = SumOf(s) + SumOf(U(i))}
<1>1. n \in Nat /\ SumOf(s) \in Nat
  BY SumType
<1>2. 0 \in T
  <2>1. U(0) = << >> /\ s \o << >> = s
    OBVIOUS
  <2>2. SumOf(s \o U(0)) = SumOf(s) + SumOf(U(0))
    <3> DEFINE a == SumOf(s)
    <3>1. SumOf(U(0)) = 0 /\ SumOf(s \o U(0)) = a /\ a \in Nat
      BY <1>1, <2>1, SumEmpty, Zenon
    <3> HIDE DEF U, a
    <3>2. SumOf(s \o U(0)) = a + SumOf(U(0))
      BY <3>1
    <3> QED
      BY <3>2 DEF a
  <2>3. 0 \in 0 .. n
    BY <1>1
  <2> QED
    BY <2>2, <2>3
<1>3. ASSUME NEW i \in 1 .. n, i - 1 \in T PROVE i \in T
  <2> DEFINE u == U(i - 1)
             e == t[i]
  <2>1. u \in Seq(Nat) /\ e \in Nat /\ U(i) = Append(u, e)
    OBVIOUS
  <2>2. s \o Append(u, e) = Append(s \o u, e) /\ s \o u \in Seq(Nat)
    <3> HIDE DEF u, e, U
    <3>1. s \o u \in Seq(Nat)
      BY <2>1
    <3> QED
      BY <2>1, <3>1, AppendCat, SMTT(20)
  <2>3. SumOf(s \o u) = SumOf(s) + SumOf(u)
    BY <1>3
  <2> HIDE DEF u, e, U
  <2>4. SumOf(u) \in Nat
    BY <2>1, SumType
  <2>5. SumOf(Append(u, e)) = SumOf(u) + e
    BY <2>1, SumAppend
  <2>6. SumOf(Append(s \o u, e)) = SumOf(s \o u) + e
    BY <2>1, <2>2, SumAppend
  <2>7. SumOf(s \o U(i)) = SumOf(s) + SumOf(U(i))
    BY <1>1, <2>1, <2>2, <2>3, <2>4, <2>5, <2>6
  <2> QED
    BY <2>7
<1>4. n \in T
  <2> HIDE DEF T
  <2>1. 0 .. n \subseteq T
    BY <1>1, <1>2, <1>3, Rises
  <2> QED
    BY <1>1, <2>1
<1>5. U(n) = t
  OBVIOUS
<1> QED
  BY <1>4, <1>5

-----------------------------------------------------------------------------
(* FlattenSeq, by the steps of its function.                               *)

Flattens(f, seqs) ==
  /\ f[1] = seqs[1]
  /\ \A i \in 2 .. Len(seqs) : f[i] = f[i - 1] \o seqs[i]
  /\ FlattenSeq(seqs) = f[Len(seqs)]

LEMMA FlattenBy ==
  ASSUME NEW S, NEW seqs \in Seq(Seq(S)), seqs # << >>
  PROVE  \E f \in [1 .. Len(seqs) -> Seq(S)] : Flattens(f, seqs)
<1> DEFINE n == Len(seqs)
           step == [p \in (1 .. n) \X Seq(S) |-> p[2] \o seqs[p[1]]]
           Eq(f) == f = [i \in 1 .. n |->
                           IF i = 1 THEN seqs[i] ELSE f[i - 1] \o seqs[i]]
<1>1. step \in [(1 .. n) \X Seq(S) -> Seq(S)]
  OBVIOUS
<1>2. << >> \in Seq(S) /\ n \in Nat /\ n >= 1
  OBVIOUS
<1>3. PICK g \in [0 .. n -> Seq(S)] : CountsUp(g, n, step, << >>)
  <2> HIDE DEF n, step
  <2> QED
    BY <1>1, <1>2, CountUpDefines, Zenon
<1>4. \A i \in 1 .. n : g[i] = g[i - 1] \o seqs[i]
  <2>1. ASSUME NEW i \in 1 .. n PROVE g[i] = g[i - 1] \o seqs[i]
    <3>0. i - 1 \in 0 .. n /\ g[i - 1] \in Seq(S)
      <4>1. i - 1 \in 0 .. n
        BY <1>2
      <4> HIDE DEF n, step
      <4> QED
        BY <4>1
    <3> HIDE DEF n, step
    <3>1. <<i, g[i - 1]>> \in (1 .. n) \X Seq(S)
      BY <3>0
    <3> USE DEF step
    <3>2. g[i] = step[<<i, g[i - 1]>>]
      BY <1>3 DEF CountsUp
    <3> QED
      BY <3>1, <3>2
  <2> QED
    BY <2>1
<1>5. g[1] = seqs[1]
  <2>1. g[0] = << >>
    BY <1>3 DEF CountsUp
  <2>2. 1 \in 1 .. n /\ 1 - 1 = 0 /\ seqs[1] \in Seq(S)
    BY <1>2
  <2>3. g[1] = g[1 - 1] \o seqs[1]
    <3> HIDE DEF n, step
    <3> QED
      BY <1>4, <2>2
  <2>4. g[1] = << >> \o seqs[1]
    BY <2>1, <2>2, <2>3
  <2> QED
    BY <2>2, <2>4
<1> DEFINE h == [i \in 1 .. n |-> g[i]]
<1>6. Eq(h)
  <2> DEFINE e(i) == IF i = 1 THEN seqs[i] ELSE h[i - 1] \o seqs[i]
  <2>1. ASSUME NEW i \in 1 .. n PROVE h[i] = e(i)
    <3>1. CASE i = 1
      BY <1>5, <3>1
    <3>2. CASE i # 1
      <4>1. i - 1 \in 1 .. n
        BY <3>2
      <4>2. h[i - 1] = g[i - 1] /\ h[i] = g[i]
        BY <4>1
      <4> QED
        BY <1>4, <3>2, <4>2
    <3> QED
      BY <3>1, <3>2
  <2>2. h = [i \in 1 .. n |-> e(i)]
    <3>1. h = [i \in 1 .. n |-> h[i]]
      OBVIOUS
    <3> HIDE DEF e, h, n, step
    <3> QED
      BY <2>1, <3>1
  <2> HIDE DEF h
  <2> QED
    BY <2>2
<1> DEFINE f == CHOOSE x : Eq(x)
<1>7. Eq(f)
  <2> HIDE DEF Eq, h
  <2> QED
    BY <1>6
<1>8. FlattenSeq(seqs) = f[n]
  BY <1>2 DEF FlattenSeq
<1> HIDE DEF f, h
<1>9. ASSUME NEW i \in 1 .. n
      PROVE  f[i] = IF i = 1 THEN seqs[i] ELSE f[i - 1] \o seqs[i]
  <2> HIDE DEF n, step
  <2> QED
    BY <1>7, Zenon
<1>10. f[1] = seqs[1] /\ \A i \in 2 .. n : f[i] = f[i - 1] \o seqs[i]
  <2>1. 1 \in 1 .. n /\ \A i \in 2 .. n : i \in 1 .. n /\ i # 1
    BY <1>2
  <2> HIDE DEF n, step, Eq
  <2> QED
    BY <1>9, <2>1
<1>11. \A i \in 0 .. n : i >= 1 => f[i] \in Seq(S)
  <2> DEFINE T == {i \in 0 .. n : i >= 1 => f[i] \in Seq(S)}
  <2>1. 0 \in T
    BY <1>2
  <2>2. ASSUME NEW i \in 1 .. n, i - 1 \in T PROVE i \in T
    <3>1. seqs[i] \in Seq(S) /\ i \in 0 .. n
      OBVIOUS
    <3>2. CASE i = 1
      BY <1>10, <3>1, <3>2
    <3>3. CASE i # 1
      <4>1. i \in 2 .. n /\ f[i - 1] \in Seq(S)
        BY <2>2, <3>3
      <4>2. f[i] = f[i - 1] \o seqs[i]
        BY <1>10, <4>1
      <4> HIDE DEF Eq, step, n
      <4>3. f[i] \in Seq(S)
        BY <3>1, <4>1, <4>2
      <4> QED
        BY <3>1, <4>3
    <3> QED
      BY <3>2, <3>3
  <2>3. 0 .. n \subseteq T
    <3> HIDE DEF T, n
    <3> QED
      BY <1>2, <2>1, <2>2, Rises
  <2> QED
    BY <2>3
<1>12. f = [i \in 1 .. n |-> f[i]] /\ \A i \in 1 .. n : i \in 0 .. n /\ i >= 1
  BY <1>7
<1> HIDE DEF n, step, Eq
<1>13. f \in [1 .. n -> Seq(S)]
  BY <1>11, <1>12
<1> QED
  BY <1>8, <1>10, <1>13 DEF Flattens, n

\* The same from nothing on, the empty sequence of sequences included.
FlattensUp(f, seqs) ==
  /\ f[0] = << >>
  /\ \A i \in 1 .. Len(seqs) : f[i] = f[i - 1] \o seqs[i]
  /\ FlattenSeq(seqs) = f[Len(seqs)]

LEMMA FlattenUpBy ==
  ASSUME NEW S, NEW seqs \in Seq(Seq(S))
  PROVE  \E f \in [0 .. Len(seqs) -> Seq(S)] : FlattensUp(f, seqs)
<1> DEFINE n == Len(seqs)
<1>1. n \in Nat /\ << >> \in Seq(S)
  OBVIOUS
<1>2. CASE seqs = << >>
  <2> DEFINE f == [i \in 0 .. n |-> << >>]
  <2>1. n = 0
    BY <1>2
  <2>2. FlattenSeq(seqs) = << >>
    BY <1>2 DEF FlattenSeq
  <2>3. f \in [0 .. n -> Seq(S)] /\ f[0] = << >> /\ f[n] = << >> /\ 1 .. n = {}
    BY <1>1, <2>1
  <2> HIDE DEF f
  <2>4. FlattensUp(f, seqs)
    BY <2>2, <2>3 DEF FlattensUp
  <2> QED
    BY <2>3, <2>4
<1>3. CASE seqs # << >>
  <2>1. PICK g \in [1 .. n -> Seq(S)] : Flattens(g, seqs)
    BY <1>3, FlattenBy, Zenon
  <2>2. n >= 1 /\ 1 \in 1 .. n /\ n \in 1 .. n /\ \A i \in 1 .. n : seqs[i] \in Seq(S)
    BY <1>3
  <2> DEFINE f == [i \in 0 .. n |-> IF i = 0 THEN << >> ELSE g[i]]
  <2> HIDE DEF n
  <2>3. f \in [0 .. n -> Seq(S)] /\ f[0] = << >> /\ \A i \in 1 .. n : f[i] = g[i]
    BY <1>1, <2>1
  <2> HIDE DEF f
  <2>4. ASSUME NEW i \in 1 .. n PROVE f[i] = f[i - 1] \o seqs[i]
    <3>1. CASE i = 1
      <4>1. f[1] = seqs[1] /\ i - 1 = 0
        BY <2>1, <2>2, <2>3, <3>1 DEF Flattens
      <4>2. << >> \o seqs[1] = seqs[1]
        BY <2>2
      <4> QED
        BY <2>3, <3>1, <4>1, <4>2
    <3>2. CASE i # 1
      <4>1. i \in 2 .. n /\ i - 1 \in 1 .. n
        BY <1>1, <3>2
      <4>2. g[i] = g[i - 1] \o seqs[i]
        BY <2>1, <4>1 DEF Flattens, n
      <4> QED
        BY <2>3, <4>1, <4>2
    <3> QED
      BY <3>1, <3>2
  <2>5. FlattenSeq(seqs) = f[n]
    BY <2>1, <2>2, <2>3 DEF Flattens, n
  <2>6. FlattensUp(f, seqs)
    BY <2>3, <2>4, <2>5 DEF FlattensUp, n
  <2> QED
    BY <2>3, <2>6 DEF n
<1> QED
  BY <1>2, <1>3

\* What is joined first stays in front.
Starts(s, t) ==
  Len(s) <= Len(t) /\ \A k \in 1 .. Len(s) : t[k] = s[k]

LEMMA FlattenPrefix ==
  ASSUME NEW S, NEW seqs \in Seq(Seq(S)),
         NEW f \in [0 .. Len(seqs) -> Seq(S)], FlattensUp(f, seqs),
         NEW i \in 0 .. Len(seqs)
  PROVE  Starts(f[i], FlattenSeq(seqs))
<1> DEFINE n == Len(seqs)
           all == f[n]
           In(j) == /\ Len(f[j]) <= Len(all)
                    /\ \A k \in 1 .. Len(f[j]) : all[k] = f[j][k]
           T == {j \in 0 .. n : In(j)}
<1>1. n \in Nat /\ n \in 0 .. n
  OBVIOUS
<1>2. /\ \A j \in 0 .. n : f[j] \in Seq(S)
      /\ \A m \in 1 .. n : seqs[m] \in Seq(S)
  <2>1. ASSUME NEW j \in 0 .. n PROVE f[j] \in Seq(S)
    OBVIOUS
  <2>2. ASSUME NEW m \in 1 .. n PROVE seqs[m] \in Seq(S)
    OBVIOUS
  <2> HIDE DEF n
  <2> QED
    BY <2>1, <2>2
<1>3. ASSUME NEW j \in 0 .. n, \A m \in j + 1 .. n : m \in T
      PROVE  j \in T
  <2>1. CASE j = n
    <3>1. In(n)
      BY <1>1
    <3> QED
      BY <2>1, <3>1
  <2>2. CASE j # n
    <3> DEFINE m == j + 1
               a == f[j]
               b == seqs[m]
    <3>1. m \in j + 1 .. n /\ m \in 1 .. n /\ m - 1 = j
      BY <1>1, <2>2
    <3>2. In(m)
      BY <1>3, <3>1
    <3>3. f[m] = a \o b /\ a \in Seq(S) /\ b \in Seq(S)
      <4>1. f[m] = f[m - 1] \o seqs[m]
        BY <3>1 DEF FlattensUp
      <4>2. f[j] \in Seq(S)
        BY <1>2
      <4>3. seqs[m] \in Seq(S)
        BY <1>2, <3>1
      <4> QED
        BY <3>1, <4>1, <4>2, <4>3
    <3>4. all \in Seq(S)
      BY <1>1
    <3> HIDE DEF m, a, b, all
    <3>5. Len(a \o b) <= Len(all) /\ \A k \in 1 .. Len(a \o b) : all[k] = (a \o b)[k]
      BY <3>2, <3>3
    <3>6. /\ Len(a) <= Len(a \o b) /\ Len(a) \in Nat /\ Len(a \o b) \in Nat
          /\ \A k \in 1 .. Len(a) : (a \o b)[k] = a[k]
      BY <3>3
    <3>7. Len(all) \in Nat
      BY <3>4
    <3>8. Len(a) <= Len(all) /\ \A k \in 1 .. Len(a) : all[k] = a[k]
      BY <3>5, <3>6, <3>7
    <3> QED
      BY <3>8 DEF a
  <2> QED
    BY <2>1, <2>2
<1>4. In(i)
  <2>1. 0 .. n \subseteq T
    <3> HIDE DEF T
    <3> QED
      BY <1>1, <1>3, Falls
  <2> QED
    BY <2>1
<1>5. FlattenSeq(seqs) = all
  BY DEF FlattensUp
<1> QED
  BY <1>4, <1>5 DEF Starts

\* Pieces of a sequence, each from where the last ended, give it back.
LEMMA FlattenCuts ==
  ASSUME NEW S, NEW s \in Seq(S), NEW m \in Nat, NEW cut \in [0 .. m -> Nat],
         \A i \in 1 .. m : cut[i - 1] <= cut[i],
         \A i \in 0 .. m : cut[i] <= Len(s)
  PROVE  FlattenSeq([i \in 1 .. m |-> SubSeq(s, cut[i - 1] + 1, cut[i])])
           = SubSeq(s, cut[0] + 1, cut[m])
<1> DEFINE piece(i) == SubSeq(s, cut[i - 1] + 1, cut[i])
           seqs == [i \in 1 .. m |-> piece(i)]
<1>1. \A i \in 0 .. m : cut[i] \in Nat
  OBVIOUS
<1>2. \A i \in 1 .. m : i - 1 \in 0 .. m /\ i \in 0 .. m
  OBVIOUS
<1>3. \A i \in 1 .. m : piece(i) \in Seq(S)
  <2>1. ASSUME NEW i \in 1 .. m PROVE piece(i) \in Seq(S)
    <3>1. /\ cut[i - 1] \in Nat /\ cut[i] \in Nat /\ cut[i] <= Len(s)
          /\ cut[i - 1] <= cut[i]
      BY <1>1, <1>2
    <3> QED
      BY <3>1
  <2> QED
    BY <2>1
<1> HIDE DEF piece
<1>4. seqs \in Seq(Seq(S)) /\ Len(seqs) = m
  BY <1>3
<1>5. CASE m = 0
  <2>1. seqs = << >>
    BY <1>5
  <2>2. FlattenSeq(seqs) = << >>
    BY <2>1 DEF FlattenSeq
  <2>3. SubSeq(s, cut[0] + 1, cut[0]) = << >>
    BY <1>1, <1>2
  <2> QED
    BY <1>5, <2>2, <2>3 DEF piece
<1>6. CASE m # 0
  <2>1. PICK f \in [1 .. Len(seqs) -> Seq(S)] : Flattens(f, seqs)
    <3>1. seqs # << >>
      BY <1>4, <1>6
    <3> HIDE DEF seqs
    <3> QED
      BY <1>4, <3>1, FlattenBy, Zenon
  <2>2. /\ f[1] = piece(1)
        /\ \A i \in 2 .. m : f[i] = f[i - 1] \o piece(i)
        /\ FlattenSeq(seqs) = f[m]
    <3>1. 1 \in 1 .. m /\ \A i \in 2 .. m : i \in 1 .. m
      BY <1>6
    <3>2. \A i \in 1 .. m : seqs[i] = piece(i)
      OBVIOUS
    <3> HIDE DEF seqs
    <3> QED
      BY <1>4, <2>1, <3>1, <3>2 DEF Flattens
  <2> HIDE DEF seqs
  <2> DEFINE T == {i \in 0 .. m : i >= 1 => f[i] = SubSeq(s, cut[0] + 1, cut[i])}
  <2>3. 0 \in T
    OBVIOUS
  <2>4. cut[0] \in Nat /\ \A i \in 0 .. m : cut[0] <= cut[i]
    <3> DEFINE R == {i \in 0 .. m : cut[0] <= cut[i]}
    <3>1. 0 \in R
      BY <1>1
    <3>2. \A i \in 1 .. m : i - 1 \in R => i \in R
      BY <1>1, <1>2
    <3>3. 0 .. m \subseteq R
      <4> HIDE DEF R
      <4> QED
        BY <3>1, <3>2, Rises
    <3>4. 0 \in 0 .. m
      OBVIOUS
    <3> QED
      BY <1>1, <3>3, <3>4
  <2>5. ASSUME NEW i \in 1 .. m, i - 1 \in T
        PROVE  i \in T
    <3>1. CASE i = 1
      BY <2>2, <3>1 DEF piece
    <3>2. CASE i # 1
      <4>1. i \in 2 .. m /\ i - 1 \in 0 .. m /\ i - 1 >= 1
        BY <3>2
      <4>2. f[i - 1] = SubSeq(s, cut[0] + 1, cut[i - 1])
        BY <2>5, <4>1
      <4>3. f[i] = f[i - 1] \o piece(i)
        BY <2>2, <4>1
      <4>4. /\ cut[i - 1] \in Nat /\ cut[i] \in Nat /\ cut[i] <= Len(s)
            /\ cut[i - 1] <= cut[i] /\ cut[0] <= cut[i - 1]
        BY <1>1, <1>2, <2>4
      <4> HIDE DEF T
      <4> DEFINE p == cut[0] + 1
                 q == cut[i - 1]
                 r == cut[i]
      <4>5. /\ p \in 1 .. Len(s) + 1 /\ q \in p - 1 .. Len(s)
            /\ r \in q .. Len(s)
        BY <2>4, <4>4
      <4>6. f[i] = SubSeq(s, p, q) \o SubSeq(s, q + 1, r)
        BY <4>2, <4>3 DEF piece
      <4> HIDE DEF p, q, r
      <4>7. SubSeq(s, p, q) \o SubSeq(s, q + 1, r) = SubSeq(s, p, r)
        BY <4>5, ConcatAdjacentSubSeq
      <4>8. f[i] = SubSeq(s, cut[0] + 1, cut[i])
        BY <4>6, <4>7 DEF p, r
      <4> QED
        BY <1>2, <4>8 DEF T
    <3> QED
      BY <3>1, <3>2
  <2>6. m \in T
    <3> HIDE DEF T
    <3>1. 0 .. m \subseteq T
      BY <2>3, <2>5, Rises
    <3> QED
      BY <3>1
  <2>7. f[m] = SubSeq(s, cut[0] + 1, cut[m])
    BY <1>6, <2>6
  <2> QED
    BY <2>2, <2>7 DEF seqs, piece
<1> QED
  BY <1>5, <1>6

\* The elements of c behind as many as a has are those of b.
EndsIn(c, a, b) == \A k \in 1 .. Len(b) : c[Len(a) + k] = b[k]

\* The length and the elements of two sequences put together.
LEMMA CatIs ==
  ASSUME NEW S, NEW a \in Seq(S), NEW b \in Seq(S)
  PROVE  /\ a \o b \in Seq(S)
         /\ Len(a) \in Nat /\ Len(b) \in Nat
         /\ Len(a \o b) = Len(a) + Len(b)
         /\ Starts(a, a \o b)
         /\ EndsIn(a \o b, a, b)
<1>1. a \o b \in Seq(S) /\ Len(a) \in Nat /\ Len(b) \in Nat
  OBVIOUS
<1>2. Len(a \o b) = Len(a) + Len(b)
  OBVIOUS
<1>3. ASSUME NEW k \in 1 .. Len(a) PROVE (a \o b)[k] = a[k]
  OBVIOUS
<1>4. ASSUME NEW k \in 1 .. Len(b) PROVE (a \o b)[Len(a) + k] = b[k]
  <2>1. /\ Len(a) + k \in 1 .. Len(a) + Len(b)
        /\ Len(a) + k > Len(a) /\ (Len(a) + k) - Len(a) = k
    BY <1>1
  <2> QED
    BY <2>1
<1> QED
  BY <1>1, <1>2, <1>3, <1>4 DEF EndsIn, Starts

\* The parentheses around what is joined do not matter.
Associate(a, b, c) == (a \o b) \o c = a \o (b \o c)

LEMMA CatAssociates ==
  ASSUME NEW S, NEW a \in Seq(S), NEW b \in Seq(S), NEW c \in Seq(S)
  PROVE  Associate(a, b, c)
  BY ConcatAssociative DEF Associate

\* Subsequences of one and of two elements.
LEMMA SubSeqShort ==
  ASSUME NEW S, NEW s \in Seq(S), NEW c \in 1 .. Len(s)
  PROVE  /\ SubSeq(s, c, c) = <<s[c]>>
         /\ c + 1 \in 1 .. Len(s) => SubSeq(s, c, c + 1) = <<s[c], s[c + 1]>>
<1>1. SubSeq(s, c, c - 1) = << >> /\ c \in Int /\ c - 1 \in Int
  BY SubSeqEmpty
<1>2. SubSeq(s, c, c) = << >> \o <<s[c]>>
  <2>1. c \in c .. Len(s)
    OBVIOUS
  <2> QED
    BY <1>1, <2>1, SubSeqRecursiveSecond
<1>3. s[c] \in S
  OBVIOUS
<1>4. SubSeq(s, c, c) = <<s[c]>>
  BY <1>2, <1>3
<1>5. ASSUME c + 1 \in 1 .. Len(s)
      PROVE  SubSeq(s, c, c + 1) = <<s[c], s[c + 1]>>
  <2> DEFINE d == c + 1
  <2>1. d \in c .. Len(s) /\ d - 1 = c /\ s[d] \in S
    BY <1>5
  <2> HIDE DEF d
  <2>2. SubSeq(s, c, d) = SubSeq(s, c, d - 1) \o <<s[d]>>
    BY <2>1, SubSeqRecursiveSecond
  <2>3. SubSeq(s, c, d) = <<s[c]>> \o <<s[d]>>
    BY <1>4, <2>1, <2>2
  <2>4. \A x, y \in S : <<x>> \o <<y>> = <<x, y>>
    <3>1. ASSUME NEW x \in S, NEW y \in S PROVE <<x>> \o <<y>> = <<x, y>>
      <4> DEFINE l == <<x>> \o <<y>>
                 r == <<x, y>>
      <4>1. l \in Seq(S) /\ Len(l) = 2 /\ l[1] = x /\ l[2] = y
        OBVIOUS
      <4>2. r \in Seq(S) /\ Len(r) = 2 /\ r[1] = x /\ r[2] = y
        OBVIOUS
      <4> HIDE DEF l, r
      <4>3. \A i \in 1 .. 2 : l[i] = r[i]
        BY <4>1, <4>2
      <4>4. l = r
        BY <4>1, <4>2, <4>3, SeqEqual
      <4> QED
        BY <4>4 DEF l, r
    <3> QED
      BY <3>1
  <2> QED
    BY <1>3, <2>1, <2>3, <2>4 DEF d
<1> QED
  BY <1>4, <1>5
=============================================================================
