----------------------------- MODULE ItemsProofs -----------------------------
(***************************************************************************)
(* Proofs about items.dat, for any file: a file with the cells its count   *)
(* announces is never read past its end, and what was read of a file is    *)
(* packed as it lay there, in no more bytes than are allocated for it.     *)
(***************************************************************************)
EXTENDS ItemsDat, Recursion

-----------------------------------------------------------------------------
(* The layout.                                                             *)

\* Packing goes through the members in the order reading does.
LEMMA LayoutShape ==
  /\ Len(ReadLayout) = 46 /\ DOMAIN ReadLayout = 1 .. 46
  /\ PackLayout = ReadLayout
  /\ \A i \in 1 .. 46 : ReadLayout[i][2] \in Nat
<1>1. Len(ReadLayout) = 46 /\ DOMAIN ReadLayout = 1 .. 46
  BY DEF ReadLayout
<1>2. PackLayout = ReadLayout
  BY DEF ReadLayout, PackLayout
<1>3. \A i \in 1 .. 46 : ReadLayout[i][2] \in Nat
  BY DEF ReadLayout, String
<1> QED
  BY <1>1, <1>2, <1>3

\* No two members have one name, and none has a derived one's.
LEMMA NamesApart ==
  /\ \A i, j \in 1 .. 46 : ReadLayout[i][1] = ReadLayout[j][1] => i = j
  /\ \A i \in 1 .. 46 : ReadLayout[i][1] \notin Derived
<1>1. \A i, j \in 1 .. 46 : ReadLayout[i][1] = ReadLayout[j][1] => i = j
  BY SMTT(60) DEF ReadLayout
<1>2. \A i \in 1 .. 46 : ReadLayout[i][1] \notin Derived
  BY SMTT(60) DEF ReadLayout, Derived
<1> QED
  BY <1>1, <1>2

\* The members the cipher is about.
LEMMA NamePlace ==
  /\ ReadLayout[1][1] = "m_Id" /\ ~IsString(1)
  /\ ReadLayout[6][1] = "m_name" /\ IsString(6)
BY DEF ReadLayout, IsString, String

\* Where the members begin: each behind the cells of the one before it.
LEMMA BeginsStep ==
  /\ Begins(1) = 1
  /\ \A i \in 1 .. 46 : Begins(i + 1) = Begins(i) + IF IsString(i) THEN 2 ELSE 1
  /\ \A i \in 1 .. 46 : Begins(i) + (IF IsString(i) THEN 1 ELSE 0) <= ItemCells
  /\ ItemCells \in Nat
<1> DEFINE S(i) == {j \in 1 .. i - 1 : IsString(j)}
<1>1. ASSUME NEW i \in Nat
      PROVE  IsFiniteSet(S(i)) /\ Cardinality(S(i)) \in Nat
  <2>1. S(i) \subseteq 1 .. i - 1 /\ IsFiniteSet(1 .. i - 1)
    BY FS_Interval
  <2> HIDE DEF S
  <2> QED
    BY <2>1, FS_Subset, FS_CardinalityType
<1>2. ASSUME NEW i \in 1 .. 46
      PROVE  Cardinality(S(i + 1)) = Cardinality(S(i))
                                       + IF IsString(i) THEN 1 ELSE 0
  <2>1. i \notin S(i) /\ IsFiniteSet(S(i)) /\ Cardinality(S(i)) \in Nat
    BY <1>1
  <2>2. CASE IsString(i)
    <3>1. S(i + 1) = S(i) \cup {i}
      BY <2>2
    <3> HIDE DEF S
    <3> QED
      BY <2>1, <2>2, <3>1, FS_AddElement
  <2>3. CASE ~IsString(i)
    <3>1. S(i + 1) = S(i)
      BY <2>3
    <3> HIDE DEF S
    <3> QED
      BY <2>1, <2>3, <3>1
  <2> QED
    BY <2>2, <2>3
<1>3. ASSUME NEW i \in 1 .. 47
      PROVE  Cardinality(S(i)) <= Cardinality(S(47))
  <2>1. S(i) \subseteq S(47)
    OBVIOUS
  <2>2. IsFiniteSet(S(47))
    BY <1>1
  <2> HIDE DEF S
  <2> QED
    BY <2>1, <2>2, FS_Subset
<1>4. S(1) = {}
  OBVIOUS
<1>5. \A i : Begins(i) = i + Cardinality(S(i))
  BY DEF Begins
<1>6. ItemCells = Begins(47) - 1
  BY LayoutShape DEF ItemCells
<1>7. Cardinality(S(1)) = 0
  BY <1>4, FS_EmptySet
<1> HIDE DEF S
<1>8. \A i \in 1 .. 47 : Begins(i) \in Nat /\ Begins(i) >= i
  BY <1>1, <1>5
<1>9. Begins(1) = 1
  BY <1>5, <1>7
<1>10. ASSUME NEW i \in 1 .. 46
       PROVE  /\ Begins(i + 1) = Begins(i) + IF IsString(i) THEN 2 ELSE 1
              /\ Begins(i) + (IF IsString(i) THEN 1 ELSE 0) <= ItemCells
  <2>1. i + 1 \in 1 .. 47 /\ i \in 1 .. 47 /\ i \in Nat /\ i + 1 \in Nat /\ 47 \in Nat
    OBVIOUS
  <2>2. Cardinality(S(i)) \in Nat /\ Cardinality(S(i + 1)) \in Nat
        /\ Cardinality(S(47)) \in Nat
    BY <1>1, <2>1
  <2>3. Begins(i) = i + Cardinality(S(i))
        /\ Begins(i + 1) = i + 1 + Cardinality(S(i + 1))
        /\ ItemCells = 46 + Cardinality(S(47))
    BY <1>5, <1>6, <2>2
  <2>4. Cardinality(S(i + 1)) <= Cardinality(S(47))
    BY <1>3, <2>1
  <2>5. Cardinality(S(i + 1)) = Cardinality(S(i)) + IF IsString(i) THEN 1 ELSE 0
    BY <1>2
  <2> QED
    BY <2>1, <2>2, <2>3, <2>4, <2>5
<1>11. ItemCells \in Nat
  BY <1>6, <1>8
<1> QED
  BY <1>9, <1>10, <1>11

LEMMA BeginsNat == \A i \in 1 .. 47 : Begins(i) \in Nat /\ Begins(i) >= 1
<1>1. ASSUME NEW i \in 1 .. 47
      PROVE  Begins(i) \in Nat /\ Begins(i) >= 1
  <2> DEFINE S == {j \in 1 .. i - 1 : IsString(j)}
  <2>1. S \subseteq 1 .. i - 1 /\ IsFiniteSet(1 .. i - 1)
    BY FS_Interval
  <2> HIDE DEF S
  <2>2. Cardinality(S) \in Nat
    BY <2>1, FS_Subset, FS_CardinalityType
  <2> QED
    BY <2>2 DEF Begins, S
<1> QED
  BY <1>1

-----------------------------------------------------------------------------
(* Reading.                                                                *)

\* A file with the cells its count announces is read to its end.
LEMMA WholeIsInside ==
  ASSUME NEW f, Len(f) \in Nat, CutAsRead(f), 2 \in DOMAIN f,
         2 + Count(f) * ItemCells <= Len(f)
  PROVE  /\ Count(f) \in Nat
         /\ \A n \in 0 .. Count(f) - 1 : Inside(f, n)
<1> DEFINE k == ItemCells
           C == Count(f)
<1>1. DOMAIN f = 1 .. Len(f) /\ C \in Nat /\ k \in Nat /\ 2 + C * k <= Len(f)
  BY BeginsStep DEF CutAsRead, Count
<1>2. ASSUME NEW n \in 0 .. C - 1 PROVE Inside(f, n)
  <2> DEFINE at == 2 + n * k
  <2>1. at \in Nat /\ at + k <= Len(f)
    <3>1. n * k \in Nat /\ n * k + k = (n + 1) * k
      BY <1>1
    <3>2. (n + 1) * k <= C * k /\ C * k \in Nat
      BY <1>1
    <3> DEFINE p == n * k
               q == (n + 1) * k
               r == C * k
    <3>3. p \in Nat /\ q = p + k /\ q <= r /\ r \in Nat /\ k \in Nat
          /\ 2 + r <= Len(f)
      BY <1>1, <3>1, <3>2
    <3> HIDE DEF k, C, p, q, r
    <3>4. 2 + p \in Nat /\ (2 + p) + k <= Len(f)
      BY <3>3
    <3> QED
      BY <3>4 DEF p, r
  <2>2. ASSUME NEW i \in 1 .. 46
        PROVE  /\ at + Begins(i) \in DOMAIN f
               /\ IsString(i) => at + Begins(i) + 1 \in DOMAIN f
    <3>0. i \in 1 .. 47 /\ i >= 1
      OBVIOUS
    <3>1. Begins(i) \in Nat /\ Begins(i) >= 1
      BY <3>0, BeginsNat, Zenon
    <3>3. Begins(i) + (IF IsString(i) THEN 1 ELSE 0) <= k
      BY BeginsStep
    <3> HIDE DEF at, k, C
    <3> QED
      BY <1>1, <2>1, <3>1, <3>3
  <2>3. ASSUME NEW i \in 1 .. 46
        PROVE  IF IsString(i) THEN StringReadable(f, at + Begins(i), 2)
               ELSE Readable(f, at + Begins(i), ReadLayout[i][2])
    <3> DEFINE c == at + Begins(i)
    <3>1. c \in DOMAIN f /\ (IsString(i) => c + 1 \in DOMAIN f)
      BY <2>2
    <3>2. IF IsString(i)
          THEN f[c].width = 2 /\ f[c + 1].width = f[c].value
          ELSE f[c].width = ReadLayout[i][2]
      BY <3>1, LayoutShape DEF CutAsRead
    <3> HIDE DEF c
    <3> QED
      BY <3>1, <3>2 DEF c, StringReadable, Readable
  <2> HIDE DEF at
  <2> QED
    BY <2>3, LayoutShape DEF Inside, ReadsItem, at, k
<1> QED
  BY <1>1, <1>2
\* The value of an item's i-th member, as it lies in the file.
Raw(cells, at, i) ==
  cells[at + Begins(i) + (IF IsString(i) THEN 1 ELSE 0)].value

\* What the names say of their places.
LEMMA MembersAre ==
  /\ \A i \in 1 .. 46 : ReadLayout[i][1] \in Members
  /\ \A i \in 1 .. 46 : ReadLayout[i][1] \in StringMembers <=> IsString(i)
<1>1. \A i \in 1 .. 46 : ReadLayout[i][1] \in Members
  BY LayoutShape DEF Members
<1>2. ASSUME NEW i \in 1 .. 46
      PROVE  ReadLayout[i][1] \in StringMembers <=> IsString(i)
  <2>1. StringMembers = {ReadLayout[j][1] : j \in {x \in 1 .. 46 : IsString(x)}}
    BY LayoutShape DEF StringMembers
  <2>2. \A j \in 1 .. 46 : ReadLayout[i][1] = ReadLayout[j][1] => i = j
    BY NamesApart
  <2> QED
    BY <2>1, <2>2
<1> QED
  BY <1>1, <1>2

\* What is read under the i-th member's name.
LEMMA MemberRead ==
  ASSUME NEW cells, NEW at, NEW i \in 1 .. 46
  PROVE  ReadItem(cells, at)[ReadLayout[i][1]] =
           IF i = 6 THEN Cypher(Raw(cells, at, 1), Raw(cells, at, i))
           ELSE Raw(cells, at, i)
<1> DEFINE place(f) == CHOOSE j \in DOMAIN ReadLayout : ReadLayout[j][1] = f
           value(f) == cells[at + Begins(place(f))
                             + (IF f \in StringMembers THEN 1 ELSE 0)].value
           name(j) == ReadLayout[j][1]
<1>1. ASSUME NEW j \in 1 .. 46 PROVE value(name(j)) = Raw(cells, at, j)
  <2>1. place(name(j)) = j
    <3>1. \A x \in 1 .. 46 : name(x) = name(j) => x = j
      BY NamesApart
    <3>2. DOMAIN ReadLayout = 1 .. 46
      BY LayoutShape
    <3> HIDE DEF name
    <3> QED
      BY <3>1, <3>2 DEF name
  <2>2. name(j) \in StringMembers <=> IsString(j)
    BY MembersAre
  <2> HIDE DEF place, name
  <2> QED
    BY <2>1, <2>2 DEF Raw
<1>2. name(1) = "m_Id" /\ name(6) = "m_name"
  BY NamePlace
<1>3. name(i) = "m_name" <=> i = 6
  <2>1. \A x, y \in 1 .. 46 : name(x) = name(y) => x = y
    BY NamesApart
  <2>2. 6 \in 1 .. 46
    OBVIOUS
  <2> HIDE DEF name
  <2> QED
    BY <1>2, <2>1, <2>2
<1>4. name(i) \in Members \cup Derived /\ name(i) \notin Derived
  BY MembersAre, NamesApart
<1>5. value("m_Id") = Raw(cells, at, 1)
  <2>1. value(name(1)) = Raw(cells, at, 1)
    <3> HIDE DEF value, name
    <3> QED
      BY <1>1
  <2> HIDE DEF value, name
  <2> QED
    BY <2>1, <1>2
<1>6. value(name(i)) = Raw(cells, at, i)
  <2> HIDE DEF value, name
  <2> QED
    BY <1>1
<1>7. ReadItem(cells, at)[name(i)] =
        CASE name(i) = "m_name" -> Cypher(value("m_Id"), value(name(i)))
          [] name(i) = "m_defaultTexture" ->
               DefaultTexture(value("m_texture.X"), value("m_texture.Y"),
                              value("m_spreadType"))
          [] name(i) = "m_hasExtra" -> value("m_itemType") \in TypesWithExtra
          [] OTHER -> value(name(i))
  <2> HIDE DEF name
  <2> QED
    BY <1>4 DEF ReadItem
<1>8. name(i) # "m_defaultTexture" /\ name(i) # "m_hasExtra"
  <2> HIDE DEF name
  <2> QED
    BY <1>4 DEF Derived
<1> HIDE DEF name, value
<1> QED
  BY <1>3, <1>5, <1>6, <1>7, <1>8 DEF name

\* The cipher undoes itself.
LEMMA CypherTwice ==
  ASSUME NEW n \in Nat, NEW s, StringOf(s, n), NEW id
  PROVE  Cypher(id, Cypher(id, s)) = s /\ Len(s) = n
<1> DEFINE key(i) == Key[1 + ((i - 1 + id) % Len(Key))]
           once == [i \in 1 .. n |-> Xor(s[i], key(i))]
<1>1. /\ DOMAIN s = 1 .. n
      /\ \A i \in 1 .. n : s[i] = [ch |-> s[i].ch, keys |-> s[i].keys]
      /\ s = [i \in 1 .. n |-> s[i]]
  BY DEF StringOf
<1>2. Cypher(id, s) = once
  BY <1>1 DEF Cypher
<1>3. ASSUME NEW k, NEW c, c = [ch |-> c.ch, keys |-> c.keys]
      PROVE  Xor(Xor(c, k), k) = c
  <2>1. Xor(c, k) = [ch |-> c.ch, keys |-> IF k \in c.keys THEN c.keys \ {k}
                                           ELSE c.keys \cup {k}]
    BY <1>3 DEF Xor
  <2> DEFINE d == Xor(c, k)
  <2>2. Xor(d, k) = [ch |-> d.ch, keys |-> IF k \in d.keys THEN d.keys \ {k}
                                           ELSE d.keys \cup {k}]
    <3>1. d = [ch |-> d.ch, keys |-> d.keys]
      BY <2>1
    <3> HIDE DEF d
    <3> QED
      BY <3>1 DEF Xor
  <2>3. (IF k \in d.keys THEN d.keys \ {k} ELSE d.keys \cup {k}) = c.keys
    BY <2>1
  <2> HIDE DEF d
  <2> QED
    BY <1>3, <2>1, <2>2, <2>3 DEF d
<1> HIDE DEF key
<1>4. Cypher(id, once) = [i \in 1 .. n |-> Xor(Xor(s[i], key(i)), key(i))]
  BY DEF Cypher, key
<1>5. \A i \in 1 .. n : Xor(Xor(s[i], key(i)), key(i)) = s[i]
  BY <1>1, <1>3
<1>6. Cypher(id, once) = s
  BY <1>1, <1>4, <1>5
<1>7. Len(s) = n
  BY <1>1
<1> QED
  BY <1>2, <1>6, <1>7
\* An item lies whole behind place at, its cells as they are read.
ItemAt(f, at) ==
  \A i \in 1 .. 46 :
    LET c == at + Begins(i)
    IN /\ c \in DOMAIN f
       /\ IF IsString(i)
          THEN /\ c + 1 \in DOMAIN f
               /\ f[c].width = 2 /\ f[c + 1].width = f[c].value
               /\ f[c].value \in Nat
               /\ StringOf(f[c + 1].value, f[c].value)
          ELSE f[c].width = ReadLayout[i][2]

\* So lies an item that is inside a file.
LEMMA ItemIsAt ==
  ASSUME NEW f, CutAsRead(f), 2 \in DOMAIN f,
         NEW n \in 0 .. Count(f) - 1, Inside(f, n)
  PROVE  ItemAt(f, 2 + n * ItemCells)
<1> DEFINE at == 2 + n * ItemCells
<1>1. ASSUME NEW i \in 1 .. 46
      PROVE  LET c == at + Begins(i)
             IN /\ c \in DOMAIN f
                /\ IF IsString(i)
                   THEN /\ c + 1 \in DOMAIN f
                        /\ f[c].width = 2 /\ f[c + 1].width = f[c].value
                        /\ f[c].value \in Nat
                        /\ StringOf(f[c + 1].value, f[c].value)
                   ELSE f[c].width = ReadLayout[i][2]
  <2> DEFINE c == at + Begins(i)
  <2>1. IF IsString(i) THEN StringReadable(f, c, 2)
        ELSE Readable(f, c, ReadLayout[i][2])
    BY LayoutShape DEF Inside, ReadsItem
  <2>2. IsString(i) =>
          /\ c \in DOMAIN f => f[c].width = 2 /\ f[c].value \in Nat
          /\ c + 1 \in DOMAIN f => /\ f[c + 1].width = f[c].value
                                   /\ StringOf(f[c + 1].value, f[c].value)
    BY LayoutShape DEF CutAsRead
  <2> HIDE DEF c
  <2>3. /\ c \in DOMAIN f
        /\ IF IsString(i)
           THEN /\ c + 1 \in DOMAIN f
                /\ f[c].width = 2 /\ f[c + 1].width = f[c].value
                /\ f[c].value \in Nat
                /\ StringOf(f[c + 1].value, f[c].value)
           ELSE f[c].width = ReadLayout[i][2]
    BY <2>1, <2>2 DEF StringReadable, Readable
  <2> QED
    BY <2>3 DEF c
<1> HIDE DEF at
<1> QED
  BY <1>1 DEF ItemAt, at

-----------------------------------------------------------------------------
(* Packing.                                                                *)

\* What is packed of an item that was read is what it was read from.
LEMMA PackRead ==
  ASSUME NEW f, Len(f) \in Nat, CutAsRead(f), NEW at \in Nat, ItemAt(f, at)
  PROVE  /\ PackItem(ReadItem(f, at)) = SubSeq(f, at + 1, at + ItemCells)
         /\ \A i \in 1 .. 46 : IsString(i) =>
              /\ Len(ReadItem(f, at)[ReadLayout[i][1]]) \in Nat
              /\ f[at + Begins(i) + 1].width
                   = Len(ReadItem(f, at)[ReadLayout[i][1]])
<1> DEFINE S == {f[c] : c \in 1 .. Len(f)}
           item == ReadItem(f, at)
           name(i) == ReadLayout[i][1]
           value(g) == IF g = "m_name" THEN Cypher(item["m_Id"], item[g])
                       ELSE item[g]
           piece(i) == IF IsString(i) THEN StringCells(2, value(name(i)))
                       ELSE <<Cell(ReadLayout[i][2], value(name(i)))>>
           cut == [i \in 0 .. 46 |-> at + Begins(i + 1) - 1]
<1>1. /\ DOMAIN f = 1 .. Len(f) /\ f \in Seq(S)
      /\ \A c \in 1 .. Len(f) : f[c] = Cell(f[c].width, f[c].value)
  <2>1. /\ f = [c \in 1 .. Len(f) |-> Cell(f[c].width, f[c].value)]
        /\ Len(f) \in Nat
    BY DEF CutAsRead
  <2>2. DOMAIN f = 1 .. Len(f)
        /\ \A c \in 1 .. Len(f) : f[c] = Cell(f[c].width, f[c].value)
    BY <2>1
  <2>3. f = [c \in 1 .. Len(f) |-> f[c]]
    BY <2>1, <2>2
  <2>4. \A c \in 1 .. Len(f) : f[c] \in S
    OBVIOUS
  <2>5. f \in Seq(S)
    <3> HIDE DEF S
    <3> QED
      BY <2>1, <2>3, <2>4
  <2> QED
    BY <2>2, <2>5
<1>2. ASSUME NEW i \in 1 .. 46
      PROVE  LET c == at + Begins(i)
             IN /\ c \in DOMAIN f
                /\ IF IsString(i)
                   THEN /\ c + 1 \in DOMAIN f
                        /\ f[c].width = 2 /\ f[c + 1].width = f[c].value
                        /\ f[c].value \in Nat
                        /\ StringOf(f[c + 1].value, f[c].value)
                   ELSE f[c].width = ReadLayout[i][2]
  BY DEF ItemAt
<1>3. ASSUME NEW i \in 1 .. 46
      PROVE  /\ value(name(i)) = Raw(f, at, i)
             /\ IsString(i) => Len(item[name(i)]) = Len(Raw(f, at, i))
                               /\ Len(Raw(f, at, i)) = f[at + Begins(i)].value
  <2>1. IsString(i) => /\ f[at + Begins(i)].value \in Nat
                       /\ StringOf(Raw(f, at, i), f[at + Begins(i)].value)
    BY <1>2 DEF Raw
  <2>2. IsString(i) => Len(Raw(f, at, i)) = f[at + Begins(i)].value
    BY <2>1, CypherTwice
  <2>3. CASE i = 6
    <3>1. name(i) = "m_name" /\ IsString(i) /\ name(1) = "m_Id" /\ 1 \in 1 .. 46
      BY <2>3, NamePlace
    <3>2. item[name(i)] = Cypher(Raw(f, at, 1), Raw(f, at, i))
      BY <2>3, MemberRead
    <3>3. item["m_Id"] = Raw(f, at, 1)
      <4>1. item[name(1)] = IF 1 = 6 THEN Cypher(Raw(f, at, 1), Raw(f, at, 1))
                            ELSE Raw(f, at, 1)
        BY <3>1, MemberRead, Zenon
      <4>2. name(1) = "m_Id" /\ 1 # 6
        BY <3>1
      <4> HIDE DEF name, item
      <4> QED
        BY <4>1, <4>2
    <3>4. Cypher(Raw(f, at, 1), Cypher(Raw(f, at, 1), Raw(f, at, i)))
            = Raw(f, at, i)
      BY <2>1, <3>1, CypherTwice
    <3>5. Len(Cypher(Raw(f, at, 1), Raw(f, at, i))) = Len(Raw(f, at, i))
      <4> DEFINE r == Raw(f, at, i)
                 k == f[at + Begins(i)].value
      <4>1. k \in Nat /\ StringOf(r, k)
        BY <2>1, <3>1
      <4> HIDE DEF r, k
      <4>2. DOMAIN r = 1 .. k
        BY <4>1 DEF StringOf
      <4>3. \A id : Len(Cypher(id, r)) = k /\ Len(r) = k
        BY <4>1, <4>2, CypherTwice DEF Cypher
      <4> QED
        BY <4>3 DEF r
    <3> HIDE DEF item, name
    <3> QED
      BY <2>2, <3>1, <3>2, <3>3, <3>4, <3>5
  <2>4. CASE i # 6
    <3>1. name(i) # "m_name"
      <4>1. name(6) = "m_name" /\ 6 \in 1 .. 46
        BY NamePlace
      <4>2. name(i) = name(6) => i = 6
        BY <4>1, NamesApart, Zenon
      <4> QED
        BY <2>4, <4>1, <4>2
    <3>2. item[name(i)] = Raw(f, at, i)
      BY <2>4, MemberRead
    <3> HIDE DEF item, name
    <3> QED
      BY <2>2, <3>1, <3>2
  <2> QED
    BY <2>3, <2>4
<1> HIDE DEF value, item
<1>4. \A i \in 0 .. 46 : i + 1 \in 1 .. 47
  OBVIOUS
<1>5. cut \in [0 .. 46 -> Nat]
  <2>1. \A b \in Nat : b >= 1 => at + b - 1 \in Nat
    OBVIOUS
  <2>2. \A i \in 0 .. 46 : at + Begins(i + 1) - 1 \in Nat
    BY <1>4, <2>1, BeginsNat
  <2> QED
    BY <2>2
<1>6. cut[0] = at /\ cut[46] = at + ItemCells
  <2>1. ItemCells = Begins(47) - 1 /\ Begins(47) \in Nat
    BY LayoutShape, BeginsNat DEF ItemCells
  <2>2. cut[0] = at + Begins(1) - 1 /\ cut[46] = at + Begins(47) - 1
    OBVIOUS
  <2>3. Begins(1) = 1
    BY BeginsStep
  <2> DEFINE x == Begins(47)
             y == Begins(1)
  <2>4. cut[0] = at + y - 1 /\ cut[46] = at + x - 1
        /\ ItemCells = x - 1 /\ x \in Nat /\ y = 1
    BY <2>1, <2>2, <2>3
  <2> HIDE DEF cut, S, x, y
  <2> QED
    BY <2>4
<1>7. ASSUME NEW i \in 1 .. 46
      PROVE  /\ cut[i - 1] + 1 = at + Begins(i)
             /\ IsString(i) => cut[i] = at + Begins(i) + 1
             /\ ~IsString(i) => cut[i] = at + Begins(i)
             /\ cut[i - 1] <= cut[i] /\ cut[i - 1] <= Len(f) /\ cut[i] <= Len(f)
  <2>1. cut[i - 1] = at + Begins(i) - 1 /\ cut[i] = at + Begins(i + 1) - 1
    <3>1. i - 1 \in 0 .. 46 /\ i \in 0 .. 46 /\ (i - 1) + 1 = i
      OBVIOUS
    <3> QED
      BY <3>1
  <2>2. Begins(i) \in Nat /\ Begins(i) >= 1
    <3>1. i \in 1 .. 47
      OBVIOUS
    <3> QED
      BY <3>1, BeginsNat, Zenon
  <2>3. Begins(i + 1) = Begins(i) + IF IsString(i) THEN 2 ELSE 1
    BY BeginsStep
  <2>4. at + Begins(i) \in DOMAIN f /\ (IsString(i) => at + Begins(i) + 1 \in DOMAIN f)
    BY <1>2
  <2> HIDE DEF cut, S
  <2> QED
    BY <1>1, <2>1, <2>2, <2>3, <2>4, SMTT(20)
<1>8. ASSUME NEW i \in 1 .. 46
      PROVE  piece(i) = SubSeq(f, cut[i - 1] + 1, cut[i])
  <2> DEFINE c == at + Begins(i)
             v == value(name(i))
  <2>1. v = Raw(f, at, i)
    BY <1>3
  <2>2. c \in 1 .. Len(f)
    BY <1>1, <1>2
  <2>3. CASE IsString(i)
    <3>1. /\ c + 1 \in 1 .. Len(f) /\ f[c].width = 2
          /\ f[c + 1].width = f[c].value
      BY <1>1, <1>2, <2>3
    <3>2. v = f[c + 1].value /\ Len(v) = f[c].value
      BY <1>3, <2>1, <2>3 DEF Raw
    <3>3. piece(i) = StringCells(2, v)
      BY <2>3
    <3>4. cut[i - 1] + 1 = c /\ cut[i] = c + 1
      BY <1>7, <2>3
    <3> HIDE DEF c, v, piece, S, cut
    <3>5. piece(i) = <<f[c], f[c + 1]>>
      BY <1>1, <2>2, <3>1, <3>2, <3>3 DEF StringCells, Cell
    <3>6. SubSeq(f, c, c + 1) = <<f[c], f[c + 1]>>
      BY <1>1, <2>2, <3>1, SubSeqShort
    <3> QED
      BY <3>4, <3>5, <3>6
  <2>4. CASE ~IsString(i)
    <3>1. f[c].width = ReadLayout[i][2]
      BY <1>2, <2>4
    <3>2. v = f[c].value
      <4>1. v = f[at + Begins(i) + 0].value
        BY <2>1, <2>4 DEF Raw
      <4>2. c + 0 = c
        BY <2>2
      <4> HIDE DEF v
      <4> QED
        BY <4>1, <4>2
    <3>3. piece(i) = <<Cell(ReadLayout[i][2], v)>>
      BY <2>4
    <3>4. cut[i - 1] + 1 = c /\ cut[i] = c
      BY <1>7, <2>2, <2>4
    <3> HIDE DEF c, v, piece, S, cut
    <3>5. piece(i) = <<f[c]>>
      BY <1>1, <2>2, <3>1, <3>2, <3>3
    <3>6. SubSeq(f, c, c) = <<f[c]>>
      BY <1>1, <2>2, SubSeqShort
    <3> QED
      BY <3>4, <3>5, <3>6
  <2> QED
    BY <2>3, <2>4
<1>9. PackItem(item) = FlattenSeq([i \in 1 .. 46 |-> piece(i)])
  BY LayoutShape DEF PackItem, IsString, value
<1> HIDE DEF piece, S, cut
<1>10. PackItem(item)
         = FlattenSeq([i \in 1 .. 46 |-> SubSeq(f, cut[i - 1] + 1, cut[i])])
  <2>1. [i \in 1 .. 46 |-> piece(i)]
          = [i \in 1 .. 46 |-> SubSeq(f, cut[i - 1] + 1, cut[i])]
    BY <1>8
  <2> QED
    BY <1>9, <2>1
<1>11. \A i \in 0 .. 46 : cut[i] <= Len(f)
  <2>1. \A i \in 0 .. 46 : i = 0 \/ i \in 1 .. 46
    OBVIOUS
  <2>2. cut[1 - 1] <= Len(f) /\ 1 - 1 = 0
    BY <1>7
  <2> QED
    BY <1>7, <2>1, <2>2
<1>12. FlattenSeq([i \in 1 .. 46 |-> SubSeq(f, cut[i - 1] + 1, cut[i])])
         = SubSeq(f, cut[0] + 1, cut[46])
  <2>1. \A i \in 1 .. 46 : cut[i - 1] <= cut[i]
    BY <1>7
  <2>2. 46 \in Nat
    OBVIOUS
  <2> QED
    BY <1>1, <1>5, <1>11, <2>1, <2>2, FlattenCuts, Zenon
<1>13. PackItem(item) = SubSeq(f, at + 1, at + ItemCells)
  BY <1>6, <1>10, <1>12
<1>14. ASSUME NEW i \in 1 .. 46, IsString(i)
       PROVE  /\ Len(item[name(i)]) \in Nat
              /\ f[at + Begins(i) + 1].width = Len(item[name(i)])
  BY <1>2, <1>3, <1>14
<1> QED
  BY <1>13, <1>14 DEF item
-----------------------------------------------------------------------------
(* Bytes.                                                                  *)

\* The bytes of a member that every item has.
Fixed(i) == IF IsString(i) THEN 0 ELSE ReadLayout[i][2]

\* F counts them from member to member.
AddsFixed(F) ==
  /\ F \in [0 .. 46 -> Nat] /\ F[0] = 0
  /\ \A i \in 1 .. 46 : F[i] = F[i - 1] + Fixed(i)

\* They are 164 in all.
LEMMA FixedWidths == \E F : AddsFixed(F) /\ F[46] = 164
<1> DEFINE w == [i \in 1 .. 46 |-> Fixed(i)]
<1>1. w \in Seq(Nat) /\ Len(w) = 46
  <2>1. \A i \in 1 .. 46 : Fixed(i) \in Nat
    BY LayoutShape DEF Fixed
  <2> QED
    BY <2>1
<1>2. PICK F \in [0 .. Len(w) -> Nat] : Sums(F, w)
  <2> HIDE DEF w
  <2> QED
    BY <1>1, SumBy, Zenon
<1>3. F \in [0 .. 46 -> Nat] /\ F[0] = 0
      /\ \A i \in 1 .. 46 : F[i] = F[i - 1] + Fixed(i)
  BY <1>1, <1>2 DEF Sums
<1>4. F[46] = 164
  <2> DEFINE R == ReadLayout
  <2>1. \A i \in 1 .. 46 : Fixed(i) = R[i][2]
    BY LayoutShape DEF Fixed, IsString, String
  <2>2. F[16] = 23
    BY <1>3, <2>1 DEF ReadLayout, String
  <2>3. F[31] = 43
    BY <1>3, <2>1, <2>2 DEF ReadLayout, String
  <2> QED
    BY <1>3, <2>1, <2>3 DEF ReadLayout, String
<1> QED
  BY <1>3, <1>4 DEF AddsFixed
\* Where the i-th member of an item behind at ends.
Ends(at, i) == at + Begins(i + 1) - 1

\* Each ends before the next begins.
LEMMA EndsStep ==
  ASSUME NEW at \in Nat
  PROVE  /\ Ends(at, 0) = at
         /\ Ends(at, 46) = at + ItemCells
         /\ \A i \in 0 .. 46 : Ends(at, i) \in Nat
         /\ \A i \in 1 .. 46 :
              /\ Ends(at, i - 1) + 1 = at + Begins(i)
              /\ IsString(i) => Ends(at, i) = at + Begins(i) + 1
              /\ ~IsString(i) => Ends(at, i) = at + Begins(i)
<1>1. ItemCells = Begins(47) - 1
  BY LayoutShape DEF ItemCells
<1>2. Ends(at, 0) = at /\ Ends(at, 46) = at + ItemCells
  <2>1. Begins(0 + 1) = 1 /\ Begins(46 + 1) \in Nat
    BY BeginsNat, BeginsStep
  <2> QED
    BY <1>1, <2>1 DEF Ends
<1>3. ASSUME NEW i \in 0 .. 46 PROVE Ends(at, i) \in Nat
  <2>1. i + 1 \in 1 .. 47
    OBVIOUS
  <2>2. Begins(i + 1) \in Nat /\ Begins(i + 1) >= 1
    BY <2>1, BeginsNat, Zenon
  <2> QED
    BY <2>2 DEF Ends
<1>4. ASSUME NEW i \in 1 .. 46
      PROVE  /\ Ends(at, i - 1) + 1 = at + Begins(i)
             /\ IsString(i) => Ends(at, i) = at + Begins(i) + 1
             /\ ~IsString(i) => Ends(at, i) = at + Begins(i)
  <2> DEFINE x == Begins(i)
             y == Begins(i + 1)
  <2>1. i \in 1 .. 47 /\ (i - 1) + 1 = i
    OBVIOUS
  <2>2. x \in Nat
    BY <2>1, BeginsNat, Zenon
  <2>3. y = x + (IF IsString(i) THEN 2 ELSE 1)
    BY BeginsStep
  <2>4. Ends(at, i - 1) = at + x - 1 /\ Ends(at, i) = at + y - 1
    BY <2>1 DEF Ends
  <2> HIDE DEF x, y
  <2>5. CASE IsString(i)
    BY <2>2, <2>3, <2>4, <2>5 DEF x
  <2>6. CASE ~IsString(i)
    BY <2>2, <2>3, <2>4, <2>6 DEF x
  <2> QED
    BY <2>5, <2>6
<1> QED
  BY <1>2, <1>3, <1>4

\* None ends behind the item.
LEMMA EndsWithin ==
  ASSUME NEW at \in Nat, NEW i \in 1 .. 46
  PROVE  Ends(at, i) <= at + ItemCells
<1> DEFINE x == Begins(i)
           y == ItemCells
<1>1. i \in 1 .. 47
  OBVIOUS
<1>2. x \in Nat
  BY <1>1, BeginsNat, Zenon
<1>3. y \in Nat
  BY BeginsStep
<1>4. x + (IF IsString(i) THEN 1 ELSE 0) <= y
  BY BeginsStep
<1>5. /\ IsString(i) => Ends(at, i) = at + x + 1
      /\ ~IsString(i) => Ends(at, i) = at + x
  BY EndsStep
<1> HIDE DEF x, y
<1>6. CASE IsString(i)
  BY <1>2, <1>3, <1>4, <1>5, <1>6 DEF y
<1>7. CASE ~IsString(i)
  BY <1>2, <1>3, <1>4, <1>5, <1>7 DEF y
<1> QED
  BY <1>6, <1>7

\* An item ends inside its file.
LEMMA ItemEnds ==
  ASSUME NEW f, DOMAIN f = 1 .. Len(f), NEW at \in Nat, ItemAt(f, at)
  PROVE  /\ at + ItemCells \in 1 .. Len(f)
         /\ \A i \in 1 .. 46 :
              /\ Ends(at, i - 1) + 1 \in 1 .. Len(f)
              /\ Ends(at, i) \in 1 .. Len(f)
<1>1. ASSUME NEW i \in 1 .. 46
      PROVE  /\ Ends(at, i - 1) + 1 \in 1 .. Len(f)
             /\ Ends(at, i) \in 1 .. Len(f)
  <2>1. /\ at + Begins(i) \in 1 .. Len(f)
        /\ IsString(i) => at + Begins(i) + 1 \in 1 .. Len(f)
    BY DEF ItemAt
  <2>2. /\ Ends(at, i - 1) + 1 = at + Begins(i)
        /\ IsString(i) => Ends(at, i) = at + Begins(i) + 1
        /\ ~IsString(i) => Ends(at, i) = at + Begins(i)
    BY EndsStep
  <2> QED
    BY <2>1, <2>2
<1>2. 46 \in 1 .. 46 /\ Ends(at, 46) = at + ItemCells
  BY EndsStep
<1> QED
  BY <1>1, <1>2

\* b counts the bytes of the first e cells of f.
Adds(b, f, e) ==
  /\ b \in [0 .. e -> Nat] /\ b[0] = 0
  /\ \A c \in 1 .. e : b[c] = b[c - 1] + f[c].width

\* The bytes of a member, counted so.
AddsMember(b, f, at, i) ==
  /\ b[Ends(at, i)] \in Nat /\ b[Ends(at, i - 1)] \in Nat
  /\ IsString(i) => b[Ends(at, i)] = b[Ends(at, i - 1)]
                                       + 2 + f[at + Begins(i) + 1].width
  /\ ~IsString(i) => b[Ends(at, i)] = b[Ends(at, i - 1)] + Fixed(i)

\* Counting the cells counts the members.
LEMMA MemberBytes ==
  ASSUME NEW f, DOMAIN f = 1 .. Len(f), NEW at \in Nat, ItemAt(f, at),
         NEW e \in Nat, NEW b, Adds(b, f, e), NEW i \in 1 .. 46,
         Ends(at, i) <= e
  PROVE  AddsMember(b, f, at, i)
<1> DEFINE p == Ends(at, i - 1)
           q == Ends(at, i)
           c == at + Begins(i)
<1>1. /\ p \in Nat /\ q \in Nat /\ q <= e /\ p + 1 = c
      /\ IsString(i) => q = c + 1
      /\ ~IsString(i) => q = c
  <2>1. i - 1 \in 0 .. 46 /\ i \in 0 .. 46
    OBVIOUS
  <2>2. p \in Nat /\ q \in Nat
    BY <2>1, EndsStep, Zenon
  <2>3. /\ p + 1 = c
        /\ IsString(i) => q = c + 1
        /\ ~IsString(i) => q = c
    BY EndsStep
  <2> QED
    BY <2>2, <2>3
<1>2. /\ IsString(i) => f[c].width = 2
      /\ ~IsString(i) => f[c].width = Fixed(i) /\ Fixed(i) \in Nat
  BY LayoutShape DEF ItemAt, Fixed
<1> HIDE DEF p, q, c
<1>3. p \in 0 .. e /\ q \in 0 .. e /\ c \in 1 .. e /\ c - 1 = p
  BY <1>1
<1>4. b[p] \in Nat /\ b[q] \in Nat /\ b[c] = b[p] + f[c].width
  BY <1>3 DEF Adds
<1>5. CASE IsString(i)
  <2>1. q \in 1 .. e /\ q - 1 = c /\ b[c] = b[p] + 2
    BY <1>1, <1>2, <1>3, <1>4, <1>5
  <2>2. b[q] = b[c] + f[q].width
    BY <2>1 DEF Adds
  <2>3. f[q].width = f[c + 1].width /\ b[q] = b[p] + 2 + f[q].width
    BY <1>1, <1>5, <2>1, <2>2
  <2> QED
    BY <1>4, <1>5, <2>3 DEF p, q, c, AddsMember
<1>6. CASE ~IsString(i)
  BY <1>1, <1>2, <1>4, <1>6 DEF p, q, AddsMember
<1> QED
  BY <1>5, <1>6

\* The bytes of an item fit in what is allocated for it.
LEMMA ItemFits ==
  ASSUME NEW f, Len(f) \in Nat, CutAsRead(f), NEW at \in Nat, ItemAt(f, at),
         NEW e \in Nat, at + ItemCells <= e, e <= Len(f), NEW b, Adds(b, f, e)
  PROVE  /\ GetMemoryUsage(ReadItem(f, at)) \in Nat
         /\ b[at] \in Nat /\ b[at + ItemCells] \in Nat
         /\ b[at + ItemCells] <= b[at] + GetMemoryUsage(ReadItem(f, at)) + 20
<1> DEFINE item == ReadItem(f, at)
           len(i) == Len(item[ReadLayout[i][1]])
           text(i) == IF IsString(i) THEN 2 + len(i) ELSE 0
           w == [i \in 1 .. 46 |-> text(i)]
           end(i) == Ends(at, i)
<1>1. \A i \in 1 .. 46 : IsString(i) =>
        len(i) \in Nat /\ f[at + Begins(i) + 1].width = len(i)
  BY PackRead
<1>2. w \in Seq(Nat) /\ Len(w) = 46
  <2>1. ASSUME NEW i \in 1 .. 46 PROVE text(i) \in Nat
    <3>1. CASE IsString(i)
      <4>1. len(i) \in Nat
        BY <1>1, <3>1
      <4> HIDE DEF len
      <4> QED
        BY <3>1, <4>1
    <3>2. CASE ~IsString(i)
      BY <3>2
    <3> QED
      BY <3>1, <3>2
  <2> HIDE DEF text
  <2> QED
    BY <2>1
<1>3. PICK G \in [0 .. Len(w) -> Nat] : Sums(G, w)
  <2> HIDE DEF w
  <2> QED
    BY <1>2, SumBy, Zenon
<1>4. GetMemoryUsage(item) = 8 + SumOf(w) + 34 + 12 + 16 + 80 + 21
  BY LayoutShape DEF GetMemoryUsage
<1>5. /\ \A i \in 0 .. 46 : G[i] \in Nat
      /\ G[0] = 0 /\ SumOf(w) = G[46]
  <2> HIDE DEF w
  <2> QED
    BY <1>2, <1>3 DEF Sums
<1>6. ASSUME NEW i \in 1 .. 46 PROVE G[i] = G[i - 1] + text(i)
  <2>1. w[i] = text(i)
    OBVIOUS
  <2> HIDE DEF w, text
  <2> QED
    BY <1>2, <1>3, <2>1 DEF Sums
<1> HIDE DEF w, item, len
<1>7. GetMemoryUsage(item) = 171 + G[46] /\ G[46] \in Nat
  BY <1>4, <1>5, SMTT(20)
<1>8. PICK F : AddsFixed(F) /\ F[46] = 164
  BY FixedWidths
<1>9. DOMAIN f = 1 .. Len(f)
  BY DEF CutAsRead
<1>10. ASSUME NEW i \in 1 .. 46 PROVE Ends(at, i) <= e
  <2> DEFINE x == Ends(at, i)
             y == at + ItemCells
  <2>1. x <= y
    BY EndsWithin
  <2>2. x \in Nat /\ y \in Nat /\ y <= e
    <3>1. i \in 0 .. 46
      OBVIOUS
    <3>2. x \in Nat
      BY <3>1, EndsStep, Zenon
    <3>3. y \in Nat
      BY BeginsStep
    <3> QED
      BY <3>2, <3>3
  <2> HIDE DEF x, y
  <2>3. x <= e
    BY <2>1, <2>2
  <2> QED
    BY <2>3 DEF x
<1>11. ASSUME NEW i \in 1 .. 46
       PROVE  /\ b[end(i)] \in Nat /\ b[end(i - 1)] \in Nat
              /\ text(i) \in Nat /\ Fixed(i) \in Nat
              /\ b[end(i)] = b[end(i - 1)] + text(i) + Fixed(i)
  <2> DEFINE p == b[Ends(at, i - 1)]
             q == b[Ends(at, i)]
             v == f[at + Begins(i) + 1].width
             l == len(i)
             k == Fixed(i)
  <2>1. Ends(at, i) <= e
    BY <1>10
  <2>2. /\ q \in Nat /\ p \in Nat
        /\ IsString(i) => q = p + 2 + v
        /\ ~IsString(i) => q = p + k
    <3>1. AddsMember(b, f, at, i)
      BY <1>9, <2>1, MemberBytes, Zenon
    <3> QED
      BY <3>1 DEF AddsMember
  <2>3. IsString(i) => l \in Nat /\ v = l
    BY <1>1
  <2>4. k \in Nat /\ (IsString(i) => k = 0)
    BY LayoutShape DEF Fixed
  <2> HIDE DEF p, q, v, l, k
  <2>5. CASE IsString(i)
    <3>1. text(i) = 2 + l
      BY <2>5 DEF l
    <3> HIDE DEF text
    <3>2. text(i) \in Nat /\ q = p + text(i) + k
      BY <2>2, <2>3, <2>4, <2>5, <3>1
    <3> QED
      BY <2>2, <2>4, <3>2 DEF p, q, k
  <2>6. CASE ~IsString(i)
    <3>1. text(i) = 0
      BY <2>6
    <3> HIDE DEF text
    <3>2. text(i) \in Nat /\ q = p + text(i) + k
      BY <2>2, <2>4, <2>6, <3>1
    <3> QED
      BY <2>2, <2>4, <3>2 DEF p, q, k
  <2> QED
    BY <2>5, <2>6
<1> HIDE DEF text
<1> HIDE DEF end
<1> DEFINE T == {i \in 0 .. 46 : b[end(i)] = b[end(0)] + G[i] + F[i]}
<1>12. b[end(0)] \in Nat
  <2>1. b[end(1 - 1)] \in Nat /\ 1 - 1 = 0
    BY <1>11
  <2> QED
    BY <2>1
<1>13. 0 \in T
  <2>1. F[0] = 0
    BY <1>8 DEF AddsFixed
  <2> QED
    BY <1>5, <1>12, <2>1
<1>14. ASSUME NEW i \in 1 .. 46, i - 1 \in T
       PROVE  i \in T
  <2> DEFINE x == b[end(0)]
             p == b[end(i - 1)]
             q == b[end(i)]
             g == G[i - 1]
             h == F[i - 1]
             t == text(i)
             k == Fixed(i)
  <2>0. i \in 0 .. 46 /\ i - 1 \in 0 .. 46
    OBVIOUS
  <2>1. F[i] = F[i - 1] + Fixed(i) /\ F[i - 1] \in Nat
    BY <1>8, <2>0, ZenonT(40) DEF AddsFixed
  <2>2. G[i] = G[i - 1] + text(i)
    BY <1>6
  <2>3. G[i - 1] \in Nat
    BY <1>5, <2>0
  <2>4. q = p + text(i) + Fixed(i) /\ text(i) \in Nat /\ Fixed(i) \in Nat
    BY <1>11
  <2>5. p = x + G[i - 1] + F[i - 1]
    BY <1>14
  <2>6. x \in Nat
    BY <1>12
  <2> HIDE DEF T, x, p, q, g, h, t, k
  <2>8. q = x + (g + t) + (h + k)
    <3>1. p = x + g + h /\ q = p + t + k
      BY <2>4, <2>5 DEF g, h, t, k
    <3>2. g \in Nat /\ h \in Nat /\ t \in Nat /\ k \in Nat
      BY <2>1, <2>3, <2>4 DEF g, h, t, k
    <3> QED
      BY <2>6, <3>1, <3>2
  <2>7. q = x + G[i] + F[i]
    BY <2>1, <2>2, <2>8 DEF g, h, t, k
  <2> QED
    BY <2>0, <2>7 DEF T, x, q
<1>15. b[end(46)] = b[end(0)] + G[46] + 164
  <2>1. 0 .. 46 \subseteq T
    <3> HIDE DEF T
    <3> QED
      BY <1>13, <1>14, Rises
  <2>2. 46 \in T
    <3> HIDE DEF T
    <3> QED
      BY <2>1
  <2> QED
    BY <1>8, <2>2
<1>16. end(0) = at /\ end(46) = at + ItemCells
  BY EndsStep DEF end
<1> HIDE DEF T
<1>17. b[at + ItemCells] = b[at] + G[46] + 164 /\ b[at] \in Nat
  BY <1>12, <1>15, <1>16
<1>18. GetMemoryUsage(ReadItem(f, at)) = 171 + G[46]
  BY <1>7 DEF item
<1> DEFINE u == GetMemoryUsage(ReadItem(f, at))
           x == b[at + ItemCells]
           y == b[at]
           g == G[46]
<1>19. x = y + g + 164 /\ y \in Nat /\ u = 171 + g /\ g \in Nat
  BY <1>7, <1>17, <1>18
<1> HIDE DEF u, x, y, g
<1>20. u \in Nat /\ y \in Nat /\ x \in Nat /\ x <= y + u + 20
  BY <1>19
<1> QED
  BY <1>20 DEF u, x, y
-----------------------------------------------------------------------------
\* The places where the items of a file begin, and the last of them ends.
Offset(n) == 2 + n * ItemCells

\* They lie an item's cells apart.
LEMMA OffsetStep ==
  ASSUME NEW C \in Nat
  PROVE  /\ Offset(0) = 2 /\ [n \in 0 .. C |-> Offset(n)] \in [0 .. C -> Nat]
         /\ \A n \in 1 .. C : Offset(n) = Offset(n - 1) + ItemCells
         /\ \A n \in 0 .. C : Offset(n) \in Nat
<1>1. ItemCells \in Nat
  BY BeginsStep
<1>2. \A n, k \in Nat : n * k \in Nat /\ (n >= 1 => n * k = (n - 1) * k + k)
                        /\ 0 * k = 0
  BY SMT
<1>3. \A n \in 0 .. C : Offset(n) \in Nat
  BY <1>1, <1>2 DEF Offset
<1>4. Offset(0) = 2
  BY <1>1, <1>2 DEF Offset
<1>5. ASSUME NEW n \in 1 .. C PROVE Offset(n) = Offset(n - 1) + ItemCells
  <2>1. n * ItemCells = (n - 1) * ItemCells + ItemCells
        /\ (n - 1) * ItemCells \in Nat
    BY <1>1, <1>2
  <2> DEFINE x == n * ItemCells
             y == (n - 1) * ItemCells
  <2>2. x = y + ItemCells /\ y \in Nat
    BY <2>1
  <2> HIDE DEF x, y
  <2>3. 2 + x = 2 + y + ItemCells
    BY <1>1, <2>2
  <2> QED
    BY <2>3 DEF Offset, x, y
<1> QED
  BY <1>3, <1>4, <1>5

\* items is what was read of a file that stays inside itself.
ItemsAt(f, items) ==
  /\ Len(f) \in Nat /\ CutAsRead(f) /\ 2 \in DOMAIN f
  /\ \A n \in 0 .. Count(f) - 1 : Inside(f, n)
  /\ items = [n \in 1 .. Count(f) |-> ReadItem(f, 2 + (n - 1) * ItemCells)]

\* Each item lies in its place, inside the file.
LEMMA ItemsInPlace ==
  ASSUME NEW f, NEW items, ItemsAt(f, items)
  PROVE  /\ Count(f) \in Nat /\ DOMAIN f = 1 .. Len(f)
         /\ items = [n \in 1 .. Count(f) |-> ReadItem(f, Offset(n - 1))]
         /\ \A n \in 1 .. Count(f) : ItemAt(f, Offset(n - 1))
         /\ \A n \in 0 .. Count(f) : Offset(n) <= Len(f)
<1>1. Count(f) \in Nat /\ DOMAIN f = 1 .. Len(f) /\ CutAsRead(f) /\ 2 \in DOMAIN f
      /\ Len(f) \in Nat
  BY DEF ItemsAt, CutAsRead, Count
<1>2. items = [n \in 1 .. Count(f) |-> ReadItem(f, Offset(n - 1))]
  BY DEF ItemsAt, Offset
<1>3. ASSUME NEW n \in 1 .. Count(f) PROVE ItemAt(f, Offset(n - 1))
  <2> DEFINE m == n - 1
  <2>1. m \in 0 .. Count(f) - 1
    BY <1>1
  <2> HIDE DEF m
  <2>2. Inside(f, m)
    BY <2>1 DEF ItemsAt
  <2>3. ItemAt(f, 2 + m * ItemCells)
    BY <1>1, <2>1, <2>2, ItemIsAt
  <2> QED
    BY <2>3 DEF m, Offset
<1>4. ASSUME NEW n \in 0 .. Count(f) PROVE Offset(n) <= Len(f)
  <2>1. CASE n = 0
    BY <1>1, <2>1, OffsetStep
  <2>2. CASE n # 0
    <3> DEFINE at == Offset(n - 1)
    <3>0. n \in 1 .. Count(f) /\ n - 1 \in 0 .. Count(f)
      BY <1>1, <2>2
    <3>1. at \in Nat /\ Offset(n) = at + ItemCells
      BY <1>1, <3>0, OffsetStep
    <3>2. ItemAt(f, at)
      BY <1>3, <3>0
    <3> HIDE DEF at
    <3>3. at + ItemCells \in 1 .. Len(f)
      BY <1>1, <3>1, <3>2, ItemEnds
    <3> QED
      BY <1>1, <3>1, <3>3
  <2> QED
    BY <2>1, <2>2
<1> QED
  BY <1>1, <1>2, <1>3, <1>4

\* Encode writes the file they were read from, up to the last of them.
LEMMA EncodeIsPrefix ==
  ASSUME NEW f, NEW items, ItemsAt(f, items)
  PROVE  Encode(Version(f), Count(f), items)
           = SubSeq(f, 1, 2 + Count(f) * ItemCells)
<1> DEFINE C == Count(f)
           S == {f[c] : c \in 1 .. Len(f)}
           cut == [n \in 0 .. C |-> Offset(n)]
<1>1. /\ C \in Nat /\ DOMAIN f = 1 .. Len(f)
      /\ items = [n \in 1 .. C |-> ReadItem(f, Offset(n - 1))]
      /\ \A n \in 1 .. C : ItemAt(f, Offset(n - 1))
      /\ \A n \in 0 .. C : Offset(n) <= Len(f)
  BY ItemsInPlace
<1>2. /\ Len(f) \in Nat /\ CutAsRead(f) /\ 2 \in DOMAIN f
      /\ f = [c \in 1 .. Len(f) |-> Cell(f[c].width, f[c].value)]
  BY DEF ItemsAt, CutAsRead
<1>3. f \in Seq(S)
  <2>1. f = [c \in 1 .. Len(f) |-> f[c]]
    BY <1>1, <1>2
  <2>2. \A c \in 1 .. Len(f) : f[c] \in S
    OBVIOUS
  <2> HIDE DEF S
  <2> QED
    BY <1>2, <2>1, <2>2
<1> HIDE DEF S
<1>4. /\ cut \in [0 .. C -> Nat]
      /\ \A n \in 1 .. C : cut[n] = cut[n - 1] + ItemCells /\ cut[n - 1] = Offset(n - 1)
      /\ \A n \in 0 .. C : cut[n] <= Len(f)
      /\ cut[0] = 2 /\ cut[C] = Offset(C)
  <2>1. \A n \in 1 .. C : n \in 0 .. C /\ n - 1 \in 0 .. C
    BY <1>1
  <2>2. 0 \in 0 .. C /\ C \in 0 .. C
    BY <1>1
  <2>3. cut \in [0 .. C -> Nat]
    BY <1>1, OffsetStep
  <2>4. \A n \in 0 .. C : cut[n] = Offset(n)
    OBVIOUS
  <2>5. /\ Offset(0) = 2
        /\ \A n \in 1 .. C : Offset(n) = Offset(n - 1) + ItemCells
    BY <1>1, OffsetStep
  <2> HIDE DEF cut, C
  <2> QED
    BY <1>1, <2>1, <2>2, <2>3, <2>4, <2>5
<1>5. ItemCells \in Nat
  BY BeginsStep
<1> DEFINE piece(n) == SubSeq(f, cut[n - 1] + 1, cut[n])
<1>6. ASSUME NEW n \in 1 .. C PROVE PackItem(items[n]) = piece(n)
  <2> DEFINE at == Offset(n - 1)
  <2>1. at \in Nat
    <3>1. n - 1 \in 0 .. C
      BY <1>1
    <3> QED
      BY <1>1, <3>1, OffsetStep
  <2>2. items[n] = ReadItem(f, at) /\ ItemAt(f, at)
    BY <1>1
  <2>3. cut[n - 1] = at /\ cut[n] = at + ItemCells
    BY <1>4
  <2> HIDE DEF at, cut
  <2>4. PackItem(ReadItem(f, at)) = SubSeq(f, at + 1, at + ItemCells)
    BY <1>2, <2>1, <2>2, PackRead
  <2> QED
    BY <2>2, <2>3, <2>4
<1> HIDE DEF cut
<1>7. FlattenSeq([n \in 1 .. C |-> piece(n)]) = SubSeq(f, 3, cut[C])
  <2>1. \A n \in 1 .. C : cut[n - 1] <= cut[n]
    <3>1. \A n \in 1 .. C : cut[n - 1] \in Nat
      <4>1. \A n \in 1 .. C : n - 1 \in 0 .. C
        BY <1>1
      <4> HIDE DEF C
      <4> QED
        BY <1>4, <4>1
    <3> HIDE DEF C
    <3> QED
      BY <1>4, <1>5, <3>1
  <2>2. FlattenSeq([n \in 1 .. C |-> piece(n)]) = SubSeq(f, cut[0] + 1, cut[C])
    <3> HIDE DEF C
    <3> QED
      BY <1>1, <1>3, <1>4, <2>1, FlattenCuts, Zenon
  <2> QED
    BY <1>4, <2>2
<1>8. [n \in DOMAIN items |-> PackItem(items[n])] = [n \in 1 .. C |-> piece(n)]
  <2>1. DOMAIN items = 1 .. C
    BY <1>1
  <2> HIDE DEF piece, C
  <2> QED
    BY <1>6, <2>1
<1>9. <<Cell(2, Version(f)), Cell(4, C)>> = SubSeq(f, 1, 2)
  <2>1. f[1].width = 2 /\ f[2].width = 4 /\ 1 \in 1 .. Len(f) /\ 2 \in 1 .. Len(f)
    BY <1>1, <1>2 DEF CutAsRead
  <2>2. f[1] = Cell(2, Version(f)) /\ f[2] = Cell(4, C)
    <3>1. \A c \in 1 .. Len(f) : f[c] = Cell(f[c].width, f[c].value)
      BY <1>1, <1>2
    <3> QED
      BY <2>1, <3>1 DEF Version, Count
  <2>3. SubSeq(f, 1, 1 + 1) = <<f[1], f[1 + 1]>>
    <3>1. 1 + 1 \in 1 .. Len(f)
      BY <2>1
    <3> QED
      BY <1>3, <2>1, <3>1, SubSeqShort
  <2> QED
    BY <2>2, <2>3
<1>10. SubSeq(f, 1, 2) \o SubSeq(f, 3, cut[C]) = SubSeq(f, 1, cut[C])
  <2> DEFINE e == cut[C]
  <2>1. e \in 2 .. Len(f)
    <3>1. \A n \in 0 .. C : cut[n] >= 2
      <4> DEFINE T == {n \in 0 .. C : cut[n] >= 2}
      <4>1. 0 \in T
        BY <1>1, <1>4
      <4>2. ASSUME NEW n \in 1 .. C, n - 1 \in T PROVE n \in T
        <5>1. cut[n - 1] \in Nat /\ cut[n - 1] >= 2 /\ n \in 0 .. C
          BY <1>1, <1>4, <4>2, SMTT(20)
        <5>2. cut[n] = cut[n - 1] + ItemCells
          BY <1>4
        <5>3. cut[n] >= 2
          BY <1>5, <5>1, <5>2
        <5> QED
          BY <5>1, <5>3
      <4>3. 0 .. C \subseteq T
        <5> HIDE DEF T, C
        <5> QED
          BY <1>1, <4>1, <4>2, Rises
      <4> QED
        BY <4>3
    <3>2. C \in 0 .. C
      BY <1>1
    <3> HIDE DEF C
    <3> QED
      BY <1>2, <1>4, <3>1, <3>2
  <2> HIDE DEF e
  <2>2. 1 \in 1 .. Len(f) + 1 /\ 2 \in 1 - 1 .. Len(f)
    BY <1>2, <2>1
  <2>3. SubSeq(f, 1, 2) \o SubSeq(f, 2 + 1, e) = SubSeq(f, 1, e)
    BY <1>3, <2>1, <2>2, ConcatAdjacentSubSeq
  <2>4. 2 + 1 = 3
    OBVIOUS
  <2> QED
    BY <2>3, <2>4 DEF e
<1>11. cut[C] = 2 + C * ItemCells
  BY <1>4 DEF Offset
<1>12. Encode(Version(f), C, items)
         = SubSeq(f, 1, 2) \o FlattenSeq([n \in 1 .. C |-> piece(n)])
  <2> HIDE DEF piece, C
  <2> QED
    BY <1>8, <1>9 DEF Encode
<1> HIDE DEF C, piece
<1>13. Encode(Version(f), C, items) = SubSeq(f, 1, 2 + C * ItemCells)
  BY <1>7, <1>10, <1>11, <1>12
<1> QED
  BY <1>13 DEF C

\* The bytes of a file up to its last item fit in what Encode allocates.
LEMMA FileFits ==
  ASSUME NEW f, NEW items, ItemsAt(f, items)
  PROVE  Bytes(SubSeq(f, 1, 2 + Count(f) * ItemCells)) <= Allocated(items)
<1> DEFINE C == Count(f)
           e == Offset(C)
           s == SubSeq(f, 1, e)
           w == [c \in DOMAIN s |-> s[c].width]
           u(n) == GetMemoryUsage(items[n])
           v == [n \in DOMAIN items |-> u(n) + 20]
<1>1. /\ C \in Nat /\ DOMAIN f = 1 .. Len(f)
      /\ items = [n \in 1 .. C |-> ReadItem(f, Offset(n - 1))]
      /\ \A n \in 1 .. C : ItemAt(f, Offset(n - 1))
      /\ \A n \in 0 .. C : Offset(n) <= Len(f)
  BY ItemsInPlace
<1>2. /\ Len(f) \in Nat /\ CutAsRead(f) /\ 2 \in DOMAIN f
      /\ \A c \in 1 .. Len(f) : f[c].width \in Nat
      /\ f[1].width = 2 /\ f[2].width = 4
  BY DEF ItemsAt, CutAsRead
<1>3. /\ Offset(0) = 2 /\ ItemCells \in Nat
      /\ \A n \in 1 .. C : Offset(n) = Offset(n - 1) + ItemCells
      /\ \A n \in 0 .. C : Offset(n) \in Nat
  BY <1>1, OffsetStep, BeginsStep
<1>4. \A n \in 1 .. C : n \in 0 .. C /\ n - 1 \in 0 .. C
  BY <1>1
<1>5. 0 \in 0 .. C /\ C \in 0 .. C
  BY <1>1
<1>6. \A n \in 0 .. C : Offset(n) <= e /\ Offset(n) >= 2
  <2> DEFINE T == {n \in 0 .. C : Offset(n) >= 2}
             U == {n \in 0 .. C : Offset(n) <= e}
  <2>1. 0 \in T
    BY <1>3, <1>5
  <2>2. ASSUME NEW n \in 1 .. C, n - 1 \in T PROVE n \in T
    <3>1. Offset(n - 1) \in Nat /\ Offset(n - 1) >= 2 /\ n \in 0 .. C
      BY <1>3, <1>4, <2>2
    <3>2. Offset(n) = Offset(n - 1) + ItemCells
      BY <1>3
    <3>3. Offset(n) >= 2
      BY <1>3, <3>1, <3>2
    <3> QED
      BY <3>1, <3>3
  <2>3. ASSUME NEW n \in 0 .. C, \A j \in n + 1 .. C : j \in U
        PROVE  n \in U
    <3>1. CASE n = C
      BY <1>3, <3>1
    <3>2. CASE n # C
      <4> DEFINE m == n + 1
      <4>1. m \in 1 .. C /\ m - 1 = n /\ m \in n + 1 .. C
        BY <1>1, <3>2
      <4> HIDE DEF m
      <4>2. Offset(m) = Offset(n) + ItemCells /\ Offset(m) <= e
        BY <1>3, <2>3, <4>1
      <4>3. Offset(n) \in Nat /\ e \in Nat
        BY <1>3, <1>5
      <4>4. Offset(n) <= e
        BY <1>3, <4>2, <4>3
      <4> QED
        BY <4>4
    <3> QED
      BY <3>1, <3>2
  <2>4. 0 .. C \subseteq T
    <3> HIDE DEF T, C
    <3> QED
      BY <1>1, <2>1, <2>2, Rises
  <2>5. 0 .. C \subseteq U
    <3> HIDE DEF U, C
    <3> QED
      BY <1>1, <2>3, Falls
  <2> QED
    BY <2>4, <2>5
<1>7. e \in Nat /\ e <= Len(f) /\ e >= 2
  BY <1>1, <1>3, <1>5, <1>6
<1> HIDE DEF e
<1>8. /\ DOMAIN s = 1 .. e /\ \A c \in 1 .. e : s[c] = f[c]
  BY <1>1, <1>2, <1>7
<1>9. w \in Seq(Nat) /\ Len(w) = e /\ \A c \in 1 .. e : w[c] = f[c].width
  <2>1. w = [c \in 1 .. e |-> f[c].width]
    <3> HIDE DEF s
    <3> QED
      BY <1>8
  <2>2. \A c \in 1 .. e : f[c].width \in Nat
    BY <1>2, <1>7
  <2> HIDE DEF w
  <2> QED
    BY <1>7, <2>1, <2>2
<1>10. Bytes(s) = SumOf(w)
  BY DEF Bytes
<1> HIDE DEF s, w
<1>11. PICK b \in [0 .. Len(w) -> Nat] : Sums(b, w)
  BY <1>9, SumBy, Zenon
<1>12. Adds(b, f, e) /\ Bytes(s) = b[e]
  BY <1>9, <1>10, <1>11 DEF Sums, Adds
<1>13. b[2] = 6
  <2>1. 1 \in 1 .. e /\ 2 \in 1 .. e /\ 1 - 1 = 0 /\ 2 - 1 = 1
    BY <1>7
  <2>2. b[1] = b[0] + f[1].width /\ b[2] = b[1] + f[2].width /\ b[0] = 0
    BY <1>12, <2>1 DEF Adds
  <2> QED
    BY <1>2, <2>2
<1>14. ASSUME NEW n \in 1 .. C
       PROVE  /\ u(n) \in Nat /\ b[Offset(n - 1)] \in Nat /\ b[Offset(n)] \in Nat
              /\ b[Offset(n)] <= b[Offset(n - 1)] + u(n) + 20
  <2> DEFINE at == Offset(n - 1)
  <2>1. at \in Nat /\ Offset(n) = at + ItemCells /\ Offset(n) <= e
    BY <1>3, <1>4, <1>6
  <2>2. ItemAt(f, at) /\ items[n] = ReadItem(f, at)
    BY <1>1
  <2> HIDE DEF at
  <2>3. /\ GetMemoryUsage(ReadItem(f, at)) \in Nat
        /\ b[at] \in Nat /\ b[at + ItemCells] \in Nat
        /\ b[at + ItemCells] <= b[at] + GetMemoryUsage(ReadItem(f, at)) + 20
    BY <1>2, <1>7, <1>12, <2>1, <2>2, ItemFits
  <2> QED
    BY <2>1, <2>2, <2>3 DEF at
<1> HIDE DEF u
<1>15. v \in Seq(Nat) /\ Len(v) = C /\ \A n \in 1 .. C : v[n] = u(n) + 20
  <2>1. v = [n \in 1 .. C |-> u(n) + 20]
    BY <1>1
  <2>2. \A n \in 1 .. C : u(n) + 20 \in Nat
    BY <1>14
  <2> HIDE DEF v, C
  <2> QED
    BY <1>1, <2>1, <2>2
<1>16. Allocated(items) = 6 + SumOf(v)
  BY DEF Allocated, u
<1> HIDE DEF v
<1>17. PICK a \in [0 .. Len(v) -> Nat] : Sums(a, v)
  BY <1>15, SumBy, Zenon
<1>18. /\ a[0] = 0 /\ SumOf(v) = a[C]
       /\ \A n \in 0 .. C : a[n] \in Nat
       /\ \A n \in 1 .. C : a[n] = a[n - 1] + (u(n) + 20)
  BY <1>15, <1>17 DEF Sums
<1> DEFINE T == {n \in 0 .. C : b[Offset(n)] <= 6 + a[n]}
<1>19. 0 \in T
  <2>1. b[Offset(0)] = 6 /\ a[0] = 0
    BY <1>3, <1>13, <1>18
  <2> QED
    BY <1>5, <2>1
<1>20. ASSUME NEW n \in 1 .. C, n - 1 \in T
       PROVE  n \in T
  <2> DEFINE x == b[Offset(n)]
             y == b[Offset(n - 1)]
             g == u(n)
             h == a[n - 1]
  <2>1. x \in Nat /\ y \in Nat /\ g \in Nat /\ x <= y + g + 20
    BY <1>14
  <2>2. h \in Nat /\ a[n] = h + (g + 20)
    BY <1>4, <1>18
  <2>3. y <= 6 + h
    BY <1>20
  <2> HIDE DEF T, x, y, g, h
  <2>4. x <= 6 + a[n]
    BY <2>1, <2>2, <2>3
  <2> QED
    BY <1>4, <2>4 DEF T, x
<1>21. b[Offset(C)] <= 6 + a[C]
  <2>1. 0 .. C \subseteq T
    <3> HIDE DEF T, C
    <3> QED
      BY <1>1, <1>19, <1>20, Rises
  <2> QED
    BY <1>5, <2>1
<1>22. Bytes(s) <= Allocated(items)
  BY <1>12, <1>16, <1>18, <1>21 DEF e
<1> QED
  BY <1>22 DEF s, e, Offset
=============================================================================
