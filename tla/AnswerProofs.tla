---------------------------- MODULE AnswerProofs ----------------------------
(***************************************************************************)
(* Proofs about the answers to a text, for texts of any words: the frames  *)
(* given to ENet carry the variant lists and the text that were sent, what *)
(* they are made of has no delimiter in it, and a client that takes a      *)
(* dialog apart finds each field that was typed in its own input.          *)
(***************************************************************************)
EXTENDS TextProofs

-----------------------------------------------------------------------------
(* Packing a variant list and reading it back.                             *)

\* What texts and dialogs are made of.  The literals are strings too, which the
\* provers do not know.
Literals ==
  {"undefined", "|", "\n", "\r", "set_default_color", "o", "add_spacer", "small",
   "add_label", "big", "left", "0", "add_textbox", "add_text_input", "18",
   "add_text_input_password", "end_dialog", "Get a GrowID!",
   "By choosing a GrowID", "logon", "Name ", "Your password must contain",
   "password", "Password ", "verify_password", "Password Verify ",
   "growid_apply", "Cancel", "Get a GrowID", "extra_message", "Oops!",
   "The name ", "is taken", "OnDialogRequest", "OnConsoleMessage",
   "SetHasGrowID", "A GrowID with the logon of ", " created", "Welcome"}
Chars == STRING \cup Literals

Headers == [type : {"CALL_FUNCTION"}, bExtended : BOOLEAN, netId : Int, delay : Int,
            dataLength : Int]
Held == Seq(Chars) \cup Int \cup {"GAME_PACKET"} \cup Headers
Cells == [width : Nat, value : Held]
Strings == [type : {"STRING"}, value : Seq(Chars)]
Integers32 == [type : {"INT"}, value : Int]
Objects == Strings \cup Integers32

\* Joining one to another.
LEMMA JoinTwo ==
  ASSUME NEW S, NEW a \in S, NEW b \in S
  PROVE  <<a>> \o <<b>> = <<a, b>>
<1> DEFINE l == <<a>> \o <<b>>
           r == <<a, b>>
<1>1. l \in Seq(S) /\ Len(l) = 2 /\ l[1] = a /\ l[2] = b
  OBVIOUS
<1>2. r \in Seq(S) /\ Len(r) = 2 /\ r[1] = a /\ r[2] = b
  OBVIOUS
<1> HIDE DEF l, r
<1>3. \A i \in 1 .. 2 : l[i] = r[i]
  BY <1>1, <1>2
<1>4. l = r
  BY <1>1, <1>2, <1>3, SeqEqual
<1> QED
  BY <1>4 DEF l, r

\* And the third to two.
LEMMA JoinThree ==
  ASSUME NEW S, NEW a \in S, NEW b \in S, NEW c \in S
  PROVE  <<a>> \o <<b, c>> = <<a, b, c>> /\ (<<a>> \o <<b>>) \o <<c>> = <<a, b, c>>
<1> DEFINE l == <<a>> \o <<b, c>>
           m == (<<a>> \o <<b>>) \o <<c>>
           r == <<a, b, c>>
<1>1. l \in Seq(S) /\ Len(l) = 3 /\ l[1] = a /\ l[2] = b /\ l[3] = c
  OBVIOUS
<1>2. r \in Seq(S) /\ Len(r) = 3 /\ r[1] = a /\ r[2] = b /\ r[3] = c
  OBVIOUS
<1>3. m \in Seq(S) /\ Len(m) = 3 /\ m[1] = a /\ m[2] = b /\ m[3] = c
  OBVIOUS
<1> HIDE DEF l, m, r
<1>4. \A i \in 1 .. 3 : l[i] = r[i] /\ m[i] = r[i]
  BY <1>1, <1>2, <1>3
<1>5. l = r
  BY <1>1, <1>2, <1>4, SeqEqual
<1>6. m = r
  BY <1>2, <1>3, <1>4, SeqEqual
<1> QED
  BY <1>5, <1>6 DEF l, m, r

\* What a cell holds.
LEMMA CellType ==
  ASSUME NEW width \in Nat, NEW value \in Held
  PROVE  /\ Cell(width, value) \in Cells
         /\ Cell(width, value).width = width /\ Cell(width, value).value = value
  BY DEF Cell, Cells

\* Bytes of one buffer behind the other.
LEMMA BytesCat ==
  ASSUME NEW a \in Seq(Cells), NEW b \in Seq(Cells)
  PROVE  Bytes(a \o b) = Bytes(a) + Bytes(b) /\ Bytes(a) \in Nat
<1> DEFINE wa == [i \in DOMAIN a |-> a[i].width]
           wb == [i \in DOMAIN b |-> b[i].width]
           wc == [i \in DOMAIN (a \o b) |-> (a \o b)[i].width]
<1>1. wa \in Seq(Nat) /\ wb \in Seq(Nat) /\ wc \in Seq(Nat)
  <2>1. ASSUME NEW s \in Seq(Cells)
        PROVE  [i \in DOMAIN s |-> s[i].width] \in Seq(Nat)
    <3>1. ASSUME NEW i \in 1 .. Len(s) PROVE s[i].width \in Nat
      <4>1. s[i] \in Cells
        OBVIOUS
      <4> QED
        BY <4>1 DEF Cells
    <3>2. DOMAIN s = 1 .. Len(s) /\ Len(s) \in Nat
      OBVIOUS
    <3> QED
      BY <3>1, <3>2
  <2>2. a \o b \in Seq(Cells)
    OBVIOUS
  <2> QED
    BY <2>1, <2>2
<1>2. wc = wa \o wb
  <2>1. Len(wc) = Len(a) + Len(b) /\ Len(wa) = Len(a) /\ Len(wb) = Len(b)
    BY <1>1
  <2>2. \A i \in 1 .. Len(a) + Len(b) : wc[i] = (wa \o wb)[i]
    <3>1. ASSUME NEW i \in 1 .. Len(a) + Len(b) PROVE wc[i] = (wa \o wb)[i]
      <4>1. wc[i] = (a \o b)[i].width
        OBVIOUS
      <4>2. CASE i <= Len(a)
        <5>1. (a \o b)[i] = a[i] /\ wa[i] = a[i].width
          BY <4>2
        <5> HIDE DEF wa, wb, wc
        <5>2. (wa \o wb)[i] = wa[i]
          BY <1>1, <2>1, <4>2
        <5> QED
          BY <4>1, <5>1, <5>2
      <4>3. CASE ~(i <= Len(a))
        <5>1. /\ (a \o b)[i] = b[i - Len(a)] /\ i - Len(a) \in 1 .. Len(b)
              /\ wb[i - Len(a)] = b[i - Len(a)].width
          BY <4>3
        <5> HIDE DEF wa, wb, wc
        <5>2. (wa \o wb)[i] = wb[i - Len(a)]
          <6>1. /\ i \in 1 .. Len(wa) + Len(wb) /\ ~(i <= Len(wa))
                /\ i - Len(wa) = i - Len(a)
            BY <2>1, <4>3
          <6> QED
            BY <1>1, <6>1
        <5> QED
          BY <4>1, <5>1, <5>2
      <4> QED
        BY <4>2, <4>3
    <3> QED
      BY <3>1
  <2> HIDE DEF wa, wb, wc
  <2>3. wa \o wb \in Seq(Nat) /\ Len(wa \o wb) = Len(wa) + Len(wb)
    BY <1>1
  <2> QED
    BY <1>1, <2>1, <2>2, <2>3, SeqEqual
<1> HIDE DEF wa, wb, wc
<1>3. SumOf(wa \o wb) = SumOf(wa) + SumOf(wb) /\ SumOf(wa) \in Nat
  BY <1>1, SumCat, SumType
<1> QED
  BY <1>2, <1>3 DEF Bytes, wa, wb, wc

\* A buffer of one cell.
LEMMA BytesOne ==
  ASSUME NEW c, c.width \in Nat
  PROVE  Bytes(<<c>>) = c.width
<1> DEFINE w == c.width
           none == << >>
<1>1. [i \in DOMAIN <<c>> |-> <<c>>[i].width] = Append(none, w)
  <2>1. [i \in 1 .. 1 |-> w] = Append(none, w)
    OBVIOUS
  <2>2. [i \in DOMAIN <<c>> |-> <<c>>[i].width] = [i \in 1 .. 1 |-> w]
    OBVIOUS
  <2> QED
    BY <2>1, <2>2
<1>2. none \in Seq(Nat) /\ w \in Nat
  OBVIOUS
<1>3. SumOf(none) = 0
  BY SumEmpty
<1> HIDE DEF w, none
<1>4. SumOf(Append(none, w)) = 0 + w
  BY <1>2, <1>3, SumAppend
<1>5. Bytes(<<c>>) = SumOf(Append(none, w))
  BY <1>1, Zenon DEF Bytes
<1> QED
  BY <1>2, <1>4, <1>5 DEF w

\* One variant: its cells, their bytes, and what reading them returns.
LEMMA VariantPacked ==
  ASSUME NEW v \in Objects
  PROVE  /\ PackVariant(v) \in Seq(Cells)
         /\ v \in Strings =>
              PackVariant(v) = <<Cell(1, 2), Cell(4, Len(v.value)),
                                 Cell(Len(v.value), v.value)>>
         /\ v \in Integers32 => PackVariant(v) = <<Cell(1, 9), Cell(4, v.value)>>
<1>1. CASE v \in Strings
  <2>1. v.type = "STRING" /\ v.value \in Seq(Chars) /\ Len(v.value) \in Nat
    BY <1>1 DEF Strings
  <2>2. v \notin Integers32
    BY <2>1 DEF Integers32
  <2> DEFINE a == Cell(1, 2)
             b == Cell(4, Len(v.value))
             c == Cell(Len(v.value), v.value)
  <2>3. Code["STRING"] = 2
    BY DEF Code
  <2>4. PackVariant(v) = <<a>> \o <<b, c>>
    BY <2>1, <2>3 DEF PackVariant, StringCells
  <2>5. a \in Cells /\ b \in Cells /\ c \in Cells
    BY <2>1, CellType DEF Held
  <2> HIDE DEF a, b, c
  <2>6. <<a>> \o <<b, c>> = <<a, b, c>>
    BY <2>5, JoinThree
  <2>7. <<a, b, c>> \in Seq(Cells)
    BY <2>5
  <2> QED
    BY <2>2, <2>4, <2>6, <2>7 DEF a, b, c
<1>2. CASE v \in Integers32
  <2>1. v.type = "INT" /\ v.value \in Int
    BY <1>2 DEF Integers32
  <2>2. v \notin Strings
    BY <2>1 DEF Strings
  <2> DEFINE a == Cell(1, 9)
             b == Cell(4, v.value)
  <2>3. Code["INT"] = 9 /\ Size("INT", v.value) = 4
    BY DEF Code, Size
  <2>4. PackVariant(v) = <<a>> \o <<b>>
    BY <2>1, <2>3 DEF PackVariant
  <2>5. a \in Cells /\ b \in Cells
    BY <2>1, CellType DEF Held
  <2> HIDE DEF a, b
  <2>6. <<a>> \o <<b>> = <<a, b>>
    BY <2>5, JoinTwo
  <2>7. <<a, b>> \in Seq(Cells)
    BY <2>5
  <2> QED
    BY <2>2, <2>4, <2>6, <2>7 DEF a, b
<1> QED
  BY <1>1, <1>2 DEF Objects

\* A packed variant takes the bytes VariantMemoryUsage computes for it.
LEMMA VariantBytes ==
  ASSUME NEW v \in Objects
  PROVE  /\ Bytes(PackVariant(v)) = VariantMemoryUsage(v)
         /\ VariantMemoryUsage(v) \in Nat
<1>1. CASE v \in Strings
  <2> DEFINE n == Len(v.value)
             a == Cell(1, 2)
             b == Cell(4, n)
             c == Cell(n, v.value)
  <2>1. v.type = "STRING" /\ v.value \in Seq(Chars) /\ n \in Nat
    BY <1>1 DEF Strings
  <2>2. /\ a \in Cells /\ b \in Cells /\ c \in Cells
        /\ a.width = 1 /\ b.width = 4 /\ c.width = n
    BY <2>1, CellType DEF Held
  <2>3. VariantMemoryUsage(v) = 1 + n + 4
    BY <2>1 DEF VariantMemoryUsage, Size
  <2>4. PackVariant(v) = <<a, b, c>>
    BY <1>1, VariantPacked
  <2> HIDE DEF a, b, c, n
  <2>5. <<a, b, c>> = (<<a>> \o <<b>>) \o <<c>>
    BY <2>2, JoinThree
  <2>6. Bytes(<<a>>) = 1 /\ Bytes(<<b>>) = 4 /\ Bytes(<<c>>) = n
    BY <2>1, <2>2, BytesOne
  <2> DEFINE x == <<a>>
             y == <<b>>
             z == <<c>>
             xy == x \o y
  <2>7. x \in Seq(Cells) /\ y \in Seq(Cells) /\ z \in Seq(Cells) /\ xy \in Seq(Cells)
    BY <2>2
  <2>8. Bytes(xy) = Bytes(x) + Bytes(y)
    <3> HIDE DEF x, y
    <3> QED
      BY <2>7, BytesCat
  <2>9. Bytes(xy \o z) = Bytes(xy) + Bytes(z)
    <3> HIDE DEF z, xy
    <3> QED
      BY <2>7, BytesCat
  <2>10. Bytes(PackVariant(v)) = (1 + 4) + n
    BY <2>4, <2>5, <2>6, <2>8, <2>9
  <2> HIDE DEF x, y, z, xy
  <2> QED
    BY <2>1, <2>3, <2>10
<1>2. CASE v \in Integers32
  <2> DEFINE a == Cell(1, 9)
             b == Cell(4, v.value)
  <2>1. v.type = "INT" /\ v.value \in Int
    BY <1>2 DEF Integers32
  <2>2. a \in Cells /\ b \in Cells /\ a.width = 1 /\ b.width = 4
    BY <2>1, CellType DEF Held
  <2>3. VariantMemoryUsage(v) = 5
    BY <2>1 DEF VariantMemoryUsage, Size
  <2>4. PackVariant(v) = <<a, b>>
    BY <1>2, VariantPacked
  <2> HIDE DEF a, b
  <2>5. <<a, b>> = <<a>> \o <<b>>
    BY <2>2, JoinTwo
  <2>6. Bytes(<<a>>) = 1 /\ Bytes(<<b>>) = 4
    BY <2>2, BytesOne
  <2> DEFINE x == <<a>>
             y == <<b>>
  <2>7. x \in Seq(Cells) /\ y \in Seq(Cells)
    BY <2>2
  <2>8. Bytes(x \o y) = Bytes(x) + Bytes(y)
    <3> HIDE DEF x, y
    <3> QED
      BY <2>7, BytesCat
  <2>9. Bytes(PackVariant(v)) = 1 + 4
    BY <2>4, <2>5, <2>6, <2>8
  <2> QED
    BY <2>3, <2>9
<1> QED
  BY <1>1, <1>2 DEF Objects

\* A type is told by its code.
LEMMA CodesApart ==
  /\ "STRING" \in Types /\ "INT" \in Types
  /\ \A t \in Types : (Code[t] = 2 <=> t = "STRING") /\ (Code[t] = 9 <=> t = "INT")
<1>1. Types = {"FLOAT", "STRING", "VECTOR_2", "VECTOR_3", "UNSIGNED_INT", "INT"}
  BY DEF Types, Code
<1>2. /\ Code["FLOAT"] = 1 /\ Code["STRING"] = 2 /\ Code["VECTOR_2"] = 3
      /\ Code["VECTOR_3"] = 4 /\ Code["UNSIGNED_INT"] = 5 /\ Code["INT"] = 9
  BY DEF Code
<1> QED
  BY <1>1, <1>2

\* Reading where a variant was packed returns it, and goes on behind it.
LEMMA VariantRead ==
  ASSUME NEW v \in Objects, NEW cells, NEW c \in Nat,
         \A k \in 1 .. Len(PackVariant(v)) :
           c + k - 1 \in DOMAIN cells /\ cells[c + k - 1] = PackVariant(v)[k]
  PROVE  /\ SerializeVariant(cells, c).object = v
         /\ SerializeVariant(cells, c).next = c + Len(PackVariant(v))
<1> DEFINE types == {t \in Types : Readable(cells, c, 1) /\ Code[t] = cells[c].value}
           type == CHOOSE t \in types : TRUE
           isRead == IF type = "STRING" THEN StringReadable(cells, c + 1, 4)
                     ELSE Readable(cells, c + 1, Size(type, 0))
           end == c + (IF type = "STRING" THEN 3 ELSE 2)
<1>1. SerializeVariant(cells, c)
        = IF types = {} THEN [object |-> NoVariant, next |-> c + 1]
          ELSE IF isRead
               THEN [object |-> [type |-> type, value |-> cells[end - 1].value],
                     next |-> end]
               ELSE [object |-> NoVariant, next |-> end]
  BY DEF SerializeVariant
<1>2. ASSUME NEW k \in {1, 2, 3}, Len(PackVariant(v)) \in Nat, Len(PackVariant(v)) >= k
      PROVE  c + k - 1 \in DOMAIN cells /\ cells[c + k - 1] = PackVariant(v)[k]
  BY <1>2
<1>3. c + 1 - 1 = c /\ c + 2 - 1 = c + 1 /\ c + 3 - 1 = c + 2
  OBVIOUS
<1>4. CASE v \in Strings
  <2> DEFINE n == Len(v.value)
             x == Cell(1, 2)
             y == Cell(4, n)
             z == Cell(n, v.value)
  <2>1. v = [type |-> "STRING", value |-> v.value] /\ v.value \in Seq(Chars)
        /\ n \in Nat
    BY <1>4 DEF Strings
  <2>2. /\ x.width = 1 /\ x.value = 2 /\ y.width = 4 /\ y.value = n
        /\ z.width = n /\ z.value = v.value
    BY DEF Cell
  <2>3. PackVariant(v) = <<x, y, z>>
    BY <1>4, VariantPacked
  <2> HIDE DEF x, y, z, n
  <2>4. Len(<<x, y, z>>) = 3 /\ <<x, y, z>>[1] = x /\ <<x, y, z>>[2] = y
        /\ <<x, y, z>>[3] = z
    <3>1. <<x, y, z>> \in Seq({x, y, z})
      OBVIOUS
    <3> QED
      BY <3>1
  <2>5. /\ c \in DOMAIN cells /\ cells[c] = x
        /\ c + 1 \in DOMAIN cells /\ cells[c + 1] = y
        /\ c + 2 \in DOMAIN cells /\ cells[c + 2] = z
    BY <1>2, <1>3, <2>3, <2>4
  <2>6. types = {"STRING"}
    BY <2>2, <2>5, CodesApart DEF Readable
  <2>7. type = "STRING"
    BY <2>6
  <2> HIDE DEF types, type
  <2>8. isRead
    <3>1. (c + 1) + 1 = c + 2
      OBVIOUS
    <3> QED
      BY <2>2, <2>5, <2>7, <3>1 DEF StringReadable, Readable
  <2>9. end = c + 3 /\ end - 1 = c + 2
    BY <2>7
  <2> HIDE DEF isRead, end
  <2>10. SerializeVariant(cells, c)
           = [object |-> [type |-> "STRING", value |-> v.value], next |-> c + 3]
    BY <1>1, <2>2, <2>5, <2>6, <2>7, <2>8, <2>9
  <2> QED
    BY <2>1, <2>3, <2>4, <2>10
<1>5. CASE v \in Integers32
  <2> DEFINE x == Cell(1, 9)
             y == Cell(4, v.value)
  <2>1. v = [type |-> "INT", value |-> v.value] /\ v.value \in Int
    BY <1>5 DEF Integers32
  <2>2. x.width = 1 /\ x.value = 9 /\ y.width = 4 /\ y.value = v.value
    BY DEF Cell
  <2>3. PackVariant(v) = <<x, y>>
    BY <1>5, VariantPacked
  <2> HIDE DEF x, y
  <2>4. Len(<<x, y>>) = 2 /\ <<x, y>>[1] = x /\ <<x, y>>[2] = y
    <3>1. <<x, y>> \in Seq({x, y})
      OBVIOUS
    <3> QED
      BY <3>1
  <2>5. /\ c \in DOMAIN cells /\ cells[c] = x
        /\ c + 1 \in DOMAIN cells /\ cells[c + 1] = y
    BY <1>2, <1>3, <2>3, <2>4
  <2>6. types = {"INT"}
    BY <2>2, <2>5, CodesApart DEF Readable
  <2>7. type = "INT"
    BY <2>6
  <2> HIDE DEF types, type
  <2>8. Size("INT", 0) = 4
    BY DEF Size
  <2>9. isRead
    BY <2>2, <2>5, <2>7, <2>8 DEF Readable
  <2>10. end = c + 2 /\ end - 1 = c + 1
    BY <2>7
  <2> HIDE DEF isRead, end
  <2>11. SerializeVariant(cells, c)
           = [object |-> [type |-> "INT", value |-> v.value], next |-> c + 2]
    BY <1>1, <2>2, <2>5, <2>6, <2>7, <2>9, <2>10
  <2> QED
    BY <2>1, <2>3, <2>4, <2>11
<1> QED
  BY <1>4, <1>5 DEF Objects

\* Unpack, by the steps of its function.
Unpacks(f, cells) ==
  /\ f[0] = [objects |-> << >>, next |-> 2]
  /\ \A i \in 1 .. cells[1].value :
       LET v == SerializeVariant(cells, f[i - 1].next + 1)
       IN f[i] = [objects |-> Append(f[i - 1].objects, v.object), next |-> v.next]
  /\ Unpack(cells) = f[cells[1].value].objects

Read1 == [type : Types, value : Held]
Reading == [objects : Seq(Read1), next : Nat]

\* Whatever cells are read as a variant, a variant is made of them.
LEMMA SerializeType ==
  ASSUME NEW cells \in Seq(Cells), NEW c \in Nat
  PROVE  SerializeVariant(cells, c).object \in Read1
         /\ SerializeVariant(cells, c).next \in Nat
<1> DEFINE types == {t \in Types : Readable(cells, c, 1) /\ Code[t] = cells[c].value}
           type == CHOOSE t \in types : TRUE
           isRead == IF type = "STRING" THEN StringReadable(cells, c + 1, 4)
                     ELSE Readable(cells, c + 1, Size(type, 0))
           end == c + (IF type = "STRING" THEN 3 ELSE 2)
           r1 == [object |-> NoVariant, next |-> c + 1]
           r2 == [object |-> [type |-> type, value |-> cells[end - 1].value],
                  next |-> end]
           r3 == [object |-> NoVariant, next |-> end]
<1>1. SerializeVariant(cells, c)
        = IF types = {} THEN r1 ELSE IF isRead THEN r2 ELSE r3
  BY DEF SerializeVariant
<1>2. NoVariant \in Read1
  <2>1. "FLOAT" \in Types
    BY DEF Types, Code
  <2>2. 0 \in Held
    BY DEF Held
  <2> QED
    BY <2>1, <2>2 DEF NoVariant, Read1
<1>3. end \in Nat /\ c + 1 \in Nat
  OBVIOUS
<1>4. ASSUME types # {} PROVE type \in Types
  BY <1>4
<1>5. ASSUME isRead PROVE end - 1 \in DOMAIN cells
  <2>1. CASE type = "STRING"
    <3>1. end - 1 = (c + 1) + 1
      BY <2>1
    <3> QED
      BY <1>5, <2>1, <3>1 DEF StringReadable, Readable
  <2>2. CASE type # "STRING"
    <3>1. end - 1 = c + 1
      BY <2>2
    <3> QED
      BY <1>5, <2>2, <3>1 DEF Readable
  <2> QED
    BY <2>1, <2>2
<1>6. \A k \in DOMAIN cells : cells[k].value \in Held
  <2>1. ASSUME NEW k \in DOMAIN cells PROVE cells[k].value \in Held
    <3>1. cells[k] \in Cells
      OBVIOUS
    <3> QED
      BY <3>1 DEF Cells
  <2> QED
    BY <2>1
<1> HIDE DEF types, type, isRead, end
<1>7. ASSUME types # {}, isRead PROVE r2.object \in Read1 /\ r2.next \in Nat
  BY <1>3, <1>4, <1>5, <1>6, <1>7 DEF Read1
<1>8. r1.object \in Read1 /\ r1.next \in Nat /\ r3.object \in Read1 /\ r3.next \in Nat
  BY <1>2, <1>3
<1> HIDE DEF r1, r2, r3
<1> QED
  BY <1>1, <1>7, <1>8

\* Unpack exists: its recurrence has a solution for any buffer with a count.
LEMMA UnpackBy ==
  ASSUME NEW cells \in Seq(Cells), cells[1].value \in Nat
  PROVE  \E f \in [0 .. cells[1].value -> Reading] : Unpacks(f, cells)
<1> DEFINE n == cells[1].value
           v(from) == SerializeVariant(cells, from + 1)
           made(read) == [objects |-> Append(read.objects, v(read.next).object),
                          next |-> v(read.next).next]
           base == [objects |-> << >>, next |-> 2]
           step == [p \in (1 .. n) \X Reading |-> made(p[2])]
           Eq(f) == f = [i \in 0 .. n |-> IF i = 0 THEN base ELSE made(f[i - 1])]
<1>1. n \in Nat
  OBVIOUS
<1>2. base \in Reading
  BY DEF Reading
<1>3. \A read \in Reading : made(read) \in Reading
  <2>1. ASSUME NEW read \in Reading PROVE made(read) \in Reading
    <3>1. read.objects \in Seq(Read1) /\ read.next \in Nat /\ read.next + 1 \in Nat
      BY DEF Reading
    <3>2. v(read.next).object \in Read1 /\ v(read.next).next \in Nat
      BY <3>1, SerializeType
    <3> HIDE DEF v
    <3> QED
      BY <3>1, <3>2 DEF Reading
  <2> QED
    BY <2>1
<1> HIDE DEF n, base, made
<1>4. step \in [(1 .. n) \X Reading -> Reading]
  BY <1>3
<1>5. PICK g \in [0 .. n -> Reading] : CountsUp(g, n, step, base)
  <2> HIDE DEF step
  <2> QED
    BY <1>1, <1>2, <1>4, CountUpDefines, Zenon
<1>6. g[0] = base /\ \A i \in 1 .. n : g[i] = made(g[i - 1])
  <2>1. ASSUME NEW i \in 1 .. n PROVE g[i] = made(g[i - 1])
    <3>1. i - 1 \in 0 .. n
      BY <1>1
    <3>2. g[i - 1] \in Reading
      BY <3>1
    <3>3. <<i, g[i - 1]>> \in (1 .. n) \X Reading
      BY <3>2
    <3>4. g[i] = step[<<i, g[i - 1]>>]
      BY <1>5 DEF CountsUp
    <3> QED
      BY <3>3, <3>4
  <2> QED
    BY <1>5, <2>1 DEF CountsUp
<1>7. Eq(g)
  <2> DEFINE e(i) == IF i = 0 THEN base ELSE made(g[i - 1])
  <2>1. ASSUME NEW i \in 0 .. n PROVE g[i] = e(i)
    <3>1. i = 0 \/ i \in 1 .. n
      BY <1>1
    <3> QED
      BY <1>6, <3>1
  <2>2. g = [i \in 0 .. n |-> e(i)]
    <3> HIDE DEF e, step
    <3> QED
      BY <2>1
  <2> QED
    BY <2>2
<1> DEFINE f == CHOOSE h : Eq(h)
<1>8. Eq(f)
  <2> HIDE DEF Eq
  <2> QED
    BY <1>7
<1>9. Unpack(cells) = f[n].objects
  BY DEF Unpack, n, base, made
<1> HIDE DEF f, step
<1>10. f[0] = base /\ \A i \in 1 .. n : f[i] = made(f[i - 1])
  <2>1. ASSUME NEW i \in 0 .. n
        PROVE  f[i] = IF i = 0 THEN base ELSE made(f[i - 1])
    BY <1>8, Zenon
  <2>2. 0 \in 0 .. n /\ \A i \in 1 .. n : i \in 0 .. n /\ i # 0
    BY <1>1
  <2> HIDE DEF Eq
  <2> QED
    BY <2>1, <2>2
<1>11. \A i \in 0 .. n : f[i] \in Reading
  <2> DEFINE T == {i \in 0 .. n : f[i] \in Reading}
  <2>1. 0 \in T
    BY <1>1, <1>2, <1>10
  <2>2. ASSUME NEW i \in 1 .. n, i - 1 \in T PROVE i \in T
    <3>1. i \in 0 .. n /\ f[i - 1] \in Reading /\ f[i] = made(f[i - 1])
      BY <1>10, <2>2
    <3> QED
      BY <1>3, <3>1
  <2>3. 0 .. n \subseteq T
    <3> HIDE DEF T
    <3> QED
      BY <1>1, <2>1, <2>2, Rises
  <2> QED
    BY <2>3
<1>12. f = [i \in 0 .. n |-> f[i]]
  BY <1>8
<1> HIDE DEF Eq
<1>13. f \in [0 .. n -> Reading]
  BY <1>11, <1>12
<1>14. Unpacks(f, cells)
  BY <1>9, <1>10, Zenon DEF Unpacks, n, base, made, v
<1> QED
  BY <1>13, <1>14 DEF n

\* What Pack writes for one object: its index and the variant.
Piece(objects, i) == <<Cell(1, i - 1)>> \o PackVariant(objects[i])
Pieced(objects) == [i \in DOMAIN objects |-> Piece(objects, i)]

\* What Pack writes for one variant: its index, and the variant.
LEMMA PieceType ==
  ASSUME NEW objects \in Seq(Objects)
  PROVE  /\ Pieced(objects) \in Seq(Seq(Cells)) /\ Len(Pieced(objects)) = Len(objects)
         /\ \A i \in 1 .. Len(objects) :
              /\ Pieced(objects)[i] = Piece(objects, i)
              /\ Piece(objects, i) \in Seq(Cells)
              /\ PackVariant(objects[i]) \in Seq(Cells)
              /\ Len(Piece(objects, i)) = 1 + Len(PackVariant(objects[i]))
              /\ \A k \in 1 .. Len(PackVariant(objects[i])) :
                   Piece(objects, i)[1 + k] = PackVariant(objects[i])[k]
              /\ Bytes(Piece(objects, i)) = VariantMemoryUsage(objects[i]) + 1
              /\ VariantMemoryUsage(objects[i]) \in Nat
<1>1. ASSUME NEW i \in 1 .. Len(objects)
      PROVE  /\ Piece(objects, i) \in Seq(Cells)
             /\ PackVariant(objects[i]) \in Seq(Cells)
             /\ Len(Piece(objects, i)) = 1 + Len(PackVariant(objects[i]))
             /\ \A k \in 1 .. Len(PackVariant(objects[i])) :
                  Piece(objects, i)[1 + k] = PackVariant(objects[i])[k]
             /\ Bytes(Piece(objects, i)) = VariantMemoryUsage(objects[i]) + 1
             /\ VariantMemoryUsage(objects[i]) \in Nat
  <2> DEFINE v == objects[i]
             c == Cell(1, i - 1)
             a == <<c>>
             b == PackVariant(v)
  <2>1. v \in Objects
    OBVIOUS
  <2>2. b \in Seq(Cells)
    BY <2>1, VariantPacked
  <2>3. c \in Cells /\ c.width = 1
    BY CellType DEF Held
  <2>4. Bytes(b) = VariantMemoryUsage(v) /\ VariantMemoryUsage(v) \in Nat
    BY <2>1, VariantBytes
  <2> HIDE DEF c, b, v
  <2>5. a \in Seq(Cells) /\ Len(a) = 1
    BY <2>3
  <2>6. Bytes(a) = 1
    BY <2>3, BytesOne
  <2> HIDE DEF a
  <2>7. Bytes(a \o b) = Bytes(a) + Bytes(b)
    BY <2>2, <2>5, BytesCat
  <2>8. /\ a \o b \in Seq(Cells) /\ Len(a \o b) = 1 + Len(b)
        /\ \A k \in 1 .. Len(b) : (a \o b)[1 + k] = b[k]
    <3>1. a \o b \in Seq(Cells) /\ Len(a \o b) = Len(a) + Len(b)
      BY <2>2, <2>5, CatIs, Zenon
    <3>2. EndsIn(a \o b, a, b)
      BY <2>2, <2>5, CatIs, Zenon
    <3>3. \A k \in 1 .. Len(b) : (a \o b)[1 + k] = b[k]
      BY <2>5, <3>2 DEF EndsIn
    <3> QED
      BY <2>5, <3>1, <3>3
  <2>9. Piece(objects, i) = a \o b
    BY DEF Piece, a, b, c, v
  <2>10. Bytes(a \o b) = VariantMemoryUsage(v) + 1
    BY <2>4, <2>6, <2>7
  <2> QED
    BY <2>2, <2>4, <2>8, <2>9, <2>10 DEF b, v
<1>2. DOMAIN objects = 1 .. Len(objects) /\ Len(objects) \in Nat
  OBVIOUS
<1>3. Pieced(objects) \in Seq(Seq(Cells)) /\ Len(Pieced(objects)) = Len(objects)
  <2> DEFINE p(i) == Piece(objects, i)
  <2>1. \A i \in 1 .. Len(objects) : p(i) \in Seq(Cells)
    BY <1>1
  <2> HIDE DEF p
  <2>2. [i \in 1 .. Len(objects) |-> p(i)] \in Seq(Seq(Cells))
        /\ Len([i \in 1 .. Len(objects) |-> p(i)]) = Len(objects)
    BY <1>2, <2>1
  <2> QED
    BY <1>2, <2>2 DEF Pieced, p
<1>4. \A i \in 1 .. Len(objects) : Pieced(objects)[i] = Piece(objects, i)
  BY <1>2 DEF Pieced
<1> QED
  BY <1>1, <1>3, <1>4

\* Pack writes the count, then the pieces.
LEMMA PackIs ==
  ASSUME NEW objects \in Seq(Objects)
  PROVE  /\ FlattenSeq(Pieced(objects)) \in Seq(Cells)
         /\ Pack(objects) = <<Cell(1, Len(objects))>> \o FlattenSeq(Pieced(objects))
         /\ Pack(objects) \in Seq(Cells)
         /\ Len(Pack(objects)) = 1 + Len(FlattenSeq(Pieced(objects)))
         /\ Pack(objects)[1] = Cell(1, Len(objects))
         /\ \A k \in 1 .. Len(FlattenSeq(Pieced(objects))) :
              Pack(objects)[1 + k] = FlattenSeq(Pieced(objects))[k]
<1> DEFINE seqs == Pieced(objects)
           c == Cell(1, Len(objects))
<1>1. seqs \in Seq(Seq(Cells))
  BY PieceType
<1>2. Pack(objects) = <<c>> \o FlattenSeq(seqs)
  BY DEF Pack, Pieced, Piece
<1>3. c \in Cells
  <2>1. Len(objects) \in Nat
    OBVIOUS
  <2> QED
    BY <2>1, CellType DEF Held
<1> HIDE DEF seqs, c
<1>4. PICK f \in [0 .. Len(seqs) -> Seq(Cells)] : FlattensUp(f, seqs)
  BY <1>1, FlattenUpBy, Zenon
<1>5. FlattenSeq(seqs) \in Seq(Cells)
  <2>1. Len(seqs) \in 0 .. Len(seqs)
    BY <1>1
  <2> QED
    BY <1>4, <2>1 DEF FlattensUp
<1> DEFINE b == FlattenSeq(seqs)
<1> HIDE DEF b
<1>6. b \in Seq(Cells) /\ Pack(objects) = <<c>> \o b
  BY <1>2, <1>5 DEF b
<1>7. /\ Pack(objects) \in Seq(Cells) /\ Len(Pack(objects)) = 1 + Len(b)
      /\ Pack(objects)[1] = c
      /\ \A k \in 1 .. Len(b) : Pack(objects)[1 + k] = b[k]
  BY <1>3, <1>6
<1> QED
  BY <1>6, <1>7 DEF b, seqs, c

\* The buffer of a list is as long as what is packed into it.
LEMMA PackBytes ==
  ASSUME NEW objects \in Seq(Objects)
  PROVE  /\ Bytes(Pack(objects)) = GetMemoryUsage(objects)
         /\ GetMemoryUsage(objects) \in Nat /\ GetMemoryUsage(objects) >= 1
<1> DEFINE n == Len(objects)
           seqs == Pieced(objects)
           need(i) == VariantMemoryUsage(objects[i]) + 1
           w == [i \in DOMAIN objects |-> need(i)]
<1>1. n \in Nat /\ DOMAIN objects = 1 .. n
  OBVIOUS
<1>2. seqs \in Seq(Seq(Cells)) /\ Len(seqs) = n
  BY PieceType
<1>3. \A i \in 1 .. n : seqs[i] \in Seq(Cells) /\ Bytes(seqs[i]) = need(i)
                        /\ need(i) \in Nat
  <2>1. ASSUME NEW i \in 1 .. n
        PROVE  seqs[i] \in Seq(Cells) /\ Bytes(seqs[i]) = need(i) /\ need(i) \in Nat
    <3>1. /\ seqs[i] = Piece(objects, i) /\ Piece(objects, i) \in Seq(Cells)
          /\ Bytes(Piece(objects, i)) = VariantMemoryUsage(objects[i]) + 1
          /\ VariantMemoryUsage(objects[i]) \in Nat
      BY PieceType
    <3> QED
      BY <3>1
  <2> QED
    BY <2>1
<1> HIDE DEF seqs, need
<1>4. w \in Seq(Nat) /\ Len(w) = n /\ \A i \in 1 .. n : w[i] = need(i)
  BY <1>1, <1>3
<1>5. GetMemoryUsage(objects) = 1 + SumOf(w)
  BY DEF GetMemoryUsage, need
<1> HIDE DEF n, w
<1>6. PICK f \in [0 .. Len(seqs) -> Seq(Cells)] : FlattensUp(f, seqs)
  BY <1>2, FlattenUpBy, Zenon
<1>7. PICK g \in [0 .. Len(w) -> Nat] : Sums(g, w)
  BY <1>4, SumBy, Zenon
<1> DEFINE T == {i \in 0 .. n : Bytes(f[i]) = g[i]}
<1>8. 0 \in T
  <2>1. Bytes(<< >>) = 0
    <3>1. [i \in DOMAIN << >> |-> << >>[i].width] = << >>
      OBVIOUS
    <3> QED
      BY <3>1, SumEmpty DEF Bytes
  <2>2. f[0] = << >> /\ g[0] = 0
    BY <1>6, <1>7 DEF FlattensUp, Sums
  <2>3. 0 \in 0 .. n
    BY <1>1
  <2> QED
    BY <2>1, <2>2, <2>3
<1>9. ASSUME NEW i \in 1 .. n, i - 1 \in T
      PROVE  i \in T
  <2>1. i \in 0 .. n /\ i - 1 \in 0 .. n
    BY <1>1
  <2>2. f[i] = f[i - 1] \o seqs[i]
    BY <1>2, <1>6 DEF FlattensUp
  <2>3. g[i] = g[i - 1] + need(i)
    BY <1>4, <1>7 DEF Sums
  <2>4. f[i - 1] \in Seq(Cells) /\ seqs[i] \in Seq(Cells)
    BY <1>2, <1>3, <1>6, <2>1
  <2>5. Bytes(f[i - 1] \o seqs[i]) = Bytes(f[i - 1]) + Bytes(seqs[i])
    BY <2>4, BytesCat
  <2>6. Bytes(f[i - 1]) = g[i - 1] /\ Bytes(seqs[i]) = need(i)
    BY <1>3, <1>9
  <2> QED
    BY <2>1, <2>2, <2>3, <2>5, <2>6
<1>10. Bytes(f[n]) = g[n]
  <2>1. 0 .. n \subseteq T
    <3> HIDE DEF T
    <3> QED
      BY <1>1, <1>8, <1>9, Rises
  <2>2. n \in 0 .. n
    BY <1>1
  <2> QED
    BY <2>1, <2>2
<1>11. Bytes(FlattenSeq(seqs)) = SumOf(w)
  BY <1>2, <1>4, <1>6, <1>7, <1>10 DEF FlattensUp, Sums
<1>12. SumOf(w) \in Nat
  BY <1>4, SumType
<1> DEFINE c == Cell(1, n)
           a == <<c>>
           b == FlattenSeq(seqs)
<1>13. c \in Cells /\ c.width = 1
  BY <1>1, CellType DEF Held
<1>14. Pack(objects) = a \o b /\ b \in Seq(Cells)
  BY PackIs DEF n, seqs
<1> HIDE DEF c, b
<1>15. a \in Seq(Cells) /\ Bytes(a) = 1
  BY <1>13, BytesOne, SMTT(20)
<1> HIDE DEF a
<1>16. Bytes(a \o b) = Bytes(a) + Bytes(b)
  BY <1>14, <1>15, BytesCat
<1>17. Bytes(b) = SumOf(w)
  BY <1>11 DEF b
<1> QED
  BY <1>5, <1>12, <1>14, <1>15, <1>16, <1>17

\* Unpack undoes Pack.
LEMMA UnpackPack ==
  ASSUME NEW objects \in Seq(Objects)
  PROVE  Unpack(Pack(objects)) = objects
<1> DEFINE n == Len(objects)
           cells == Pack(objects)
           seqs == Pieced(objects)
           all == FlattenSeq(seqs)
           w(i) == PackVariant(objects[i])
<1>1. n \in Nat
  OBVIOUS
<1>2. /\ all \in Seq(Cells) /\ cells \in Seq(Cells) /\ Len(cells) = 1 + Len(all)
      /\ cells[1].value = n
      /\ \A k \in 1 .. Len(all) : cells[1 + k] = all[k]
  <2>1. Cell(1, n).value = n
    BY DEF Cell
  <2> QED
    BY <2>1, PackIs
<1>3. seqs \in Seq(Seq(Cells)) /\ Len(seqs) = n
  BY PieceType
<1>4. \A i \in 1 .. n : /\ seqs[i] \in Seq(Cells) /\ w(i) \in Seq(Cells)
                        /\ Len(seqs[i]) = 1 + Len(w(i))
                        /\ \A k \in 1 .. Len(w(i)) : seqs[i][1 + k] = w(i)[k]
  BY PieceType
<1> HIDE DEF cells, seqs, all, w, n
<1>5. PICK f \in [0 .. n -> Seq(Cells)] : FlattensUp(f, seqs)
  BY <1>3, FlattenUpBy, Zenon
<1>6. PICK read \in [0 .. n -> Reading] : Unpacks(read, cells)
  BY <1>1, <1>2, UnpackBy, Zenon
<1> DEFINE place(i) == Len(f[i]) + 2
           T == {i \in 0 .. n : /\ read[i].objects = SubSeq(objects, 1, i)
                                /\ read[i].next = place(i)}
<1>7. 0 \in T
  <2>1. read[0].objects = << >> /\ read[0].next = 2
    BY <1>6 DEF Unpacks
  <2>2. f[0] = << >> /\ Len(<< >>) + 2 = 2
    BY <1>5 DEF FlattensUp
  <2>3. SubSeq(objects, 1, 0) = << >>
    OBVIOUS
  <2>4. 0 \in 0 .. n
    BY <1>1
  <2> QED
    BY <2>1, <2>2, <2>3, <2>4
<1>8. ASSUME NEW i \in 1 .. n, i - 1 \in T
      PROVE  i \in T
  <2> DEFINE e == f[i - 1]
             c == Len(e) + 3
             v == SerializeVariant(cells, c)
  <2>1. i \in 0 .. n /\ i - 1 \in 0 .. n
    BY <1>1
  <2>2. e \in Seq(Cells) /\ Len(e) \in Nat
    BY <1>5, <2>1
  <2>3. f[i] = e \o seqs[i]
    BY <1>3, <1>5 DEF FlattensUp
  <2>4. /\ seqs[i] \in Seq(Cells) /\ w(i) \in Seq(Cells)
        /\ Len(seqs[i]) = 1 + Len(w(i)) /\ Len(w(i)) \in Nat
        /\ \A k \in 1 .. Len(w(i)) : seqs[i][1 + k] = w(i)[k]
    BY <1>4
  <2>5. Len(f[i]) <= Len(all) /\ \A k \in 1 .. Len(f[i]) : all[k] = f[i][k]
    <3>1. Starts(f[i], all)
      BY <1>3, <1>5, <2>1, FlattenPrefix, Zenon DEF all
    <3> QED
      BY <3>1 DEF Starts
  <2> HIDE DEF e
  <2>6. Len(f[i]) = Len(e) + 1 + Len(w(i))
    <3> DEFINE b == seqs[i]
    <3>1. b \in Seq(Cells) /\ Len(b) = 1 + Len(w(i)) /\ f[i] = e \o b
      BY <2>3, <2>4
    <3> HIDE DEF b
    <3>2. Len(e \o b) = Len(e) + Len(b)
      BY <2>2, <3>1, CatIs, Zenon
    <3> QED
      BY <2>2, <2>4, <3>1, <3>2
  <2>7. ASSUME NEW k \in 1 .. Len(w(i))
        PROVE  c + k - 1 \in DOMAIN cells /\ cells[c + k - 1] = w(i)[k]
    <3> DEFINE j == Len(e) + 1 + k
    <3>1. j \in 1 .. Len(f[i]) /\ c + k - 1 = 1 + j
      BY <2>2, <2>4, <2>6
    <3>2. 1 + k \in 1 .. Len(seqs[i]) /\ j = Len(e) + (1 + k)
      BY <2>2, <2>4
    <3> HIDE DEF j, c
    <3>3. f[i][j] = seqs[i][1 + k]
      BY <2>2, <2>3, <2>4, <3>2
    <3>4. Len(all) \in Nat /\ DOMAIN cells = 1 .. Len(cells) /\ Len(cells) = 1 + Len(all)
      BY <1>2
    <3>5. Len(f[i]) \in Nat
      BY <2>2, <2>4, <2>6
    <3>6. j \in 1 .. Len(all) /\ 1 + j \in DOMAIN cells
      BY <2>5, <3>1, <3>4, <3>5
    <3>7. cells[1 + j] = w(i)[k]
      BY <1>2, <2>4, <2>5, <3>1, <3>3, <3>6
    <3> QED
      BY <3>1, <3>6, <3>7
  <2>8. objects[i] \in Objects /\ c \in Nat
    BY <2>2 DEF n
  <2>9. v.object = objects[i] /\ v.next = c + Len(w(i))
    <3> HIDE DEF c
    <3> QED
      BY <2>7, <2>8, VariantRead DEF w
  <2>10. read[i - 1].next + 1 = c /\ read[i - 1].objects = SubSeq(objects, 1, i - 1)
    <3>1. read[i - 1].next = Len(e) + 2
      BY <1>8 DEF e
    <3> QED
      BY <1>8, <2>2, <3>1
  <2> HIDE DEF c
  <2>11. /\ read[i].objects = Append(read[i - 1].objects, v.object)
         /\ read[i].next = v.next
    <3>1. read[i] = [objects |-> Append(read[i - 1].objects, v.object), next |-> v.next]
      BY <1>2, <1>6, <2>10 DEF Unpacks
    <3> QED
      BY <3>1
  <2>12. Append(SubSeq(objects, 1, i - 1), objects[i]) = SubSeq(objects, 1, i)
    BY DEF n
  <2>13. c + Len(w(i)) = place(i)
    <3>1. place(i) = (Len(e) + 1 + Len(w(i))) + 2
      BY <2>6
    <3> QED
      BY <2>2, <2>4, <3>1 DEF c
  <2> QED
    BY <2>1, <2>9, <2>10, <2>11, <2>12, <2>13
<1>9. read[n].objects = SubSeq(objects, 1, n)
  <2>1. 0 .. n \subseteq T
    <3> HIDE DEF T
    <3> QED
      BY <1>1, <1>7, <1>8, Rises
  <2>2. n \in 0 .. n
    BY <1>1
  <2> QED
    BY <2>1, <2>2
<1>10. SubSeq(objects, 1, n) = objects
  BY DEF n
<1>11. Unpack(cells) = read[n].objects
  BY <1>2, <1>6 DEF Unpacks
<1> QED
  BY <1>9, <1>10, <1>11 DEF cells

-----------------------------------------------------------------------------
(* What ENet is given, and what its receiver finds in it.                  *)

Lists == [objects : Seq(Objects), executionDelay : Int, netId : Int]

Holds(frame, type, head, body) ==
  frame[1] = type /\ frame[2] = head /\ Payload(frame) = body

\* A frame of three parts, taken apart again.
LEMMA FrameParts ==
  ASSUME NEW S, NEW type \in S, NEW head \in S, NEW body \in Seq(S), NEW end \in S
  PROVE  Holds((<<type>> \o (<<head>> \o body)) \o <<end>>, type, head, body)
<1> DEFINE frame == (<<type>> \o (<<head>> \o body)) \o <<end>>
           a == <<type>>
           h == <<head>>
           z == <<end>>
           n == Len(body)
<1> HIDE DEF frame
<1>1. a \in Seq(S) /\ h \in Seq(S) /\ z \in Seq(S) /\ n \in Nat
      /\ Len(a) = 1 /\ Len(h) = 1 /\ Len(z) = 1 /\ a[1] = type /\ h[1] = head
  OBVIOUS
<1> HIDE DEF a, h, z
<1> DEFINE b == h \o body
<1>2. /\ b \in Seq(S) /\ Len(b) = 1 + n /\ b[1] = head
      /\ \A k \in 1 .. n : b[1 + k] = body[k]
  <2>1. b \in Seq(S) /\ Len(b) = Len(h) + n /\ Starts(h, b)
    BY <1>1, CatIs, Zenon
  <2>2. EndsIn(b, h, body)
    BY <1>1, CatIs, Zenon
  <2> QED
    BY <1>1, <2>1, <2>2 DEF EndsIn, Starts
<1> HIDE DEF b
<1> DEFINE c == a \o b
<1>3. /\ c \in Seq(S) /\ Len(c) = 2 + n /\ c[1] = type /\ c[2] = head
      /\ \A k \in 1 .. n : c[2 + k] = body[k]
  <2>1. c \in Seq(S) /\ Len(c) = Len(a) + Len(b)
    BY <1>1, <1>2, CatIs, Zenon
  <2>6. Starts(a, c)
    BY <1>1, <1>2, CatIs, Zenon
  <2>7. c[1] = type
    BY <1>1, <2>6 DEF Starts
  <2>2. EndsIn(c, a, b)
    BY <1>1, <1>2, CatIs, Zenon
  <2>3. \A k \in 1 .. Len(b) : c[1 + k] = b[k]
    BY <1>1, <2>2 DEF EndsIn
  <2>4. c[2] = head
    <3>1. 1 \in 1 .. Len(b) /\ 1 + 1 = 2
      BY <1>1, <1>2
    <3>2. c[2] = b[1]
      BY <2>3, <3>1
    <3> QED
      BY <1>2, <3>2, Zenon
  <2>5. ASSUME NEW k \in 1 .. n PROVE c[2 + k] = body[k]
    <3>1. 1 + k \in 1 .. Len(b) /\ 1 + (1 + k) = 2 + k
      BY <1>1, <1>2
    <3>2. c[1 + (1 + k)] = b[1 + k]
      BY <2>3, <3>1
    <3> QED
      BY <1>2, <3>1, <3>2
  <2> QED
    BY <1>1, <1>2, <2>1, <2>4, <2>5, <2>7
<1> HIDE DEF c
<1>4. /\ frame \in Seq(S) /\ Len(frame) = 3 + n
      /\ \A k \in 1 .. 2 + n : frame[k] = c[k]
  <2>1. frame = c \o z
    BY DEF c, b, a, h, z, frame
  <2>2. c \o z \in Seq(S) /\ Len(c \o z) = Len(c) + Len(z)
    BY <1>1, <1>3, CatIs, Zenon
  <2>3. Starts(c, c \o z)
    BY <1>1, <1>3, CatIs, Zenon
  <2>4. Len(c \o z) = 3 + n /\ Len(c) = 2 + n
    BY <1>1, <1>3, <2>2
  <2>5. \A k \in 1 .. 2 + n : frame[k] = c[k]
    BY <2>1, <2>3, <2>4 DEF Starts
  <2> QED
    BY <2>1, <2>2, <2>4, <2>5
<1>5. frame[1] = type /\ frame[2] = head
  <2>1. 1 \in 1 .. 2 + n /\ 2 \in 1 .. 2 + n
    BY <1>1
  <2> QED
    BY <1>3, <1>4, <2>1
<1>6. Payload(frame) = SubSeq(frame, 3, 2 + n)
  BY <1>1, <1>4 DEF Payload
<1> DEFINE q == SubSeq(frame, 3, 2 + n)
<1>7. q \in Seq(S) /\ Len(q) = n /\ \A k \in 1 .. n : q[k] = frame[2 + k]
  BY <1>1, <1>4
<1> HIDE DEF q
<1>8. \A k \in 1 .. n : q[k] = body[k]
  <2>1. ASSUME NEW k \in 1 .. n PROVE q[k] = body[k]
    <3>1. 2 + k \in 1 .. 2 + n
      BY <1>1
    <3> QED
      BY <1>3, <1>4, <1>7, <3>1
  <2> QED
    BY <2>1
<1>9. q = body
  BY <1>7, <1>8, SeqEqual
<1> QED
  BY <1>5, <1>6, <1>9 DEF q, Holds, frame

\* A packet with a list is always copied, so its frame carries the list.
LEMMA ListFrame ==
  ASSUME NEW vList \in Lists
  PROVE  CarriesList(SendPacket(SVariantPacket(vList)), vList)
<1> DEFINE objects == vList.objects
           head == [type |-> "CALL_FUNCTION", bExtended |-> TRUE,
                    netId |-> vList.netId, delay |-> vList.executionDelay,
                    dataLength |-> GetMemoryUsage(objects)]
           h == Cell(HeaderSize, head)
           type == Cell(4, "GAME_PACKET")
           end == Cell(1, 0)
           body == Pack(objects)
           front == <<h>>
           data == front \o body
           frame == SendPacket(SVariantPacket(vList))
<1>1. objects \in Seq(Objects) /\ vList.netId \in Int /\ vList.executionDelay \in Int
  BY DEF Lists
<1>2. body \in Seq(Cells)
  BY <1>1, PackIs
<1>3. Bytes(body) = GetMemoryUsage(objects) /\ GetMemoryUsage(objects) \in Nat
      /\ GetMemoryUsage(objects) >= 1
  BY <1>1, PackBytes
<1>4. head \in Headers
  <2> DEFINE l == GetMemoryUsage(objects)
             i == vList.netId
             d == vList.executionDelay
  <2>1. l \in Int /\ i \in Int /\ d \in Int
    BY <1>1, <1>3
  <2> HIDE DEF l, i, d
  <2>2. [type |-> "CALL_FUNCTION", bExtended |-> TRUE, netId |-> i, delay |-> d,
         dataLength |-> l] \in Headers
    BY <2>1 DEF Headers
  <2> QED
    BY <2>2 DEF l, i, d
<1>5. h \in Cells /\ h.width = 56 /\ h.value = head
  BY <1>4, CellType DEF Held, HeaderSize
<1>6. type \in Cells /\ end \in Cells
  <2>1. 4 \in Nat /\ 1 \in Nat /\ "GAME_PACKET" \in Held /\ 0 \in Held
    BY DEF Held
  <2> QED
    BY <2>1, CellType
<1>7. SVariantPacket(vList).type = "GAME_PACKET" /\ SVariantPacket(vList).data = data
  BY DEF SVariantPacket
<1>8. /\ head.netId = vList.netId /\ head.delay = vList.executionDelay
      /\ head.dataLength = GetMemoryUsage(objects)
  OBVIOUS
<1>9. Bytes(front) = 56
  BY <1>5, BytesOne
<1>10. front \in Seq(Cells)
  BY <1>5
<1> HIDE DEF head, h, type, end, body, front
<1>11. Bytes(data) = Bytes(front) + Bytes(body)
  BY <1>2, <1>10, BytesCat
<1>12. Bytes(data) > HeaderSize
  BY <1>3, <1>9, <1>11 DEF HeaderSize, body
<1> HIDE DEF data
<1>13. frame = (<<type>> \o data) \o <<end>>
  BY <1>7, <1>12 DEF SendPacket, type, end
<1> HIDE DEF frame
<1>14. frame[1] = type /\ frame[2] = h /\ Payload(frame) = body
  <2>1. frame = (<<type>> \o (<<h>> \o body)) \o <<end>>
    BY <1>13 DEF data, front
  <2>2. Holds((<<type>> \o (<<h>> \o body)) \o <<end>>, type, h, body)
    BY <1>2, <1>5, <1>6, FrameParts, Zenon
  <2>3. Holds(frame, type, h, body)
    BY <2>1, <2>2, Zenon
  <2> QED
    BY <2>3 DEF Holds
<1>15. Unpack(body) = objects
  BY <1>1, UnpackPack DEF body
<1> HIDE DEF objects
<1>16. /\ frame[1] = Cell(4, "GAME_PACKET")
       /\ frame[2].width = HeaderSize
       /\ frame[2].value.netId = vList.netId
       /\ frame[2].value.delay = vList.executionDelay
       /\ frame[2].value.dataLength = Bytes(Payload(frame))
  BY <1>3, <1>5, <1>8, <1>14 DEF type, HeaderSize, body
<1>17. Unpack(Payload(frame)) = vList.objects
  BY <1>14, <1>15 DEF objects
<1>18. CarriesList(frame, vList)
  BY <1>16, <1>17 DEF CarriesList
<1> QED
  BY <1>18 DEF frame


-----------------------------------------------------------------------------
(* The lists that handlers send.                                           *)

\* A value is a part of a line without a bar, or undefined.
LEMMA GetType ==
  ASSUME NEW S, NEW data \in Seq(Seq(S)), NEW key
  PROVE  Get(data, key, 1) \in Seq(S \ {Bar}) \cup {Undefined}
<1> DEFINE tokens == [i \in DOMAIN data |-> StringTokenize(data[i], Bar)]
           stops == {i \in DOMAIN data :
                       data[i] # << >> /\ (tokens[i] = << >> \/ tokens[i][1] = key)}
           line == CHOOSE i \in stops : \A j \in stops : i <= j
<1>1. Get(data, key, 1)
        = IF stops = {} THEN << >>
          ELSE IF tokens[line] = << >> THEN Undefined
          ELSE IF 1 >= Len(tokens[line]) THEN << >>
          ELSE tokens[line][1 + 1]
  BY DEF Get
<1>2. ASSUME stops # {} PROVE line \in DOMAIN data
  <2>1. stops \subseteq 0 .. Len(data) /\ Len(data) \in Nat
    OBVIOUS
  <2>2. \E i \in stops : \A j \in stops : i <= j
    <3> HIDE DEF stops
    <3> QED
      BY <1>2, <2>1, HasLeast
  <2>3. line \in stops
    <3> HIDE DEF stops
    <3> QED
      BY <2>2
  <2> QED
    BY <2>3
<1>3. ASSUME NEW i \in DOMAIN data PROVE tokens[i] \in Seq(Seq(S \ {Bar}))
  <2>1. data[i] \in Seq(S) /\ "tokens" \in Ways
    BY DEF Ways
  <2>2. Cut("tokens", data[i], Bar) \in Seq(Seq(S \ {Bar}))
    BY <2>1, CutFree
  <2> QED
    BY <2>2 DEF Cut
<1> HIDE DEF tokens, stops, line
<1>4. CASE stops = {} \/ tokens[line] = << >> \/ 1 >= Len(tokens[line])
  <2>1. << >> \in Seq(S \ {Bar})
    OBVIOUS
  <2> QED
    BY <1>1, <1>4, <2>1
<1>5. CASE ~(stops = {} \/ tokens[line] = << >> \/ 1 >= Len(tokens[line]))
  <2> DEFINE u == tokens[line]
  <2>1. u \in Seq(Seq(S \ {Bar}))
    BY <1>2, <1>3, <1>5
  <2>2. Get(data, key, 1) = u[2] /\ ~(1 >= Len(u))
    BY <1>1, <1>5
  <2> HIDE DEF u
  <2> QED
    BY <2>1, <2>2
<1> QED
  BY <1>4, <1>5

\* A line of fields.
LEMMA LineType ==
  ASSUME NEW name \in Chars, NEW fields \in Seq(Seq(Chars))
  PROVE  Line(name, fields) \in Seq(Chars)
<1> DEFINE barred == [i \in DOMAIN fields |-> <<Bar>> \o fields[i]]
           all == FlattenSeq(barred)
<1>1. Bar \in Chars /\ NewLine \in Chars
  BY DEF Bar, NewLine, Chars, Literals
<1>2. barred \in Seq(Seq(Chars))
  <2> DEFINE w(i) == <<Bar>> \o fields[i]
  <2>1. ASSUME NEW i \in 1 .. Len(fields) PROVE w(i) \in Seq(Chars)
    BY <1>1
  <2>2. DOMAIN fields = 1 .. Len(fields) /\ Len(fields) \in Nat
    OBVIOUS
  <2> HIDE DEF w
  <2>3. [i \in 1 .. Len(fields) |-> w(i)] \in Seq(Seq(Chars))
    BY <2>1, <2>2
  <2> QED
    BY <2>2, <2>3 DEF w
<1> HIDE DEF barred
<1>3. all \in Seq(Chars)
  <2>1. PICK f \in [0 .. Len(barred) -> Seq(Chars)] : FlattensUp(f, barred)
    BY <1>2, FlattenUpBy, Zenon
  <2>2. Len(barred) \in 0 .. Len(barred)
    BY <1>2
  <2> QED
    BY <2>1, <2>2 DEF FlattensUp
<1>4. <<NewLine, name>> \in Seq(Chars)
  BY <1>1
<1> HIDE DEF all
<1>5. <<NewLine, name>> \o all \in Seq(Chars)
  BY <1>3, <1>4
<1> QED
  BY <1>5 DEF Line, all, barred

\* Up to five in a sequence.
LEMMA Few ==
  ASSUME NEW S, NEW a \in S, NEW b \in S, NEW c \in S, NEW d \in S, NEW e \in S
  PROVE  /\ << >> \in Seq(S) /\ <<a>> \in Seq(S) /\ <<a, b>> \in Seq(S)
         /\ <<a, b, c>> \in Seq(S) /\ <<a, b, c, d>> \in Seq(S)
         /\ <<a, b, c, d, e>> \in Seq(S)
  OBVIOUS

\* The dialog for an applicant, whatever it is to show.
LEMMA RegistrationType ==
  ASSUME NEW data \in Seq(Seq(Chars))
  PROVE  Registration(data) \in Seq(Chars)
<1> DEFINE T == Seq(Chars)
           value(key) == Get(data, <<key>>, 1)
<1>1. \A x \in Literals : x \in Chars /\ <<x>> \in T
  BY DEF Chars
<1>2. << >> \in T
  OBVIOUS
<1>3. \A key : value(key) \in T
  <2>1. ASSUME NEW key PROVE value(key) \in T
    <3>1. Get(data, <<key>>, 1) \in Seq(Chars \ {Bar}) \cup {Undefined}
      BY GetType
    <3>2. Undefined \in T
      BY <1>1 DEF Undefined, Literals
    <3>3. \A x \in Seq(Chars \ {Bar}) : x \in Seq(Chars)
      OBVIOUS
    <3> QED
      BY <3>1, <3>2, <3>3
  <2> QED
    BY <2>1
<1>4. ASSUME NEW x \in Chars, NEW a \in T, NEW b \in T, NEW c \in T, NEW d \in T,
             NEW e \in T
      PROVE  /\ Line(x, <<a>>) \in T /\ Line(x, <<a, b>>) \in T
             /\ Line(x, <<a, b, c, d>>) \in T /\ Line(x, <<a, b, c, d, e>>) \in T
  <2>1. /\ <<a>> \in Seq(Seq(Chars)) /\ <<a, b>> \in Seq(Seq(Chars))
        /\ <<a, b, c, d>> \in Seq(Seq(Chars))
        /\ <<a, b, c, d, e>> \in Seq(Seq(Chars))
    BY <1>4, Few
  <2> QED
    BY <2>1, LineType
<1> HIDE DEF T, value
<1>5. ASSUME NEW x \in T, NEW y \in T, NEW z \in T
      PROVE  /\ AddLabel(x) \in T /\ AddTextbox(x) \in T
             /\ AddTextInput(x, y, z) \in T /\ AddTextInputPassword(x, y, z) \in T
             /\ EndDialog(x, y, z) \in T
  <2>1. AddLabel(x) \in T
    BY <1>1, <1>2, <1>4, <1>5 DEF AddLabel, Literals
  <2>2. AddTextbox(x) \in T
    BY <1>1, <1>2, <1>4, <1>5 DEF AddTextbox, Literals
  <2>3. AddTextInput(x, y, z) \in T
    BY <1>1, <1>2, <1>4, <1>5 DEF AddTextInput, Literals
  <2>4. AddTextInputPassword(x, y, z) \in T
    BY <1>1, <1>2, <1>4, <1>5 DEF AddTextInputPassword, Literals
  <2>5. EndDialog(x, y, z) \in T
    BY <1>1, <1>2, <1>4, <1>5 DEF EndDialog, Literals
  <2> QED
    BY <2>1, <2>2, <2>3, <2>4, <2>5
<1>6. SetDefaultColor \in T /\ AddSpacer \in T
  BY <1>1, <1>2, <1>4 DEF SetDefaultColor, AddSpacer, Literals
<1>7. \A x \in T, y \in T : x \o y \in T
  BY CatIn DEF T
<1> DEFINE extra == IF value("extra_message") = << >> THEN << >>
                    ELSE AddTextbox(value("extra_message")) \o AddSpacer
<1>8. extra \in T
  BY <1>2, <1>3, <1>5, <1>6, <1>7
<1>9. /\ <<"Get a GrowID!">> \in T /\ <<"By choosing a GrowID">> \in T
      /\ <<"logon">> \in T /\ <<"Name ">> \in T
      /\ <<"Your password must contain">> \in T /\ <<"password">> \in T
      /\ <<"Password ">> \in T /\ <<"verify_password">> \in T
      /\ <<"Password Verify ">> \in T /\ <<"growid_apply">> \in T
      /\ <<"Cancel">> \in T /\ <<"Get a GrowID">> \in T
  BY <1>1 DEF Literals
<1> HIDE DEF extra
<1>10. Registration(data)
         = SetDefaultColor \o AddLabel(<<"Get a GrowID!">>) \o AddSpacer \o extra
             \o AddTextbox(<<"By choosing a GrowID">>)
             \o AddTextInput(<<"logon">>, <<"Name ">>, value("logon"))
             \o AddSpacer
             \o AddTextbox(<<"Your password must contain">>)
             \o AddTextInputPassword(<<"password">>, <<"Password ">>, value("password"))
             \o AddTextInputPassword(<<"verify_password">>, <<"Password Verify ">>,
                                     value("verify_password"))
             \o AddSpacer
             \o EndDialog(<<"growid_apply">>, <<"Cancel">>, <<"Get a GrowID">>)
  BY DEF Registration, extra, value
<1> DEFINE l1 == AddLabel(<<"Get a GrowID!">>)
           l2 == AddTextbox(<<"By choosing a GrowID">>)
           l3 == AddTextInput(<<"logon">>, <<"Name ">>, value("logon"))
           l4 == AddTextbox(<<"Your password must contain">>)
           l5 == AddTextInputPassword(<<"password">>, <<"Password ">>, value("password"))
           l6 == AddTextInputPassword(<<"verify_password">>, <<"Password Verify ">>,
                                      value("verify_password"))
           l7 == EndDialog(<<"growid_apply">>, <<"Cancel">>, <<"Get a GrowID">>)
<1>11. /\ l1 \in T /\ l2 \in T /\ l3 \in T /\ l4 \in T /\ l5 \in T /\ l6 \in T
       /\ l7 \in T
  BY <1>3, <1>5, <1>9
<1> HIDE DEF l1, l2, l3, l4, l5, l6, l7
<1>12. SetDefaultColor \o l1 \o AddSpacer \o extra \in T
  BY <1>6, <1>7, <1>8, <1>11
<1> DEFINE front == SetDefaultColor \o l1 \o AddSpacer \o extra
<1> HIDE DEF front
<1>13. front \o l2 \o l3 \o AddSpacer \o l4 \in T
  BY <1>6, <1>7, <1>11, <1>12 DEF front
<1> DEFINE middle == front \o l2 \o l3 \o AddSpacer \o l4
<1> HIDE DEF middle
<1>14. middle \o l5 \o l6 \o AddSpacer \o l7 \in T
  BY <1>6, <1>7, <1>11, <1>13 DEF middle
<1>15. Registration(data) = middle \o l5 \o l6 \o AddSpacer \o l7
  BY <1>10 DEF middle, front, l1, l2, l3, l4, l5, l6, l7
<1> QED
  BY <1>14, <1>15 DEF T

\* The lists of the answers are ones that can be packed.
LEMMA ListType ==
  ASSUME NEW vType \in Seq(Chars), NEW data \in Seq(Objects)
  PROVE  VariantListOf(vType, 0, data) \in Lists
<1> DEFINE first == [type |-> "STRING", value |-> vType]
           all == <<first>> \o data
<1>1. first \in Objects
  BY DEF Objects, Strings
<1> HIDE DEF first
<1>2. <<first>> \in Seq(Objects)
  BY <1>1
<1>3. all \in Seq(Objects)
  BY <1>2, CatIn
<1> HIDE DEF all
<1>4. [objects |-> all, executionDelay |-> 0, netId |-> -1] \in Lists
  BY <1>3 DEF Lists
<1> QED
  BY <1>4 DEF VariantListOf, all, first

\* A string as a variant.
LEMMA StringObject ==
  ASSUME NEW s \in Seq(Chars)
  PROVE  String(s) \in Objects /\ <<String(s)>> \in Seq(Objects)
<1>1. String(s) \in Objects
  BY DEF String, Objects, Strings
<1> QED
  BY <1>1

\* The list a dialog is sent as.
LEMMA DialogList ==
  ASSUME NEW data \in Seq(Seq(Chars))
  PROVE  OnDialogRequest(data) \in Lists
<1>1. Registration(data) \in Seq(Chars)
  BY RegistrationType
<1>2. <<"OnDialogRequest">> \in Seq(Chars)
  <2>1. "OnDialogRequest" \in Chars
    BY DEF Chars, Literals
  <2> QED
    BY <2>1
<1>3. <<String(Registration(data))>> \in Seq(Objects)
  BY <1>1, StringObject
<1> QED
  BY <1>2, <1>3, ListType DEF OnDialogRequest

\* The lists a registered player is sent.
LEMMA WelcomeLists ==
  ASSUME typed[1] \in Seq(Chars), typed[2] \in Seq(Chars)
  PROVE  DOMAIN Welcome = 1 .. 3 /\ \A i \in 1 .. 3 : Welcome[i] \in Lists
<1>1. \A x \in Literals : <<x>> \in Seq(Chars)
  BY DEF Chars
<1>2. ASSUME NEW s \in Seq(Chars) PROVE OnConsoleMessage(s) \in Lists
  <2>1. <<"OnConsoleMessage">> \in Seq(Chars)
    BY <1>1 DEF Literals
  <2>2. <<String(s)>> \in Seq(Objects)
    BY StringObject
  <2> QED
    BY <2>1, <2>2, ListType DEF OnConsoleMessage
<1>3. OnConsoleMessage(<<"A GrowID with the logon of ">> \o typed[1] \o <<" created">>)
        \in Lists
  <2> DEFINE a == <<"A GrowID with the logon of ">>
             b == typed[1]
             c == <<" created">>
  <2>1. a \in Seq(Chars) /\ b \in Seq(Chars) /\ c \in Seq(Chars)
    BY <1>1 DEF Literals
  <2> HIDE DEF a, b, c
  <2>2. a \o b \o c \in Seq(Chars)
    BY <2>1
  <2>3. OnConsoleMessage(a \o b \o c) \in Lists
    BY <1>2, <2>2
  <2> QED
    BY <2>3 DEF a, b, c
<1>4. OnConsoleMessage(<<"Welcome">>) \in Lists
  <2>1. <<"Welcome">> \in Seq(Chars)
    BY <1>1 DEF Literals
  <2> QED
    BY <1>2, <2>1
<1>5. SetHasGrowID(typed[1], typed[2]) \in Lists
  <2> DEFINE one == [type |-> "INT", value |-> 1]
             a == String(typed[1])
             b == String(typed[2])
  <2>1. one \in Objects
    BY DEF Objects, Integers32
  <2>2. a \in Objects /\ b \in Objects
    BY StringObject
  <2>3. <<"SetHasGrowID">> \in Seq(Chars)
    BY <1>1 DEF Literals
  <2> HIDE DEF one, a, b
  <2>4. <<one, a, b>> \in Seq(Objects)
    BY <2>1, <2>2
  <2>5. VariantListOf(<<"SetHasGrowID">>, 0, <<one, a, b>>) \in Lists
    BY <2>3, <2>4, ListType
  <2> QED
    BY <2>5 DEF SetHasGrowID, one, a, b
<1> DEFINE x == SetHasGrowID(typed[1], typed[2])
           y == OnConsoleMessage(<<"A GrowID with the logon of ">> \o typed[1]
                                   \o <<" created">>)
           z == OnConsoleMessage(<<"Welcome">>)
<1>6. Welcome = <<x, y, z>>
  BY DEF Welcome
<1>7. x \in Lists /\ y \in Lists /\ z \in Lists
  BY <1>3, <1>4, <1>5
<1> HIDE DEF x, y, z
<1> QED
  BY <1>6, <1>7

\* Three lines appended to none.
LEMMA AppendThree ==
  ASSUME NEW S, NEW a \in S, NEW b \in S, NEW c \in S
  PROVE  Append(Append(Append(<< >>, a), b), c) = <<a, b, c>>
<1> DEFINE none == << >>
           l == Append(Append(Append(none, a), b), c)
           r == <<a, b, c>>
<1>1. none \in Seq(S) /\ Len(none) = 0
  OBVIOUS
<1> HIDE DEF none
<1>2. l \in Seq(S) /\ Len(l) = 3 /\ l[1] = a /\ l[2] = b /\ l[3] = c
  BY <1>1
<1>3. r \in Seq(S) /\ Len(r) = 3 /\ r[1] = a /\ r[2] = b /\ r[3] = c
  OBVIOUS
<1> HIDE DEF l, r
<1>4. \A i \in 1 .. 3 : l[i] = r[i]
  BY <1>2, <1>3
<1>5. l = r
  BY <1>2, <1>3, <1>4, SeqEqual
<1> QED
  BY <1>5 DEF l, r, none

\* A message is copied however short it is, so its frame carries the text.
LEMMA TextFrame ==
  CarriesText(SendPacket(STextPacket(GetAsString(PlaySFX))), PlaySFX)
<1> DEFINE S == {"action", "|", "play_sfx", "file", "audio/success.wav", "delayMS",
                 "0", "\n", "\r"}
           T == S \ {NewLine, Return}
           a == <<"action", "|", "play_sfx">>
           b == <<"file", "|", "audio/success.wav">>
           c == <<"delayMS", "|", "0">>
<1>1. T = {"action", "|", "play_sfx", "file", "audio/success.wav", "delayMS", "0"}
  BY DEF NewLine, Return
<1>2. NewLine \in S /\ Return \in S
  BY DEF NewLine, Return
<1>3. a \in Seq(T) /\ b \in Seq(T) /\ c \in Seq(T) /\ a # << >> /\ b # << >> /\ c # << >>
  BY <1>1
<1>4. PlaySFX = <<a, b, c>>
  <2>1. ASSUME NEW x \in T, NEW y \in T
        PROVE  <<x>> \o <<Bar>> \o <<y>> = <<x, "|", y>>
    <3>1. "|" \in T /\ Bar = "|"
      BY <1>1 DEF Bar
    <3> HIDE DEF T
    <3> QED
      BY <2>1, <3>1, JoinThree
  <2>2. PlaySFX = Append(Append(Append(<< >>, a), b), c)
    <3>1. /\ <<"action">> \o <<Bar>> \o <<"play_sfx">> = a
          /\ <<"file">> \o <<Bar>> \o <<"audio/success.wav">> = b
          /\ <<"delayMS">> \o <<Bar>> \o <<"0">> = c
      BY <1>1, <2>1
    <3> HIDE DEF a, b, c
    <3> QED
      BY <3>1, Zenon DEF PlaySFX, Add
  <2> HIDE DEF a, b, c
  <2>3. Append(Append(Append(<< >>, a), b), c) = <<a, b, c>>
    <3> DEFINE R == {a, b, c}
    <3>1. a \in R /\ b \in R /\ c \in R
      OBVIOUS
    <3> HIDE DEF R
    <3> QED
      BY <3>1, AppendThree
  <2> QED
    BY <2>2, <2>3
<1> DEFINE data == <<a, b, c>>
<1> HIDE DEF a, b, c, T
<1>5. data \in Seq(Seq(T)) /\ \A i \in DOMAIN data : data[i] # << >>
  BY <1>3
<1> HIDE DEF data, S
<1>6. Parse(GetAsString(data)) = data
  BY <1>2, <1>5, ParseOfString DEF T
<1> DEFINE t == GetAsString(data)
           cell == Cell(Len(t), t)
           frame == SendPacket(STextPacket(t))
<1>7. frame = (<<Cell(4, "GAME_MESSAGE")>> \o <<cell>>) \o <<Cell(1, 0)>>
  <2>1. STextPacket(t).type = "GAME_MESSAGE" /\ STextPacket(t).data = <<cell>>
    BY DEF STextPacket
  <2> HIDE DEF t, cell
  <2> QED
    BY <2>1 DEF SendPacket
<1>8. cell.value = t
  BY DEF Cell
<1> HIDE DEF cell, frame, t
<1>9. frame[1] = Cell(4, "GAME_MESSAGE") /\ frame[2] = cell
  <2> DEFINE x == Cell(4, "GAME_MESSAGE")
             y == Cell(1, 0)
             R == {x, cell, y}
  <2>1. x \in R /\ cell \in R /\ y \in R
    OBVIOUS
  <2> HIDE DEF x, y, R
  <2>2. (<<x>> \o <<cell>>) \o <<y>> = <<x, cell, y>>
    BY <2>1, JoinThree
  <2>3. frame = <<x, cell, y>>
    BY <1>7, <2>2 DEF x, y
  <2> QED
    BY <2>3 DEF x
<1>10. Parse(t) = PlaySFX
  BY <1>4, <1>6 DEF t, data
<1> QED
  BY <1>4, <1>8, <1>9, <1>10 DEF CarriesText, frame, t, data

-----------------------------------------------------------------------------
(* The invariant of the answers: the fields are clean of what parsing      *)
(* splits at, the dialog is of them, and the frames are made of these.     *)

Clean == Chars \ {Bar, NewLine, Return}
Refusal(fields, message) ==
  Add(Add(Add(Add(<< >>, <<"logon">>, fields[1]), <<"password">>, fields[2]),
          <<"verify_password">>, fields[3]),
      <<"extra_message">>, message)

Typed == typed \in [1 .. 3 -> Seq(Clean)]
Fresh == at \in {"idle", "queued"} => typed = NoFields /\ dialog = << >>
Filled ==
  at \in {"send", "shown"} =>
    \/ typed = NoFields /\ dialog = << >>
    \/ \E message \in Seq(Clean) : dialog = Refusal(typed, message)
Framed ==
  /\ at = "shown" => sent = <<SendPacket(SVariantPacket(OnDialogRequest(dialog)))>>
  /\ at = "answered" =>
       sent = <<SendPacket(STextPacket(GetAsString(PlaySFX)))>>
                \o [i \in DOMAIN Welcome |-> SendPacket(SVariantPacket(Welcome[i]))]
Answering == Typed /\ Fresh /\ Filled /\ Framed

\* The lines of a refusal.
LEMMA RefusalType ==
  ASSUME NEW S, Bar \in S, "logon" \in S, "password" \in S, "verify_password" \in S,
         "extra_message" \in S, NEW fields, fields[1] \in Seq(S),
         fields[2] \in Seq(S), fields[3] \in Seq(S), NEW message \in Seq(S)
  PROVE  Refusal(fields, message) \in Seq(Seq(S))
<1>1. ASSUME NEW data \in Seq(Seq(S)), NEW key \in S, NEW value \in Seq(S)
      PROVE  Add(data, <<key>>, value) \in Seq(Seq(S))
  <2> DEFINE l == <<key>> \o <<Bar>> \o value
  <2>1. l \in Seq(S)
    OBVIOUS
  <2> HIDE DEF l
  <2>2. Append(data, l) \in Seq(Seq(S))
    BY <2>1
  <2> QED
    BY <2>2 DEF Add, l
<1> DEFINE none == << >>
           d1 == Add(none, <<"logon">>, fields[1])
           d2 == Add(d1, <<"password">>, fields[2])
           d3 == Add(d2, <<"verify_password">>, fields[3])
<1>2. none \in Seq(Seq(S))
  OBVIOUS
<1> HIDE DEF none
<1>3. d1 \in Seq(Seq(S))
  BY <1>1, <1>2
<1> HIDE DEF d1
<1>4. d2 \in Seq(Seq(S))
  BY <1>1, <1>3
<1> HIDE DEF d2
<1>5. d3 \in Seq(Seq(S))
  BY <1>1, <1>4
<1> HIDE DEF d3
<1>6. Add(d3, <<"extra_message">>, message) \in Seq(Seq(S))
  BY <1>1, <1>5
<1> QED
  BY <1>6 DEF Refusal, d3, d2, d1, none

\* What is erased is not left.
LEMMA WithoutFree ==
  ASSUME NEW S, NEW s \in Seq(S), NEW d
  PROVE  Without(s, d) \in Seq(S \ {d})
<1> DEFINE K == {s[i] : i \in DOMAIN s} \ {d}
           value == [ch \in K |-> ch]
<1>1. K \subseteq S \ {d}
  OBVIOUS
<1>2. Values(value, S \ {d})
  <2> HIDE DEF K
  <2> QED
    BY <1>1 DEF Values
<1>3. Selected(s, value) \in Seq(S \ {d})
  <2> HIDE DEF value
  <2> QED
    BY <1>2, SelectedType
<1> QED
  BY <1>3 DEF Without

\* The lines of a parsed text hold no line ends.
LEMMA ParseClean ==
  ASSUME NEW S, NEW s \in Seq(S)
  PROVE  Parse(s) \in Seq(Seq((S \ {NewLine}) \ {Return}))
<1> DEFINE lines == StringTokenize(s, NewLine)
           R == (S \ {NewLine}) \ {Return}
           w(i) == Without(lines[i], Return)
<1>1. lines \in Seq(Seq(S \ {NewLine}))
  <2>1. "tokens" \in Ways
    BY DEF Ways
  <2>2. Cut("tokens", s, NewLine) \in Seq(Seq(S \ {NewLine}))
    BY <2>1, CutFree
  <2> QED
    BY <2>2 DEF Cut
<1> HIDE DEF lines
<1>2. DOMAIN lines = 1 .. Len(lines) /\ Len(lines) \in Nat
  BY <1>1
<1>3. \A i \in 1 .. Len(lines) : w(i) \in Seq(R)
  <2>1. ASSUME NEW i \in 1 .. Len(lines) PROVE w(i) \in Seq(R)
    <3>1. lines[i] \in Seq(S \ {NewLine})
      BY <1>1, <1>2
    <3> QED
      BY <3>1, WithoutFree
  <2> QED
    BY <2>1
<1> HIDE DEF w, R
<1>4. [i \in 1 .. Len(lines) |-> w(i)] \in Seq(Seq(R))
  BY <1>2, <1>3
<1> QED
  BY <1>2, <1>4 DEF Parse, lines, w, R

\* What a handler looks up has no delimiter in it, and neither has Undefined.
LEMMA ValueClean ==
  ASSUME TextInv, at # "idle", NEW key
  PROVE  Value(key) \in Seq(Clean)
<1> DEFINE R == (Words \ {NewLine}) \ {Return}
<1>1. text \in Seq(Words) /\ parser = Parse(text)
  BY DEF TextInv, Read
<1>2. parser \in Seq(Seq(R))
  BY <1>1, ParseClean
<1>3. R \ {Bar} \subseteq Clean
  BY DEF Clean, Chars, Words
<1>4. "undefined" \in Clean
  BY DEF Clean, Chars, Literals, Bar, NewLine, Return
<1> HIDE DEF R
<1>5. Value(key) \in Seq(R \ {Bar}) \cup {Undefined}
  BY <1>2, GetType DEF Value
<1>6. Undefined \in Seq(Clean)
  BY <1>4 DEF Undefined
<1>7. \A x \in Seq(R \ {Bar}) : x \in Seq(Clean)
  BY <1>3
<1> QED
  BY <1>5, <1>6, <1>7

\* The three fields, one by one.
LEMMA TypedClean ==
  ASSUME Answering
  PROVE  /\ typed[1] \in Seq(Clean) /\ typed[2] \in Seq(Clean)
         /\ typed[3] \in Seq(Clean)
<1>1. typed \in [1 .. 3 -> Seq(Clean)]
  BY DEF Answering, Typed
<1> QED
  BY <1>1

\* A text of one word.
LEMMA OneSymbol ==
  ASSUME NEW S, NEW x \in S
  PROVE  <<x>> \in Seq(S)
  OBVIOUS

\* A text between two words.
LEMMA Quoted ==
  ASSUME NEW S, NEW x \in S, NEW y \in S, NEW name \in Seq(S)
  PROVE  <<x>> \o name \o <<y>> \in Seq(S)
<1>1. <<x>> \in Seq(S) /\ <<y>> \in Seq(S)
  BY OneSymbol
<1> QED
  BY <1>1

\* Both messages of a refusal are without delimiters, as the name is.
LEMMA MessageClean ==
  ASSUME NEW name \in Seq(Clean)
  PROVE  /\ <<"Oops!">> \in Seq(Clean)
         /\ <<"The name ">> \o name \o <<"is taken">> \in Seq(Clean)
<1>1. "Oops!" \in Clean /\ "The name " \in Clean /\ "is taken" \in Clean
  BY DEF Clean, Chars, Literals, Bar, NewLine, Return
<1>2. <<"Oops!">> \in Seq(Clean)
  BY <1>1, OneSymbol, Zenon
<1>3. <<"The name ">> \o name \o <<"is taken">> \in Seq(Clean)
  BY <1>1, Quoted, Zenon
<1> QED
  BY <1>2, <1>3

\* Every step keeps it: Refuse makes the dialog, Send and Register the frames.
LEMMA AnsweringStep ==
  ASSUME TextInv, Answering, [Next]_vars
  PROVE  Answering'
<1>1. ASSUME UNCHANGED <<typed, dialog>>,
             at' \in {"idle", "queued"} => at \in {"idle", "queued"},
             at' \in {"send", "shown"} =>
               at \in {"send", "shown"} \/ (at = "queued"),
             at' \in {"shown", "answered"} => Framed'
      PROVE  Answering'
  <2>1. Typed' /\ Fresh'
    BY <1>1 DEF Answering, Typed, Fresh
  <2>2. Filled'
    <3>1. CASE at' \in {"send", "shown"}
      <4>1. CASE at = "queued"
        BY <1>1, <4>1 DEF Answering, Fresh, Filled
      <4>2. CASE at \in {"send", "shown"}
        <5>1. \/ typed = NoFields /\ dialog = << >>
              \/ \E message \in Seq(Clean) : dialog = Refusal(typed, message)
          BY <4>2 DEF Answering, Filled
        <5>2. typed' = typed /\ dialog' = dialog
          BY <1>1
        <5> QED
          BY <5>1, <5>2 DEF Filled, Refusal
      <4> QED
        BY <1>1, <3>1, <4>1, <4>2
    <3>2. CASE at' \notin {"send", "shown"}
      BY <3>2 DEF Filled
    <3> QED
      BY <3>1, <3>2
  <2>3. Framed'
    <3>1. CASE at' \in {"shown", "answered"}
      BY <1>1, <3>1
    <3>2. CASE at' \notin {"shown", "answered"}
      BY <3>2 DEF Framed
    <3> QED
      BY <3>1, <3>2
  <2> QED
    BY <2>1, <2>2, <2>3 DEF Answering
<1>2. CASE UNCHANGED vars
  <2>1. Framed'
    BY <1>2 DEF Answering, Framed, vars, Welcome
  <2> QED
    BY <1>1, <1>2, <2>1 DEF vars
<1>3. CASE Receive
  BY <1>1, <1>3 DEF Receive
<1>4. CASE Unhandled
  BY <1>1, <1>4 DEF Unhandled
<1>5. CASE OnRequestedName
  BY <1>1, <1>5 DEF OnRequestedName, LookUp
<1>6. CASE OnAction
  BY <1>1, <1>6 DEF OnAction, LookUp
<1>7. CASE OnDialogReturn
  BY <1>1, <1>7 DEF OnDialogReturn, LookUp
<1>8. CASE ApplyAgain
  BY <1>1, <1>8 DEF ApplyAgain
<1>9. CASE Apply
  <2>1. typed' = [i \in DOMAIN Fields |-> Value(Fields[i])]
        /\ at' \in {"undefined", "refused", "accepted"} /\ at # "idle"
    BY <1>9 DEF Apply
  <2>2. \A key : Value(key) \in Seq(Clean)
    BY <2>1, ValueClean
  <2>3. DOMAIN Fields = 1 .. 3
    BY DEF Fields
  <2>4. Typed'
    BY <2>1, <2>2, <2>3 DEF Typed
  <2> QED
    BY <2>1, <2>4 DEF Answering, Fresh, Filled, Framed
<1>10. CASE Refuse
  <2>1. at' = "send" /\ typed' = typed
    BY <1>10 DEF Refuse
  <2>2. PICK message \in {<<"Oops!">>, <<"The name ">> \o typed[1] \o <<"is taken">>} :
          dialog' = Refusal(typed, message)
    BY <1>10, Zenon DEF Refuse, Refusal
  <2>3. message \in Seq(Clean)
    <3>1. typed[1] \in Seq(Clean)
      BY TypedClean
    <3>2. /\ <<"Oops!">> \in Seq(Clean)
          /\ <<"The name ">> \o typed[1] \o <<"is taken">> \in Seq(Clean)
      BY <3>1, MessageClean
    <3> QED
      BY <2>2, <3>2
  <2>4. Refusal(typed', message) = Refusal(typed, message)
    BY <2>1
  <2>5. Filled'
    BY <2>2, <2>3, <2>4 DEF Filled, Refusal
  <2>6. Typed' /\ Fresh' /\ Framed'
    BY <2>1 DEF Answering, Typed, Fresh, Framed
  <2> QED
    BY <2>5, <2>6 DEF Answering
<1>11. CASE Send
  <2>1. Framed'
    BY <1>11 DEF Send, Framed
  <2> QED
    BY <1>1, <1>11, <2>1 DEF Send
<1>12. CASE Register
  <2>1. Framed'
    BY <1>12 DEF Register, Framed, Welcome
  <2> QED
    BY <1>1, <1>12, <2>1 DEF Register
<1> QED
  BY <1>2, <1>3, <1>4, <1>5, <1>6, <1>7, <1>8, <1>9, <1>10, <1>11, <1>12 DEF Next

\* The answers are always made of what was typed, and of nothing that splits.
THEOREM AnswersSafe ==
  Spec => []Answering
<1>1. Init => Answering
  <2> SUFFICES ASSUME Init PROVE Answering
    OBVIOUS
  <2>1. typed = NoFields /\ dialog = << >> /\ at = "idle"
    BY DEF Init
  <2>2. NoFields \in [1 .. 3 -> Seq(Clean)]
    BY DEF NoFields, Fields
  <2> QED
    BY <2>1, <2>2 DEF Answering, Typed, Fresh, Filled, Framed
<1>2. TextInv /\ Answering /\ [Next]_vars => Answering'
  BY AnsweringStep
<1> QED
  BY <1>1, <1>2, TextSafe, PTL DEF Spec

-----------------------------------------------------------------------------
(* What follows from it.                                                   *)

\* Every frame of an answer, short or long, carries what the handler sent: a
\* receiver that takes it apart finds the list again, and in the header the
\* length of what follows, or the text that Parse makes the message of.
THEOREM AnswersCarried ==
  Spec => []FramesCarry
<1>1. Answering => FramesCarry
  <2> SUFFICES ASSUME Answering PROVE FramesCarry
    OBVIOUS
  <2>1. \A x \in Seq(Clean) : x \in Seq(Chars)
    BY DEF Clean
  <2>2. typed[1] \in Seq(Chars) /\ typed[2] \in Seq(Chars) /\ typed[3] \in Seq(Chars)
    BY <2>1, TypedClean
  <2>3. ASSUME at = "shown" PROVE CarriesList(sent[1], OnDialogRequest(dialog))
    <3>1. dialog \in Seq(Seq(Chars))
      <4>1. CASE dialog = << >>
        BY <4>1
      <4>2. CASE dialog # << >>
        <5>1. PICK message \in Seq(Clean) : dialog = Refusal(typed, message)
          BY <2>3, <4>2 DEF Answering, Filled
        <5>2. message \in Seq(Chars)
          BY <2>1
        <5> QED
          <6>1. /\ Bar \in Chars /\ "logon" \in Chars /\ "password" \in Chars
                /\ "verify_password" \in Chars /\ "extra_message" \in Chars
            BY DEF Chars, Literals, Bar
          <6>2. Refusal(typed, message) \in Seq(Seq(Chars))
            BY <2>2, <5>2, <6>1, RefusalType
          <6> QED
            BY <5>1, <6>2
      <4> QED
        BY <4>1, <4>2
    <3>2. OnDialogRequest(dialog) \in Lists
      BY <3>1, DialogList
    <3>3. sent[1] = SendPacket(SVariantPacket(OnDialogRequest(dialog)))
      BY <2>3 DEF Answering, Framed
    <3> QED
      BY <3>2, <3>3, ListFrame
  <2>4. ASSUME at = "answered"
        PROVE  /\ CarriesText(sent[1], PlaySFX)
               /\ \A i \in DOMAIN Welcome : CarriesList(sent[1 + i], Welcome[i])
    <3>1. DOMAIN Welcome = 1 .. 3 /\ \A i \in 1 .. 3 : Welcome[i] \in Lists
      BY <2>2, WelcomeLists
    <3> DEFINE x == SendPacket(STextPacket(GetAsString(PlaySFX)))
               w(i) == SendPacket(SVariantPacket(Welcome[i]))
    <3>2. sent = <<x>> \o [i \in 1 .. 3 |-> w(i)]
      BY <2>4, <3>1 DEF Answering, Framed
    <3>3. \A i \in 1 .. 3 : CarriesList(w(i), Welcome[i])
      BY <3>1, ListFrame
    <3>4. CarriesText(x, PlaySFX)
      BY TextFrame
    <3> HIDE DEF x, w
    <3>5. sent[1] = x /\ \A i \in 1 .. 3 : sent[1 + i] = w(i)
      <4> DEFINE R == {x} \cup {w(i) : i \in 1 .. 3}
                 a == <<x>>
                 b == [i \in 1 .. 3 |-> w(i)]
      <4>1. a \in Seq(R) /\ b \in Seq(R) /\ Len(a) = 1 /\ Len(b) = 3 /\ a[1] = x
            /\ \A i \in 1 .. 3 : b[i] = w(i)
        OBVIOUS
      <4> HIDE DEF a, b, R
      <4>2. Starts(a, a \o b)
        BY <4>1, CatIs, Zenon
      <4>3. EndsIn(a \o b, a, b)
        BY <4>1, CatIs, Zenon
      <4>4. sent = a \o b
        BY <3>2 DEF a, b
      <4>5. sent[1] = x
        BY <4>1, <4>2, <4>4 DEF Starts
      <4>6. \A i \in 1 .. 3 : sent[1 + i] = w(i)
        BY <4>1, <4>3, <4>4 DEF EndsIn
      <4> QED
        BY <4>5, <4>6
    <3>6. \A i \in 1 .. 3 : CarriesList(sent[1 + i], Welcome[i])
      BY <3>3, <3>5
    <3> QED
      BY <3>1, <3>4, <3>5, <3>6
  <2> QED
    BY <2>3, <2>4 DEF FramesCarry
<1> QED
  BY <1>1, AnswersSafe, PTL

-----------------------------------------------------------------------------
(* What a client reads in a dialog.                                        *)

\* The rows of fields in a text, and those of its input lines.
Row == Seq(Seq(Chars))
Rows(t) == [i \in DOMAIN Split(t, NewLine) |-> Split(Split(t, NewLine)[i], Bar)]
Inputting == {<<"add_text_input">>, <<"add_text_input_password">>}
AllInputs == [row \in {r \in Row : r[1] \in Inputting} |-> row]
Told(t) == Selected(Rows(t), AllInputs)

\* What is chosen stands for itself.
LEMMA InputsAre ==
  Values(AllInputs, Row) /\ DOMAIN AllInputs = {r \in Row : r[1] \in Inputting}
    /\ \A r \in DOMAIN AllInputs : AllInputs[r] = r
  BY DEF Values, AllInputs

\* A field is a part of a line, a line a part of the text.
LEMMA RowsType ==
  ASSUME NEW t \in Seq(Chars)
  PROVE  /\ Split(t, NewLine) \in Row
         /\ Rows(t) \in Seq(Row) /\ Len(Rows(t)) = Len(Split(t, NewLine))
<1> DEFINE lines == Split(t, NewLine)
           row(i) == Split(lines[i], Bar)
<1>0. ASSUME NEW u \in Seq(Chars), NEW d PROVE Split(u, d) \in Row
  <2>1. "fields" \in Ways
    BY DEF Ways
  <2>2. Cut("fields", u, d) \in Seq(Seq(Chars \ {d}))
    BY <2>1, CutFree
  <2>3. \A x \in Seq(Chars \ {d}) : x \in Seq(Chars)
    OBVIOUS
  <2>4. Cut("fields", u, d) \in Seq(Seq(Chars))
    BY <2>2, <2>3
  <2> QED
    BY <2>4 DEF Cut, Row
<1>1. lines \in Row
  BY <1>0
<1>2. ASSUME NEW i \in 1 .. Len(lines) PROVE row(i) \in Row
  <2>1. lines[i] \in Seq(Chars)
    BY <1>1 DEF Row
  <2> QED
    BY <1>0, <2>1
<1>3. DOMAIN lines = 1 .. Len(lines) /\ Len(lines) \in Nat
  BY <1>1 DEF Row
<1> HIDE DEF row, lines
<1>4. [i \in 1 .. Len(lines) |-> row(i)] \in Seq(Row)
      /\ Len([i \in 1 .. Len(lines) |-> row(i)]) = Len(lines)
  BY <1>2, <1>3
<1>5. Rows(t) = [i \in 1 .. Len(lines) |-> row(i)]
  BY <1>3 DEF Rows, lines, row
<1> QED
  BY <1>1, <1>4, <1>5 DEF lines

\* What a client reads, by the fixed choice.
LEMMA InputsTold ==
  ASSUME NEW t \in Seq(Chars)
  PROVE  Inputs(t) = Told(t)
<1> DEFINE rows == Rows(t)
           chosen == {row \in ToSet(rows) : row[1] \in Inputting}
           value == [row \in chosen |-> row]
<1>1. Inputs(t) = Selected(rows, value)
  BY DEF Inputs, Rows, Inputting
<1>2. rows \in Seq(Row)
  BY RowsType
<1> HIDE DEF rows
<1>3. \A i \in 1 .. Len(rows) : rows[i] \in Row /\ rows[i] \in ToSet(rows)
  BY <1>2 DEF ToSet
<1>4. ToSet(rows) \subseteq Row
  BY <1>2 DEF ToSet
<1>5. Values(value, Row)
  BY <1>4 DEF Values
<1>6. DOMAIN value = chosen /\ \A r \in chosen : value[r] = r
  OBVIOUS
<1>7. SameValues(rows, value, AllInputs)
  <2> HIDE DEF value
  <2>1. ASSUME NEW i \in 1 .. Len(rows)
        PROVE  /\ rows[i] \in chosen <=> rows[i] \in DOMAIN AllInputs
               /\ rows[i] \in chosen => value[rows[i]] = AllInputs[rows[i]]
    <3>1. rows[i] \in chosen <=> rows[i][1] \in Inputting
      BY <1>3
    <3>2. rows[i] \in DOMAIN AllInputs <=> rows[i][1] \in Inputting
      BY <1>3, InputsAre
    <3> QED
      BY <1>6, <3>1, <3>2, InputsAre
  <2> QED
    BY <1>6, <2>1 DEF SameValues
<1> HIDE DEF value
<1>8. Selected(rows, value) = Selected(rows, AllInputs)
  BY <1>2, <1>5, <1>7, InputsAre, SelectedSame
<1> QED
  BY <1>1, <1>8 DEF Told, rows

\* A text that goes on with a line has one row more.
LEMMA RowsLine ==
  ASSUME NEW t \in Seq(Chars), NEW l \in Seq(Chars \ {NewLine})
  PROVE  Rows((t \o <<NewLine>>) \o l) = Append(Rows(t), Split(l, Bar))
<1> DEFINE all == (t \o <<NewLine>>) \o l
           a == Split(t, NewLine)
           b == Split(all, NewLine)
           n == Len(a)
<1>1. NewLine \in Chars /\ "fields" \in Ways /\ l \in Seq(Chars)
  <2>1. l \in Seq(Chars)
    OBVIOUS
  <2> QED
    BY <2>1 DEF NewLine, Chars, Literals, Ways
<1>2. Cut("fields", all, NewLine)
        = Cut("fields", t, NewLine) \o Cut("fields", l, NewLine)
  <2>1. Joins("fields", t, l, NewLine)
    BY <1>1, CutJoins
  <2> QED
    BY <2>1 DEF Joins
<1>3. Cut("fields", l, NewLine) = <<l>>
  BY <1>1, CutNone
<1>4. b = a \o <<l>>
  BY <1>2, <1>3 DEF Cut
<1>5. a \in Row /\ Rows(t) \in Seq(Row) /\ Len(Rows(t)) = n
  BY RowsType
<1>6. all \in Seq(Chars)
  BY <1>1
<1> HIDE DEF all
<1>7. Split(l, Bar) \in Row
  <2>1. Cut("fields", l, Bar) \in Seq(Seq(Chars \ {Bar}))
    BY <1>1, CutFree
  <2>2. \A x \in Seq(Chars \ {Bar}) : x \in Seq(Chars)
    OBVIOUS
  <2>3. Cut("fields", l, Bar) \in Seq(Seq(Chars))
    BY <2>1, <2>2
  <2> QED
    BY <2>3 DEF Cut, Row
<1>8. Rows(all) \in Seq(Row) /\ Len(Rows(all)) = Len(b) /\ b \in Row
  BY <1>6, RowsType
<1>9. \A i \in 1 .. Len(b) : Rows(all)[i] = Split(b[i], Bar)
  BY <1>8 DEF Rows, Row
<1>10. \A i \in 1 .. n : Rows(t)[i] = Split(a[i], Bar)
  BY <1>5 DEF Rows, Row
<1> HIDE DEF a, b, n
<1>11. Len(b) = n + 1 /\ n \in Nat /\ b[n + 1] = l /\ \A i \in 1 .. n : b[i] = a[i]
  BY <1>1, <1>4, <1>5 DEF Row, n
<1> DEFINE r == Append(Rows(t), Split(l, Bar))
<1>12. /\ r \in Seq(Row) /\ Len(r) = n + 1 /\ r[n + 1] = Split(l, Bar)
       /\ \A i \in 1 .. n : r[i] = Rows(t)[i]
  BY <1>5, <1>7
<1> HIDE DEF r
<1>13. ASSUME NEW i \in 1 .. n + 1 PROVE Rows(all)[i] = r[i]
  <2>1. i \in 1 .. Len(b)
    BY <1>11
  <2>2. CASE i = n + 1
    BY <1>9, <1>11, <1>12, <2>1, <2>2
  <2>3. CASE i # n + 1
    <3>1. i \in 1 .. n
      BY <1>11, <2>3
    <3> QED
      BY <1>9, <1>10, <1>11, <1>12, <2>1, <3>1
  <2> QED
    BY <2>2, <2>3
<1>14. Rows(all) = r
  BY <1>8, <1>11, <1>12, <1>13, SeqEqual
<1> QED
  BY <1>14 DEF all, r

\* One behind the last of a sequence that starts another.
LEMMA OneMore ==
  ASSUME NEW S, NEW s \in Seq(S), NEW x \in S, NEW i \in 1 .. Len(s)
  PROVE  (<<x>> \o SubSeq(s, 1, i - 1)) \o <<s[i]>> = <<x>> \o SubSeq(s, 1, i)
<1> DEFINE u == SubSeq(s, 1, i - 1)
           w == SubSeq(s, 1, i)
           a == <<x>>
           e == s[i]
           c == <<e>>
<1>1. i \in 1 .. Len(s) /\ 1 \in 1 .. Len(s) /\ e \in S
  OBVIOUS
<1>2. u \in Seq(S) /\ w = Append(u, e)
  OBVIOUS
<1>3. a \in Seq(S) /\ c \in Seq(S)
  BY <1>1
<1> HIDE DEF u, w, a, e
<1>4. Append(u, e) = u \o c
  BY <1>1, <1>2
<1> HIDE DEF c
<1>5. Associate(a, u, c)
  BY <1>2, <1>3, CatAssociates
<1> QED
  BY <1>2, <1>4, <1>5 DEF Associate, u, w, a, c, e

\* What FlattenSeq joins in a line of DialogBuilder.
Barred(fields) == [i \in DOMAIN fields |-> <<Bar>> \o fields[i]]

\* The fields of a line, each behind a bar.
LEMMA BarredType ==
  ASSUME NEW S, Bar \in S, NEW fields \in Seq(Seq(S))
  PROVE  /\ Barred(fields) \in Seq(Seq(S)) /\ Len(Barred(fields)) = Len(fields)
         /\ \A i \in 1 .. Len(fields) : Barred(fields)[i] = <<Bar>> \o fields[i]
<1> DEFINE w(i) == <<Bar>> \o fields[i]
<1>1. ASSUME NEW i \in 1 .. Len(fields) PROVE w(i) \in Seq(S)
  OBVIOUS
<1>2. DOMAIN fields = 1 .. Len(fields) /\ Len(fields) \in Nat
  OBVIOUS
<1> HIDE DEF w
<1> DEFINE b == [i \in 1 .. Len(fields) |-> w(i)]
<1>3. /\ b \in Seq(Seq(S)) /\ Len(b) = Len(fields)
      /\ \A i \in 1 .. Len(fields) : b[i] = w(i)
  BY <1>1, <1>2
<1>4. Barred(fields) = b
  BY <1>2 DEF Barred, w
<1> HIDE DEF b
<1> QED
  BY <1>3, <1>4 DEF w

\* Cut at its bars such a line gives back its name and its fields.
LEMMA LineFields ==
  ASSUME NEW S, Bar \in S, NEW name \in S, name # Bar,
         NEW fields \in Seq(Seq(S \ {Bar}))
  PROVE  /\ <<name>> \o FlattenSeq(Barred(fields)) \in Seq(S)
         /\ Split(<<name>> \o FlattenSeq(Barred(fields)), Bar)
              = << <<name>> >> \o fields
<1> DEFINE F == S \ {Bar}
           n == Len(fields)
           seqs == Barred(fields)
           head == <<name>>
           bar == <<Bar>>
<1>1. /\ name \in F /\ head \in Seq(S) /\ head \in Seq(F) /\ bar \in Seq(S)
      /\ "fields" \in Ways
  BY DEF Ways
<1>2. \A i \in 1 .. n : fields[i] \in Seq(F) /\ fields[i] \in Seq(S)
  <2>1. ASSUME NEW i \in 1 .. n PROVE fields[i] \in Seq(F) /\ fields[i] \in Seq(S)
    <3>1. fields[i] \in Seq(F)
      OBVIOUS
    <3> QED
      BY <3>1
  <2> QED
    BY <2>1
<1>3. n \in Nat /\ 0 \in 0 .. n /\ n \in 0 .. n /\ fields \in Seq(Seq(S))
  <2>1. fields \in Seq(Seq(S))
    BY <1>2
  <2> QED
    BY <2>1
<1>4. /\ seqs \in Seq(Seq(S)) /\ Len(seqs) = n
      /\ \A i \in 1 .. n : seqs[i] = bar \o fields[i]
  BY <1>3, BarredType
<1> HIDE DEF seqs
<1>5. PICK f \in [0 .. Len(seqs) -> Seq(S)] : FlattensUp(f, seqs)
  BY <1>4, FlattenUpBy, Zenon
<1>6. /\ f[0] = << >> /\ FlattenSeq(seqs) = f[n]
      /\ \A i \in 1 .. n : f[i] = f[i - 1] \o (bar \o fields[i])
      /\ \A i \in 0 .. n : f[i] \in Seq(S)
  BY <1>4, <1>5 DEF FlattensUp
<1> HIDE DEF n, bar
<1> DEFINE line(i) == head \o f[i]
           upTo(i) == <<head>> \o SubSeq(fields, 1, i)
           T == {i \in 0 .. n : Split(line(i), Bar) = upTo(i)}
<1>7. 0 \in T
  <2>1. line(0) = head
    BY <1>1, <1>6
  <2>2. upTo(0) = <<head>>
    <3>1. SubSeq(fields, 1, 0) = << >>
      BY <1>3
    <3> HIDE DEF head
    <3> QED
      BY <1>1, <3>1
  <2>3. Cut("fields", head, Bar) = <<head>>
    <3> HIDE DEF head, F
    <3>1. head \in Seq(S \ {Bar})
      BY <1>1 DEF F
    <3> QED
      BY <1>1, <3>1, CutNone
  <2> HIDE DEF line, upTo
  <2> QED
    BY <1>3, <2>1, <2>2, <2>3 DEF Cut
<1>8. ASSUME NEW i \in 1 .. n, i - 1 \in T PROVE i \in T
  <2> DEFINE p == line(i - 1)
             v == fields[i]
  <2>1. i - 1 \in 0 .. n /\ i \in 0 .. n
    BY <1>3
  <2>2. f[i - 1] \in Seq(S) /\ v \in Seq(S) /\ v \in Seq(F)
        /\ f[i] = f[i - 1] \o (bar \o v)
    BY <1>2, <1>6, <2>1
  <2>3. bar \in Seq(S) /\ head \in Seq(S)
    BY <1>1 DEF bar
  <2> HIDE DEF v, head
  <2>4. p \in Seq(S)
    BY <2>2, <2>3
  <2>5. line(i) = (p \o bar) \o v
    <3>1. bar \o v \in Seq(S)
      BY <2>2, <2>3, CatIn
    <3>2. Associate(head, f[i - 1], bar \o v)
      BY <2>2, <2>3, <3>1, CatAssociates
    <3>3. Associate(p, bar, v)
      BY <2>2, <2>3, <2>4, CatAssociates
    <3> QED
      BY <2>2, <3>2, <3>3 DEF Associate
  <2> HIDE DEF line
  <2>6. Split(line(i), Bar) = Split(p, Bar) \o <<v>>
    <3>1. Joins("fields", p, v, Bar)
      BY <1>1, <2>2, <2>4, CutJoins
    <3>2. Cut("fields", v, Bar) = <<v>>
      BY <1>1, <2>2, CutNone
    <3> HIDE DEF p
    <3> QED
      BY <2>5, <3>1, <3>2 DEF Joins, Cut, bar
  <2>7. Split(p, Bar) = upTo(i - 1)
    BY <1>8
  <2>8. upTo(i - 1) \o <<v>> = upTo(i)
    <3>1. head \in Seq(F) /\ i \in 1 .. Len(fields)
      BY <1>1 DEF n
    <3>2. (<<head>> \o SubSeq(fields, 1, i - 1)) \o <<fields[i]>>
            = <<head>> \o SubSeq(fields, 1, i)
      <4> HIDE DEF F
      <4>1. fields \in Seq(Seq(F))
        BY DEF F
      <4> QED
        BY <3>1, <4>1, OneMore
    <3> QED
      BY <3>2 DEF v
  <2> HIDE DEF upTo
  <2> QED
    BY <2>1, <2>6, <2>7, <2>8
<1>9. n \in T
  <2>1. 0 .. n \subseteq T
    <3> HIDE DEF T
    <3> QED
      BY <1>3, <1>7, <1>8, Rises
  <2> QED
    BY <1>3, <2>1
<1>10. SubSeq(fields, 1, n) = fields
  BY DEF n
<1>11. Split(head \o f[n], Bar) = <<head>> \o fields
  BY <1>9, <1>10
<1>12. head \o f[n] \in Seq(S)
  BY <1>1, <1>3, <1>6, CatIn
<1> QED
  BY <1>6, <1>11, <1>12 DEF seqs, head

\* A line of the dialog is one row more for the client.
LEMMA LineRow ==
  ASSUME NEW t \in Seq(Chars), NEW name \in Clean, NEW fields \in Seq(Seq(Clean))
  PROVE  /\ t \o Line(name, fields) \in Seq(Chars)
         /\ << <<name>> >> \o fields \in Row
         /\ Rows(t \o Line(name, fields)) = Append(Rows(t), << <<name>> >> \o fields)
<1> DEFINE S == Chars \ {NewLine}
           flat == FlattenSeq(Barred(fields))
           head == <<name>>
           new == <<NewLine>>
           l == head \o flat
           row == <<head>> \o fields
<1>1. Bar \in S /\ name \in S /\ name # Bar /\ name \in Chars /\ NewLine \in Chars
  BY DEF Clean, Bar, NewLine, Chars, Literals
<1>2. S \ {Bar} \subseteq Chars /\ Clean \subseteq S \ {Bar} /\ S \subseteq Chars
  BY DEF Clean
<1>3. fields \in Seq(Seq(S \ {Bar}))
  <2> HIDE DEF S
  <2>1. \A x \in Seq(Clean) : x \in Seq(S \ {Bar})
    BY <1>2
  <2> QED
    BY <2>1
<1>4. l \in Seq(S) /\ Split(l, Bar) = row
  <2> HIDE DEF S
  <2> QED
    BY <1>1, <1>3, LineFields
<1>5. flat \in Seq(S)
  <2>1. \A x \in Seq(S \ {Bar}) : x \in Seq(S)
    BY <1>2
  <2>2. fields \in Seq(Seq(S))
    <3> HIDE DEF S
    <3> QED
      BY <1>3, <2>1
  <2> HIDE DEF S
  <2>3. Barred(fields) \in Seq(Seq(S))
    BY <1>1, <2>2, BarredType
  <2>4. PICK f \in [0 .. Len(Barred(fields)) -> Seq(S)] : FlattensUp(f, Barred(fields))
    BY <2>3, FlattenUpBy, Zenon
  <2>5. Len(Barred(fields)) \in 0 .. Len(Barred(fields))
    BY <2>3
  <2> QED
    BY <2>4, <2>5 DEF FlattensUp
<1>6. Line(name, fields) = <<NewLine, name>> \o flat
  BY DEF Line, Barred
<1>7. head \in Seq(Chars) /\ new \in Seq(Chars) /\ new \o head = <<NewLine, name>>
  BY <1>1, JoinTwo
<1>8. \A x \in Seq(S) : x \in Seq(Chars)
  BY <1>2
<1>9. row \in Row
  <2>1. \A x \in Seq(Clean) : x \in Seq(Chars)
    BY DEF Clean
  <2>2. fields \in Seq(Seq(Chars))
    BY <2>1
  <2> HIDE DEF head
  <2> QED
    BY <1>7, <2>2 DEF Row
<1> HIDE DEF S, flat, new, row
<1>10. Line(name, fields) = new \o l
  <2> HIDE DEF head
  <2>1. Associate(new, head, flat)
    BY <1>5, <1>7, <1>8, CatAssociates
  <2> QED
    BY <1>6, <1>7, <2>1 DEF Associate
<1> HIDE DEF l
<1>11. t \o Line(name, fields) = (t \o new) \o l
  <2>1. Associate(t, new, l)
    BY <1>4, <1>7, <1>8, CatAssociates
  <2> QED
    BY <1>10, <2>1 DEF Associate
<1>12. (t \o new) \o l \in Seq(Chars)
  BY <1>4, <1>7, <1>8
<1>13. Rows((t \o new) \o l) = Append(Rows(t), Split(l, Bar))
  BY <1>4, RowsLine DEF S, new
<1>14. Rows(t \o Line(name, fields)) = Append(Rows(t), row)
  BY <1>4, <1>11, <1>13
<1> QED
  BY <1>9, <1>11, <1>12, <1>14 DEF row, head

\* What the lines of a dialog so far tell.
Tells(t, told) == t \in Seq(Chars) /\ Told(t) = told

\* A field without the delimiter is the only one.
LEMMA OneField ==
  ASSUME NEW S, NEW d, NEW s \in Seq(S \ {d})
  PROVE  Cut("fields", s, d) = <<s>>
<1>1. "fields" \in Ways
  BY DEF Ways
<1> QED
  BY <1>1, CutNone

\* An empty text has one row, of an empty field, which tells nothing.
LEMMA NothingTold == Tells(<< >>, << >>)
<1> DEFINE none == << >>
           row == <<none>>
<1>1. /\ none \in Seq(Chars) /\ none \in Seq(Chars \ {NewLine})
      /\ none \in Seq(Chars \ {Bar}) /\ none \in Seq(Row) /\ none # <<"add_text_input">>
      /\ none # <<"add_text_input_password">> /\ "fields" \in Ways
  BY DEF Ways
<1> HIDE DEF none
<1>2. Cut("fields", none, NewLine) = row /\ Cut("fields", none, Bar) = row
  <2>1. ASSUME NEW d, none \in Seq(Chars \ {d}) PROVE Cut("fields", none, d) = row
    <3> HIDE DEF row
    <3>1. Cut("fields", none, d) = <<none>>
      BY <2>1, OneField, Zenon
    <3> QED
      BY <3>1 DEF row
  <2> QED
    BY <1>1, <2>1
<1>3. row \in Row /\ row[1] = none /\ DOMAIN row = 1 .. 1
  BY <1>1 DEF Row
<1>4. row \notin DOMAIN AllInputs
  BY <1>1, <1>3, InputsAre DEF Inputting
<1>5. Rows(none) = <<row>>
  <2>1. Split(none, NewLine) = row /\ Split(none, Bar) = row
    BY <1>2 DEF Cut
  <2>2. Rows(none) = [i \in 1 .. 1 |-> Split(row[i], Bar)]
    BY <1>3, <2>1 DEF Rows
  <2>3. \A i \in 1 .. 1 : Split(row[i], Bar) = row
    BY <1>3, <2>1
  <2> HIDE DEF row
  <2>4. [i \in 1 .. 1 |-> row] = <<row>>
    OBVIOUS
  <2> QED
    BY <2>2, <2>3, <2>4
<1> HIDE DEF row
<1>6. Append(<< >>, row) = <<row>> /\ << >> \in Seq(Row)
  BY <1>3
<1>7. Selected(Append(<< >>, row), AllInputs) = Selected(<< >>, AllInputs)
  <2> DEFINE e == << >>
  <2>1. e \in Seq(Row)
    OBVIOUS
  <2> HIDE DEF e
  <2>2. Selected(Append(e, row), AllInputs) = Selected(e, AllInputs)
    BY <1>3, <1>4, <2>1, InputsAre, SelectedSkips
  <2> QED
    BY <2>2 DEF e
<1>8. Selected(<< >>, AllInputs) = << >>
  BY InputsAre, SelectedEmpty, Zenon
<1>9. Told(none) = << >>
  BY <1>5, <1>6, <1>7, <1>8 DEF Told
<1> QED
  BY <1>1, <1>9 DEF Tells, none

\* A line that asks for nothing.
LEMMA OtherLine ==
  ASSUME NEW t, NEW told, Tells(t, told), NEW name \in Clean,
         name \notin {"add_text_input", "add_text_input_password"},
         NEW fields \in Seq(Seq(Clean))
  PROVE  Tells(t \o Line(name, fields), told)
<1> DEFINE row == << <<name>> >> \o fields
           u == t \o Line(name, fields)
<1>1. t \in Seq(Chars) /\ Told(t) = told
  BY DEF Tells
<1>2. u \in Seq(Chars) /\ row \in Row /\ Rows(u) = Append(Rows(t), row)
  BY <1>1, LineRow
<1>3. row[1] = <<name>>
  <2> DEFINE h == <<name>>
  <2>1. fields \in Seq(Seq(Clean)) /\ h \in Seq(Clean)
    OBVIOUS
  <2> HIDE DEF h
  <2>2. (<<h>> \o fields)[1] = h
    BY <2>1
  <2> QED
    BY <2>2 DEF h
<1> HIDE DEF row, u
<1>4. row \notin DOMAIN AllInputs
  BY <1>2, <1>3, InputsAre DEF Inputting
<1>5. Rows(t) \in Seq(Row)
  BY <1>1, RowsType
<1>6. Selected(Append(Rows(t), row), AllInputs) = Selected(Rows(t), AllInputs)
  BY <1>2, <1>4, <1>5, InputsAre, SelectedSkips
<1>7. Told(u) = told
  BY <1>1, <1>2, <1>6 DEF Told
<1> QED
  BY <1>2, <1>7 DEF Tells, u

\* A line that asks for something is one input more.
LEMMA InputLine ==
  ASSUME NEW t, NEW told, Tells(t, told), NEW name \in Clean,
         name \in {"add_text_input", "add_text_input_password"},
         NEW fields \in Seq(Seq(Clean))
  PROVE  Tells(t \o Line(name, fields), Append(told, << <<name>> >> \o fields))
<1> DEFINE row == << <<name>> >> \o fields
           u == t \o Line(name, fields)
<1>1. t \in Seq(Chars) /\ Told(t) = told
  BY DEF Tells
<1>2. u \in Seq(Chars) /\ row \in Row /\ Rows(u) = Append(Rows(t), row)
  BY <1>1, LineRow
<1>3. row[1] = <<name>>
  <2> DEFINE h == <<name>>
  <2>1. fields \in Seq(Seq(Clean)) /\ h \in Seq(Clean)
    OBVIOUS
  <2> HIDE DEF h
  <2>2. (<<h>> \o fields)[1] = h
    BY <2>1
  <2> QED
    BY <2>2 DEF h
<1> HIDE DEF row, u
<1>4. row \in DOMAIN AllInputs /\ AllInputs[row] = row
  BY <1>2, <1>3, InputsAre DEF Inputting
<1>5. Rows(t) \in Seq(Row)
  BY <1>1, RowsType
<1>6. Selected(Append(Rows(t), row), AllInputs)
        = Append(Selected(Rows(t), AllInputs), AllInputs[row])
  BY <1>2, <1>4, <1>5, InputsAre, SelectedKeeps
<1>7. Told(u) = Append(told, row)
  BY <1>1, <1>2, <1>4, <1>6 DEF Told
<1> QED
  BY <1>2, <1>7 DEF Tells, u, row

-----------------------------------------------------------------------------
(* What a dialog is made of.                                               *)

\* The tokens of a key|value line.
Holding(u, key, value) ==
  /\ Len(u) \in Nat /\ Len(u) >= 1 /\ u[1] = <<key>>
  /\ Len(u) < 2 => value = << >>
  /\ Len(u) >= 2 => u[2] = value

\* A key|value line has its key as first token, and its value behind it.
LEMMA LineTokens ==
  ASSUME NEW key \in Clean, NEW value \in Seq(Clean)
  PROVE  Holding(StringTokenize(<<key>> \o <<Bar>> \o value, Bar), key, value)
<1> DEFINE head == <<key>>
           all == (head \o <<Bar>>) \o value
           S == Clean \cup {Bar}
           u == StringTokenize(all, Bar)
<1>1. head \in Seq(Clean) /\ head # << >> /\ "tokens" \in Ways
  BY DEF Ways
<1>2. S \ {Bar} = Clean /\ Bar \in S /\ Clean \subseteq S
  BY DEF Clean
<1> HIDE DEF S, head
<1>3. head \in Seq(S \ {Bar}) /\ value \in Seq(S \ {Bar})
  BY <1>1, <1>2
<1>4. head \in Seq(S) /\ value \in Seq(S)
  BY <1>1, <1>2
<1>5. Cut("tokens", all, Bar) = Cut("tokens", head, Bar) \o Cut("tokens", value, Bar)
  <2>1. Joins("tokens", head, value, Bar)
    BY <1>1, <1>2, <1>4, CutJoins
  <2> QED
    BY <2>1 DEF Joins
<1>6. Cut("tokens", head, Bar) = <<head>>
  BY <1>1, <1>3, CutNone
<1>7. u = <<head>> \o Cut("tokens", value, Bar)
  BY <1>5, <1>6 DEF Cut
<1> HIDE DEF all, u
<1>8. CASE value = << >>
  <2>1. Cut("tokens", value, Bar) = << >>
    BY <1>1, <1>3, <1>8, CutNone
  <2>2. <<head>> \o << >> = <<head>>
    BY <1>1
  <2>3. u = <<head>>
    BY <1>7, <2>1, <2>2
  <2> QED
    BY <1>8, <2>3 DEF Holding, head, u, all
<1>9. CASE value # << >>
  <2>1. Cut("tokens", value, Bar) = <<value>>
    BY <1>1, <1>3, <1>9, CutNone
  <2>2. <<head>> \o <<value>> = <<head, value>>
    BY <1>4, JoinTwo
  <2>3. u = <<head, value>>
    BY <1>7, <2>1, <2>2
  <2>4. Len(u) = 2 /\ u[1] = head /\ u[2] = value
    BY <2>3
  <2> QED
    BY <2>4 DEF Holding, head, u, all
<1> QED
  BY <1>8, <1>9

\* Lines with these keys and values.
Keyed(data, k, v) ==
  \A i \in 1 .. Len(data) : /\ k[i] \in Clean /\ v[i] \in Seq(Clean)
                            /\ data[i] = <<k[i]>> \o <<Bar>> \o v[i]

New(k, j) == \A i \in 1 .. j - 1 : k[i] # k[j]

\* The value of the first line with a key is found by it.
LEMMA GetKeyed ==
  ASSUME NEW data \in Seq(Seq(Chars)), NEW k, NEW v, Keyed(data, k, v),
         NEW j \in 1 .. Len(data), New(k, j)
  PROVE  Get(data, <<k[j]>>, 1) = v[j]
<1> DEFINE key == <<k[j]>>
           tokens == [i \in DOMAIN data |-> StringTokenize(data[i], Bar)]
           stops == {i \in DOMAIN data :
                       data[i] # << >> /\ (tokens[i] = << >> \/ tokens[i][1] = key)}
           line == CHOOSE i \in stops : \A m \in stops : i <= m
<1>1. Get(data, key, 1)
        = IF stops = {} THEN << >>
          ELSE IF tokens[line] = << >> THEN Undefined
          ELSE IF 1 >= Len(tokens[line]) THEN << >>
          ELSE tokens[line][1 + 1]
  BY DEF Get
<1>2. DOMAIN data = 1 .. Len(data) /\ Len(data) \in Nat
  OBVIOUS
<1>3. ASSUME NEW i \in 1 .. Len(data)
      PROVE  Holding(tokens[i], k[i], v[i]) /\ data[i] # << >>
  <2>1. k[i] \in Clean /\ v[i] \in Seq(Clean) /\ data[i] = <<k[i]>> \o <<Bar>> \o v[i]
    BY DEF Keyed
  <2>2. tokens[i] = StringTokenize(<<k[i]>> \o <<Bar>> \o v[i], Bar)
    BY <1>2, <2>1
  <2>3. Holding(StringTokenize(<<k[i]>> \o <<Bar>> \o v[i], Bar), k[i], v[i])
    BY <2>1, LineTokens
  <2>4. data[i] # << >>
    <3> DEFINE a == <<k[i]>>
               b == <<Bar>>
               c == v[i]
               S == Clean \cup {Bar}
    <3>1. a \in Seq(S) /\ b \in Seq(S) /\ c \in Seq(S) /\ Len(a) = 1
      <4>1. Clean \subseteq S
        OBVIOUS
      <4> HIDE DEF S
      <4>2. c \in Seq(S)
        BY <2>1, <4>1
      <4>3. k[i] \in S /\ Bar \in S
        BY <2>1 DEF S
      <4> QED
        BY <4>2, <4>3
    <3> HIDE DEF a, b, c
    <3> DEFINE x == a \o b
    <3> HIDE DEF S
    <3>5. x \in Seq(S) /\ Len(x) = Len(a) + Len(b) /\ Len(b) \in Nat
      BY <3>1, CatIs
    <3> HIDE DEF x
    <3>2. x \in Seq(S) /\ Len(x) \in Nat /\ Len(x) >= 1
      BY <3>1, <3>5
    <3>3. Len(x \o c) = Len(x) + Len(c) /\ Len(c) \in Nat /\ Len(x \o c) >= 1
      BY <3>1, <3>2
    <3>4. x \o c # << >>
      BY <3>3
    <3> QED
      BY <2>1, <3>4 DEF x, a, b, c
  <2> QED
    BY <2>2, <2>3, <2>4
<1>4. ASSUME NEW i \in 1 .. Len(data) PROVE i \in stops <=> k[i] = k[j]
  <2>1. data[i] # << >> /\ tokens[i] # << >> /\ tokens[i][1] = <<k[i]>>
    <3> DEFINE u == tokens[i]
    <3>1. Holding(u, k[i], v[i]) /\ data[i] # << >>
      BY <1>3
    <3> HIDE DEF u
    <3>2. u # << >> /\ u[1] = <<k[i]>>
      BY <3>1 DEF Holding
    <3> QED
      BY <3>1, <3>2 DEF u
  <2>2. i \in stops <=> tokens[i][1] = key
    BY <1>2, <2>1
  <2>3. <<k[i]>> = <<k[j]>> <=> k[i] = k[j]
    OBVIOUS
  <2> QED
    BY <2>1, <2>2, <2>3
<1>5. stops \subseteq 1 .. Len(data)
  BY <1>2
<1> HIDE DEF stops, tokens
<1>6. j \in stops /\ \A m \in stops : j <= m
  <2>1. j \in stops
    BY <1>4
  <2>2. ASSUME NEW m \in stops PROVE j <= m
    <3>1. m \in 1 .. Len(data) /\ k[m] = k[j]
      BY <1>4, <1>5
    <3>2. m \notin 1 .. j - 1
      BY <3>1 DEF New
    <3> QED
      BY <1>2, <3>1, <3>2
  <2> QED
    BY <2>1, <2>2
<1>7. line = j
  <2>1. line \in stops /\ \A m \in stops : line <= m
    BY <1>6
  <2> HIDE DEF line
  <2>2. line \in Nat /\ j \in Nat /\ line <= j /\ j <= line
    <3>1. line \in 1 .. Len(data)
      BY <1>5, <2>1
    <3>2. line <= j /\ j <= line
      BY <1>6, <2>1
    <3> QED
      BY <1>2, <3>1, <3>2
  <2> QED
    BY <2>2
<1> HIDE DEF line
<1>8. Holding(tokens[j], k[j], v[j])
  BY <1>3
<1> DEFINE u == tokens[j]
<1>9. Get(data, key, 1) = IF u = << >> THEN Undefined
                          ELSE IF 1 >= Len(u) THEN << >> ELSE u[2]
  BY <1>1, <1>6, <1>7
<1> HIDE DEF u
<1>10. Holding(u, k[j], v[j])
  BY <1>8 DEF u
<1>11. u # << >>
  BY <1>10 DEF Holding
<1> QED
  BY <1>9, <1>10, <1>11 DEF Holding

\* Four lines appended to none.
AreFour(s, V, a, b, c, d) ==
  s \in Seq(V) /\ Len(s) = 4 /\ s[1] = a /\ s[2] = b /\ s[3] = c /\ s[4] = d

\* The last, and those before it.
LEMMA LastIs ==
  ASSUME NEW V, NEW s \in Seq(V), NEW d \in V
  PROVE  /\ Append(s, d) \in Seq(V) /\ Len(Append(s, d)) = Len(s) + 1
         /\ Append(s, d)[Len(s) + 1] = d
  OBVIOUS

LEMMA BeforeLast ==
  ASSUME NEW V, NEW s \in Seq(V), NEW d \in V, NEW i \in 1 .. Len(s)
  PROVE  Append(s, d)[i] = s[i]
  OBVIOUS

\* A fourth behind three.
LEMMA AppendFourth ==
  ASSUME NEW V, NEW s \in Seq(V), Len(s) = 3, NEW d \in V
  PROVE  AreFour(Append(s, d), V, s[1], s[2], s[3], d)
<1>1. /\ Append(s, d) \in Seq(V) /\ Len(Append(s, d)) = 4
      /\ Append(s, d)[4] = d
  <2>1. /\ Append(s, d) \in Seq(V) /\ Len(Append(s, d)) = Len(s) + 1
        /\ Append(s, d)[Len(s) + 1] = d
    BY LastIs, Zenon
  <2>2. Len(s) + 1 = 4
    OBVIOUS
  <2> QED
    BY <2>1, <2>2, Zenon
<1>2. Append(s, d)[1] = s[1] /\ Append(s, d)[2] = s[2] /\ Append(s, d)[3] = s[3]
  <2>1. 1 \in 1 .. Len(s) /\ 2 \in 1 .. Len(s) /\ 3 \in 1 .. Len(s)
    OBVIOUS
  <2>2. \A i \in 1 .. Len(s) : Append(s, d)[i] = s[i]
    BY BeforeLast, Zenon
  <2> QED
    BY <2>1, <2>2, Zenon
<1> QED
  BY <1>1, <1>2 DEF AreFour

\* All four.
LEMMA AppendFour ==
  ASSUME NEW V, NEW a \in V, NEW b \in V, NEW c \in V, NEW d \in V
  PROVE  AreFour(Append(Append(Append(Append(<< >>, a), b), c), d), V, a, b, c, d)
<1>1. Append(Append(Append(<< >>, a), b), c) = <<a, b, c>>
  BY AppendThree
<1>2. /\ <<a, b, c>> \in Seq(V) /\ Len(<<a, b, c>>) = 3 /\ <<a, b, c>>[1] = a
      /\ <<a, b, c>>[2] = b /\ <<a, b, c>>[3] = c
  OBVIOUS
<1>3. AreFour(Append(<<a, b, c>>, d), V, <<a, b, c>>[1], <<a, b, c>>[2],
              <<a, b, c>>[3], d)
  BY <1>2, AppendFourth, Zenon
<1> QED
  BY <1>1, <1>2, <1>3

\* The dialog gives back what was put into it.
LEMMA DialogValues ==
  ASSUME Answering, at = "shown"
  PROVE  /\ Get(dialog, <<"logon">>, 1) = typed[1]
         /\ Get(dialog, <<"password">>, 1) = typed[2]
         /\ Get(dialog, <<"verify_password">>, 1) = typed[3]
         /\ Get(dialog, <<"extra_message">>, 1) \in Seq(Clean)
<1>1. CASE typed = NoFields /\ dialog = << >>
  <2>1. \A key : Get(dialog, key, 1) = << >>
    BY <1>1 DEF Get
  <2>2. \A i \in 1 .. 3 : typed[i] = << >>
    BY <1>1 DEF NoFields, Fields
  <2>3. << >> \in Seq(Clean)
    OBVIOUS
  <2>4. typed[1] = << >> /\ typed[2] = << >> /\ typed[3] = << >>
    BY <2>2
  <2> QED
    BY <2>1, <2>3, <2>4, Zenon
<1>2. ASSUME NEW message \in Seq(Clean), dialog = Refusal(typed, message)
      PROVE  /\ Get(dialog, <<"logon">>, 1) = typed[1]
             /\ Get(dialog, <<"password">>, 1) = typed[2]
             /\ Get(dialog, <<"verify_password">>, 1) = typed[3]
             /\ Get(dialog, <<"extra_message">>, 1) = message
  <2> DEFINE k == <<"logon", "password", "verify_password", "extra_message">>
             v == <<typed[1], typed[2], typed[3], message>>
             l(i) == <<k[i]>> \o <<Bar>> \o v[i]
  <2>1. /\ k[1] = "logon" /\ k[2] = "password" /\ k[3] = "verify_password"
        /\ k[4] = "extra_message"
        /\ v[1] = typed[1] /\ v[2] = typed[2] /\ v[3] = typed[3] /\ v[4] = message
    OBVIOUS
  <2>2. \A i \in 1 .. 4 : k[i] \in Clean
    <3>1. /\ "logon" \in Clean /\ "password" \in Clean /\ "verify_password" \in Clean
          /\ "extra_message" \in Clean
      BY DEF Clean, Chars, Literals, Bar, NewLine, Return
    <3> QED
      BY <2>1, <3>1
  <2>3. \A i \in 1 .. 4 : v[i] \in Seq(Clean)
    BY <2>1, TypedClean
  <2>4. \A i \in 1 .. 4 : \A j \in 1 .. i - 1 : k[j] # k[i]
    BY <2>1
  <2> HIDE DEF k, v
  <2>5. ASSUME NEW i \in 1 .. 4 PROVE l(i) \in Seq(Chars)
    <3>1. Clean \subseteq Chars /\ Bar \in Chars
      BY DEF Clean, Chars, Literals, Bar
    <3> DEFINE a == <<k[i]>>
               b == <<Bar>>
               c == v[i]
    <3>2. k[i] \in Chars /\ c \in Seq(Chars)
      BY <2>2, <2>3, <3>1
    <3>3. a \in Seq(Chars) /\ b \in Seq(Chars)
      BY <3>1, <3>2
    <3> HIDE DEF a, b, c
    <3>4. (a \o b) \o c \in Seq(Chars)
      BY <3>2, <3>3
    <3> QED
      BY <3>4 DEF a, b, c
  <2>6. dialog = Append(Append(Append(Append(<< >>, l(1)), l(2)), l(3)), l(4))
    BY <1>2, <2>1 DEF Refusal, Add
  <2> HIDE DEF l
  <2>7. /\ dialog \in Seq(Seq(Chars)) /\ Len(dialog) = 4
        /\ dialog[1] = l(1) /\ dialog[2] = l(2) /\ dialog[3] = l(3) /\ dialog[4] = l(4)
    <3> DEFINE a == l(1)
               b == l(2)
               c == l(3)
               d == l(4)
               V == Seq(Chars)
    <3>1. a \in V /\ b \in V /\ c \in V /\ d \in V
      BY <2>5
    <3> HIDE DEF a, b, c, d, V
    <3>3. AreFour(dialog, V, a, b, c, d)
      BY <2>6, <3>1, AppendFour, Zenon DEF a, b, c, d
    <3>5. /\ dialog \in Seq(V) /\ Len(dialog) = 4 /\ dialog[1] = a
          /\ dialog[2] = b /\ dialog[3] = c /\ dialog[4] = d
      BY <3>3 DEF AreFour
    <3> QED
      BY <3>5 DEF a, b, c, d, V
  <2>8. \A i \in 1 .. 4 : dialog[i] = l(i)
    BY <2>7
  <2>9. Keyed(dialog, k, v)
    BY <2>2, <2>3, <2>7, <2>8 DEF Keyed, l
  <2>10. ASSUME NEW i \in 1 .. 4 PROVE Get(dialog, <<k[i]>>, 1) = v[i]
    <3>1. i \in 1 .. Len(dialog) /\ New(k, i)
      BY <2>4, <2>7 DEF New
    <3>2. dialog \in Seq(Seq(Chars))
      BY <2>7
    <3> QED
      BY <2>9, <3>1, <3>2, GetKeyed, Zenon
  <2> QED
    BY <2>1, <2>10
<1> QED
  BY <1>1, <1>2 DEF Answering, Filled

\* The row of an input line.
Asked(name, key, label, inside) ==
  << <<name>> >> \o <<key, label, inside, <<"18">>, << >> >>

\* The registration dialog, line by line, tells three inputs.
LEMMA RegistrationTells ==
  ASSUME NEW data, NEW a \in Seq(Clean), NEW b \in Seq(Clean), NEW c \in Seq(Clean),
         Get(data, <<"logon">>, 1) = a, Get(data, <<"password">>, 1) = b,
         Get(data, <<"verify_password">>, 1) = c,
         Get(data, <<"extra_message">>, 1) \in Seq(Clean)
  PROVE  Tells(Registration(data),
               Append(Append(Append(<< >>,
                 Asked("add_text_input", <<"logon">>, <<"Name ">>, a)),
                 Asked("add_text_input_password", <<"password">>, <<"Password ">>, b)),
                 Asked("add_text_input_password", <<"verify_password">>,
                       <<"Password Verify ">>, c)))
<1> DEFINE W == Seq(Clean)
           F == Seq(W)
           m == Get(data, <<"extra_message">>, 1)
           empty == << >>
           l1 == SetDefaultColor
           l2 == AddLabel(<<"Get a GrowID!">>)
           l3 == AddSpacer
           l4 == AddTextbox(m)
           l5 == AddTextbox(<<"By choosing a GrowID">>)
           l6 == AddTextInput(<<"logon">>, <<"Name ">>, a)
           l7 == AddTextbox(<<"Your password must contain">>)
           l8 == AddTextInputPassword(<<"password">>, <<"Password ">>, b)
           l9 == AddTextInputPassword(<<"verify_password">>, <<"Password Verify ">>, c)
           l10 == EndDialog(<<"growid_apply">>, <<"Cancel">>, <<"Get a GrowID">>)
           opt == IF m = << >> THEN << >> ELSE l4 \o l3
           r1 == Asked("add_text_input", <<"logon">>, <<"Name ">>, a)
           r2 == Asked("add_text_input_password", <<"password">>, <<"Password ">>, b)
           r3 == Asked("add_text_input_password", <<"verify_password">>,
                       <<"Password Verify ">>, c)
           t1 == Append(empty, r1)
           t2 == Append(t1, r2)
           t3 == Append(t2, r3)
<1>1. \A x \in Literals \ {"|", "\n", "\r"} : x \in Clean /\ <<x>> \in W
  <2>1. ASSUME NEW x \in Literals \ {"|", "\n", "\r"} PROVE x \in Clean /\ <<x>> \in W
    <3>1. x \in Clean
      BY DEF Clean, Chars, Bar, NewLine, Return
    <3> QED
      BY <3>1, OneSymbol
  <2> QED
    BY <2>1
<1>2. empty \in W /\ m \in W /\ a \in W /\ b \in W /\ c \in W
  OBVIOUS
<1>3. Registration(data) = l1 \o l2 \o l3 \o opt \o l5 \o l6 \o l3 \o l7 \o l8 \o l9
                             \o l3 \o l10
  BY DEF Registration
<1> HIDE DEF W
<1>4. ASSUME NEW x \in W, NEW y \in W, NEW z \in W, NEW u \in W, NEW v \in W
      PROVE  <<x>> \in F /\ <<x, y>> \in F /\ <<x, y, z, u>> \in F
             /\ <<x, y, z, u, v>> \in F
  BY <1>4, Few
<1> HIDE DEF F, m, empty
<1>5. ASSUME NEW t, NEW told, Tells(t, told)
      PROVE  /\ Tells(t \o l1, told) /\ Tells(t \o l2, told) /\ Tells(t \o l3, told)
             /\ Tells(t \o l4, told) /\ Tells(t \o l5, told) /\ Tells(t \o l7, told)
             /\ Tells(t \o l10, told)
  <2>1. ASSUME NEW name \in Clean,
               name \notin {"add_text_input", "add_text_input_password"},
               NEW fields \in F
        PROVE  Tells(t \o Line(name, fields), told)
    BY <1>5, <2>1, OtherLine DEF F, W
  <2>2. /\ "set_default_color" \in Clean /\ "add_label" \in Clean
        /\ "add_spacer" \in Clean /\ "add_textbox" \in Clean /\ "end_dialog" \in Clean
    BY <1>1 DEF Literals
  <2>3. Tells(t \o l1, told)
    <3>1. <<"o">> \in W
      BY <1>1 DEF Literals
    <3>2. << <<"o">> >> \in F
      BY <1>4, <3>1
    <3> QED
      BY <2>1, <2>2, <3>2 DEF SetDefaultColor
  <2>4. Tells(t \o l2, told)
    <3>1. <<"big">> \in W /\ <<"Get a GrowID!">> \in W /\ <<"left">> \in W /\ <<"0">> \in W
      BY <1>1 DEF Literals
    <3>2. << <<"big">>, <<"Get a GrowID!">>, <<"left">>, <<"0">>, empty >> \in F
      BY <1>2, <1>4, <3>1
    <3> QED
      BY <2>1, <2>2, <3>2 DEF AddLabel, empty
  <2>5. Tells(t \o l3, told)
    <3>1. <<"small">> \in W
      BY <1>1 DEF Literals
    <3>2. << <<"small">>, empty >> \in F
      BY <1>2, <1>4, <3>1
    <3> QED
      BY <2>1, <2>2, <3>2 DEF AddSpacer, empty
  <2>6. ASSUME NEW x \in W PROVE Tells(t \o AddTextbox(x), told)
    <3>1. << x, empty >> \in F
      BY <1>2, <1>4
    <3> QED
      BY <2>1, <2>2, <3>1 DEF AddTextbox, empty
  <2>7. <<"By choosing a GrowID">> \in W /\ <<"Your password must contain">> \in W
    BY <1>1 DEF Literals
  <2>8. Tells(t \o l10, told)
    <3>1. <<"growid_apply">> \in W /\ <<"Cancel">> \in W /\ <<"Get a GrowID">> \in W
      BY <1>1 DEF Literals
    <3>2. << <<"growid_apply">>, <<"Cancel">>, <<"Get a GrowID">>, empty >> \in F
      BY <1>2, <1>4, <3>1
    <3> QED
      BY <2>1, <2>2, <3>2 DEF EndDialog, empty
  <2>9. Tells(t \o l4, told) /\ Tells(t \o l5, told) /\ Tells(t \o l7, told)
    BY <1>2, <2>6, <2>7
  <2> HIDE DEF l1, l2, l3, l4, l5, l7, l10
  <2> QED
    BY <2>3, <2>4, <2>5, <2>8, <2>9
<1>6. ASSUME NEW t, NEW told, Tells(t, told)
      PROVE  /\ Tells(t \o l6, Append(told, r1)) /\ Tells(t \o l8, Append(told, r2))
             /\ Tells(t \o l9, Append(told, r3))
  <2>1. ASSUME NEW name \in {"add_text_input", "add_text_input_password"},
               NEW key \in Literals \ {"|", "\n", "\r"},
               NEW label \in Literals \ {"|", "\n", "\r"}, NEW inside \in W
        PROVE  Tells(t \o Line(name, << <<key>>, <<label>>, inside, <<"18">>, << >> >>),
                     Append(told, Asked(name, <<key>>, <<label>>, inside)))
    <3>1. name \in Clean /\ <<key>> \in W /\ <<label>> \in W /\ <<"18">> \in W
      BY <1>1 DEF Literals
    <3> DEFINE fields == << <<key>>, <<label>>, inside, <<"18">>, empty >>
    <3>2. fields \in F
      BY <1>2, <1>4, <3>1
    <3> HIDE DEF fields
    <3>3. Tells(t \o Line(name, fields), Append(told, << <<name>> >> \o fields))
      BY <1>6, <3>1, <3>2, InputLine DEF F, W
    <3> QED
      BY <3>3 DEF fields, Asked, empty
  <2>2. /\ "logon" \in Literals \ {"|", "\n", "\r"}
        /\ "password" \in Literals \ {"|", "\n", "\r"}
        /\ "verify_password" \in Literals \ {"|", "\n", "\r"}
        /\ "Name " \in Literals \ {"|", "\n", "\r"}
        /\ "Password " \in Literals \ {"|", "\n", "\r"}
        /\ "Password Verify " \in Literals \ {"|", "\n", "\r"}
    BY DEF Literals
  <2>3. Tells(t \o l6, Append(told, r1))
    BY <1>2, <2>1, <2>2 DEF AddTextInput
  <2>4. Tells(t \o l8, Append(told, r2))
    BY <1>2, <2>1, <2>2 DEF AddTextInputPassword
  <2>5. Tells(t \o l9, Append(told, r3))
    BY <1>2, <2>1, <2>2 DEF AddTextInputPassword
  <2> QED
    BY <2>3, <2>4, <2>5
<1>7. empty \o l1 = l1
  <2>1. Tells(empty, empty)
    BY NothingTold DEF empty
  <2>2. Line("set_default_color", << <<"o">> >>) \in Seq(Chars)
    <3>1. "set_default_color" \in Chars /\ "o" \in Chars
      BY DEF Chars, Literals
    <3>2. <<"o">> \in Seq(Chars)
      BY <3>1
    <3>3. << <<"o">> >> \in Seq(Seq(Chars))
      BY <3>2
    <3> QED
      BY <3>1, <3>3, LineType
  <2> QED
    BY <2>2 DEF empty, SetDefaultColor
<1>8. l4 \in Seq(Chars) /\ l3 \in Seq(Chars)
  <2>1. "add_textbox" \in Chars /\ "add_spacer" \in Chars /\ "small" \in Chars
    BY DEF Chars, Literals
  <2>2. m \in Seq(Chars) /\ <<"small">> \in Seq(Chars) /\ empty \in Seq(Chars)
    <3>1. \A x \in W : x \in Seq(Chars)
      BY DEF W, Clean
    <3> QED
      BY <1>2, <2>1, <3>1
  <2>3. <<m, empty>> \in Seq(Seq(Chars)) /\ << <<"small">>, empty>> \in Seq(Seq(Chars))
    BY <2>2, Few
  <2> QED
    BY <2>1, <2>3, LineType DEF AddTextbox, AddSpacer, empty
<1> HIDE DEF l1, l2, l3, l4, l5, l6, l7, l8, l9, l10, r1, r2, r3
<1>9. ASSUME NEW t, NEW told, Tells(t, told) PROVE Tells(t \o opt, told)
  <2>1. CASE m = << >>
    <3>1. t \in Seq(Chars)
      BY <1>9 DEF Tells
    <3>2. t \o << >> = t
      BY <3>1
    <3> QED
      BY <1>9, <2>1, <3>2
  <2>2. CASE m # << >>
    <3>1. Tells(t \o l4, told) /\ t \in Seq(Chars)
      BY <1>5, <1>9 DEF Tells
    <3>2. Tells((t \o l4) \o l3, told)
      BY <1>5, <3>1
    <3>3. Associate(t, l4, l3)
      BY <1>8, <3>1, CatAssociates
    <3> QED
      BY <2>2, <3>2, <3>3 DEF Associate
  <2> QED
    BY <2>1, <2>2
<1> HIDE DEF opt
<1> DEFINE s3 == l1 \o l2 \o l3
           s5 == s3 \o opt \o l5
           s7 == s5 \o l6 \o l3 \o l7
           s9 == s7 \o l8 \o l9
           s10 == s9 \o l3 \o l10
<1>10. Tells(s3, empty)
  <2>1. Tells(empty, empty)
    BY NothingTold DEF empty
  <2>2. Tells(empty \o l1, empty)
    BY <1>5, <2>1
  <2>3. Tells(l1, empty)
    BY <1>7, <2>2
  <2>4. Tells(l1 \o l2, empty)
    BY <1>5, <2>3
  <2> QED
    BY <1>5, <2>4
<1> HIDE DEF s3
<1>11. Tells(s5, empty)
  <2>1. Tells(s3 \o opt, empty)
    BY <1>9, <1>10
  <2> QED
    BY <1>5, <2>1
<1> HIDE DEF s5
<1>12. Tells(s7, t1)
  <2>1. Tells(s5 \o l6, t1)
    BY <1>6, <1>11
  <2> HIDE DEF t1
  <2>2. Tells(s5 \o l6 \o l3, t1)
    BY <1>5, <2>1
  <2> QED
    BY <1>5, <2>2
<1> HIDE DEF s7, t1
<1>13. Tells(s9, t3)
  <2>1. Tells(s7 \o l8, t2)
    BY <1>6, <1>12
  <2> HIDE DEF t2
  <2> QED
    BY <1>6, <2>1
<1> HIDE DEF s9, t2, t3
<1>14. Tells(s10, t3)
  <2>1. Tells(s9 \o l3, t3)
    BY <1>5, <1>13
  <2> QED
    BY <1>5, <2>1
<1>15. Registration(data) = s10
  BY <1>3 DEF s10, s9, s7, s5, s3
<1>16. Tells(Registration(data), t3)
  BY <1>14, <1>15
<1> QED
  BY <1>16 DEF t3, t2, t1, empty, r1, r2, r3

\* The fields of such a row.
LEMMA AskedIs ==
  ASSUME NEW name, NEW key, NEW label, NEW inside
  PROVE  Asked(name, key, label, inside)
           = << <<name>>, key, label, inside, <<"18">>, << >> >>
<1> DEFINE h == <<name>>
           e == <<"18">>
           n == << >>
           V == {h, key, label, inside, e, n}
           a == <<h>>
           b == <<key, label, inside, e, n>>
           c == <<h, key, label, inside, e, n>>
<1>1. h \in V /\ key \in V /\ label \in V /\ inside \in V /\ e \in V /\ n \in V
  OBVIOUS
<1> HIDE DEF h, e, n, V
<1>2. /\ a \in Seq(V) /\ Len(a) = 1 /\ a[1] = h
      /\ b \in Seq(V) /\ Len(b) = 5 /\ b[1] = key /\ b[2] = label /\ b[3] = inside
      /\ b[4] = e /\ b[5] = n
  BY <1>1
<1>3. /\ c \in Seq(V) /\ Len(c) = 6 /\ c[1] = h /\ c[2] = key /\ c[3] = label
      /\ c[4] = inside /\ c[5] = e /\ c[6] = n
  BY <1>1
<1> HIDE DEF a, b, c
<1> DEFINE d == a \o b
<1>4. d \in Seq(V) /\ Len(d) = Len(a) + Len(b)
  BY <1>2, CatIs, Zenon
<1>5. Starts(a, d)
  BY <1>2, CatIs, Zenon
<1>6. EndsIn(d, a, b)
  BY <1>2, CatIs, Zenon
<1> HIDE DEF d
<1>7. Len(d) = 6 /\ d[1] = h
  BY <1>2, <1>4, <1>5 DEF Starts
<1>8. /\ d[2] = key /\ d[3] = label /\ d[4] = inside /\ d[5] = e /\ d[6] = n
  <2>1. \A k \in 1 .. 5 : d[1 + k] = b[k]
    BY <1>2, <1>6 DEF EndsIn
  <2>2. /\ d[1 + 1] = b[1] /\ d[1 + 2] = b[2] /\ d[1 + 3] = b[3] /\ d[1 + 4] = b[4]
        /\ d[1 + 5] = b[5]
    BY <2>1
  <2> QED
    BY <1>2, <2>2
<1>9. \A i \in 1 .. 6 : d[i] = c[i]
  BY <1>3, <1>7, <1>8
<1>10. d = c
  BY <1>3, <1>4, <1>7, <1>9, SeqEqual
<1> QED
  BY <1>10 DEF d, a, b, c, h, e, n, Asked

\* What a client finds in the frame of a dialog.
LEMMA DialogCarried ==
  ASSUME NEW data, CarriesList(sent[1], OnDialogRequest(data)),
         Registration(data) \in Seq(Chars)
  PROVE  Unpack(Payload(sent[1]))[2].value = Registration(data)
<1> DEFINE a == [type |-> "STRING", value |-> <<"OnDialogRequest">>]
           b == String(Registration(data))
<1>1. Unpack(Payload(sent[1])) = <<a>> \o <<b>>
  BY DEF CarriesList, OnDialogRequest, VariantListOf
<1>2. b.value = Registration(data)
  BY DEF String
<1> HIDE DEF a, b
<1>3. <<a>> \o <<b>> = <<a, b>>
  <2> DEFINE V == {a, b}
  <2>1. a \in V /\ b \in V
    OBVIOUS
  <2> HIDE DEF V
  <2> QED
    BY <2>1, JoinTwo
<1>4. <<a, b>>[2] = b
  OBVIOUS
<1> QED
  BY <1>1, <1>2, <1>3, <1>4

\* An applicant is shown what was typed, each field in its own input and
\* nothing else in any, whatever the words were and whatever the message says.
THEOREM DialogShown == Spec => []DialogShowsTyped
<1>1. ASSUME Answering, FramesCarry PROVE DialogShowsTyped
  <2> SUFFICES ASSUME at = "shown"
               PROVE  LET inputs == Inputs(Unpack(Payload(sent[1]))[2].value)
                      IN inputs = [i \in DOMAIN Fields |->
                                     <<inputs[i][1], <<Fields[i]>>, inputs[i][3],
                                       typed[i], <<"18">>, << >> >>]
    BY DEF DialogShowsTyped
  <2> DEFINE t == Registration(dialog)
             r1 == Asked("add_text_input", <<"logon">>, <<"Name ">>, typed[1])
             r2 == Asked("add_text_input_password", <<"password">>, <<"Password ">>,
                         typed[2])
             r3 == Asked("add_text_input_password", <<"verify_password">>,
                         <<"Password Verify ">>, typed[3])
             told == <<r1, r2, r3>>
             inputs == Inputs(Unpack(Payload(sent[1]))[2].value)
             shown(s, i) == <<s[i][1], <<Fields[i]>>, s[i][3], typed[i], <<"18">>, << >> >>
  <2>1. /\ typed[1] \in Seq(Clean) /\ typed[2] \in Seq(Clean)
        /\ typed[3] \in Seq(Clean)
    BY <1>1, TypedClean
  <2>2. Tells(t, Append(Append(Append(<< >>, r1), r2), r3))
    <3>1. /\ Get(dialog, <<"logon">>, 1) = typed[1]
          /\ Get(dialog, <<"password">>, 1) = typed[2]
          /\ Get(dialog, <<"verify_password">>, 1) = typed[3]
          /\ Get(dialog, <<"extra_message">>, 1) \in Seq(Clean)
      BY <1>1, DialogValues
    <3> QED
      BY <2>1, <3>1, RegistrationTells, Zenon
  <2>3. Append(Append(Append(<< >>, r1), r2), r3) = told
    <3> DEFINE V == {r1, r2, r3}
    <3>1. r1 \in V /\ r2 \in V /\ r3 \in V
      OBVIOUS
    <3> HIDE DEF r1, r2, r3, V
    <3> QED
      BY <3>1, AppendThree
  <2>4. t \in Seq(Chars) /\ Told(t) = told
    BY <2>2, <2>3 DEF Tells
  <2>5. inputs = told
    <3>1. CarriesList(sent[1], OnDialogRequest(dialog))
      BY <1>1 DEF FramesCarry
    <3>2. Unpack(Payload(sent[1]))[2].value = t
      BY <2>4, <3>1, DialogCarried
    <3>3. Inputs(t) = Told(t)
      BY <2>4, InputsTold
    <3> HIDE DEF t, told
    <3> QED
      BY <2>4, <3>2, <3>3
  <2>6. r1 = << <<"add_text_input">>, <<"logon">>, <<"Name ">>, typed[1], <<"18">>, << >> >>
    BY AskedIs
  <2>7. r2 = << <<"add_text_input_password">>, <<"password">>, <<"Password ">>, typed[2],
                <<"18">>, << >> >>
    BY AskedIs
  <2>8. r3 = << <<"add_text_input_password">>, <<"verify_password">>,
                <<"Password Verify ">>, typed[3], <<"18">>, << >> >>
    BY AskedIs
  <2> HIDE DEF inputs, r1, r2, r3
  <2>9. told[1] = r1 /\ told[2] = r2 /\ told[3] = r3
    OBVIOUS
  <2>10. /\ shown(told, 1) = r1 /\ shown(told, 2) = r2 /\ shown(told, 3) = r3
    <3>1. Fields[1] = "logon" /\ Fields[2] = "password" /\ Fields[3] = "verify_password"
      BY DEF Fields
    <3>2. r1[1] = <<"add_text_input">> /\ r1[3] = <<"Name ">>
      BY <2>6
    <3>3. r2[1] = <<"add_text_input_password">> /\ r2[3] = <<"Password ">>
      BY <2>7
    <3>4. r3[1] = <<"add_text_input_password">> /\ r3[3] = <<"Password Verify ">>
      BY <2>8
    <3> HIDE DEF told
    <3>5. shown(told, 1) = r1
      BY <2>6, <2>9, <3>1, <3>2
    <3>6. shown(told, 2) = r2
      BY <2>7, <2>9, <3>1, <3>3
    <3>7. shown(told, 3) = r3
      BY <2>8, <2>9, <3>1, <3>4
    <3> HIDE DEF shown
    <3> QED
      BY <3>5, <3>6, <3>7
  <2> HIDE DEF shown
  <2>11. told = [i \in 1 .. 3 |-> shown(told, i)]
    <3> DEFINE f == [i \in 1 .. 3 |-> shown(told, i)]
    <3>1. DOMAIN told = 1 .. 3 /\ told = [i \in 1 .. 3 |-> told[i]]
      OBVIOUS
    <3> HIDE DEF told
    <3>2. \A i \in 1 .. 3 : told[i] = shown(told, i)
      BY <2>9, <2>10
    <3> QED
      BY <3>1, <3>2
  <2>12. DOMAIN Fields = 1 .. 3
    BY DEF Fields
  <2> HIDE DEF told
  <2>13. inputs = [i \in DOMAIN Fields |-> shown(inputs, i)]
    BY <2>5, <2>11, <2>12
  <2> QED
    BY <2>13 DEF shown, inputs
<1> QED
  BY <1>1, AnswersSafe, AnswersCarried, PTL
=============================================================================
