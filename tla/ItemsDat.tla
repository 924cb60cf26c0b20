------------------------------ MODULE ItemsDat ------------------------------
(***************************************************************************)
(* cache/items.dat: how ItemInfo is packed into it and read from it, and   *)
(* what ItemManager makes of a file.  An item is a function from the names *)
(* of its members to their values, the two that Serialize derives from the *)
(* others included.                                                        *)
(***************************************************************************)
EXTENDS BinaryIO, FiniteSets

CONSTANTS NoFile,     \* the file does not exist
          NoItem,     \* nullptr
          Undefined   \* what is read past the end of a vector

\* A string member has a length of 2 bytes before it.
String == 0

\* ItemInfo::Serialize, member by member.
ReadLayout ==
  << <<"m_Id", 4>>, <<"m_editableType", 1>>, <<"m_itemCategory", 1>>,
     <<"m_itemType", 1>>, <<"m_material", 1>>, <<"m_name", String>>,
     <<"m_textureFile", String>>, <<"m_textureFileHash", 4>>,
     <<"m_visualEffect", 1>>, <<"m_flags1", 4>>, <<"m_texture.X", 1>>,
     <<"m_texture.Y", 1>>, <<"m_spreadType", 1>>,
     <<"m_isStripeyWallpaper", 1>>, <<"m_collisionType", 1>>,
     <<"m_breakHits", 1>>, <<"m_resetTime", 4>>, <<"m_clothingType", 1>>,
     <<"m_rarity", 2>>, <<"m_maxAmount", 1>>, <<"m_extraFile", String>>,
     <<"m_extraFileHash", 4>>, <<"m_audioVolume", 4>>,
     <<"m_pet.m_name", String>>, <<"m_pet.m_prefix", String>>,
     <<"m_pet.m_suffix", String>>, <<"m_pet.m_ability", String>>,
     <<"m_seed.m_base", 1>>, <<"m_seed.m_overlay", 1>>,
     <<"m_tree.m_base", 1>>, <<"m_tree.m_leaves", 1>>,
     <<"m_seed.m_color", 4>>, <<"m_seed.m_overlayColor", 4>>,
     <<"m_ingredient", 4>>, <<"m_growTime", 4>>, <<"m_flags2", 2>>,
     <<"m_rayman", 2>>, <<"m_extraOptions1", String>>,
     <<"m_textureFile2", String>>, <<"m_extraOptions2", String>>,
     <<"m_reserved", 80>>, <<"m_punchOptions", String>>,
     <<"m_unknownVal3", 4>>, <<"m_bodypart", 9>>, <<"m_unknownVal4", 4>>,
     <<"m_unknownVal5", 4>> >>

\* Mutant: the two hashes are packed in each other's place.
PackLayoutSwapped ==
  [i \in DOMAIN ReadLayout |->
     CASE ReadLayout[i][1] = "m_textureFileHash" -> <<"m_extraFileHash", 4>>
       [] ReadLayout[i][1] = "m_extraFileHash" -> <<"m_textureFileHash", 4>>
       [] OTHER -> ReadLayout[i]]

\* ItemInfo::Pack, member by member.
PackLayout ==
  << <<"m_Id", 4>>, <<"m_editableType", 1>>, <<"m_itemCategory", 1>>,
     <<"m_itemType", 1>>, <<"m_material", 1>>, <<"m_name", String>>,
     <<"m_textureFile", String>>, <<"m_textureFileHash", 4>>,
     <<"m_visualEffect", 1>>, <<"m_flags1", 4>>, <<"m_texture.X", 1>>,
     <<"m_texture.Y", 1>>, <<"m_spreadType", 1>>,
     <<"m_isStripeyWallpaper", 1>>, <<"m_collisionType", 1>>,
     <<"m_breakHits", 1>>, <<"m_resetTime", 4>>, <<"m_clothingType", 1>>,
     <<"m_rarity", 2>>, <<"m_maxAmount", 1>>, <<"m_extraFile", String>>,
     <<"m_extraFileHash", 4>>, <<"m_audioVolume", 4>>,
     <<"m_pet.m_name", String>>, <<"m_pet.m_prefix", String>>,
     <<"m_pet.m_suffix", String>>, <<"m_pet.m_ability", String>>,
     <<"m_seed.m_base", 1>>, <<"m_seed.m_overlay", 1>>,
     <<"m_tree.m_base", 1>>, <<"m_tree.m_leaves", 1>>,
     <<"m_seed.m_color", 4>>, <<"m_seed.m_overlayColor", 4>>,
     <<"m_ingredient", 4>>, <<"m_growTime", 4>>, <<"m_flags2", 2>>,
     <<"m_rayman", 2>>, <<"m_extraOptions1", String>>,
     <<"m_textureFile2", String>>, <<"m_extraOptions2", String>>,
     <<"m_reserved", 80>>, <<"m_punchOptions", String>>,
     <<"m_unknownVal3", 4>>, <<"m_bodypart", 9>>, <<"m_unknownVal4", 4>>,
     <<"m_unknownVal5", 4>> >>

Members == {ReadLayout[i][1] : i \in DOMAIN ReadLayout}
IsString(i) == ReadLayout[i][2] = String
StringMembers == {ReadLayout[i][1] : i \in {j \in DOMAIN ReadLayout : IsString(j)}}

\* ItemInfo::Cypher: character i is xor-ed with a character of the key.  A
\* character is its plain self and the key characters it is xor-ed with.
Key == <<"P", "B", "G", "8", "9", "2", "F", "X",
         "X", "9", "8", "2", "A", "B", "C", "*">>
Xor(ch, k) ==
  [ch EXCEPT !.keys = IF k \in @ THEN @ \ {k} ELSE @ \cup {k}]
Cypher(id, s) ==
  [i \in DOMAIN s |-> Xor(s[i], Key[1 + ((i - 1 + id) % Len(Key))])]

PackItem(item) ==
  LET value(f) == IF f = "m_name" THEN Cypher(item["m_Id"], item[f]) ELSE item[f]
  IN FlattenSeq([i \in DOMAIN PackLayout |->
       LET f == PackLayout[i][1]
       IN IF PackLayout[i][2] = String THEN StringCells(2, value(f))
          ELSE <<Cell(PackLayout[i][2], value(f))>>])

\* The cell of an item in which its i-th member begins, and how many it has.
Begins(i) == i + Cardinality({j \in 1 .. i - 1 : IsString(j)})
ItemCells == Begins(Len(ReadLayout) + 1) - 1

ReadsItem(cells, at) ==
  \A i \in DOMAIN ReadLayout :
    IF IsString(i) THEN StringReadable(cells, at + Begins(i), 2)
    ELSE Readable(cells, at + Begins(i), ReadLayout[i][2])

\* The end of ItemInfo::Serialize: what follows from the members read.  The
\* sums are narrowed to the uint8_t they are kept in.
Derived == {"m_defaultTexture", "m_hasExtra"}
DefaultTexture(X, Y, spreadType) ==
  CASE spreadType \in {2, 5} -> <<(X + 4) % 256, (Y + 1) % 256>>
    [] spreadType \in {3, 7} -> <<(X + 3) % 256, Y>>
    [] OTHER -> <<X, Y>>
TypesWithExtra ==
  {2, 3, 10, 13, 19, 26, 30, 33, 34, 36, 38, 40, 43, 59, 109, 111, 113, 130,
   131, 133, 134, 141, 142}
    \cup (46 .. 57) \cup (61 .. 63) \cup (65 .. 68) \cup (71 .. 89)
    \cup (91 .. 93) \cup (96 .. 106) \cup (115 .. 118) \cup (123 .. 127)

ReadItem(cells, at) ==
  LET place(f) == CHOOSE i \in DOMAIN ReadLayout : ReadLayout[i][1] = f
      value(f) == cells[at + Begins(place(f))
                           + (IF f \in StringMembers THEN 1 ELSE 0)].value
  IN [f \in Members \cup Derived |->
        CASE f = "m_name" -> Cypher(value("m_Id"), value(f))
          [] f = "m_defaultTexture" ->
               DefaultTexture(value("m_texture.X"), value("m_texture.Y"),
                              value("m_spreadType"))
          [] f = "m_hasExtra" -> value("m_itemType") \in TypesWithExtra
          [] OTHER -> value(f)]

\* ItemInfo::GetMemoryUsage.
GetMemoryUsage(item) ==
  8 + SumOf([i \in DOMAIN ReadLayout |->
               IF IsString(i) THEN 2 + Len(item[ReadLayout[i][1]]) ELSE 0])
    + 34 + 12 + 16 + 80 + 21

-----------------------------------------------------------------------------
(* ItemManager.                                                            *)

Version(file) == file[1].value
Count(file) == file[2].value
Inside(file, n) == ReadsItem(file, 2 + n * ItemCells)
Id(file, n) == ReadItem(file, 2 + n * ItemCells)["m_Id"]

\* Mutant: an item with another id does not end the loop.
ItemsReadAll(file) == Count(file)

\* Mutant: the loop runs up to the count, and through it.
ItemsReadOneMore(file) == Count(file) + 1

\* The items that are read: those up to the first whose id is not its place,
\* or that is not there.
ItemsRead(file) ==
  LET odd == {n \in 0 .. Count(file) - 1 : Inside(file, n) => Id(file, n) # n}
  IN IF odd = {} THEN Count(file)
     ELSE 1 + CHOOSE n \in odd : \A m \in odd : n <= m

\* Reading stays inside the file, which BinaryReader does not know the size of.
StaysInside(file) ==
  /\ Readable(file, 1, 2) /\ Readable(file, 2, 4)
  /\ \A n \in 0 .. ItemsRead(file) - 1 : Inside(file, n)

\* A file is bytes, here cut into cells the way its reader goes through them:
\* by the members' widths, and a string by the length read before it.  What
\* the file ends in the middle of is no cell of it.
StringOf(s, n) ==
  s = [i \in 1 .. n |-> [ch |-> s[i].ch, keys |-> s[i].keys]]
CutAsRead(f) ==
  /\ f = [c \in 1 .. Len(f) |-> Cell(f[c].width, f[c].value)]
  /\ \A c \in DOMAIN f : f[c].width \in Nat
  /\ 1 \in DOMAIN f => f[1].width = 2
  /\ 2 \in DOMAIN f => f[2].width = 4 /\ f[2].value \in Nat
  /\ 2 \in DOMAIN f => \A n \in 0 .. Count(f) - 1, i \in DOMAIN ReadLayout :
       LET c == 2 + n * ItemCells + Begins(i)
       IN IF IsString(i)
          THEN /\ c \in DOMAIN f => f[c].width = 2 /\ f[c].value \in Nat
               /\ c + 1 \in DOMAIN f => /\ f[c + 1].width = f[c].value
                                       /\ StringOf(f[c + 1].value, f[c].value)
          ELSE c \in DOMAIN f => f[c].width = ReadLayout[i][2]

\* ItemManager::Serialize: FALSE for a file that is absent or empty; m_items
\* then holds what was read.
Serializes(file) == file # NoFile /\ file # << >>
SerializedItems(file) ==
  [n \in 1 .. ItemsRead(file) |-> ReadItem(file, 2 + (n - 1) * ItemCells)]

\* ItemManager::Encode, and the buffer it allocates.
Encode(version, count, items) ==
  <<Cell(2, version), Cell(4, count)>>
    \o FlattenSeq([n \in DOMAIN items |-> PackItem(items[n])])
Allocated(items) ==
  6 + SumOf([n \in DOMAIN items |-> GetMemoryUsage(items[n]) + 20])

\* ItemManager::GetItem: the id after the last one passes its check, and what
\* lies behind the vector is returned.
GetItem(items, id) ==
  CASE id < Len(items) -> items[id + 1]
    [] id = Len(items) -> Undefined
    [] OTHER -> NoItem
=============================================================================
