------------------------------ MODULE Packets ------------------------------
(***************************************************************************)
(* What the server sends: variant lists, tank and text packets, and the    *)
(* frame ENetWrapper::SendPacket makes of them.  A variant is a record of  *)
(* its type and value.                                                     *)
(***************************************************************************)
EXTENDS BinaryIO

\* VariantType.
Code == [FLOAT |-> 1, STRING |-> 2, VECTOR_2 |-> 3, VECTOR_3 |-> 4,
         UNSIGNED_INT |-> 5, INT |-> 9]
Types == DOMAIN Code

\* The bytes of a value, the length before a string left out.
Size(type, value) ==
  CASE type = "STRING" -> Len(value)
    [] type = "VECTOR_2" -> 8
    [] type = "VECTOR_3" -> 12
    [] OTHER -> 4

VariantMemoryUsage(v) ==
  1 + Size(v.type, v.value) + (IF v.type = "STRING" THEN 4 ELSE 0)

\* Mutant: strings with the length BinaryWriter writes by default.
PackVariantShort(v) ==
  <<Cell(1, Code[v.type])>>
    \o (IF v.type = "STRING" THEN StringCells(2, v.value)
        ELSE <<Cell(Size(v.type, v.value), v.value)>>)

\* Variant::Pack.
PackVariant(v) ==
  <<Cell(1, Code[v.type])>>
    \o (IF v.type = "STRING" THEN StringCells(4, v.value)
        ELSE <<Cell(Size(v.type, v.value), v.value)>>)

\* A Variant made by its default constructor.
NoVariant == [type |-> "FLOAT", value |-> 0]

\* Variant::Serialize at cell c: what is read, and the cell it goes on at.
\* Of a value with another width than is read nothing is known.
SerializeVariant(cells, c) ==
  LET types == {t \in Types : Readable(cells, c, 1) /\ Code[t] = cells[c].value}
      type == CHOOSE t \in types : TRUE
      isRead == IF type = "STRING" THEN StringReadable(cells, c + 1, 4)
                ELSE Readable(cells, c + 1, Size(type, 0))
      end == c + (IF type = "STRING" THEN 3 ELSE 2)
  IN IF types = {} THEN [object |-> NoVariant, next |-> c + 1]
     ELSE IF isRead
          THEN [object |-> [type |-> type, value |-> cells[end - 1].value],
                next |-> end]
          ELSE [object |-> NoVariant, next |-> end]

\* VariantList::Pack, and the size it gives its buffer.
Pack(objects) ==
  <<Cell(1, Len(objects))>>
    \o FlattenSeq([i \in DOMAIN objects |->
                     <<Cell(1, i - 1)>> \o PackVariant(objects[i])])
GetMemoryUsage(objects) ==
  1 + SumOf([i \in DOMAIN objects |-> VariantMemoryUsage(objects[i]) + 1])

\* The constructor of VariantList that reads what was packed.
Unpack(cells) ==
  LET read[i \in 0 .. cells[1].value] ==
        IF i = 0 THEN [objects |-> << >>, next |-> 2]
        ELSE LET v == SerializeVariant(cells, read[i - 1].next + 1)
             IN [objects |-> Append(read[i - 1].objects, v.object),
                 next |-> v.next]
  IN read[cells[1].value].objects

\* VariantList::Create and the Inserts after it.
VariantListOf(vType, executionDelay, data) ==
  [objects |-> <<[type |-> "STRING", value |-> vType]>> \o data,
   executionDelay |-> executionDelay, netId |-> -1]

\* sizeof(TankPacketData).
HeaderSize == 56

\* SVariantPacket.
SVariantPacket(vList) ==
  [type |-> "GAME_PACKET",
   data |-> <<Cell(HeaderSize,
                   [type |-> "CALL_FUNCTION", bExtended |-> TRUE,
                    netId |-> vList.netId, delay |-> vList.executionDelay,
                    dataLength |-> GetMemoryUsage(vList.objects)])>>
              \o Pack(vList.objects)]

STextPacket(text) == [type |-> "GAME_MESSAGE", data |-> <<Cell(Len(text), text)>>]

\* Mutant: short messages are not copied into the frame.
SendPacketLong(packet) ==
  LET n == Bytes(packet.data)
  IN <<Cell(4, packet.type)>>
       \o (IF packet.type # "SERVER_HELLO" /\ n > HeaderSize THEN packet.data
           ELSE <<Cell(n, << >>)>>)
       \o <<Cell(1, 0)>>

\* ENetWrapper::SendPacket: the type, what is copied of the data, a zero.
SendPacket(packet) ==
  LET n == Bytes(packet.data)
      copied == \/ packet.type # "SERVER_HELLO" /\ n > HeaderSize
                \/ packet.type = "GAME_MESSAGE"
  IN <<Cell(4, packet.type)>>
       \o (IF copied THEN packet.data ELSE <<Cell(n, << >>)>>)
       \o <<Cell(1, 0)>>
=============================================================================
