----------------------------- MODULE MCStartup -----------------------------
(***************************************************************************)
(* Files of up to three items.  Every member of every item has a value of  *)
(* its own, strings are of different lengths and one of them is empty, and *)
(* one name is longer than the key it is ciphered with.  The texture of an *)
(* item lies at the edge of its byte, and each item spreads otherwise.     *)
(***************************************************************************)
EXTENDS Startup

Place(f) == CHOOSE i \in DOMAIN ReadLayout : ReadLayout[i][1] = f
MCString(f, id) ==
  LET length == IF f = "m_name" THEN 18 * id ELSE (Place(f) + id) % 3
  IN [i \in 1 .. length |-> [ch |-> <<f, id, i>>, keys |-> {}]]
MCItem(id) ==
  [f \in Members |->
     IF f = "m_Id" THEN id
     ELSE IF f \in StringMembers THEN MCString(f, id)
     ELSE IF f = "m_texture.X" THEN 251 + id
     ELSE IF f = "m_texture.Y" THEN 255
     ELSE IF f = "m_spreadType" THEN 1 + id
     ELSE IF f = "m_itemType" THEN 2 * id
     ELSE <<f, id>>]
MCFile(ids) ==
  Encode(15, Len(ids), [n \in DOMAIN ids |-> MCItem(ids[n])])

\* No file, an empty one, no items, one, two, a file of another version that
\* goes on after an item with another id, or ends with it; one with something
\* behind its last item; and files cut in the header, behind it, in the middle
\* of an item, between items, and behind an item with another id.
MCWhole == MCFile(<<0, 1>>)
MCOther == MCFile(<<0, 2, 1>>)
MCFiles ==
  {NoFile, << >>, MCFile(<< >>), MCFile(<<0>>), MCWhole, MCOther,
   MCFile(<<1, 0, 2>>), MCFile(<<0, 2>>),
   Append(MCWhole, Cell(1, 0))}
  \cup {SubSeq(MCWhole, 1, n) : n \in {1, 2, 9, 2 + ItemCells}}
  \cup {SubSeq(MCOther, 1, 2 + 2 * ItemCells)}

\* The text of a registration, one that only asks for a name, one whose action
\* nobody handles, and one that names an action where its event should be.
MCText(e, a, d) == [event |-> e, action |-> a, dialog |-> d]
MCTexts ==
  {MCText("action", "dialog_return", "growid_apply"),
   MCText("requestedName", NoText, NoText),
   MCText("action", "growid_apply", NoText),
   MCText("dialog_return", "dialog_return", "growid_apply")}
=============================================================================
