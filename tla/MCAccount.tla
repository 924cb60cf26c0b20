----------------------------- MODULE MCAccount -----------------------------
(***************************************************************************)
(* Texts at the lengths the rules compare with: 3, 10 and 16 for a         *)
(* requested name, 3, 18 and 19 for a GrowID, 7, 24 and 25 for a password. *)
(***************************************************************************)
EXTENDS AccountProperties

Name(id, upper, len, alnum) ==
  [id |-> id, upper |-> upper, len |-> len, alnum |-> alnum]

MCNames ==
  {Name("ann", FALSE, 3, TRUE), Name("ann", TRUE, 3, TRUE),
   Name("bob", TRUE, 10, TRUE), Name("eve", FALSE, 18, TRUE),
   Name("sly", FALSE, 16, FALSE), Name("zed", FALSE, 19, TRUE)}

\* Bob's account, its name as he typed it, and a guest that played under the
\* name of ann.
MCTable ==
  {[rawName |-> Name("bob", TRUE, 10, TRUE),
    tankIDName |-> Name("bob", FALSE, 10, TRUE)],
   [rawName |-> Name("ann", FALSE, 3, TRUE), tankIDName |-> NoText]}

Pass(id, len) == [id |-> id, len |-> len]
MCPasswords == {Pass("long", 24), Pass("longer", 25), Pass("short", 7)}

MCNameIds == {n.id : n \in MCNames}
MCPassIds == {w.id : w \in MCPasswords}
MCMaxAmount == [i \in Items |-> 200]
=============================================================================
