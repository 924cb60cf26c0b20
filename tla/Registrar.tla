----------------------------- MODULE Registrar -----------------------------
(***************************************************************************)
(* What registration promises a connected player: a GrowID is claimed at   *)
(* once and whole, with a name and a password the rules allow and no       *)
(* account of the data base has, and is kept until the player is gone.     *)
(* It does not promise that no other player claims the same name.          *)
(***************************************************************************)
CONSTANTS Players,      \* the Player objects of a run
          NoGrowID,     \* what a player without a GrowID has
          Claimable     \* the name and password pairs the rules allow

VARIABLE growID         \* the GrowID of each player

Init == growID = [p \in Players |-> NoGrowID]

\* A player without a GrowID gets one.
Claim(p) ==
  /\ growID[p] = NoGrowID
  /\ \E g \in Claimable : growID' = [growID EXCEPT ![p] = g]

\* A player is gone, and the GrowID with it.
Leave(p) ==
  growID' = [growID EXCEPT ![p] = NoGrowID]

Next == \E p \in Players : Claim(p) \/ Leave(p)

Spec == Init /\ [][Next]_growID
=============================================================================
