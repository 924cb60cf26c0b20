------------------------- MODULE AccountProperties -------------------------
(***************************************************************************)
(* What registration must keep, across the handlers, the waits for the     *)
(* data base and the disconnects that Account interleaves.                 *)
(***************************************************************************)
EXTENDS Account

Registered(p) == det[p].tankIDName # NoText

\* A player has a GrowID's name, its password and its two starter items, each
\* once, or none of them: what OnDialogGrowIDApply writes is never half
\* written and never written twice.
StarterItemsOf(p) == <<bpItems[p]["MY_FIRST_WORLD_LOCK"], bpItems[p]["PICKAXE"]>>
RegistrationIsWhole ==
  \A p \in Players :
    \/ /\ Registered(p)
       /\ det[p].tankIDPass # NoText
       /\ StarterItemsOf(p) = <<1, 1>>
    \/ /\ ~Registered(p)
       /\ det[p].tankIDPass = NoText
       /\ StarterItemsOf(p) = <<0, 0>>

\* The name other players would be shown of a player who may stay is one the
\* server accepted, though OnRequestedName stores a name before it looks at
\* it: letters and digits, and as many of them as a GrowID may have.
StayingNamesValid ==
  \A p \in Players :
    (life[p] = "live" /\ p \notin leaving) =>
       (rawName[p] = NoText \/ GrowIDFits(rawName[p]))

\* Registration as it is promised: Registrar, with the GrowID of a player
\* read from the Player's TankInfo.  A GrowID once given is kept until the
\* player is gone, whatever the handlers do before, after and in between.
\* The rules for a GrowID are those RegisterPlayer checks and names in its
\* answers (PlayerTable.cpp:46-70): of a password the length alone, 8 to 24,
\* although the dialog (PlayerDialog.cpp:33) tells the client a stricter one.
NoGrowID == <<NoText, NoText>>
GrowID == [p \in Players |-> <<det[p].tankIDName, det[p].tankIDPass>>]
Claimable ==
  {g \in LowerNames \X Passwords :
     /\ GrowIDFits(g[1]) /\ PasswordFits(g[2])
     /\ \A t \in Taken : ~SameName(t, g[1])}

Reg == INSTANCE Registrar WITH growID <- GrowID

ImplementsRegistrar == Reg!Spec

\* An application is decided however the connection comes and goes and whether
\* or not the player stays: the one worker, which every client shares, is not
\* kept for ever by one of them (or the process is over).
ApplicationsDecided == job # NoJob ~> (job = NoJob \/ status # "up")

-----------------------------------------------------------------------------
(* What the texts of the program say, and the code does not do.            *)

\* "The name `w{}`` is so cool someone else has already taken it": two
\* connected players never have the same GrowID.
GrowIDsUnique ==
  \A p, q \in Players :
    (p # q /\ Registered(p) /\ Registered(q)) =>
       det[p].tankIDName # det[q].tankIDName

\* "Server's database had bad connection, please try again.": a registration
\* that finds the connection lost is answered, and the server goes on.
LostConnectionIsReported == status \notin {"queryThrew", "reconnectThrew"}
=============================================================================
