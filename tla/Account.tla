------------------------------ MODULE Account ------------------------------
(***************************************************************************)
(* The registration of players: the handlers OnRequestedName and           *)
(* OnDialogGrowIDApply with the rules they call (TankInfo::Serialize,      *)
(* PlayerTable::RegisterPlayer), the Player fields they write, and the     *)
(* connection to the data base.                                            *)
(*                                                                         *)
(* The worker thread runs one handler at a time.  OnDialogGrowIDApply      *)
(* waits for the data base twice, and during such a wait the service       *)
(* thread may delete the very Player being registered and the connection   *)
(* may be lost or come back.                                               *)
(*                                                                         *)
(* A name is what the rules tell apart of a string: who it names to the    *)
(* data base, whether it has upper-case letters, how long it is and        *)
(* whether it is all ASCII letters and digits.  A password is which one it *)
(* is, and how long.                                                       *)
(***************************************************************************)
EXTENDS Naturals, FiniteSets

CONSTANTS Players,     \* the Player objects of a run
          NameIds,     \* who a name names to the data base: the columns of
                       \* names collate letter case aside
          PassIds,     \* which password it is
          MaxLen,      \* bound: the length of a longest text sent
          Names,       \* the names clients send
          Passwords,   \* the passwords clients send
          Table,       \* the rows of the player table, by two of their columns
          MaxAmount,   \* ItemInfo::m_maxAmount of each item in use
          NoJob        \* the worker runs no OnDialogGrowIDApply

Items == {"FIST", "WRENCH", "MY_FIRST_WORLD_LOCK", "PICKAXE"}
Lengths == 0 .. MaxLen

AnyName == [id : NameIds, upper : BOOLEAN, len : Lengths, alnum : BOOLEAN]
AnyPass == [id : PassIds, len : Lengths]

\* std::tolower of every character.
Lower(n) == [n EXCEPT !.upper = FALSE]
LowerNames == {Lower(n) : n \in Names}

\* An empty std::string.
NoText == [len |-> 0]

\* PlayerDB, as far as it is queried: a row without a tankIDName is a guest's.
Rows == [rawName : AnyName, tankIDName : AnyName \cup {NoText}]

ASSUME AccountAssumption ==
  /\ MaxLen \in Nat
  /\ Names \subseteq AnyName
  /\ Passwords \subseteq AnyPass
  /\ Table \subseteq Rows
  /\ MaxAmount \in [Items -> Nat]

BackpackSpace == 20

\* A requestedName text: the name, and what TankInfo::Serialize makes of the
\* rest of it.
Forms == [name : Names,
          rest : {"whole",
                  "noRid",        \* country or rid of a bad length
                  "noVersion",    \* game_version is not a number
                  "noPlatform"}]  \* platformID missing, or negative

Jobs == [avatar : Players, name : Names, password : Passwords,
         at : {"lookup", "ping", "reconnect"}]

VARIABLES life,      \* of each Player object
          det,       \* Player::m_detail, the names and password of it
          rawName,   \* Player::m_rawName
          bpItems,   \* PlayerItems::m_bpItems
          leaving,   \* the players RequestDisconnect was called for
          db,        \* the data base as its connection will find it
          job,       \* what OnDialogGrowIDApply is waiting for
          status     \* what has become of the process

fields == <<det, rawName, bpItems>>
vars == <<life, fields, leaving, db, job, status>>

TypeOK ==
  /\ life \in [Players -> {"none", "live", "deleted"}]
  /\ det \in [Players -> [requestedName : Names \cup {NoText},
                          tankIDName : LowerNames \cup {NoText},
                          tankIDPass : Passwords \cup {NoText}]]
  /\ rawName \in [Players -> Names \cup {NoText}]
  /\ bpItems \in [Players -> [Items -> Nat]]
  /\ leaving \subseteq Players
  /\ db \in {"up", "stale", "down"}
  /\ job \in Jobs \cup {NoJob}
  /\ status \in {"up", "undefined", "nameThrew", "queryThrew",
                 "reconnectThrew"}

NoDetail == [requestedName |-> NoText, tankIDName |-> NoText,
             tankIDPass |-> NoText]

\* PlayerItems::AddItem on the counts b; an item not in the map counts 0.
Held(b) == {i \in Items : b[i] > 0}
AddItem(b, item, count) ==
  IF \/ count < 1
     \/ b[item] > 0 /\ b[item] + count > MaxAmount[item]
     \/ b[item] = 0 /\ Cardinality(Held(b)) >= BackpackSpace
  THEN b
  ELSE [b EXCEPT ![item] = @ + count]

\* What the constructor of PlayerItems leaves in the backpack.
FirstItems ==
  AddItem(AddItem([i \in Items |-> 0], "FIST", 1), "WRENCH", 1)

Init ==
  /\ life = [p \in Players |-> "none"]
  /\ det = [p \in Players |-> NoDetail]
  /\ rawName = [p \in Players |-> NoText]
  /\ bpItems = [p \in Players |-> FirstItems]
  /\ leaving = {}
  /\ db = "up"
  /\ job = NoJob
  /\ status = "up"

-----------------------------------------------------------------------------
(* The service thread and the data base server.                            *)

\* CONNECT made a Player.
Join(p) ==
  /\ life[p] = "none"
  /\ life' = [life EXCEPT ![p] = "live"]
  /\ UNCHANGED <<fields, leaving, db, job, status>>

\* DISCONNECT deleted it, as it does to a Player under the connectID it reads;
\* which Players those are is a matter of GameServer.
Leave(p) ==
  /\ life[p] = "live"
  /\ life' = [life EXCEPT ![p] = "deleted"]
  /\ det' = [det EXCEPT ![p] = NoDetail]
  /\ rawName' = [rawName EXCEPT ![p] = NoText]
  /\ bpItems' = [bpItems EXCEPT ![p] = FirstItems]
  /\ leaving' = leaving \ {p}
  /\ UNCHANGED <<db, job, status>>

\* The session with the data base is lost, while its server can ("stale") or
\* cannot ("down") be reached, or its server comes back.
DatabaseChanges ==
  /\ db' \in {"stale", "down"} \ {db}
  /\ UNCHANGED <<life, fields, leaving, job, status>>

-----------------------------------------------------------------------------
(* OnRequestedName.                                                        *)

\* No code calls SetFlag.
LoggedOn(p) == FALSE

\* The worker turns to a text of p.
Handles(p) ==
  /\ job = NoJob
  /\ life[p] = "live"

\* TankInfo::SetRequestedName, which Serialize calls first.
FitsRequestedName(n) == n.len \in 1 .. 16
SetRequestedName(p, n) ==
  det' = IF FitsRequestedName(n)
         THEN [det EXCEPT ![p].requestedName = n]
         ELSE det

\* IsValidUsername, and the length check beside it.
IsValidUsername(n) == n.len > 0 /\ n.alnum
IsShownName(n) == IsValidUsername(n) /\ n.len \in 3 .. 10

\* Serialize returns false: the client is disconnected later, its name kept.
RequestedNameIncomplete(p, f) ==
  /\ Handles(p) /\ ~LoggedOn(p)
  /\ ~FitsRequestedName(f.name) \/ f.rest \in {"noRid", "noPlatform"}
  /\ SetRequestedName(p, f.name)
  /\ leaving' = leaving \cup {p}
  /\ UNCHANGED <<life, rawName, bpItems, db, job, status>>

\* std::stof throws and nothing catches it.
RequestedNameThrows(p, f) ==
  /\ Handles(p) /\ ~LoggedOn(p)
  /\ FitsRequestedName(f.name) /\ f.rest = "noVersion"
  /\ SetRequestedName(p, f.name)
  /\ status' = "nameThrew"
  /\ UNCHANGED <<life, rawName, bpItems, leaving, db, job>>

\* Mutant: the refused client is not disconnected.
RequestedNameInvalidStays(p, f) ==
  /\ Handles(p) /\ ~LoggedOn(p)
  /\ FitsRequestedName(f.name) /\ f.rest = "whole"
  /\ ~IsShownName(f.name)
  /\ SetRequestedName(p, f.name)
  /\ rawName' = [rawName EXCEPT ![p] = f.name]
  /\ UNCHANGED <<life, bpItems, leaving, db, job, status>>

\* The name is set before it is found invalid.
RequestedNameInvalid(p, f) ==
  /\ Handles(p) /\ ~LoggedOn(p)
  /\ FitsRequestedName(f.name) /\ f.rest = "whole"
  /\ ~IsShownName(f.name)
  /\ SetRequestedName(p, f.name)
  /\ rawName' = [rawName EXCEPT ![p] = f.name]
  /\ leaving' = leaving \cup {p}
  /\ UNCHANGED <<life, bpItems, db, job, status>>

RequestedNameAccepted(p, f) ==
  /\ Handles(p) /\ ~LoggedOn(p)
  /\ FitsRequestedName(f.name) /\ f.rest = "whole"
  /\ IsShownName(f.name)
  /\ SetRequestedName(p, f.name)
  /\ rawName' = [rawName EXCEPT ![p] = f.name]
  /\ UNCHANGED <<life, bpItems, leaving, db, job, status>>

-----------------------------------------------------------------------------
(* OnDialogGrowIDApply.                                                    *)

\* The checks RegisterPlayer makes before it asks the data base; ToLowerCase
\* fails on an empty name.  The dialog asks for a password of 8 to 18
\* characters with a letter, a digit and a special one: nothing checks that.

\* Mutant: one character more than TankInfo has room for.
PasswordFitsLonger(w) == w.len \in 8 .. 25

PasswordFits(w) == w.len \in 8 .. 24
GrowIDFits(n) == n.alnum /\ n.len \in 3 .. 18

\* Mutant: a player with a GrowID may apply again.
ApplyTwice(p, n, w) ==
  /\ Handles(p)
  /\ PasswordFits(w) /\ GrowIDFits(n)
  /\ job' = [avatar |-> p, name |-> n, password |-> w, at |-> "lookup"]
  /\ UNCHANGED <<life, fields, leaving, db, status>>

\* A player without a GrowID applies and every check passes.  An applicant
\* with a GrowID, a wrong length, passwords that differ and a bad character
\* end the handler with nothing changed.
Apply(p, n, w) ==
  /\ Handles(p)
  /\ det[p].tankIDName = NoText
  /\ PasswordFits(w) /\ GrowIDFits(n)
  /\ job' = [avatar |-> p, name |-> n, password |-> w, at |-> "lookup"]
  /\ UNCHANGED <<life, fields, leaving, db, status>>

\* The handler returns to its Player, which may be gone.
BackToPlayer ==
  /\ job' = NoJob
  /\ status' = IF life[job.avatar] = "live" THEN status ELSE "undefined"

Waiting(at) == job # NoJob /\ job.at = at

\* The query throws, uncaught, when the data base cannot be reached; a lost
\* session alone is restored (the configuration says auto_reconnect).
LookupThrows ==
  /\ Waiting("lookup") /\ db = "down"
  /\ status' = "queryThrew"
  /\ UNCHANGED <<life, fields, leaving, db, job>>

\* The names the table has an account for.
Taken == {row.rawName : row \in {r \in Table : r.tankIDName # NoText}}

\* Mutant: names are compared byte by byte, as with a binary collation.
IsAccountExistExact(n) == Lower(n) \in Taken

\* PlayerTable::IsAccountExist, called with the name in lower case.  The data
\* base compares, and finds a name stored in any letter case.
SameName(t, n) == t.id = n.id
IsAccountExist(n) == \E t \in Taken : SameName(t, Lower(n))

\* EXIST_GROWID: the dialog is shown again.
LookupTaken ==
  /\ Waiting("lookup") /\ db # "down"
  /\ IsAccountExist(job.name)
  /\ db' = "up"
  /\ BackToPlayer
  /\ UNCHANGED <<life, fields, leaving>>

LookupFree ==
  /\ Waiting("lookup") /\ db # "down"
  /\ ~IsAccountExist(job.name)
  /\ db' = "up"
  /\ job' = [job EXCEPT !.at = "ping"]
  /\ UNCHANGED <<life, fields, leaving, status>>

\* Mutant: the registration is tried again, until the connection holds.
PingFailsRetries ==
  /\ Waiting("ping") /\ db = "down"
  /\ job' = [job EXCEPT !.at = "lookup"]
  /\ UNCHANGED <<life, fields, leaving, db, status>>

\* is_valid is false.
PingFails ==
  /\ Waiting("ping") /\ db = "down"
  /\ job' = [job EXCEPT !.at = "reconnect"]
  /\ UNCHANGED <<life, fields, leaving, db, status>>

\* BAD_CONNECTION, when the connection could be restored meanwhile: the
\* dialog is shown again.
Reconnects ==
  /\ Waiting("reconnect") /\ db # "down"
  /\ db' = "up"
  /\ BackToPlayer
  /\ UNCHANGED <<life, fields, leaving>>

\* reconnect throws, uncaught.
ReconnectThrows ==
  /\ Waiting("reconnect") /\ db = "down"
  /\ status' = "reconnectThrew"
  /\ UNCHANGED <<life, fields, leaving, db, job>>

\* The setters of TankInfo write only what they have room for.
FitsTankID(t) == t.len \in 1 .. 24
SetTankIDName(d, n) ==
  IF FitsTankID(n) THEN [d EXCEPT !.tankIDName = n] ELSE d
SetTankIDPass(d, w) ==
  IF FitsTankID(w) THEN [d EXCEPT !.tankIDPass = w] ELSE d

StarterItems(b) == AddItem(AddItem(b, "MY_FIRST_WORLD_LOCK", 1), "PICKAXE", 1)

\* Mutant: the name is stored as typed.
SetAccountTyped(p, n, w) ==
  /\ det' = [det EXCEPT ![p] = SetTankIDPass(SetTankIDName(@, n), w)]
  /\ bpItems' = [bpItems EXCEPT ![p] = StarterItems(@)]
  /\ rawName' = [rawName EXCEPT ![p] = n]

\* The handler does not look at what the setters return.
SetAccount(p, n, w) ==
  /\ det' = [det EXCEPT ![p] = SetTankIDPass(SetTankIDName(@, Lower(n)), w)]
  /\ bpItems' = [bpItems EXCEPT ![p] = StarterItems(@)]
  /\ rawName' = [rawName EXCEPT ![p] = n]

\* SUCCESS, and the Player is still there.
Register ==
  /\ Waiting("ping") /\ db # "down"
  /\ db' = "up"
  /\ life[job.avatar] = "live"
  /\ SetAccount(job.avatar, job.name, job.password)
  /\ BackToPlayer
  /\ UNCHANGED <<life, leaving>>

\* SUCCESS, for a Player deleted during the wait.
RegisterDeleted ==
  /\ Waiting("ping") /\ db # "down"
  /\ db' = "up"
  /\ life[job.avatar] # "live"
  /\ BackToPlayer
  /\ UNCHANGED <<life, fields, leaving>>

-----------------------------------------------------------------------------
ServiceThread == \E p \in Players : Join(p) \/ Leave(p)

OnRequestedName ==
  \E p \in Players, f \in Forms :
    \/ RequestedNameIncomplete(p, f)
    \/ RequestedNameThrows(p, f)
    \/ RequestedNameInvalid(p, f)
    \/ RequestedNameAccepted(p, f)

\* The handler goes on with what the data base answered.
DatabaseAnswers ==
  \/ LookupThrows \/ LookupTaken \/ LookupFree
  \/ PingFails \/ Reconnects \/ ReconnectThrows
  \/ Register \/ RegisterDeleted

OnDialogGrowIDApply ==
  \/ \E p \in Players, n \in Names, w \in Passwords : Apply(p, n, w)
  \/ DatabaseAnswers

Next ==
  /\ status = "up"
  /\ \/ ServiceThread
     \/ DatabaseChanges
     \/ OnRequestedName
     \/ OnDialogGrowIDApply

Spec == Init /\ [][Next]_vars

\* A query, a ping or a reconnect returns or throws, the client library's
\* timeout included.  Clients and the data base owe nothing.
FairSpec == Spec /\ WF_vars(status = "up" /\ DatabaseAnswers)
=============================================================================
