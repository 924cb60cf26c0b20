--------------------------- MODULE AccountProofs ---------------------------
(***************************************************************************)
(* Registration proved, for any players, names, passwords and accounts: the *)
(* types, RegistrationIsWhole, StayingNamesValid, and that the handlers    *)
(* implement Registrar.  The one thing the four rest on is what the waits  *)
(* of OnDialogGrowIDApply keep (JobSound): the data a waiting handler has  *)
(* checked stays good, because the worker runs no other handler meanwhile, *)
(* and the service thread can only delete the player.                      *)
(***************************************************************************)
EXTENDS AccountProperties, FiniteSetTheorems, TLAPS

\* What OnDialogGrowIDApply has established by the time it waits.
JobSound ==
  job # NoJob =>
    /\ ~Registered(job.avatar)
    /\ GrowIDFits(job.name) /\ PasswordFits(job.password)
    /\ job.at \in {"ping", "reconnect"} => ~IsAccountExist(job.name)

\* A player that is not connected has no name: Join starts with none.
GoneIsBlank == \A p \in Players : life[p] # "live" => rawName[p] = NoText

IInv ==
  TypeOK /\ RegistrationIsWhole /\ StayingNamesValid /\ JobSound /\ GoneIsBlank

-----------------------------------------------------------------------------
(* The operators of the model.                                             *)

\* A name is not the empty text, nor is a password: the records differ in
\* their fields.
LEMMA TextsAreSome ==
  /\ \A n \in Names : n # NoText /\ Lower(n) \in LowerNames
  /\ \A n \in LowerNames : n # NoText
  /\ \A w \in Passwords : w # NoText
<1>1. ASSUME NEW n \in AnyName PROVE n # NoText /\ Lower(n) # NoText
  <2>1. DOMAIN n = {"id", "upper", "len", "alnum"}
    BY DEF AnyName
  <2>2. DOMAIN NoText = {"len"}
    BY DEF NoText
  <2>3. DOMAIN Lower(n) = DOMAIN n
    BY <2>1 DEF Lower
  <2>4. "id" \in DOMAIN n /\ "id" \notin DOMAIN NoText
    BY <2>1, <2>2
  <2> QED
    BY <2>3, <2>4
<1>2. ASSUME NEW w \in AnyPass PROVE w # NoText
  <2>1. DOMAIN w = {"id", "len"}
    BY DEF AnyPass
  <2>2. DOMAIN NoText = {"len"}
    BY DEF NoText
  <2>3. "id" \in DOMAIN w /\ "id" \notin DOMAIN NoText
    BY <2>1, <2>2
  <2> QED
    BY <2>3
<1> QED
  BY <1>1, <1>2, AccountAssumption DEF LowerNames

\* The rules for a GrowID do not see letter case.
LEMMA LowerFits ==
  ASSUME NEW n \in Names
  PROVE  GrowIDFits(Lower(n)) <=> GrowIDFits(n)
<1>1. n \in AnyName
  BY AccountAssumption
<1> QED
  BY <1>1 DEF AnyName, Lower, GrowIDFits

\* What the rules of RegisterPlayer let through, the setters of TankInfo have
\* room for: 18 and 24 are within 24.
LEMMA SettersHaveRoom ==
  ASSUME NEW n \in Names, GrowIDFits(n), NEW w \in Passwords, PasswordFits(w),
         NEW d
  PROVE  SetTankIDPass(SetTankIDName(d, Lower(n)), w) =
           [d EXCEPT !.tankIDName = Lower(n), !.tankIDPass = w]
<1>1. FitsTankID(Lower(n))
  <2>1. n.len \in Nat /\ Lower(n).len = n.len
    BY AccountAssumption DEF AnyName, Lengths, Lower
  <2> QED
    BY <2>1 DEF GrowIDFits, FitsTankID
<1>2. FitsTankID(w)
  <2>1. w.len \in Nat
    BY AccountAssumption DEF AnyPass, Lengths
  <2> QED
    BY <2>1 DEF PasswordFits, FitsTankID
<1> QED
  BY <1>1, <1>2 DEF SetTankIDName, SetTankIDPass

\* There are too few items to fill a backpack.
LEMMA BackpackHasRoom ==
  ASSUME NEW b
  PROVE  ~(Cardinality(Held(b)) >= BackpackSpace)
<1> DEFINE
  A1 == {"FIST"}
  A2 == A1 \cup {"WRENCH"}
  A3 == A2 \cup {"MY_FIRST_WORLD_LOCK"}
  A4 == A3 \cup {"PICKAXE"}
<1>1. IsFiniteSet(A1) /\ Cardinality(A1) = 1
  BY FS_Singleton
<1>2. IsFiniteSet(A2) /\ Cardinality(A2) = 2
  BY <1>1, FS_AddElement, "WRENCH" \notin A1
<1>3. IsFiniteSet(A3) /\ Cardinality(A3) = 3
  BY <1>2, FS_AddElement, "MY_FIRST_WORLD_LOCK" \notin A2
<1>4. IsFiniteSet(A4) /\ Cardinality(A4) = 4
  BY <1>3, FS_AddElement, "PICKAXE" \notin A3
<1>5. Held(b) \subseteq A4
  BY DEF Held, Items
<1>6. Cardinality(Held(b)) <= 4 /\ Cardinality(Held(b)) \in Nat
  BY <1>4, <1>5, FS_Subset, FS_CardinalityType
<1> QED
  BY <1>6 DEF BackpackSpace

\* So an item a player does not have yet is added, as many as asked for.
LEMMA AddsNewItem ==
  ASSUME NEW b \in [Items -> Nat], NEW i \in Items, b[i] = 0
  PROVE  /\ AddItem(b, i, 1) = [b EXCEPT ![i] = 1]
         /\ AddItem(b, i, 1) \in [Items -> Nat]
<1>1. AddItem(b, i, 1) = [b EXCEPT ![i] = @ + 1]
  BY BackpackHasRoom DEF AddItem
<1> QED
  BY <1>1

\* The backpack of a new player, and of one that has registered.
LEMMA Backpacks ==
  /\ FirstItems \in [Items -> Nat]
  /\ FirstItems["MY_FIRST_WORLD_LOCK"] = 0 /\ FirstItems["PICKAXE"] = 0
  /\ \A b \in [Items -> Nat] :
       b["MY_FIRST_WORLD_LOCK"] = 0 /\ b["PICKAXE"] = 0 =>
         /\ StarterItems(b) \in [Items -> Nat]
         /\ StarterItems(b)["MY_FIRST_WORLD_LOCK"] = 1
         /\ StarterItems(b)["PICKAXE"] = 1
<1> DEFINE none == [i \in Items |-> 0]
           fist == AddItem(none, "FIST", 1)
<1>1. fist = [none EXCEPT !["FIST"] = 1] /\ fist \in [Items -> Nat]
  BY AddsNewItem DEF Items
<1>2. /\ FirstItems = [fist EXCEPT !["WRENCH"] = 1]
      /\ FirstItems \in [Items -> Nat]
  <2>1. fist["WRENCH"] = 0
    BY <1>1 DEF Items
  <2> QED
    BY <1>1, <2>1, AddsNewItem DEF FirstItems, Items
<1>3. FirstItems["MY_FIRST_WORLD_LOCK"] = 0 /\ FirstItems["PICKAXE"] = 0
  BY <1>1, <1>2 DEF Items
<1>4. ASSUME NEW b \in [Items -> Nat],
             b["MY_FIRST_WORLD_LOCK"] = 0, b["PICKAXE"] = 0
      PROVE  /\ StarterItems(b) \in [Items -> Nat]
             /\ StarterItems(b)["MY_FIRST_WORLD_LOCK"] = 1
             /\ StarterItems(b)["PICKAXE"] = 1
  <2> DEFINE lock == AddItem(b, "MY_FIRST_WORLD_LOCK", 1)
  <2>1. /\ lock = [b EXCEPT !["MY_FIRST_WORLD_LOCK"] = 1]
        /\ lock \in [Items -> Nat]
    BY <1>4, AddsNewItem DEF Items
  <2>2. lock["PICKAXE"] = 0
    BY <1>4, <2>1 DEF Items
  <2>3. /\ StarterItems(b) = [lock EXCEPT !["PICKAXE"] = 1]
        /\ StarterItems(b) \in [Items -> Nat]
    BY <2>1, <2>2, AddsNewItem DEF StarterItems, Items
  <2> QED
    BY <2>1, <2>3 DEF Items
<1> QED
  BY <1>2, <1>3, <1>4

-----------------------------------------------------------------------------
(* The invariant.                                                          *)

LEMMA InitSound == Init => IInv
<1> SUFFICES ASSUME Init PROVE IInv
  OBVIOUS
<1>1. NoDetail \in [requestedName : Names \cup {NoText},
                    tankIDName : LowerNames \cup {NoText},
                    tankIDPass : Passwords \cup {NoText}]
  BY DEF NoDetail
<1>2. TypeOK
  BY <1>1, Backpacks DEF Init, TypeOK
<1>3. RegistrationIsWhole
  BY Backpacks DEF Init, RegistrationIsWhole, Registered, StarterItemsOf, NoDetail
<1>4. StayingNamesValid /\ GoneIsBlank
  BY DEF Init, StayingNamesValid, GoneIsBlank
<1>5. JobSound
  BY DEF Init, JobSound
<1> QED
  BY <1>2, <1>3, <1>4, <1>5 DEF IInv

\* The steps that leave the players alone: the data base and the waits.
LEMMA WaitsKeep ==
  ASSUME IInv,
         UNCHANGED <<life, fields, leaving>>,
         db' \in {"up", "stale", "down"},
         status' \in {"up", "undefined", "queryThrew", "reconnectThrew", status},
         \/ UNCHANGED job
         \/ job' = NoJob
         \/ /\ job # NoJob
            /\ ~IsAccountExist(job.name)
            /\ job' = [job EXCEPT !.at = "ping"]
         \/ Waiting("ping") /\ job' = [job EXCEPT !.at = "reconnect"]
  PROVE  IInv'
<1> USE DEF IInv
<1>1. job # NoJob => /\ job \in Jobs
                     /\ job.avatar \in Players
                     /\ job.name \in Names /\ job.password \in Passwords
  BY DEF TypeOK, Jobs
<1>2. job' \in Jobs \cup {NoJob}
  <2>1. CASE UNCHANGED job \/ job' = NoJob
    BY <2>1 DEF TypeOK
  <2>2. CASE /\ job # NoJob
             /\ \E a \in {"ping", "reconnect"} : job' = [job EXCEPT !.at = a]
    BY <1>1, <2>2 DEF Jobs
  <2> QED
    BY <2>1, <2>2 DEF Waiting
<1>3. TypeOK'
  BY <1>2 DEF TypeOK, fields
<1>4. RegistrationIsWhole' /\ StayingNamesValid' /\ GoneIsBlank'
  BY DEF RegistrationIsWhole, Registered, StarterItemsOf, StayingNamesValid,
         GoneIsBlank, fields
<1>5. JobSound'
  <2>1. CASE UNCHANGED job \/ job' = NoJob
    BY <2>1 DEF JobSound, Registered, IsAccountExist, fields
  <2>2. CASE /\ job # NoJob
             /\ ~IsAccountExist(job.name)
             /\ \E a \in {"ping", "reconnect"} : job' = [job EXCEPT !.at = a]
    <3>1. /\ job'.avatar = job.avatar /\ job'.name = job.name
          /\ job'.password = job.password
      BY <1>1, <2>2 DEF Jobs
    <3> QED
      BY <2>2, <3>1 DEF JobSound, Registered, IsAccountExist, fields
  <2> QED
    BY <2>1, <2>2 DEF Waiting, JobSound
<1> QED
  BY <1>3, <1>4, <1>5

\* The four outcomes of OnRequestedName: only the name changes, of a player
\* the worker is not waiting for.
LEMMA RequestedNameKeeps ==
  ASSUME IInv, NEW p \in Players, NEW f \in Forms, job = NoJob,
         life[p] = "live", UNCHANGED <<life, bpItems, db, job>>,
         SetRequestedName(p, f.name),
         status' \in {status, "nameThrew"},
         \/ UNCHANGED rawName /\ leaving' \in {leaving, leaving \cup {p}}
         \/ /\ rawName' = [rawName EXCEPT ![p] = f.name]
            /\ leaving' = leaving \cup {p} \/ IsShownName(f.name)
            /\ leaving' \in {leaving, leaving \cup {p}}
  PROVE  IInv'
<1> USE DEF IInv
<1>1. f.name \in Names /\ f.name \in AnyName
  BY AccountAssumption DEF Forms
<1>2. /\ det' \in [Players -> [requestedName : Names \cup {NoText},
                               tankIDName : LowerNames \cup {NoText},
                               tankIDPass : Passwords \cup {NoText}]]
      /\ \A q \in Players : /\ det'[q].tankIDName = det[q].tankIDName
                            /\ det'[q].tankIDPass = det[q].tankIDPass
  <2>1. CASE det' = det
    BY <2>1 DEF TypeOK
  <2>2. CASE det' = [det EXCEPT ![p].requestedName = f.name]
    BY <1>1, <2>2 DEF TypeOK
  <2> QED
    BY <2>1, <2>2 DEF SetRequestedName
<1>3. TypeOK'
  BY <1>1, <1>2 DEF TypeOK
<1>4. RegistrationIsWhole'
  BY <1>2 DEF RegistrationIsWhole, Registered, StarterItemsOf
<1>5. IsShownName(f.name) => GrowIDFits(f.name)
  BY <1>1 DEF IsShownName, IsValidUsername, GrowIDFits, AnyName, Lengths
<1>6. StayingNamesValid'
  BY <1>5 DEF StayingNamesValid, TypeOK
<1>7. JobSound' /\ GoneIsBlank'
  BY DEF JobSound, GoneIsBlank, TypeOK
<1> QED
  BY <1>3, <1>4, <1>6, <1>7

\* A registration that reaches its player.
LEMMA RegisterKeeps == IInv /\ Register => IInv'
<1> SUFFICES ASSUME IInv, Register PROVE IInv'
  OBVIOUS
<1> USE DEF IInv
<1> DEFINE p == job.avatar
           n == job.name
           w == job.password
<1>1. p \in Players /\ n \in Names /\ w \in Passwords
  BY DEF Register, Waiting, TypeOK, Jobs
<1>2. ~Registered(p) /\ GrowIDFits(n) /\ PasswordFits(w)
  BY DEF Register, Waiting, JobSound
<1>3. /\ Lower(n) \in LowerNames /\ Lower(n) # NoText
      /\ w # NoText /\ n # NoText
  BY <1>1, TextsAreSome
<1> HIDE DEF p, n, w
<1>4. /\ det' = [det EXCEPT ![p].tankIDName = Lower(n), ![p].tankIDPass = w]
      /\ bpItems' = [bpItems EXCEPT ![p] = StarterItems(@)]
      /\ rawName' = [rawName EXCEPT ![p] = n]
      /\ job' = NoJob /\ status' \in {status, "undefined"} /\ db' = "up"
      /\ UNCHANGED <<life, leaving>>
      /\ life[p] = "live"
  <2>1. det' = [det EXCEPT ![p] = SetTankIDPass(SetTankIDName(@, Lower(n)), w)]
    BY DEF Register, SetAccount, p, n, w
  <2>2. SetTankIDPass(SetTankIDName(det[p], Lower(n)), w) =
          [det[p] EXCEPT !.tankIDName = Lower(n), !.tankIDPass = w]
    BY <1>1, <1>2, SettersHaveRoom
  <2>3. det' = [det EXCEPT ![p].tankIDName = Lower(n), ![p].tankIDPass = w]
    BY <2>1, <2>2
  <2> QED
    BY <2>3 DEF Register, SetAccount, BackToPlayer, p, n, w
<1>5. /\ StarterItems(bpItems[p]) \in [Items -> Nat]
      /\ StarterItems(bpItems[p])["MY_FIRST_WORLD_LOCK"] = 1
      /\ StarterItems(bpItems[p])["PICKAXE"] = 1
  <2>1. bpItems[p] \in [Items -> Nat]
    BY <1>1 DEF TypeOK
  <2>2. StarterItemsOf(p) = <<0, 0>>
    BY <1>1, <1>2 DEF RegistrationIsWhole
  <2>3. bpItems[p]["MY_FIRST_WORLD_LOCK"] = 0 /\ bpItems[p]["PICKAXE"] = 0
    BY <2>2 DEF StarterItemsOf
  <2> QED
    BY <2>1, <2>3, Backpacks
<1>6. det' \in [Players -> [requestedName : Names \cup {NoText},
                            tankIDName : LowerNames \cup {NoText},
                            tankIDPass : Passwords \cup {NoText}]]
  BY <1>1, <1>3, <1>4, ZenonT(40) DEF TypeOK
<1>7. TypeOK'
  <2>1. bpItems' \in [Players -> [Items -> Nat]]
    BY <1>1, <1>4, <1>5 DEF TypeOK
  <2>2. rawName' \in [Players -> Names \cup {NoText}]
    BY <1>1, <1>4 DEF TypeOK
  <2> QED
    BY <1>4, <1>6, <2>1, <2>2 DEF TypeOK
<1>8. RegistrationIsWhole'
  <2> SUFFICES ASSUME NEW q \in Players
               PROVE  \/ /\ Registered(q)'
                         /\ det'[q].tankIDPass # NoText
                         /\ StarterItemsOf(q)' = <<1, 1>>
                      \/ /\ ~Registered(q)'
                         /\ det'[q].tankIDPass = NoText
                         /\ StarterItemsOf(q)' = <<0, 0>>
    BY DEF RegistrationIsWhole
  <2>1. CASE q = p
    <3>1. det'[p].tankIDName = Lower(n) /\ det'[p].tankIDPass = w
      BY <1>1, <1>4 DEF TypeOK
    <3>2. bpItems'[p] = StarterItems(bpItems[p])
      BY <1>1, <1>4 DEF TypeOK
    <3> QED
      BY <1>3, <1>5, <2>1, <3>1, <3>2 DEF Registered, StarterItemsOf
  <2>2. CASE q # p
    <3>1. det'[q] = det[q] /\ bpItems'[q] = bpItems[q]
      BY <1>4, <2>2 DEF TypeOK
    <3> QED
      BY <3>1 DEF RegistrationIsWhole, Registered, StarterItemsOf
  <2> QED
    BY <2>1, <2>2
<1>9. StayingNamesValid' /\ GoneIsBlank' /\ JobSound'
  BY <1>1, <1>2, <1>4 DEF StayingNamesValid, GoneIsBlank, JobSound, TypeOK
<1> QED
  BY <1>7, <1>8, <1>9

\* The service thread's steps: a player comes with nothing, and goes with all
\* it had, also in the middle of its own registration.
LEMMA ServiceKeeps == IInv /\ ServiceThread => IInv'
<1> SUFFICES ASSUME IInv, NEW p \in Players, Join(p) \/ Leave(p) PROVE IInv'
  BY DEF ServiceThread
<1> USE DEF IInv
<1>1. CASE Join(p)
  <2>1. TypeOK'
    BY <1>1 DEF Join, TypeOK, fields
  <2>2. RegistrationIsWhole' /\ JobSound'
    BY <1>1 DEF Join, RegistrationIsWhole, JobSound, Registered,
                StarterItemsOf, IsAccountExist, fields
  <2>3. StayingNamesValid' /\ GoneIsBlank'
    BY <1>1 DEF Join, StayingNamesValid, GoneIsBlank, TypeOK, fields
  <2> QED
    BY <2>1, <2>2, <2>3
<1>2. CASE Leave(p)
  <2>1. NoDetail \in [requestedName : Names \cup {NoText},
                      tankIDName : LowerNames \cup {NoText},
                      tankIDPass : Passwords \cup {NoText}]
    BY DEF NoDetail
  <2>2. TypeOK'
    <3>1. /\ det' \in [Players -> [requestedName : Names \cup {NoText},
                                   tankIDName : LowerNames \cup {NoText},
                                   tankIDPass : Passwords \cup {NoText}]]
          /\ bpItems' \in [Players -> [Items -> Nat]]
      BY <1>2, <2>1, Backpacks DEF Leave, TypeOK
    <3> QED
      BY <1>2, <3>1 DEF Leave, TypeOK
  <2>3. det'[p] = NoDetail /\ bpItems'[p] = FirstItems
    BY <1>2 DEF Leave, TypeOK
  <2>4. \A q \in Players : q # p => det'[q] = det[q] /\ bpItems'[q] = bpItems[q]
    BY <1>2 DEF Leave, TypeOK
  <2>5. RegistrationIsWhole'
    BY <2>3, <2>4, Backpacks
    DEF RegistrationIsWhole, Registered, StarterItemsOf, NoDetail
  <2>6. JobSound'
    <3>1. job # NoJob => job.avatar \in Players
      BY DEF TypeOK, Jobs
    <3> QED
      BY <1>2, <2>3, <2>4, <3>1
      DEF Leave, JobSound, Registered, NoDetail, IsAccountExist
  <2>7. StayingNamesValid' /\ GoneIsBlank'
    BY <1>2 DEF Leave, StayingNamesValid, GoneIsBlank, TypeOK
  <2> QED
    BY <2>2, <2>5, <2>6, <2>7
<1> QED
  BY <1>1, <1>2

\* An application that waits for its account query.
LEMMA ApplyKeeps ==
  ASSUME IInv, NEW p \in Players, NEW n \in Names, NEW w \in Passwords,
         Apply(p, n, w)
  PROVE  IInv'
<1> USE DEF IInv
<1>1. /\ job' = [avatar |-> p, name |-> n, password |-> w, at |-> "lookup"]
      /\ UNCHANGED <<life, fields, leaving, db, status>>
      /\ ~Registered(p) /\ GrowIDFits(n) /\ PasswordFits(w)
  BY DEF Apply, Registered
<1>2. job' \in Jobs
  BY <1>1 DEF Jobs
<1>3. TypeOK'
  BY <1>1, <1>2 DEF TypeOK, fields
<1>4. RegistrationIsWhole' /\ StayingNamesValid' /\ GoneIsBlank'
  BY <1>1 DEF RegistrationIsWhole, Registered, StarterItemsOf,
              StayingNamesValid, GoneIsBlank, fields
<1>5. JobSound'
  BY <1>1 DEF JobSound, Registered, fields
<1> QED
  BY <1>3, <1>4, <1>5

LEMMA StepSound == IInv /\ [Next]_vars => IInv'
<1> SUFFICES ASSUME IInv, [Next]_vars PROVE IInv'
  OBVIOUS
<1>1. CASE ServiceThread
  BY <1>1, ServiceKeeps
<1>2. CASE DatabaseChanges
  BY <1>2, WaitsKeep DEF DatabaseChanges
<1>3. CASE OnRequestedName
  <2>1. PICK p \in Players, f \in Forms :
          \/ RequestedNameIncomplete(p, f)
          \/ RequestedNameThrows(p, f)
          \/ RequestedNameInvalid(p, f)
          \/ RequestedNameAccepted(p, f)
    BY <1>3 DEF OnRequestedName
  <2>2. CASE RequestedNameIncomplete(p, f)
    BY <2>2, RequestedNameKeeps DEF RequestedNameIncomplete, Handles
  <2>3. CASE RequestedNameThrows(p, f)
    BY <2>3, RequestedNameKeeps DEF RequestedNameThrows, Handles
  <2>4. CASE RequestedNameInvalid(p, f)
    BY <2>4, RequestedNameKeeps DEF RequestedNameInvalid, Handles
  <2>5. CASE RequestedNameAccepted(p, f)
    BY <2>5, RequestedNameKeeps DEF RequestedNameAccepted, Handles
  <2> QED
    BY <2>1, <2>2, <2>3, <2>4, <2>5
<1>4. CASE OnDialogGrowIDApply
  <2>1. CASE LookupThrows \/ ReconnectThrows \/ LookupTaken \/ Reconnects
             \/ RegisterDeleted
    BY <2>1, WaitsKeep
    DEF LookupThrows, ReconnectThrows, LookupTaken, Reconnects,
        RegisterDeleted, BackToPlayer, IInv, TypeOK
  <2>2. CASE LookupFree
    BY <2>2, WaitsKeep DEF LookupFree, Waiting
  <2>3. CASE PingFails
    BY <2>3, WaitsKeep DEF PingFails, IInv, TypeOK
  <2>4. CASE Register
    BY <2>4, RegisterKeeps
  <2>5. CASE \E p \in Players, n \in Names, w \in Passwords : Apply(p, n, w)
    BY <2>5, ApplyKeeps
  <2> QED
    BY <1>4, <2>1, <2>2, <2>3, <2>4, <2>5 DEF OnDialogGrowIDApply, DatabaseAnswers
<1>5. CASE UNCHANGED vars
  BY <1>5, WaitsKeep DEF vars, IInv, TypeOK
<1> QED
  BY <1>1, <1>2, <1>3, <1>4, <1>5 DEF Next

\* The invariant, of which the theorems below are parts.
THEOREM InvariantHolds == Spec => []IInv
<1> QED
  BY InitSound, StepSound, PTL DEF Spec

\* Account's variables keep their types.
THEOREM AccountTypes == Spec => []TypeOK
<1>1. IInv => TypeOK
  BY DEF IInv
<1> QED
  BY <1>1, InvariantHolds, PTL

\* OnDialogGrowIDApply never leaves half of a registration, nor makes two,
\* whatever the data base and the service thread do while it waits.
THEOREM RegistrationStaysWhole == Spec => []RegistrationIsWhole
<1>1. IInv => RegistrationIsWhole
  BY DEF IInv
<1> QED
  BY <1>1, InvariantHolds, PTL

\* A name OnRequestedName has refused is that of a client being disconnected.
THEOREM StayingNamesStayValid == Spec => []StayingNamesValid
<1>1. IInv => StayingNamesValid
  BY DEF IInv
<1> QED
  BY <1>1, InvariantHolds, PTL

-----------------------------------------------------------------------------
(* The refinement.                                                         *)

LEMMA InitRegisters == IInv /\ Init => Reg!Init
BY DEF Init, Reg!Init, GrowID, NoGrowID, NoDetail

\* Steps that change no one's GrowID.
LEMMA GrowIDStays ==
  ASSUME \A p \in Players : /\ det'[p].tankIDName = det[p].tankIDName
                            /\ det'[p].tankIDPass = det[p].tankIDPass
  PROVE  UNCHANGED GrowID
BY DEF GrowID

LEMMA StepRegisters == IInv /\ [Next]_vars => [Reg!Next]_GrowID
<1> SUFFICES ASSUME IInv, [Next]_vars PROVE Reg!Next \/ UNCHANGED GrowID
  OBVIOUS
<1> USE DEF IInv
<1>1. ASSUME NEW p \in Players, Leave(p) PROVE Reg!Leave(p)
  <2>1. \A q \in Players :
          /\ det'[q].tankIDName = IF q = p THEN NoText ELSE det[q].tankIDName
          /\ det'[q].tankIDPass = IF q = p THEN NoText ELSE det[q].tankIDPass
    <3>1. NoDetail.tankIDName = NoText /\ NoDetail.tankIDPass = NoText
      BY DEF NoDetail
    <3>2. \A q \in Players : det'[q] = IF q = p THEN NoDetail ELSE det[q]
      BY <1>1 DEF Leave, TypeOK
    <3> QED
      BY <3>1, <3>2
  <2>2. GrowID' = [GrowID EXCEPT ![p] = NoGrowID]
    BY <2>1 DEF GrowID, NoGrowID
  <2> QED
    BY <2>2 DEF Reg!Leave
<1>2. CASE Register
  <2> DEFINE p == job.avatar
             g == <<Lower(job.name), job.password>>
  <2>1. /\ p \in Players /\ job.name \in Names /\ job.password \in Passwords
        /\ job.at = "ping" /\ job # NoJob
    BY <1>2 DEF Register, Waiting, TypeOK, Jobs
  <2>2. GrowID[p] = NoGrowID
    BY <2>1 DEF JobSound, RegistrationIsWhole, Registered, GrowID, NoGrowID
  <2>3. g \in Claimable
    <3>1. Lower(job.name) \in LowerNames
      BY <2>1, TextsAreSome
    <3>2. GrowIDFits(Lower(job.name)) /\ PasswordFits(job.password)
      BY <2>1, LowerFits DEF JobSound
    <3>3. \A t \in Taken : ~SameName(t, Lower(job.name))
      BY <2>1 DEF JobSound, IsAccountExist
    <3> QED
      BY <2>1, <3>1, <3>2, <3>3 DEF Claimable
  <2>4. GrowID' = [GrowID EXCEPT ![p] = g]
    <3>1. \A q \in Players :
            /\ det'[q].tankIDName = IF q = p THEN Lower(job.name)
                                    ELSE det[q].tankIDName
            /\ det'[q].tankIDPass = IF q = p THEN job.password
                                    ELSE det[q].tankIDPass
      <4>1. GrowIDFits(job.name) /\ PasswordFits(job.password)
        BY <2>1 DEF JobSound
      <4>2. SetTankIDPass(SetTankIDName(det[p], Lower(job.name)), job.password)
              = [det[p] EXCEPT !.tankIDName = Lower(job.name),
                               !.tankIDPass = job.password]
        BY <2>1, <4>1, SettersHaveRoom
      <4>3. det' = [det EXCEPT ![p] =
                      SetTankIDPass(SetTankIDName(@, Lower(job.name)),
                                    job.password)]
        BY <1>2 DEF Register, SetAccount
      <4>4. det[p] \in [requestedName : Names \cup {NoText},
                        tankIDName : LowerNames \cup {NoText},
                        tankIDPass : Passwords \cup {NoText}]
        BY <2>1 DEF TypeOK
      <4> QED
        BY <2>1, <4>2, <4>3, <4>4 DEF TypeOK
    <3> QED
      BY <3>1 DEF GrowID
  <2>5. Reg!Claim(p)
    BY <2>2, <2>3, <2>4 DEF Reg!Claim
  <2> QED
    BY <2>1, <2>5 DEF Reg!Next
<1>3. CASE OnRequestedName
  <2>1. PICK p \in Players, f \in Forms : SetRequestedName(p, f.name)
    BY <1>3 DEF OnRequestedName, RequestedNameIncomplete, RequestedNameThrows,
                RequestedNameInvalid, RequestedNameAccepted
  <2>2. \A q \in Players : /\ det'[q].tankIDName = det[q].tankIDName
                           /\ det'[q].tankIDPass = det[q].tankIDPass
    BY <2>1 DEF SetRequestedName, TypeOK
  <2> QED
    BY <2>2, GrowIDStays
<1>4. CASE UNCHANGED det
  BY <1>4, GrowIDStays
<1>5. \/ \E p \in Players : Leave(p)
      \/ Register
      \/ OnRequestedName
      \/ UNCHANGED det
  BY DEF Next, vars, fields, ServiceThread, Join, DatabaseChanges,
         OnDialogGrowIDApply, DatabaseAnswers, Apply, LookupThrows, LookupTaken, LookupFree,
         PingFails, Reconnects, ReconnectThrows, RegisterDeleted
<1> QED
  BY <1>1, <1>2, <1>3, <1>4, <1>5 DEF Reg!Next

\* The handlers implement Registrar: a GrowID is claimed at once and whole, by
\* a player without one, under the rules, and kept until the player is gone.
THEOREM HandlersImplementRegistrar == Spec => ImplementsRegistrar
<1>1. IInv /\ Init => Reg!Init
  BY InitRegisters
<1>2. Init => IInv
  BY InitSound
<1>3. IInv /\ [Next]_vars => [Reg!Next]_GrowID
  BY StepRegisters
<1> QED
  BY <1>1, <1>2, <1>3, InvariantHolds, PTL DEF Spec, ImplementsRegistrar, Reg!Spec
=============================================================================
