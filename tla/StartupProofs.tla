--------------------------- MODULE StartupProofs ---------------------------
(***************************************************************************)
(* Proofs about the life of the process, for any clients, files and texts. *)
(*                                                                         *)
(* What makes them inductive is where main can be (Position): each thing   *)
(* main has set up stays, and each of its statements knows those before    *)
(* it; and what the registries hold between two constructors (Filling).    *)
(***************************************************************************)
EXTENDS Startup, ItemsProofs

AfterDatabase == {"items", "events", "enet", "instance", "spawn", "mark",
                  "console", "loop"}
AfterItems == AfterDatabase \ {"items"}
AfterEvents == AfterItems \ {"events"}
AfterSpawn == {"mark", "console", "loop"}
AfterMark == {"console", "loop"}

\* What is true of the process by where main is.
Position ==
  /\ main \in AfterDatabase => database
  /\ main \in AfterItems => Serializes(file)
  /\ main \in AfterEvents => worker = 1
  /\ main \in {"static", "http", "database", "items", "events"} => worker = 0
  /\ service # "none" <=> main \in AfterSpawn
  /\ running <=> main \in AfterMark
  /\ service = "polling" => running
  /\ console # "none" => main = "loop"
  /\ exit # "no" => main \in {"static", "items", "return"}
  /\ \A c \in Clients :
       client[c] \in {"connected", "queued", "served"} => service = "polling"

\* The declared types, by the part of the process they are about.
ThreadTypes ==
  /\ main \in Statements
  /\ http \in {"off", "listening"}
  /\ worker \in 0 .. 1
  /\ instance \in {"none", "listed", "leaving", "stopped"}
  /\ running \in BOOLEAN
  /\ service \in {"none", "created", "polling", "ended"}
  /\ console \in {"none", "reading", "ended"}
  /\ exit \in {"no", "failure", "terminated", "undefined"}
LoadTypes ==
  /\ database \in BOOLEAN
  /\ file \in Files
  /\ \A n \in DOMAIN items : DOMAIN items[n] = Members \cup Derived
ClientTypes ==
  /\ client \in [Clients -> {"away", "told", "connected", "queued", "served"}]
  /\ request \in [Clients -> Texts \cup {NoText}]
  /\ ran \in [Clients -> Seq(Handlers)]

LEMMA TypeParts ==
  /\ TypeOK <=> ThreadTypes /\ LoadTypes /\ ClientTypes /\ RegistryTypeOK
  /\ TypeOK' <=> ThreadTypes' /\ LoadTypes' /\ ClientTypes' /\ RegistryTypeOK'
BY DEF TypeOK, ThreadTypes, LoadTypes, ClientTypes

-----------------------------------------------------------------------------
(* Which steps change what.                                                *)

\* The steps that touch clients, the loaded data and the registries; each of
\* the others leaves them alone.
LEMMA Frames ==
  ASSUME [Next]_vars
  PROVE  /\ UNCHANGED clients
              \/ \E c \in Clients : Answer(c) \/ Connect(c) \/ Queue(c) \/ Serve(c)
         /\ UNCHANGED loaded \/ ConnectDatabase \/ LoadItems
         /\ UNCHANGED registryVars \/ InitializePool \/ InitializeObject
<1>1. CASE Main
  <2>1. CASE InitializePool \/ InitializeObject \/ EnterMain
    BY <2>1 DEF InitializePool, InitializeObject, EnterMain
  <2>2. CASE StartHTTP \/ ConnectDatabase \/ LoadItems
    BY <2>2 DEF StartHTTP, ConnectDatabase, LoadItems
  <2>3. CASE RegisterEvents \/ InitializeENet \/ StartInstance
    BY <2>3 DEF RegisterEvents, InitializeENet, StartInstance
  <2>4. CASE SpawnService \/ MarkRunning \/ StartConsole \/ Return
    BY <2>4 DEF SpawnService, MarkRunning, StartConsole, Return
  <2> QED
    BY <1>1, <2>1, <2>2, <2>3, <2>4 DEF Main
<1>2. CASE ServiceBegins \/ RoundEnds \/ ConsoleShutdown \/ ConsoleEnds
  BY <1>2 DEF ServiceBegins, RoundEnds, ConsoleShutdown, ConsoleEnds
<1>3. ASSUME NEW c \in Clients, Answer(c) \/ Connect(c) \/ Queue(c) \/ Serve(c)
      PROVE  UNCHANGED <<loaded, registryVars>>
  BY <1>3 DEF Answer, Connect, Queue, Serve
<1>4. CASE UNCHANGED vars
  BY <1>4 DEF vars
<1> QED
  BY <1>1, <1>2, <1>3, <1>4 DEF Next

\* main is entered when the constructors are done.
LEMMA MainLeavesStatic ==
  ASSUME [Next]_vars, main = "static", main' # "static"
  PROVE  Initialised
<1> USE DEF At, GoTo
<1>1. CASE Main
  <2>1. CASE EnterMain
    BY <2>1 DEF EnterMain
  <2>2. CASE InitializePool \/ InitializeObject
    BY <2>2 DEF InitializePool, InitializeObject
  <2>3. CASE StartHTTP \/ ConnectDatabase \/ LoadItems \/ RegisterEvents
    BY <2>3 DEF StartHTTP, ConnectDatabase, LoadItems, RegisterEvents
  <2>4. CASE InitializeENet \/ StartInstance \/ SpawnService \/ MarkRunning
             \/ StartConsole \/ Return
    BY <2>4 DEF InitializeENet, StartInstance, SpawnService, MarkRunning,
       StartConsole, Return
  <2> QED
    BY <1>1, <2>1, <2>2, <2>3, <2>4 DEF Main
<1>2. CASE ServiceBegins \/ RoundEnds \/ ConsoleShutdown \/ ConsoleEnds
  BY <1>2 DEF ServiceBegins, RoundEnds, ConsoleShutdown, ConsoleEnds
<1>3. ASSUME NEW c \in Clients, Answer(c) \/ Connect(c) \/ Queue(c) \/ Serve(c)
      PROVE  FALSE
  BY <1>3 DEF Answer, Connect, Queue, Serve
<1>4. CASE UNCHANGED vars
  BY <1>4 DEF vars
<1> QED
  BY <1>1, <1>2, <1>3, <1>4 DEF Next

-----------------------------------------------------------------------------
(* Types.                                                                  *)

\* What runs for a text is a sequence of handlers.
LEMMA ChainType ==
  ASSUME RegistryTypeOK, NEW t
  PROVE  Chain(t) \in Seq(Handlers)
<1>1. \A n : \A r \in Registry :
        GetEventIfExists(r, n) \in Handlers \cup {NoHandler}
  BY DEF GetEventIfExists, RegistryTypeOK
<1> DEFINE event == GetEventIfExists("event", t.event)
           action == GetEventIfExists("action", t.action)
           dialog == GetEventIfExists("dialog", t.dialog)
<1>2. {event, action, dialog} \subseteq Handlers \cup {NoHandler}
  BY <1>1 DEF Registry
<1> HIDE DEF event, action, dialog
<1>3. \A h, i, j \in Handlers :
        /\ <<h>> \in Seq(Handlers)
        /\ <<h, i>> \in Seq(Handlers) /\ <<h, i, j>> \in Seq(Handlers)
  OBVIOUS
<1> DEFINE acts == event = "OnAction" /\ action # NoHandler
           shows == acts /\ action = "OnDialogReturn" /\ dialog # NoHandler
<1>4. CASE event = NoHandler
  <2>1. Chain(t) = << >>
    BY <1>4 DEF Chain, event, NoHandler
  <2>2. << >> \in Seq(Handlers)
    OBVIOUS
  <2> QED
    BY <2>1, <2>2
<1>5. CASE event # NoHandler /\ ~acts
  BY <1>2, <1>3, <1>5 DEF Chain, event, action
<1>6. CASE event # NoHandler /\ acts /\ ~shows
  BY <1>2, <1>3, <1>6 DEF Chain, event, action, dialog, NoHandler
<1>7. CASE event # NoHandler /\ shows
  BY <1>2, <1>3, <1>7 DEF Chain, event, action, dialog, NoHandler
<1> QED
  BY <1>4, <1>5, <1>6, <1>7

LEMMA RegistryTypes == RegistryTypeOK /\ [Next]_vars => RegistryTypeOK'
<1> SUFFICES ASSUME RegistryTypeOK, [Next]_vars
             PROVE  RegistryTypeOK'
  OBVIOUS
<1>1. CASE InitializePool
  BY <1>1 DEF InitializePool, ConstructPool, Empty, RegistryTypeOK
<1>2. CASE InitializeObject
  <2> DEFINE o == Objects[built + 1]
  <2>1. o.in \in Registry /\ o.name \in EventNames /\ o.run \in Handlers
        /\ built + 1 \in 0 .. Len(Objects)
    <3>1. built + 1 \in DOMAIN Objects /\ built + 1 \in 0 .. Len(Objects)
      BY <1>2 DEF InitializeObject, ConstructObject, RegistryTypeOK, Objects
    <3>2. \A i \in DOMAIN Objects : Objects[i].in \in Registry
      BY DEF Objects, Registry
    <3> QED
      BY <3>1, <3>2 DEF EventNames, Handlers
  <2> HIDE DEF o
  <2>2. data' = [data EXCEPT ![o.in][o.name] = o.run] /\ built' = built + 1
        /\ UNCHANGED <<poolFirst, constructed>>
    BY <1>2 DEF InitializeObject, ConstructObject, AddEvent, o
  <2>3. data' \in [Registry -> [EventNames -> Handlers \cup {NoHandler}]]
    BY <2>1, <2>2 DEF RegistryTypeOK
  <2> QED
    BY <2>1, <2>2, <2>3 DEF RegistryTypeOK
<1>3. CASE UNCHANGED registryVars
  BY <1>3 DEF registryVars, RegistryTypeOK
<1> QED
  BY <1>1, <1>2, <1>3, Frames

LEMMA LoadKeepsTypes == LoadTypes /\ [Next]_vars => LoadTypes'
<1> SUFFICES ASSUME LoadTypes, [Next]_vars
             PROVE  LoadTypes'
  OBVIOUS
<1>1. CASE ConnectDatabase
  BY <1>1 DEF ConnectDatabase, LoadTypes
<1>2. CASE LoadItems
  <2>1. \A n \in DOMAIN SerializedItems(file) :
          DOMAIN SerializedItems(file)[n] = Members \cup Derived
    BY DEF SerializedItems, ReadItem
  <2> QED
    BY <1>2, <2>1 DEF LoadItems, LoadTypes
<1>3. CASE UNCHANGED loaded
  BY <1>3 DEF loaded, LoadTypes
<1> QED
  BY <1>1, <1>2, <1>3, Frames

LEMMA ClientsKeepTypes ==
  RegistryTypeOK /\ ClientTypes /\ [Next]_vars => ClientTypes'
<1> SUFFICES ASSUME RegistryTypeOK, ClientTypes, [Next]_vars
             PROVE  ClientTypes'
  OBVIOUS
<1>1. ASSUME NEW c \in Clients, Answer(c) \/ Connect(c) \/ Queue(c)
      PROVE  ClientTypes'
  BY <1>1 DEF Answer, Connect, Queue, ClientTypes
<1>2. ASSUME NEW c \in Clients, Serve(c)
      PROVE  ClientTypes'
  BY <1>2, ChainType DEF Serve, ClientTypes
<1>3. CASE UNCHANGED clients
  BY <1>3 DEF clients, ClientTypes
<1> QED
  BY <1>1, <1>2, <1>3, Frames

LEMMA ThreadsKeepTypes == ThreadTypes /\ Position /\ [Next]_vars => ThreadTypes'
<1> SUFFICES ASSUME ThreadTypes, Position, [Next]_vars
             PROVE  ThreadTypes'
  OBVIOUS
<1> USE DEF At, GoTo, threads, ThreadTypes, Statements
<1>1. CASE InitializePool \/ InitializeObject \/ EnterMain
  BY <1>1 DEF InitializePool, InitializeObject, EnterMain
<1>2. CASE StartHTTP \/ ConnectDatabase \/ LoadItems
  BY <1>2 DEF StartHTTP, ConnectDatabase, LoadItems
<1>3. CASE RegisterEvents
  BY <1>3 DEF RegisterEvents, Position
<1>4. CASE InitializeENet \/ StartInstance \/ SpawnService \/ MarkRunning
  BY <1>4 DEF InitializeENet, StartInstance, SpawnService, MarkRunning
<1>5. CASE StartConsole \/ Return
  BY <1>5 DEF StartConsole, Return
<1>6. CASE ServiceBegins \/ RoundEnds \/ ConsoleShutdown \/ ConsoleEnds
  BY <1>6 DEF ServiceBegins, RoundEnds, ConsoleShutdown, ConsoleEnds
<1>7. ASSUME NEW c \in Clients, Answer(c) \/ Connect(c) \/ Queue(c) \/ Serve(c)
      PROVE  ThreadTypes'
  BY <1>7 DEF Answer, Connect, Queue, Serve
<1>8. CASE UNCHANGED vars
  BY <1>8 DEF vars
<1> QED
  BY <1>1, <1>2, <1>3, <1>4, <1>5, <1>6, <1>7, <1>8 DEF Next, Main

-----------------------------------------------------------------------------
(* Where main is.                                                          *)

LEMMA PositionStep ==
  ThreadTypes /\ ClientTypes /\ Position /\ [Next]_vars => Position'
<1>0. CASE UNCHANGED vars
  BY <1>0 DEF vars, threads, loaded, clients, Position
<1> SUFFICES ASSUME ThreadTypes, ClientTypes, Position, Next, exit = "no"
             PROVE  Position'
  BY <1>0 DEF Next
<1> USE DEF At, GoTo, threads, loaded, clients, Position, AfterDatabase, AfterItems,
            AfterEvents, AfterSpawn, AfterMark
<1>1. CASE InitializePool \/ InitializeObject \/ EnterMain
  BY <1>1 DEF InitializePool, InitializeObject, EnterMain
<1>2. CASE StartHTTP \/ ConnectDatabase
  BY <1>2 DEF StartHTTP, ConnectDatabase
<1>3. CASE LoadItems
  BY <1>3 DEF LoadItems, Serializes
<1>4. CASE RegisterEvents \/ InitializeENet
  BY <1>4 DEF RegisterEvents, InitializeENet
<1>5. CASE StartInstance
  BY <1>5 DEF StartInstance
<1>9. CASE SpawnService
  BY <1>9 DEF SpawnService
<1>6. CASE MarkRunning \/ StartConsole \/ Return
  BY <1>6 DEF MarkRunning, StartConsole, Return
<1>7. CASE ServiceBegins \/ RoundEnds \/ ConsoleShutdown \/ ConsoleEnds
  BY <1>7 DEF ServiceBegins, RoundEnds, ConsoleShutdown, ConsoleEnds
<1>8. ASSUME NEW c \in Clients, Answer(c) \/ Connect(c) \/ Queue(c) \/ Serve(c)
      PROVE  Position'
  BY <1>8 DEF Answer, Connect, Queue, Serve, ClientTypes
<1> QED
  BY <1>1, <1>2, <1>3, <1>4, <1>5, <1>6, <1>7, <1>8, <1>9 DEF Next, Main

-----------------------------------------------------------------------------
(* The registries.                                                         *)

\* What a registry holds under a name once the first k objects are built.
HeldAfter(k, r, n) ==
  LET mine == {i \in 1 .. k : Objects[i].in = r /\ Objects[i].name = n}
  IN IF mine = {} THEN NoHandler ELSE Objects[CHOOSE i \in mine : TRUE].run
FilledTo(k) ==
  \A r \in Registry, n \in EventNames : data[r][n] = HeldAfter(k, r, n)

\* Between two constructors: with the pool first, what the objects so far have
\* registered; with the pool last, nothing.
Filling ==
  /\ poolFirst /\ ~constructed => built = 0
  /\ poolFirst /\ constructed => FilledTo(built)
  /\ ~poolFirst /\ constructed => built = Len(Objects) /\ data = Empty
  /\ main # "static" => Initialised

\* Each object is a record of its own place.
LEMMA ObjectsApart ==
  /\ DOMAIN Objects = 1 .. Len(Objects) /\ Len(Objects) = 4
  /\ \A i \in 1 .. 4 :
       /\ Objects[i].in \in Registry /\ Objects[i].name \in EventNames
       /\ Objects[i].run \in Handlers
       /\ Objects[i] = [in |-> Objects[i].in, name |-> Objects[i].name,
                        run |-> Objects[i].run]
  /\ \A i, j \in 1 .. 4 :
       Objects[i].in = Objects[j].in /\ Objects[i].name = Objects[j].name
         => i = j
  /\ NoHandler \notin Handlers
<1>1. DOMAIN Objects = 1 .. 4 /\ Len(Objects) = 4
  BY DEF Objects
<1>2. \A i \in 1 .. 4 : Objects[i].in \in Registry
  BY DEF Objects, Registry
<1>3. \A i \in 1 .. 4 : Objects[i].name \in EventNames /\ Objects[i].run \in Handlers
  BY <1>1 DEF EventNames, Handlers
<1>4. \A i \in 1 .. 4 :
        Objects[i] = [in |-> Objects[i].in, name |-> Objects[i].name,
                      run |-> Objects[i].run]
  BY DEF Objects
<1>5. \A i, j \in 1 .. 4 :
        Objects[i].in = Objects[j].in /\ Objects[i].name = Objects[j].name
          => i = j
  BY DEF Objects
<1>6. NoHandler \notin Handlers
  BY DEF Objects, Handlers, NoHandler
<1> QED
  BY <1>1, <1>2, <1>3, <1>4, <1>5, <1>6

\* The one object so far of a place, if there is one, is what it holds.
LEMMA HeldIs ==
  ASSUME NEW k \in 0 .. 4, NEW r, NEW n
  PROVE  /\ \A i \in 1 .. k :
              Objects[i].in = r /\ Objects[i].name = n
                => HeldAfter(k, r, n) = Objects[i].run
         /\ (\A i \in 1 .. k : ~(Objects[i].in = r /\ Objects[i].name = n))
              => HeldAfter(k, r, n) = NoHandler
<1> DEFINE mine == {i \in 1 .. k : Objects[i].in = r /\ Objects[i].name = n}
           i0 == CHOOSE i \in mine : TRUE
<1>1. mine # {} => i0 \in mine
  OBVIOUS
<1>2. HeldAfter(k, r, n) = IF mine = {} THEN NoHandler ELSE Objects[i0].run
  BY DEF HeldAfter
<1>3. \A i \in mine : i \in 1 .. 4 /\ Objects[i].in = r /\ Objects[i].name = n
  OBVIOUS
<1> HIDE DEF i0
<1>4. \A i \in mine : i0 = i
  BY <1>1, <1>3, ObjectsApart
<1> QED
  BY <1>2, <1>4

\* The next object adds its own handler and disturbs no other.
LEMMA HeldNext ==
  ASSUME NEW k \in 0 .. 3, NEW r \in Registry, NEW n \in EventNames
  PROVE  HeldAfter(k + 1, r, n) =
           IF Objects[k + 1].in = r /\ Objects[k + 1].name = n
           THEN Objects[k + 1].run ELSE HeldAfter(k, r, n)
<1>1. k + 1 \in 1 .. 4 /\ \A i : i \in 1 .. k + 1 <=> i \in 1 .. k \/ i = k + 1
  OBVIOUS
<1>2. CASE Objects[k + 1].in = r /\ Objects[k + 1].name = n
  BY <1>1, <1>2, HeldIs
<1>3. CASE ~(Objects[k + 1].in = r /\ Objects[k + 1].name = n)
  <2>1. CASE \E i \in 1 .. k : Objects[i].in = r /\ Objects[i].name = n
    BY <1>1, <2>1, HeldIs
  <2>2. CASE \A i \in 1 .. k : ~(Objects[i].in = r /\ Objects[i].name = n)
    <3>1. HeldAfter(k, r, n) = NoHandler
      BY <2>2, HeldIs
    <3>2. HeldAfter(k + 1, r, n) = NoHandler
      BY <1>1, <1>3, <2>2, HeldIs
    <3> QED
      BY <1>3, <3>1, <3>2
  <2> QED
    BY <2>1, <2>2
<1> QED
  BY <1>2, <1>3

LEMMA RegisteredHeld ==
  \A r \in Registry, n \in EventNames : Registered[r][n] = HeldAfter(4, r, n)
BY ObjectsApart DEF HeldAfter, Registered

LEMMA FillingStep == RegistryTypeOK /\ Filling /\ [Next]_vars => Filling'
<1> SUFFICES ASSUME RegistryTypeOK, Filling, [Next]_vars
             PROVE  Filling'
  OBVIOUS
<1>1. CASE InitializePool
  <2>1. constructed' /\ data' = Empty /\ UNCHANGED <<poolFirst, built, main>>
        /\ (poolFirst \/ built = Len(Objects)) /\ main = "static"
    BY <1>1 DEF InitializePool, ConstructPool, At
  <2>2. poolFirst => FilledTo(built)'
    <3> SUFFICES ASSUME poolFirst, NEW r \in Registry, NEW n \in EventNames
                 PROVE  data'[r][n] = HeldAfter(built', r, n)
      BY DEF FilledTo
    <3>1. built' = 0
      BY <1>1, <2>1 DEF Filling, InitializePool, ConstructPool
    <3>2. HeldAfter(0, r, n) = NoHandler
      BY DEF HeldAfter
    <3> QED
      BY <2>1, <3>1, <3>2 DEF Empty
  <2> QED
    BY <2>1, <2>2 DEF Filling
<1>2. CASE InitializeObject
  <2> DEFINE o == Objects[built + 1]
  <2>1. /\ built < Len(Objects) /\ built' = built + 1 /\ main = "static"
        /\ UNCHANGED <<poolFirst, constructed, main>>
        /\ (poolFirst => constructed)
        /\ data' = [data EXCEPT ![o.in][o.name] = o.run]
    BY <1>2 DEF InitializeObject, ConstructObject, AddEvent, At
  <2>2. built \in 0 .. 3
    BY <2>1, ObjectsApart DEF RegistryTypeOK
  <2>3. ASSUME poolFirst
        PROVE  FilledTo(built)'
    <3> SUFFICES ASSUME NEW r \in Registry, NEW n \in EventNames
                 PROVE  data'[r][n] = HeldAfter(built', r, n)
      BY DEF FilledTo
    <3>1. data[r][n] = HeldAfter(built, r, n)
      BY <2>1, <2>3 DEF Filling, FilledTo
    <3>2. data'[r][n] = IF o.in = r /\ o.name = n THEN o.run ELSE data[r][n]
      BY <2>1, <2>2, ObjectsApart DEF RegistryTypeOK
    <3> QED
      BY <2>1, <2>2, <3>1, <3>2, HeldNext
  <2>4. ~(~poolFirst /\ constructed)
    BY <2>1 DEF Filling
  <2> QED
    BY <2>1, <2>3, <2>4 DEF Filling
<1>3. CASE UNCHANGED registryVars
  <2>1. main' # "static" => main # "static" \/ Initialised
    BY <1>3, MainLeavesStatic
  <2> QED
    BY <1>3, <2>1 DEF registryVars, Filling, FilledTo, Initialised
<1> QED
  BY <1>1, <1>2, <1>3, Frames

\* Past the constructors the registries are full or empty.
LEMMA FilledWhole ==
  RegistryTypeOK /\ Filling => RegistriesWhole
<1> SUFFICES ASSUME RegistryTypeOK, Filling, main # "static", poolFirst
             PROVE  data = Registered
  BY ObjectsApart DEF RegistriesWhole, At, Filling, Initialised
<1>1. FilledTo(Len(Objects))
  BY DEF Filling, Initialised
<1>2. \A r \in Registry, n \in EventNames : data[r][n] = Registered[r][n]
  BY <1>1, ObjectsApart, RegisteredHeld DEF FilledTo
<1>3. \A r \in Registry : data[r] = Registered[r]
  <2> TAKE r \in Registry
  <2>1. data[r] \in [EventNames -> Handlers \cup {NoHandler}]
    BY DEF RegistryTypeOK
  <2>2. data[r] = [n \in EventNames |-> data[r][n]]
    BY <2>1
  <2>3. Registered[r] = [n \in EventNames |-> Registered[r][n]]
    BY DEF Registered
  <2> QED
    BY <1>2, <2>2, <2>3
<1>4. data = [r \in Registry |-> data[r]]
  BY DEF RegistryTypeOK
<1>5. Registered = [r \in Registry |-> Registered[r]]
  BY DEF Registered
<1> QED
  BY <1>3, <1>4, <1>5

\* A full registry knows exactly the objects' names.
LEMMA LookUp ==
  ASSUME data = Registered, NEW r \in Registry, NEW n
  PROVE  LET h == GetEventIfExists(r, n)
             entry(g) == [in |-> r, name |-> n, run |-> g]
         IN /\ h = NoHandler => \A g : entry(g) \notin Range(Objects)
            /\ h # NoHandler => entry(h) \in Range(Objects)
<1>1. Range(Objects) = {Objects[i] : i \in 1 .. 4}
  BY ObjectsApart DEF Range
<1>2. CASE \E i \in 1 .. 4 : Objects[i].in = r /\ Objects[i].name = n
  <2>1. PICK i \in 1 .. 4 : Objects[i].in = r /\ Objects[i].name = n
    BY <1>2
  <2>2. n \in EventNames
    BY <2>1, ObjectsApart
  <2>3. GetEventIfExists(r, n) = Objects[i].run
    BY <2>1, <2>2, RegisteredHeld, HeldIs DEF GetEventIfExists
  <2>4. Objects[i] = [in |-> r, name |-> n, run |-> Objects[i].run]
    BY <2>1, ObjectsApart
  <2>5. Objects[i] \in Range(Objects) /\ Objects[i].run # NoHandler
    BY <1>1, <2>1, ObjectsApart
  <2> QED
    BY <2>3, <2>4, <2>5
<1>3. CASE \A i \in 1 .. 4 : ~(Objects[i].in = r /\ Objects[i].name = n)
  <2>1. \A g : [in |-> r, name |-> n, run |-> g] \notin Range(Objects)
    BY <1>1, <1>3
  <2>2. GetEventIfExists(r, n) = NoHandler
    BY <1>3, RegisteredHeld, HeldIs DEF GetEventIfExists
  <2> QED
    BY <2>1, <2>2
<1> QED
  BY <1>2, <1>3

\* With empty registries nothing runs; with full ones, what belongs there.
LEMMA ChainInPlace ==
  ASSUME RegistryTypeOK, data \in {Registered, Empty}, NEW t,
         Chain(t) # << >>
  PROVE  InPlace(t, Chain(t))
<1> DEFINE event == GetEventIfExists("event", t.event)
           action == GetEventIfExists("action", t.action)
           dialog == GetEventIfExists("dialog", t.dialog)
           acts == event = "OnAction" /\ action # NoHandler
           shows == acts /\ action = "OnDialogReturn" /\ dialog # NoHandler
<1>1. event # NoHandler
  BY DEF Chain, NoHandler
<1>2. data = Registered
  BY <1>1 DEF GetEventIfExists, Empty, Registry
<1>3. /\ Passing[1] = "event" /\ Passing[2] = "action" /\ Passing[3] = "dialog"
      /\ "event" \in Registry /\ "action" \in Registry /\ "dialog" \in Registry
  BY DEF Passing, Registry
<1>4. Entry(t, 1, event) \in Range(Objects)
  BY <1>1, <1>2, <1>3, LookUp DEF Entry
<1>5. action # NoHandler => Entry(t, 2, action) \in Range(Objects)
  BY <1>2, <1>3, LookUp DEF Entry
<1>6. action = NoHandler => \A g : Entry(t, 2, g) \notin Range(Objects)
  BY <1>2, <1>3, LookUp DEF Entry
<1>7. dialog # NoHandler => Entry(t, 3, dialog) \in Range(Objects)
  BY <1>2, <1>3, LookUp DEF Entry
<1>8. dialog = NoHandler => \A g : Entry(t, 3, g) \notin Range(Objects)
  BY <1>2, <1>3, LookUp, ZenonT(40) DEF Entry
<1>9. event \notin {"OnDialogReturn"} /\ action \notin {"OnAction"}
      /\ dialog \notin {"OnAction", "OnDialogReturn"}
  BY <1>4, <1>5, <1>7, <1>3 DEF Entry, Range, Objects, NoHandler
<1>10. Chain(t) = IF ~acts THEN <<event>>
                  ELSE IF ~shows THEN <<event, action>>
                  ELSE <<event, action, dialog>>
  BY <1>1 DEF Chain
<1> HIDE DEF event, action, dialog
<1>11. CASE ~acts
  BY <1>4, <1>6, <1>9, <1>10, <1>11 DEF InPlace
<1>12. CASE acts /\ ~shows
  BY <1>4, <1>5, <1>8, <1>9, <1>10, <1>12 DEF InPlace
<1>13. CASE shows
  BY <1>4, <1>5, <1>7, <1>9, <1>10, <1>13 DEF InPlace
<1> QED
  BY <1>11, <1>12, <1>13

\* A text that was served stays so, with what ran for it.
LEMMA RunsStep ==
  RegistryTypeOK /\ Filling /\ ClientTypes /\ Position /\ RunsInPlace
    /\ [Next]_vars => RunsInPlace'
<1> SUFFICES ASSUME RegistryTypeOK, Filling, ClientTypes, Position,
                    RunsInPlace, [Next]_vars
             PROVE  RunsInPlace'
  OBVIOUS
<1>1. ASSUME NEW c \in Clients, Answer(c) \/ Connect(c) \/ Queue(c)
      PROVE  RunsInPlace'
  <2>1. client'[c] # "served" /\ ran' = ran
        /\ \A b \in Clients \ {c} : client'[b] = client[b] /\ request'[b] = request[b]
    BY <1>1 DEF Answer, Connect, Queue, ClientTypes
  <2> QED
    BY <2>1 DEF RunsInPlace
<1>2. ASSUME NEW c \in Clients, Serve(c)
      PROVE  RunsInPlace'
  <2>1. main # "static"
    BY <1>2 DEF Serve, Position, AfterMark, AfterSpawn
  <2>2. data \in {Registered, Empty}
    BY <2>1, FilledWhole DEF RegistriesWhole, At
  <2>3. InPlace(request[c], Chain(request[c]))
    BY <1>2, <2>2, ChainInPlace DEF Serve
  <2>4. ran'[c] = Chain(request[c]) /\ request' = request
        /\ \A b \in Clients \ {c} : client'[b] = client[b] /\ ran'[b] = ran[b]
    BY <1>2 DEF Serve, ClientTypes
  <2> QED
    BY <2>3, <2>4 DEF RunsInPlace
<1>3. CASE UNCHANGED clients
  BY <1>3 DEF clients, RunsInPlace
<1> QED
  BY <1>1, <1>2, <1>3, Frames

-----------------------------------------------------------------------------
(* The items.                                                              *)

\* The loader's loop runs to the count, or through the first odd item.
LEMMA LoopEnds ==
  ASSUME NEW f, Count(f) \in Nat, StaysInside(f)
  PROVE  /\ ItemsRead(f) \in Nat
         /\ \A n \in Nat : n < ItemsRead(f) - 1 => Id(f, n) = n
         /\ ItemsRead(f) # 0 /\ Id(f, ItemsRead(f) - 1) = ItemsRead(f) - 1
              => ItemsRead(f) = Count(f)
<1> DEFINE odd == {n \in 0 .. Count(f) - 1 : Inside(f, n) => Id(f, n) # n}
           first == CHOOSE n \in odd : \A m \in odd : n <= m
<1>1. ItemsRead(f) = IF odd = {} THEN Count(f) ELSE 1 + first
  BY DEF ItemsRead
<1>2. \A n \in 0 .. ItemsRead(f) - 1 : Inside(f, n)
  BY DEF StaysInside
<1>3. odd # {} => first \in odd /\ \A m \in odd : first <= m
  <2>1. odd \subseteq 0 .. Count(f)
    OBVIOUS
  <2> HIDE DEF odd
  <2> QED
    BY <2>1, HasLeast
<1>4. \A n \in 0 .. Count(f) - 1 : n \in odd \/ Id(f, n) = n
  OBVIOUS
<1>5. \A n \in odd : n \in 0 .. Count(f) - 1 /\ (Inside(f, n) => Id(f, n) # n)
  OBVIOUS
<1> HIDE DEF odd, first
<1>6. CASE odd = {}
  BY <1>1, <1>4, <1>6
<1>7. CASE odd # {}
  <2>1. first \in Nat /\ first < Count(f) /\ ItemsRead(f) = 1 + first
    BY <1>1, <1>3, <1>5, <1>7
  <2>2. Id(f, first) # first
    BY <1>2, <1>3, <1>5, <1>7, <2>1
  <2>3. \A n \in Nat : n < first => Id(f, n) = n
    BY <1>3, <1>4, <1>7, <2>1
  <2> QED
    BY <2>1, <2>2, <2>3
<1> QED
  BY <1>6, <1>7

\* m_items is empty or what the loader made of the file it found.
Loaded ==
  \/ items = << >>
  \/ Serializes(file) /\ StaysInside(file) /\ items = SerializedItems(file)

LEMMA LoadedStep == Loaded /\ [Next]_vars => Loaded'
<1> SUFFICES ASSUME Loaded, [Next]_vars
             PROVE  Loaded'
  OBVIOUS
<1>1. CASE ConnectDatabase
  BY <1>1 DEF ConnectDatabase, Loaded
<1>2. CASE LoadItems
  BY <1>2 DEF LoadItems, Loaded
<1>3. CASE UNCHANGED loaded
  BY <1>3 DEF loaded, Loaded
<1> QED
  BY <1>1, <1>2, <1>3, Frames

LEMMA LoadedById == Loaded /\ file \in Files => ItemsById
<1> SUFFICES ASSUME Loaded, file \in Files
             PROVE  ItemsById
  OBVIOUS
<1>1. CASE items = << >>
  BY <1>1 DEF ItemsById
<1>2. CASE items # << >>
  <2> DEFINE k == ItemsRead(file)
  <2>1. Serializes(file) /\ StaysInside(file) /\ items = SerializedItems(file)
    BY <1>2 DEF Loaded
  <2>2. Count(file) \in Nat
    <3>1. CutAsRead(file) /\ 2 \in DOMAIN file
      BY <2>1, StartupAssumption DEF Serializes, StaysInside, Readable
    <3> QED
      BY <3>1 DEF CutAsRead, Count
  <2>3. /\ k \in Nat
        /\ \A n \in Nat : n < k - 1 => Id(file, n) = n
        /\ k # 0 /\ Id(file, k - 1) = k - 1 => k = Count(file)
    BY <2>1, <2>2, LoopEnds
  <2> HIDE DEF k
  <2>4. items = [n \in 1 .. k |-> ReadItem(file, 2 + (n - 1) * ItemCells)]
    BY <2>1 DEF SerializedItems, k
  <2>5. Len(items) = k /\ k # 0
    BY <2>3, <2>4, <1>2
  <2>6. \A n \in Nat : n < k => GetItem(items, n)["m_Id"] = Id(file, n)
    <3> SUFFICES ASSUME NEW n \in Nat, n < k
                 PROVE  GetItem(items, n)["m_Id"] = Id(file, n)
      OBVIOUS
    <3>1. GetItem(items, n) = items[n + 1]
      BY <2>3, <2>5 DEF GetItem
    <3>2. n + 1 \in 1 .. k /\ (n + 1) - 1 = n
      BY <2>3
    <3>3. items[n + 1] = ReadItem(file, 2 + n * ItemCells)
      BY <2>4, <3>2
    <3> QED
      BY <3>1, <3>3 DEF Id
  <2> QED
    BY <2>3, <2>5, <2>6 DEF ItemsById
<1> QED
  BY <1>1, <1>2

\* The loop never runs past the count.
LEMMA LoopStays ==
  ASSUME NEW f, Count(f) \in Nat
  PROVE  ItemsRead(f) \in 0 .. Count(f)
<1> DEFINE odd == {n \in 0 .. Count(f) - 1 : Inside(f, n) => Id(f, n) # n}
           first == CHOOSE n \in odd : \A m \in odd : n <= m
<1>1. ItemsRead(f) = IF odd = {} THEN Count(f) ELSE 1 + first
  BY DEF ItemsRead
<1>2. odd # {} => first \in odd
  <2>1. odd \subseteq 0 .. Count(f)
    OBVIOUS
  <2> HIDE DEF odd
  <2> QED
    BY <2>1, HasLeast
<1>3. odd \subseteq 0 .. Count(f) - 1
  OBVIOUS
<1> HIDE DEF odd, first
<1>4. CASE odd = {}
  BY <1>1, <1>4
<1>5. CASE odd # {}
  <2>1. first \in 0 .. Count(f) - 1
    BY <1>2, <1>3, <1>5
  <2>2. ItemsRead(f) = 1 + first
    BY <1>1, <1>5
  <2> QED
    BY <2>1, <2>2
<1> QED
  BY <1>4, <1>5

\* The process is undefined by an object that found no pool, or a file that
\* does not stay inside itself.
Overran ==
  exit = "undefined" => ~constructed \/ (Serializes(file) /\ ~StaysInside(file))

LEMMA OverranStep == Overran /\ [Next]_vars => Overran'
<1>1. CASE UNCHANGED vars
  BY <1>1 DEF vars, loaded, registryVars, Overran
<1> SUFFICES ASSUME Next
             PROVE  Overran'
  BY <1>1
<1>2. exit = "no"
  BY DEF Next
<1>3. CASE InitializeObject
  BY <1>3 DEF InitializeObject, ConstructObject, Overran
<1>4. CASE LoadItems
  BY <1>2, <1>4 DEF LoadItems, Overran
<1>5. CASE Main /\ ~InitializeObject /\ ~LoadItems
  <2>1. CASE InitializePool \/ EnterMain \/ StartHTTP \/ ConnectDatabase
    BY <1>2, <2>1 DEF InitializePool, EnterMain, StartHTTP, ConnectDatabase, Overran
  <2>2. CASE RegisterEvents \/ InitializeENet \/ StartInstance \/ SpawnService
    BY <1>2, <2>2 DEF RegisterEvents, InitializeENet, StartInstance,
       SpawnService, Overran
  <2>3. CASE MarkRunning \/ StartConsole \/ Return
    BY <1>2, <2>3 DEF MarkRunning, StartConsole, Return, Overran
  <2> QED
    BY <1>5, <2>1, <2>2, <2>3 DEF Main
<1>6. CASE ServiceBegins \/ RoundEnds \/ ConsoleShutdown \/ ConsoleEnds
  BY <1>2, <1>6 DEF ServiceBegins, RoundEnds, ConsoleShutdown, ConsoleEnds, Overran
<1>7. ASSUME NEW c \in Clients, Answer(c) \/ Connect(c) \/ Queue(c) \/ Serve(c)
      PROVE  Overran'
  BY <1>2, <1>7 DEF Answer, Connect, Queue, Serve, Overran
<1> QED
  BY <1>3, <1>4, <1>5, <1>6, <1>7 DEF Next

LEMMA OverranCut == Overran /\ file \in Files => OverrunsOnlyCut
<1> SUFFICES ASSUME Overran, file \in Files, exit = "undefined", constructed,
                    Len(file) >= 2, 2 + Count(file) * ItemCells <= Len(file),
                    Count(file) * ItemCells \in Nat
             PROVE  FALSE
  <2>1. Overran /\ file \in Files /\ exit = "undefined" /\ constructed
          /\ ~(Len(file) < 2) => /\ Len(file) \in Nat /\ Len(file) >= 2
                                 /\ Count(file) * ItemCells \in Nat
    <3> SUFFICES ASSUME Overran, file \in Files, exit = "undefined", constructed,
                        ~(Len(file) < 2)
                 PROVE  /\ Len(file) \in Nat /\ Len(file) >= 2
                        /\ Count(file) * ItemCells \in Nat
      OBVIOUS
    <3>1. Len(file) \in Nat /\ CutAsRead(file)
      BY StartupAssumption DEF Overran, Serializes
    <3>2. Len(file) >= 2 /\ 2 \in DOMAIN file
      BY <3>1 DEF CutAsRead
    <3>3. Count(file) \in Nat /\ ItemCells \in Nat
      BY <3>1, <3>2, BeginsStep DEF CutAsRead, Count
    <3> QED
      BY <3>1, <3>2, <3>3
  <2>2. \A l, m \in Nat : l < 2 + m \/ 2 + m <= l
    OBVIOUS
  <2> QED
    BY <2>1, <2>2 DEF OverrunsOnlyCut
<1>1. Serializes(file) /\ ~StaysInside(file)
  BY DEF Overran
<1>2. Len(file) \in Nat /\ CutAsRead(file)
  BY <1>1, StartupAssumption DEF Serializes
<1>3. 1 \in DOMAIN file /\ 2 \in DOMAIN file
  BY <1>2 DEF CutAsRead
<1>4. Count(file) \in Nat /\ \A n \in 0 .. Count(file) - 1 : Inside(file, n)
  BY <1>2, <1>3, WholeIsInside
<1>5. ItemsRead(file) \in 0 .. Count(file)
  BY <1>4, LoopStays
<1>6. \A n \in 0 .. ItemsRead(file) - 1 : n \in 0 .. Count(file) - 1
  BY <1>4, <1>5
<1>7. Readable(file, 1, 2) /\ Readable(file, 2, 4)
  BY <1>2, <1>3 DEF CutAsRead, Readable
<1>8. StaysInside(file)
  BY <1>4, <1>6, <1>7 DEF StaysInside
<1> QED
  BY <1>1, <1>8

\* Behind the loading, the items are what the file's are read as.
Kept ==
  main \in {"events", "enet"} =>
    Serializes(file) /\ StaysInside(file) /\ items = SerializedItems(file)

LEMMA KeptStep == Kept /\ [Next]_vars => Kept'
<1> USE DEF At, GoTo, threads, loaded, clients
<1>1. CASE UNCHANGED vars
  BY <1>1 DEF vars, Kept
<1> SUFFICES ASSUME Kept, Next
             PROVE  Kept'
  BY <1>1
<1>2. CASE InitializePool \/ InitializeObject \/ EnterMain \/ StartHTTP
  BY <1>2 DEF InitializePool, InitializeObject, EnterMain, StartHTTP, Kept
<1>3. CASE ConnectDatabase
  BY <1>3 DEF ConnectDatabase, Kept
<1>4. CASE LoadItems
  BY <1>4 DEF LoadItems, Kept
<1>5. CASE RegisterEvents \/ InitializeENet \/ StartInstance \/ SpawnService
  BY <1>5 DEF RegisterEvents, InitializeENet, StartInstance, SpawnService, Kept
<1>6. CASE MarkRunning \/ StartConsole \/ Return
  BY <1>6 DEF MarkRunning, StartConsole, Return, Kept
<1>7. CASE ServiceBegins \/ RoundEnds \/ ConsoleShutdown \/ ConsoleEnds
  BY <1>7 DEF ServiceBegins, RoundEnds, ConsoleShutdown, ConsoleEnds, Kept
<1>8. ASSUME NEW c \in Clients, Answer(c) \/ Connect(c) \/ Queue(c) \/ Serve(c)
      PROVE  Kept'
  BY <1>8 DEF Answer, Connect, Queue, Serve, Kept
<1> QED
  BY <1>2, <1>3, <1>4, <1>5, <1>6, <1>7, <1>8 DEF Next, Main

LEMMA KeptRestores == Kept /\ file \in Files => EncodeRestores
<1> SUFFICES ASSUME Kept, file \in Files,
                    main \in {"events", "enet"}, Len(items) = Count(file)
             PROVE  LET written == Encode(Version(file), Count(file), items)
                    IN /\ written = SubSeq(file, 1, 2 + Count(file) * ItemCells)
                       /\ Bytes(written) <= Allocated(items)
  BY DEF EncodeRestores
<1>1. Serializes(file) /\ StaysInside(file) /\ items = SerializedItems(file)
  BY DEF Kept
<1>2. Len(file) \in Nat /\ CutAsRead(file) /\ 2 \in DOMAIN file
  BY <1>1, StartupAssumption DEF Serializes, StaysInside, Readable
<1>3. Count(file) \in Nat
  BY <1>2 DEF CutAsRead, Count
<1>4. ItemsRead(file) \in Nat
  BY <1>3, LoopStays
<1>5. items = [n \in 1 .. ItemsRead(file) |->
                 ReadItem(file, 2 + (n - 1) * ItemCells)]
  BY <1>1 DEF SerializedItems
<1>6. ItemsRead(file) = Count(file)
  <2>1. Len(items) = ItemsRead(file)
    BY <1>4, <1>5
  <2> QED
    BY <2>1
<1>7. ItemsAt(file, items)
  BY <1>1, <1>2, <1>5, <1>6 DEF ItemsAt, StaysInside
<1>8. Encode(Version(file), Count(file), items)
        = SubSeq(file, 1, 2 + Count(file) * ItemCells)
  BY <1>7, EncodeIsPrefix
<1>9. Bytes(SubSeq(file, 1, 2 + Count(file) * ItemCells)) <= Allocated(items)
  BY <1>7, FileFits
<1> QED
  BY <1>8, <1>9

-----------------------------------------------------------------------------
(* The theorems.                                                           *)

StartupInv ==
  /\ TypeOK /\ Position /\ Filling /\ RunsInPlace /\ Loaded
  /\ Overran /\ Kept

LEMMA StartupHolds == Spec => []StartupInv
<1>1. Init => StartupInv
  <2>1. ASSUME Init PROVE TypeOK
    <3>1. ThreadTypes
      <4>1. /\ main = "static" /\ http = "off" /\ worker = 0
            /\ instance = "none" /\ running = FALSE
        BY <2>1 DEF Init
      <4>2. service = "none" /\ console = "none" /\ exit = "no"
        BY <2>1 DEF Init
      <4>3. 0 \in 0 .. 1 /\ main \in Statements
        BY <4>1 DEF Statements
      <4> QED
        BY <4>1, <4>2, <4>3 DEF ThreadTypes
    <3>2. LoadTypes
      <4>1. items = << >> /\ database = FALSE /\ file \in Files
        BY <2>1 DEF Init
      <4>2. \A n \in DOMAIN << >> : FALSE
        OBVIOUS
      <4> QED
        BY <4>1, <4>2 DEF LoadTypes
    <3>3. ClientTypes
      <4>1. << >> \in Seq(Handlers)
        OBVIOUS
      <4> QED
        BY <2>1, <4>1 DEF Init, ClientTypes
    <3>4. RegistryTypeOK
      <4>1. /\ poolFirst \in BOOLEAN /\ constructed = FALSE
            /\ built = 0 /\ data = Empty
        BY <2>1 DEF Init, RegistryInit
      <4>2. 0 \in 0 .. Len(Objects)
        BY ObjectsApart
      <4>3. Empty \in [Registry -> [EventNames -> Handlers \cup {NoHandler}]]
        BY DEF Empty
      <4> QED
        BY <4>1, <4>2, <4>3 DEF RegistryTypeOK
    <3> QED
      BY <3>1, <3>2, <3>3, <3>4, TypeParts
  <2>2. Init => Position
    BY DEF Init, Position, AfterDatabase, AfterItems, AfterEvents, AfterSpawn,
       AfterMark
  <2>3. Init => Filling /\ RunsInPlace /\ Loaded /\ Overran /\ Kept
    BY DEF Init, RegistryInit, Filling, RunsInPlace, Loaded, Overran, Kept
  <2> QED
    BY <2>1, <2>2, <2>3 DEF StartupInv
<1>2. StartupInv /\ [Next]_vars => StartupInv'
  <2> SUFFICES ASSUME StartupInv, [Next]_vars
               PROVE  StartupInv'
    OBVIOUS
  <2>1. ThreadTypes /\ LoadTypes /\ ClientTypes /\ RegistryTypeOK /\ Position
        /\ Filling /\ RunsInPlace /\ Loaded /\ Overran /\ Kept
    BY TypeParts DEF StartupInv
  <2>2. TypeOK'
    BY <2>1, TypeParts, ThreadsKeepTypes, LoadKeepsTypes, ClientsKeepTypes,
       RegistryTypes
  <2>3. /\ Position' /\ Filling' /\ RunsInPlace' /\ Loaded'
        /\ Overran' /\ Kept'
    BY <2>1, PositionStep, FillingStep, RunsStep, LoadedStep, OverranStep, KeptStep
  <2> QED
    BY <2>2, <2>3 DEF StartupInv
<1> QED
  BY <1>1, <1>2, PTL DEF Spec

\* Every reachable state has the declared types (main and the threads).
THEOREM StartupTypes == Spec => []TypeOK
<1>1. StartupInv => TypeOK
  BY DEF StartupInv
<1> QED
  BY <1>1, StartupHolds, PTL

\* No client is handled by a process that lacks what the handlers use, in any
\* order of the threads main leaves behind (main, ServerPool::Start).
THEOREM ServesReady == Spec => []ServesOnlyReady
<1>1. StartupInv => ServesOnlyReady
  BY DEF StartupInv, Position, ServesOnlyReady, AfterDatabase, AfterItems,
     AfterEvents, AfterSpawn, AfterMark
<1> QED
  BY <1>1, StartupHolds, PTL

\* Either order of initialisation leaves the registries full or empty (the
\* static objects of EventRegister.cpp and g_eventPool).
THEOREM RegistriesFilled == Spec => []RegistriesWhole
<1>1. StartupInv => RegistriesWhole
  BY TypeParts, FilledWhole DEF StartupInv
<1> QED
  BY <1>1, StartupHolds, PTL

\* Any text at all runs just the handlers registered for its names, each in
\* its own registry (OnAction, OnDialogReturn, EventPool::ServicePoll).
THEOREM TextsRunInPlace == Spec => []RunsInPlace
<1>1. StartupInv => RunsInPlace
  BY DEF StartupInv
<1> QED
  BY <1>1, StartupHolds, PTL

\* Whatever file is found, GetItem finds what was loaded by its id, but for a
\* last item of another version, which alone ends the loading early
\* (ItemManager::Serialize, GetItem).
THEOREM ItemsAreById == Spec => []ItemsById
<1>1. StartupInv => ItemsById
  BY LoadedById DEF StartupInv, TypeOK
<1> QED
  BY <1>1, StartupHolds, PTL

\* Any file that has the cells its header announces is loaded without reading
\* behind its end (ItemManager::Serialize, ItemInfo::Serialize).
THEOREM OverrunsAreCut == Spec => []OverrunsOnlyCut
<1>1. StartupInv => OverrunsOnlyCut
  BY OverranCut DEF StartupInv, TypeOK
<1> QED
  BY <1>1, StartupHolds, PTL

\* Whatever file was loaded to its last item, Encode writes it as it was, in
\* no more than the bytes it allocates: the two lists of members agree, the
\* cipher undoes itself, and GetMemoryUsage counts enough (ItemManager::Encode,
\* ItemInfo::Pack, ItemInfo::GetMemoryUsage).
THEOREM EncodingRestores == Spec => []EncodeRestores
<1>1. StartupInv => EncodeRestores
  BY KeptRestores DEF StartupInv, TypeOK
<1> QED
  BY <1>1, StartupHolds, PTL
=============================================================================
