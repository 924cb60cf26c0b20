------------------------------ MODULE Startup ------------------------------
(***************************************************************************)
(* The life of the process: the constructors that run before main, main's  *)
(* start-up sequence with every way it can fail, the threads it leaves     *)
(* running (HTTP, worker, service, console) and what clients can reach     *)
(* while it runs.  A client asks the HTTP server where to connect, or      *)
(* knows, connects, and has a text handled.                                *)
(***************************************************************************)
EXTENDS ItemsDat, Registries

CONSTANTS Clients,
          Files,    \* what may be found as cache/items.dat
          Texts,    \* [event, action, dialog]: what a client may send
          NoText    \* no text, or no such name in it

ASSUME StartupAssumption ==
  \A f \in Files \ {NoFile} : Len(f) \in Nat /\ CutAsRead(f)

VARIABLES main,      \* the statement main is about to run
          http,      \* the HTTP server and its thread
          database,  \* Database::m_pPlayerTable is set
          file,      \* cache/items.dat
          items,     \* ItemManager::m_items
          worker,    \* how many threads run EventPool::ServicePoll
          instance,  \* the server instance, in ServerPool::m_servers or not
          running,   \* ServerPool::running
          service,   \* ServerPool's thread
          console,   \* the console thread
          exit,      \* what has become of the process
          client,    \* how far each client is
          request,   \* the text each client has sent
          ran        \* the handlers that ran for it, in their order

threads == <<http, worker, service, console>>
loaded == <<database, file, items>>
clients == <<client, request, ran>>
vars == <<main, threads, loaded, instance, running, exit, clients,
          registryVars>>

Statements == {"static", "http", "database", "items", "events", "enet", "instance",
               "spawn", "mark", "console", "loop", "return"}

TypeOK ==
  /\ main \in Statements
  /\ http \in {"off", "listening"}
  /\ database \in BOOLEAN
  /\ file \in Files
  /\ \A n \in DOMAIN items : DOMAIN items[n] = Members \cup Derived
  /\ worker \in 0 .. 1
  /\ instance \in {"none", "listed", "leaving", "stopped"}
  /\ running \in BOOLEAN
  /\ service \in {"none", "created", "polling", "ended"}
  /\ console \in {"none", "reading", "ended"}
  /\ exit \in {"no", "failure", "terminated", "undefined"}
  /\ client \in [Clients -> {"away", "told", "connected", "queued", "served"}]
  /\ request \in [Clients -> Texts \cup {NoText}]
  /\ ran \in [Clients -> Seq(Handlers)]
  /\ RegistryTypeOK

Init ==
  /\ main = "static"
  /\ RegistryInit
  /\ http = "off" /\ worker = 0 /\ service = "none" /\ console = "none"
  /\ database = FALSE
  /\ file \in Files /\ items = << >>
  /\ instance = "none"
  /\ running = FALSE
  /\ exit = "no"
  /\ client = [c \in Clients |-> "away"]
  /\ request = [c \in Clients |-> NoText]
  /\ ran = [c \in Clients |-> << >>]

-----------------------------------------------------------------------------
(* main.                                                                   *)

At(statement) == main = statement
GoTo(statement) == main' = statement

\* Before main, the constructors.  An object that finds no pool constructed
\* writes to a map that is not there yet, which is undefined: the process may
\* go on, and nothing is said of it when it does not.
InitializePool ==
  /\ At("static")
  /\ ConstructPool
  /\ UNCHANGED <<main, threads, loaded, instance, running, exit, clients>>

InitializeObject ==
  /\ At("static")
  /\ ConstructObject
  /\ exit' \in IF constructed THEN {"no"} ELSE {"no", "undefined"}
  /\ UNCHANGED <<main, threads, loaded, instance, running, clients>>

EnterMain ==
  /\ At("static") /\ Initialised
  /\ GoTo("http")
  /\ UNCHANGED <<threads, loaded, instance, running, exit, clients,
                 registryVars>>

\* HTTPServer::Listen: the port is bound and the thread started, or --nohttp
\* was given or the bind failed, and main goes on without.
StartHTTP ==
  /\ At("http") /\ GoTo("database")
  /\ http' \in {"off", "listening"}
  /\ UNCHANGED <<worker, service, console, loaded, instance, running, exit,
                 clients, registryVars>>

\* Mutant: the failure is logged and not returned.
ConnectDatabaseGoesOn ==
  /\ At("database")
  /\ database' \in BOOLEAN
  /\ GoTo("items")
  /\ UNCHANGED <<threads, file, items, instance, running, exit, clients,
                 registryVars>>

\* Database::Connect; EXIT_FAILURE when it returns false.
ConnectDatabase ==
  /\ At("database")
  /\ \/ database' = TRUE /\ GoTo("items")
     \/ database' = FALSE /\ GoTo("return")
  /\ UNCHANGED <<threads, file, items, instance, running, exit, clients,
                 registryVars>>

\* ItemManager::Serialize; EXIT_FAILURE when it returns false.  What becomes
\* of a file that ends before the last item it announces is undefined.
LoadItems ==
  /\ At("items")
  /\ \/ /\ Serializes(file) /\ StaysInside(file)
        /\ items' = SerializedItems(file)
        /\ GoTo("events")
        /\ UNCHANGED exit
     \/ /\ Serializes(file) /\ ~StaysInside(file)
        /\ exit' = "undefined"
        /\ UNCHANGED <<main, items>>
     \/ /\ ~Serializes(file)
        /\ GoTo("return")
        /\ UNCHANGED <<items, exit>>
  /\ UNCHANGED <<threads, database, file, instance, running, clients,
                 registryVars>>

\* EventPool::RegisterEvents.
RegisterEvents ==
  /\ At("events") /\ GoTo("enet")
  /\ worker' = worker + 1
  /\ UNCHANGED <<http, service, console, loaded, instance, running, exit,
                 clients, registryVars>>

\* enet_initialize.
InitializeENet ==
  /\ At("enet")
  /\ GoTo("instance") \/ GoTo("return")
  /\ UNCHANGED <<threads, loaded, instance, running, exit, clients,
                 registryVars>>

\* Mutant: every instance registers the events, and starts a worker.
StartInstanceWithWorker ==
  /\ At("instance")
  /\ \/ instance' = "listed" /\ worker' = worker + 1 /\ GoTo("spawn")
     \/ UNCHANGED <<instance, worker>> /\ GoTo("return")
  /\ UNCHANGED <<http, service, console, loaded, running, exit, clients,
                 registryVars>>

\* ServerPool::StartInstance; the port may be busy.
StartInstance ==
  /\ At("instance")
  /\ \/ instance' = "listed" /\ GoTo("spawn")
     \/ UNCHANGED instance /\ GoTo("return")
  /\ UNCHANGED <<threads, loaded, running, exit, clients,
                 registryVars>>

\* ServerPool::Start creates the thread first...
SpawnService ==
  /\ At("spawn") /\ GoTo("mark")
  /\ service' = "created"
  /\ UNCHANGED <<http, worker, console, loaded, instance, running, exit,
                 clients, registryVars>>

\* ...and marks the pool running after.
MarkRunning ==
  /\ At("mark") /\ GoTo("console")
  /\ running' = TRUE
  /\ UNCHANGED <<threads, loaded, instance, exit, clients,
                 registryVars>>

\* Mutant: the console thread is joined, not detached.
StartConsoleJoins ==
  /\ At("console")
  /\ \/ console = "none" /\ console' = "reading" /\ UNCHANGED main
     \/ console = "ended" /\ GoTo("loop") /\ UNCHANGED console
  /\ UNCHANGED <<http, worker, service, loaded, instance, running, exit,
                 clients, registryVars>>

\* main never leaves its loop: nothing calls ServerPool::Stop.
StartConsole ==
  /\ At("console") /\ GoTo("loop")
  /\ console' = "reading"
  /\ UNCHANGED <<http, worker, service, loaded, instance, running, exit,
                 clients, registryVars>>

\* main returned EXIT_FAILURE: the static objects are destroyed, and with
\* them the std::thread members; a joinable one calls std::terminate.
Return ==
  /\ At("return")
  /\ exit' = IF http = "listening" \/ worker > 0 THEN "terminated" ELSE "failure"
  /\ UNCHANGED <<main, threads, loaded, instance, running, clients,
                 registryVars>>

Main ==
  \/ InitializePool \/ InitializeObject \/ EnterMain
  \/ StartHTTP \/ ConnectDatabase \/ LoadItems \/ RegisterEvents
  \/ InitializeENet \/ StartInstance \/ SpawnService \/ MarkRunning
  \/ StartConsole \/ Return

-----------------------------------------------------------------------------
(* The other threads.                                                      *)

\* ServerPool::ServicePoll looks at running for the first time.
ServiceBegins ==
  /\ service = "created"
  /\ service' = IF running THEN "polling" ELSE "ended"
  /\ UNCHANGED <<main, http, worker, console, loaded, instance, running,
                 exit, clients,
                 registryVars>>

\* server_data.php tells a client where the game server is.
Answer(c) ==
  /\ http = "listening"
  /\ client[c] = "away"
  /\ client' = [client EXCEPT ![c] = "told"]
  /\ UNCHANGED <<main, threads, loaded, instance, running, exit, request, ran,
                 registryVars>>

\* A client, told or not, connects, and the service thread polls the host.
Connect(c) ==
  /\ service = "polling" /\ instance \in {"listed", "leaving"}
  /\ client[c] \in {"away", "told"}
  /\ client' = [client EXCEPT ![c] = "connected"]
  /\ UNCHANGED <<main, threads, loaded, instance, running, exit, request, ran,
                 registryVars>>

\* The service thread queues a text of a client for the worker.
Queue(c) ==
  /\ service = "polling" /\ instance \in {"listed", "leaving"}
  /\ client[c] = "connected"
  /\ client' = [client EXCEPT ![c] = "queued"]
  /\ \E t \in Texts : request' = [request EXCEPT ![c] = t]
  /\ UNCHANGED <<main, threads, loaded, instance, running, exit, ran,
                 registryVars>>

\* The worker handles it, if it finds a handler for its event; which texts are
\* before it in the queue is not kept here.
Serve(c) ==
  /\ worker > 0
  /\ client[c] = "queued"
  /\ Chain(request[c]) # << >>
  /\ client' = [client EXCEPT ![c] = "served"]
  /\ ran' = [ran EXCEPT ![c] = Chain(request[c])]
  /\ UNCHANGED <<main, threads, loaded, instance, running, exit, request,
                 registryVars>>

\* The console's "shutdown": StopInstance of every instance, which the
\* service thread may still be polling in its copy of the map.
ConsoleShutdown ==
  /\ console = "reading" /\ instance = "listed"
  /\ \/ instance' = "stopped"
     \/ service = "polling" /\ instance' = "leaving"
  /\ UNCHANGED <<main, threads, loaded, running, exit, clients,
                 registryVars>>

\* The service thread's round, and its copy of the map, end.
RoundEnds ==
  /\ service = "polling" /\ instance = "leaving"
  /\ instance' = "stopped"
  /\ UNCHANGED <<main, threads, loaded, running, exit, clients,
                 registryVars>>

\* The console's input ends.
ConsoleEnds ==
  /\ console = "reading"
  /\ console' = "ended"
  /\ UNCHANGED <<main, http, worker, service, loaded, instance, running,
                 exit, clients,
                 registryVars>>

Next ==
  /\ exit = "no"
  /\ \/ Main
     \/ ServiceBegins
     \/ RoundEnds
     \/ \E c \in Clients : Answer(c) \/ Connect(c) \/ Queue(c) \/ Serve(c)
     \/ ConsoleShutdown
     \/ ConsoleEnds

Spec == Init /\ [][Next]_vars

\* The scheduler keeps main and the service thread running.  Clients and
\* console owe nothing.
Fairness ==
  /\ WF_vars(exit = "no" /\ Main)
  /\ WF_vars(exit = "no" /\ ServiceBegins)

FairSpec == Spec /\ Fairness

-----------------------------------------------------------------------------
(* Properties.                                                             *)

\* A client is connected to and its text handled only in a process whose data
\* base is connected and whose items are loaded, by whichever of the threads'
\* orders it came about.  What looks for either asks whether it is there, and
\* does nothing for its client when it is not.
ServesOnlyReady ==
  (\E c \in Clients : client[c] \in {"connected", "queued", "served"}) =>
     database /\ Serializes(file) /\ worker > 0 /\ running /\ exit = "no"

\* GetItem finds every item that was loaded by its id, but perhaps the last:
\* one whose file has another id there, which is kept and ends the loading,
\* and nothing but such an item ends it before the announced count.
ItemsById ==
  /\ \A id \in 0 .. Len(items) - 2 : GetItem(items, id)["m_Id"] = id
  /\ items # << >> /\ GetItem(items, Len(items) - 1)["m_Id"] = Len(items) - 1
       => Len(items) = Count(file)

\* With the pool constructed before the objects that register in it, the
\* loader leaves a file's end behind only where the file holds fewer cells
\* than its count announces: what Pack writes, Serialize never overruns.
OverrunsOnlyCut ==
  (exit = "undefined" /\ constructed) =>
     \/ Len(file) < 2
     \/ Len(file) < 2 + Count(file) * ItemCells

\* Whatever the linker's order, main finds either every handler registered or
\* none, and none only where the pool was constructed last: no build answers
\* some of the texts.
RegistriesWhole ==
  At("static") \/ data = Registered \/ (data = Empty /\ ~poolFirst)

\* A text runs, registry after registry, the handlers the sources register
\* for what it names there, and stops at none that passes it on to a registry
\* that knows its next name.
Entry(t, i, h) == [in |-> Passing[i], name |-> t[Passing[i]], run |-> h]
InPlace(t, run) ==
  /\ \A i \in DOMAIN run : Entry(t, i, run[i]) \in Range(Objects)
  /\ run[Len(run)] \in {"OnAction", "OnDialogReturn"} =>
       \A h \in Handlers : Entry(t, Len(run) + 1, h) \notin Range(Objects)
RunsInPlace ==
  \A c \in Clients : client[c] = "served" => InPlace(request[c], ran[c])

\* What ItemManager loaded from a supported file Encode writes as that very
\* file, the names ciphered again and without what follows its last item,
\* within the buffer it allocates for it.
EncodeRestores ==
  (main \in {"events", "enet"} /\ Len(items) = Count(file)) =>
     LET written == Encode(Version(file), Count(file), items)
     IN /\ written = SubSeq(file, 1, 2 + Count(file) * ItemCells)
        /\ Bytes(written) <= Allocated(items)

\* A start is decided: main ends in its loop, or the process is over.
StartIsDecided == <>(main = "loop" \/ exit # "no")

\* "Initializing {} and starting up {}..." and "Server located at udp://": once
\* main is in its loop the service thread comes to serve the instance.
StartServes == main = "loop" ~> service = "polling"
=============================================================================
