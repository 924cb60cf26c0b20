# Verification of the Growtopia private server

TLA+ models of the server in `src/src`, their TLC configurations, and proofs
checked by TLAPS. Paths below are relative to the repository (`src/...`).

1. [The system](#1-the-system)
2. [The modules and how they correspond to the code](#2-the-modules)
3. [The runs](#3-the-runs)
4. [Bounds and fairness](#4-bounds-and-fairness)
5. [What is proved](#5-what-is-proved)
6. [What the code does and its texts deny](#6-findings)
7. [What is not modelled](#7-what-is-not-modelled)
8. [The plan](#8-the-plan)

To repeat a result: `tlc -config GameServerSafety.cfg MCGameServer.tla` (the
table in section 3 names the module of each cfg), `tlapm GameServerProofs.tla`.

## 1. The system

One process accepts Growtopia clients over ENet (UDP), tells them over HTTP
where to connect, and lets them register an account ("GrowID"). Worlds are not
implemented. The process has five threads that share their data and take no
lock:

| thread | started in | what it does |
|---|---|---|
| main | - | starts everything else (`main.cpp:28-54`), then waits in a loop for ever |
| HTTP | `HTTPServer::Listen` | answers `server_data.php` |
| worker | `RegisterEvents` -> `EventPool::Start` | takes events from the front of `m_workerQueue` and runs their handlers |
| service | `ServerPool::Start` | polls the ENet host of every instance, owns CONNECT, RECEIVE and DISCONNECT |
| console | `main.cpp:51` | `svinfo`, `hwinfo`, `shutdown` |

### Components

| component | state | operations | what makes it correct |
|---|---|---|---|
| ServerPool (`Server/ServerPool`) | `m_servers`, `running`, the thread | StartInstance, StopInstance, GetServers, Start, ServicePoll | a round polls instances that exist; a stopped one goes once nobody uses it |
| Server, ENetServer | the host, the PlayerPool, through one `shared_ptr` | constructor, Service, destructor | lives as long as a round or a queued event holds it |
| Peer (`ENetWrapper/Peer`) | the `ENetPeer*` of a player | SendPacket, RequestDisconnect, the conversion to `ENetPeer*` | what is sent reaches the client it is for |
| PlayerPool, Player | `m_players` (connectID -> `Player*`), the Players on the heap | NewPlayer, GetPlayer, RemovePlayer, OnConnect | a player exists from CONNECT to DISCONNECT; no pointer to a deleted one is used |
| EventPool | `m_workerQueue`, three registries, the thread | AddQueue, ServicePoll | every event is handled once, in order, for the client that sent it |
| event handlers (`Event/TextEvents`, `Event/Dialogs`) | - (they write Players) | OnRequestedName, OnAction, OnDialogReturn, OnDialogGrowIDApply | read the keys of their own event; leave a player registered or not |
| registration rules (`PlayerTable`, `TankInfo`) | the table `players` (a MySQL server), `m_detail` | RegisterPlayer, IsAccountExist, Serialize, the setters | only valid names without an account; whole accounts |
| PlayerItems | `m_bpItems` | constructor, AddItem | starter items once |
| Database | the connection | Connect | is there before a handler asks |
| ItemManager, ItemInfo | `m_items` | Serialize, Encode, GetItem, Pack | what is written is what was read; an item is found by its id |
| TextParse | lines of `key\|value` | Parse, Get, Add, GetAsString, Contain | no lookup reads another key's line |
| DialogBuilder, PlayerDialog | the dialog's text | one method per line | shows what was typed |
| Packets, VariantList, SendPacket | - | Pack, Serialize, framing | a receiver finds what was sent |
| HTTPServer | listening or not | Listen | - |
| main, console | - | the start-up, the commands | the start is decided; nobody is served before all is ready |

### How they interact

    HTTP --(address)--> client --(ENet)--> service thread
      service thread --NewPlayer/RemovePlayer--> PlayerPool
      service thread --AddQueue(name, text, Player*, shared_ptr<Server>)--> m_workerQueue
    m_workerQueue --front/pop_front--> worker thread --handler--> Player, PlayerTable
      worker thread --enet_peer_send, enet_peer_disconnect_later--> ENet host
    console --StopInstance--> ServerPool::m_servers

The hard part is what two threads share: the queue holds raw `Player*` whose
owner is the other thread; the `Player` holds a raw `ENetPeer*` that ENet
reuses; the `Server` is held by `shared_ptr` in every queue entry and in the
copy of the map each round makes; `std::deque`, `std::unordered_map` and the
ENet host are used from two threads without a lock. `PROJECT.json`, "hazards",
lists these places with their lines and the properties aimed at them.

## 2. The modules

    ENetHost <- PlayerPool <- EventPool <- GameServer <- GameServerProperties
                                  |                         ^ MCGameServer
                                  + INSTANCE EventLog       | INSTANCE Sessions
                                                            ^ GameServerProofs
                                                              ^ EventLogProofs
    Account <- AccountProperties (INSTANCE Registrar)  ^ MCAccount, AccountProofs
    BinaryIO <- ItemsDat \
    Registries            } <- Startup                 ^ MCStartup, StartupProofs
    TextParse <- DialogBuilder \
    BinaryIO  <- Packets        } <- TextEvents        ^ MCTextEvents, TextProofs
                                                              ^ AnswerProofs
    SeqFolds  <- BinaryIO, TextParse, GameServerProperties
    Recursion <- ItemsProofs <- StartupProofs
    Recursion <- EventLogProofs, TextProofs

`A <- B`: B EXTENDS A. Operators marked "Mutant" in a module are wrong variants
of the definition that follows them; PROJECT.json names the property each
violates, and no specification uses them. *SeqFolds* has the two loops over a
sequence that several modules need, a filter with a mapping and a sum;
*Recursion* has what the proofs need to know about recursive functions.

### The running server: GameServer and the modules below it

*ENetHost* is external: ENet as the code uses it. A connection is one visit of
a client; it occupies a slot (`ENetPeer`) from the handshake until its
DISCONNECT event has been returned. The library is lsalzman/enet, which
`src/README.md:27` names: it resets a peer, the connectID with it, and then
returns the DISCONNECT event of it. `ServerPool.cpp:93` reads the connectID of
the event's peer, and so reads 0 always (`DisconnectId`).
`DispatchConnect/Receive/Disconnect` are what `enet_host_check_events` returns,
`Arrive/Receive/Leave/LeavePending/Depart` what happens inside
`enet_host_service`, `Accepts`/`DisconnectLater` what `enet_peer_send` and
`enet_peer_disconnect_later` do to a slot.

*PlayerPool* is `m_players` and the Player objects, one per connection that got
one; `heap` says which were created and deleted, `pPeer` is the slot a Player
was built with. A client chooses its connectID: several may choose the same,
and one may choose 0 (`ZeroId`). Only such a client's Player is ever found by a
DISCONNECT, by that of any client, and deleted; all others stay. *EventPool* is
the deque and the worker's copy of its front. *GameServer* adds the threads:

| action | code |
|---|---|
| RoundBegin, PollDone, ServiceDone | `ServicePoll`: copy of the map; no event left; `Service()` and the end of the copy |
| PollConnect; KnownId or MakePlayer; Greet | CONNECT: the event is returned and the peer is connected; the lookup and NewPlayer; OnConnect sends the hello |
| PollDrop, PollReceive, PollDisconnect | the other cases of its switch, with every early break |
| WorkerTakes | `EventPool::ServicePoll` copies the front |
| HandleUnhandled | the name has no handler: `continue` without pop |
| HandleNothing, HandleUnknownAction | OnAction, OnDialogReturn return early |
| HandleName... | OnRequestedName, one action per outcome |
| HandleApply... | OnDialogGrowIDApply, one action per outcome |
| SendDialog, Disconnect, ReportSuccess | the second half of a handler that uses a peer: the send, RequestDisconnect, the welcome; and the pop |
| HandleDangling, HandleBadLine, HandleNameThrows, HandleApplyThrows | the process is lost |
| Shutdown, ServerInfo | the console commands |
| Traffic, Complete | the clients and ENet, inside `enet_host_service` |

An action is as large as what one thread does between two points where another
thread can be seen. Two of these points are easily overlooked. Between the
return of CONNECT and the hello the peer is connected, and what the worker
sends to its slot for an earlier client goes to the new one. And a handler
reads the `ENetPeer*` out of its Player, passes it by value
(`PlayerDialog.cpp:17`) and builds a packet (`ENetWrapper.hpp:23-34`) before
`enet_peer_send` uses it: `Take` keeps it in `target`, and any number of the
service thread's steps may come before the second half, which uses the peer and
not the Player. The reset of a peer and the deletion of the player found under
0 are one step, PollDisconnect: what the worker could do in between is a send
to a free slot, which does nothing, or something it could do before both. Where
two threads race (push against front/pop_front, StopInstance against the copy
of the map, an ENet call against `enet_host_service`), the outcome is chosen:
the process is lost (`status = "undefined"`), or the step has its plain effect.
Properties that hold in every reachable state are thus properties of the
executions in which the races happened to do no harm, up to the moment one
does. The `host` variable is the reference count in effect: `Held` says whether
the map, a round or a queue entry holds the Server, and `DropUnlessHeld`
destroys it otherwise.

*GameServerProperties* states the properties, *EventLog* is the abstract
specification of the queue: a log, a cursor, the event being worked on. The
mapping (`EventPool!Log`) is `log = handled \o queue`, `cursor = Len(handled)`,
`current = worker`. PutDown is the `continue` without pop.

*Sessions* is the abstract specification of what one client sees: a session
that opens with one greeting, is told what answers its own events from then on,
may be given one GrowID, and is over for good. It allows one thing more, which
the code does: an answer for a client whose session is over may stray to the
client that has its place now, before its greeting too. In the mapping
(`Sess`, `Phase`) a session is unopened until the history `delivered` has the
hello, open after that, and over when the peer is disconnected or is to be; in
`delivered` `enet_peer_send` writes what the peer's present owner gets. The
implementation is not obvious: the worker answers through peers of Players whose
clients may be gone, and through a slot ENet may have handed to the next client.

### Registration: Account

The two handlers in the detail GameServer leaves out: what is stored before and
after each check, and the two waits of OnDialogGrowIDApply for the data base
(`job.at`: "lookup" is the query of `IsAccountExist`, "ping" is `is_valid`,
"reconnect" is `reconnect`). The query compares in the data base, whose columns
collate utf8_general_ci (`runtime/growtopia_server.sql:13`): an account is
found in whatever letter case its name is stored (`SameName`). The setters of
TankInfo write only what they have room for, and the handler does not look at
what they return (`SetTankIDName`, `SetTankIDPass`). During a wait the service
thread may delete the Player (`Leave`) and the connection may be lost or come
back (`DatabaseChanges`). A name is what the rules tell apart: whom it names to
the data base, whether it has upper-case letters, its length, whether it is
alphanumeric. `Leave` forgets the Player's fields: the object is gone, and a
later use of it sets `status` to "undefined". *Registrar* is the abstract
specification, one atomic `Claim`; the rules in its `Claimable` are those
RegisterPlayer checks and names in its answers, of a password its length alone.
The mapping reads `tankIDName` and `tankIDPass`. A second requestedName of a
registered player is not excluded (nothing sets the flag that would) and
renames what others see, which Registrar permits and StayingNamesValid keeps
within the rules.

### The start: Startup, Registries and ItemsDat

*Startup* has one action per statement of main, each with its ways to fail, and
of the other threads what can be seen of them during the start. Before main it
runs the constructors of *Registries*: `g_eventPool` and the four static
objects of `EventRegister.cpp` that fill its three registries, in either order
of the two translation units (`poolFirst`). An object that registers before the
pool is constructed writes to memory that is not a map yet; the model lets the
process go on with what was zeroed, or lose it. `Chain` is what runs for a
text: ServicePoll, OnAction and OnDialogReturn each look its next name up. Which
texts wait before it in the queue is GameServer's matter and not kept here:
Serve takes the clients' texts in any order. *ItemsDat*
models items.dat as a sequence of cells, each of a width and a value:
`ReadLayout` is `ItemInfo::Serialize` member by member, `PackLayout` is
`ItemInfo::Pack`; `Cypher` is the involution of the name with the id as its
key; a cell read at another width is unreadable. `Undefined` is what GetItem
reads behind the vector. A file may be cut between any two cells: `StaysInside`
says whether the loader, which does not know the file's size, stays in it, and
what it reads behind is undefined. A file of one byte, half a cell, is not
representable, and that `m_items.reserve` may throw on a huge count is left out.

### The texts: TextEvents

One client's text through `ServerPool.cpp:107-112`, `TextParse`, the four
handlers and the answer. A text is a sequence of delimiters and of words, a
word standing for a run of other characters. `Undefined` is what reading an
element of an empty vector gives. *Packets* holds the codec of variant lists
and the framing of `ENetWrapper::SendPacket`, *DialogBuilder* the registration
dialog.

## 3. The runs

| run | module, cfg | distinct states | question |
|---|---|---|---|
| gs_safety | MCGameServer, GameServerSafety | 662,576 | every packet kind, two clients of which one chose the connectID 0, two slots, shutdown at any point |
| gs_order | MCGameServer, GameServerOrder | 2,832,152 | two packets each, of three kinds |
| gs_live | MCGameServer, GameServerLive | 68,890 | liveness, three clients in turn in one slot, two with the same connectID |
| gs_active, gs_stalled, gs_refusal | MCGameServer | - | violations, section 6 |
| account | MCAccount, AccountSafety | 198,959 | registration with a failing data base and leaving players |
| account_unique, account_connection | MCAccount | - | violations, section 6 |
| startup | MCStartup, StartupSafety | 17,228 | every order of the constructors, every failure of the start, fourteen files, four texts |
| startup_serves | MCStartup, StartupServes | - | violation, section 6 |
| text | MCTextEvents, TextEvents | 44,381 | texts of up to four lines |

What the passing runs show:

*gs_safety.* PoolOwnsPlayers: what is in the map is live and in it once, what
is live is in the map. PoolFollowsHost: from the handling of its CONNECT to its
DISCONNECT a connection has its own live Player, in the slot it alone occupies;
the client with the connectID 0 is the exception, whose Player another's
DISCONNECT deletes. RepliesReachSender: although Players outlive their clients
and the worker writes through reused slots, no message for a client that still
has its slot reaches another one. HelloFirst: SERVER_HELLO comes once, for the
client itself, and before all else that is meant for it.
ServerOutlivesEvents: `shutdown` never destroys a Server that an event or a
round uses. EventsNameTheirPlayer: a queued pointer is that of the sender's
Player. OnlyZeroIdDangles: the worker meets a deleted Player only of the client
with the connectID 0, and meets it in this run. ImplementsSessions: to each
client, by itself, the server is Sessions; strays are reached in this run.

*gs_order.* EventsInArrivalOrder: from the inbox through the queue to the
handlers nothing of a connection is reordered, lost or repeated.
ImplementsEventLog: the queue and its worker implement EventLog.
RegisteredByOwnEvent: a GrowID is given only at work on the own client's
growid_apply.

*gs_live.* Under the fairness of section 4: an event with no unhandled one
before it is handled (EventsServedInTurn); after `shutdown` the host is
destroyed, unless an unhandled event keeps the queue (ShutdownCompletes); a
client is greeted, unless its connectID is that of a Player that is there
already (ClientsGreeted). All hold up to the loss of the process.

*account.* RegistrationIsWhole: name, password and two starter items, each
once, or none: what the rules let through the setters take. StayingNamesValid:
whoever is not being disconnected has no name or a valid one, though
OnRequestedName stores the name before it looks. ImplementsRegistrar: GrowIDs
are claimed at once, under the rules, from names without an account in any
letter case, and kept. ApplicationsDecided: the one worker, which every client
shares, is not kept for ever by an application, whatever becomes of the
connection and of the player. The table holds an account, its name stored with
upper-case letters, and a guest under a name that is free (`Rows`, `Taken`).

*startup.* ServesOnlyReady: no order of the threads serves a client before the
data base and the items are there. RegistriesWhole: main finds every handler
registered or none, whichever unit was initialised first. RunsInPlace: a text
runs the handlers registered for its names, each in its own registry, and no
name answers in another place. ItemsById: the loaded items are found by their
ids, but for a last one with another id, which is kept and alone ends the
loading before the count. EncodeRestores: items are written back as the file
they came from, without what may follow the last of them, within the buffer
computed for them. OverrunsOnlyCut: the loader
leaves the file behind only where it is shorter than its count announces.
StartIsDecided: main reaches its loop or the process
is over.

*text.* TokenizeSplits: the loop of `StringTokenize` computes the maximal
pieces between delimiters, against a definition without a loop.
HandlersReadOwnLine: the event is named from the raw text and handled from the
parsed one, and the two agree. OnlyBarsAreUndefined: only a line of nothing but
delimiters makes a lookup undefined. FramesCarry: whatever its length, a frame
decodes to what the handler gave. DialogShowsTyped: nothing typed makes a
field or a line of its own, though nothing is escaped.

## 4. Bounds and fairness

| bound | where | why it is enough |
|---|---|---|
| 2 or 3 connections, 2 slots or 1 | GameServer cfgs | all interference of the safety properties is between two connections: one leaves while the other's events wait, or takes its slot. A third is needed for a client that meets the connectID of a Player left behind while another is served (gs_live). One slot makes every later visit a reuse |
| connectIDs | MCGameServer | 0 and another (gs_safety, gs_order), two that are shared (gs_live): equal, different and zero ones |
| MaxSends 1 or 2 | GameServer cfgs | one packet of each kind per client reaches every handler in every interleaving with the service thread (gs_safety); two are needed for order and for an event behind another (gs_order, gs_live) |
| packet kinds per run | GameServer cfgs | gs_safety takes all twelve. gs_order and gs_live take the kinds that finish, disconnect or stall: what the others do to the queue is the same |
| 2 players, 6 names, 3 passwords, lengths 3, 10, 16, 18, 19 and 7, 24, 25 | MCAccount | the lengths the rules compare with, on both sides; one name in both spellings, one with an account, one not alphanumeric |
| MaxLen 25 | Account cfgs | above every bound in the rules |
| fourteen files, up to three items | MCStartup | none, empty, no items, one, two; of another version, with an item out of place first, in the middle or last; cut in the header, behind it, in an item, between items and behind an item out of place; with something behind its last item; names longer than the cipher's key; every member has a value of its own so that an exchange shows |
| four texts, two clients | MCStartup | a text for each length of a chain, one that stops at each registry, and one that names an action where its event should be |
| MaxMore 3, 13 first lines, 10 others | MCTextEvents | growid_apply reads three fields behind the lines that name it (one of the first lines holds both), so three further lines meet every lookup with its key, without it and behind a line that breaks it; a whole requestedName is one of the first lines |
| MaxEvents 4 | GameServerProperties | 2 connections with MaxSends 2 queue no more |

`CHECK_DEADLOCK FALSE`: the system may really stop, in a lost process, and when
all clients have left and the instance is stopped.

Equal connectIDs are in no run for safety. PoolOwnsPlayers, OnlyZeroIdDangles,
RepliesReachSender, HelloFirst, ImplementsSessions, ServerOutlivesEvents and
ImplementsEventLog are proved for every `ConnId`; PoolFollowsHost,
EventsNameTheirPlayer, RegisteredByOwnEvent and EventsInArrivalOrder need
different ones, which their theorems assume (`UniqueIds`) and the runs have:
where two clients share a connectID the code takes the second for the first.

Fairness in GameServer: weak fairness of the service thread and of the worker
thread, because the operating system schedules both and neither ever blocks on
the other (no lock exists); the worker spins on `empty()`, which is an
unsynchronised read the compiler must be assumed to repeat. Strong fairness of
`Complete(c)`: ENet retries a disconnect and gives up on a timeout, in some
call of `enet_host_service`, which the service thread makes in every round.
Nothing is assumed of clients or of the console. In Startup: main and the
service thread keep running. In Account: the worker runs, and MySQL's client
returns from a query, a ping and a connect, with success or failure; nothing is
assumed of the server behind it.

## 5. What is proved

TLAPS proves, for every set of connections, slots, connectIDs, packets,
players, names and accounts, with no bound but the constants' declared types:

| theorem | states | rests on |
|---|---|---|
| GameServerProofs!TypesHold | TypeOK | `WorksOnFront`: the worker's event is the front of a queue that is not empty. Without it `Tail(queue)` has no type: it is the reason that `pop_front` is never called on an empty deque |
| EventLogProofs!QueueImplementsLog | ImplementsEventLog | TypeInv; a push appends to `handled \o queue`, a pop moves one event over the border and leaves the log as it was |
| EventLogProofs!ServerIsHeld | ServerOutlivesEvents | `DestroyedIsUnheld`: a destroyed host is not in the map, in no round and in no entry |
| GameServerProofs!PoolIsConsistent | PoolOwnsPlayers | TypeInv |
| GameServerProofs!OnlyZeroDangles | OnlyZeroIdDangles | `DeletedAreZero`: the one lookup that leads to a deletion is that of the 0 of a reset peer, and the pool has players under their own connectIDs |
| GameServerProofs!PoolFollows | PoolFollowsHost | UniqueIds; `PlaceInv` and `PlayersStay`, below |
| GameServerProofs!EventsNamed, RegisteredByOwn | EventsNameTheirPlayer, RegisteredByOwnEvent | UniqueIds: the pool has a sender's player under its connectID, and the worker's event is one of the queue |
| GameServerProofs!RepliesReach | RepliesReachSender | `SendInv` and SlotInv, below; no assumption on connectIDs |
| GameServerProofs!HelloComesFirst | HelloFirst | `GreetInv`, below; no assumption on connectIDs |
| GameServerProofs!ServerImplementsSessions | ImplementsSessions | all of these; every step is a step of one session or a stutter; no assumption on connectIDs |
| AccountProofs!AccountTypes, RegistrationStaysWhole, StayingNamesStayValid | TypeOK, RegistrationIsWhole, StayingNamesValid | `IInv`, below |
| AccountProofs!HandlersImplementRegistrar | ImplementsRegistrar | `IInv`: Register maps to Claim, Leave to Leave, all else to a stutter |
| StartupProofs!StartupTypes, ServesReady | TypeOK, ServesOnlyReady | `Position`, below |
| StartupProofs!RegistriesFilled, TextsRunInPlace | RegistriesWhole, RunsInPlace | `Filling`: between two constructors the registries hold what the objects so far registered; for texts of any names |
| StartupProofs!ItemsAreById | ItemsById | `Loaded`; the loader's loop ends at the least item out of place, for any file |
| StartupProofs!OverrunsAreCut | OverrunsOnlyCut | `Overran`: what the loader read lies in the file when the file has the cells its count announces, by the layout of an item (FileFits) |
| StartupProofs!EncodingRestores | EncodeRestores | `Kept`: what is loaded is what ItemsRead makes of the file; member by member, what ReadLayout reads PackLayout writes back, the name deciphered twice (EncodeIsPrefix), and a cell is no wider than the byte count of its member (MemberBytes) |
| EventLogProofs!ArrivalOrder | EventsInArrivalOrder | UniqueIds; the log of QueueImplementsLog and `OrderInv`: what is selected of a connection from handled, queue and inbox together only grows at its end |
| TextProofs!TextSafe | the invariant of the texts | the parser is `Parse(text)`; at "undefined" the value of some key is Undefined |
| TextProofs!TokensAreSplits | TokenizeSplits | for texts of any words: from behind a delimiter on, the loop's tokens are the pieces from there on (SplitFrom) |
| TextProofs!OnlyBars | OnlyBarsAreUndefined | a text without a token is nothing but delimiters (NoToken); no word of a client is what Undefined is made of |
| TextProofs!OwnLineRead | HandlersReadOwnLine | the name that `substr` finds is the first token of the first line, whose first two characters erasing the returns keeps (FirstLineNamed) |
| AnswerProofs!AnswersSafe | the invariant of the answers | `Answering`, below |
| AnswerProofs!AnswersCarried | FramesCarry | Answering; Unpack undoes Pack (UnpackPack), GetMemoryUsage is what Pack writes, a frame longer than a header, or a message, is copied whole (ListFrame), and Parse undoes GetAsString on lines without line ends (ParseOfString) |
| AnswerProofs!DialogShown | DialogShowsTyped | the two above: the dialog holds what was typed (DialogValues), each line of the dialog is one row more for the client, of its name and its fields (LineRow), and of these only the three input lines are inputs (RegistrationTells) |

The invariant of GameServer has five parts. `SlotInv` is what ENet promises: an
occupied slot has one present connection, and a present connection one slot.
`PlaceInv` ties Players to it: a Player exists only for a connection whose
CONNECT was returned, and the slot it was built with is its connection's as
long as that connection lasts. `PlayersStay`: with different connectIDs a
connection whose CONNECT was handled has a Player. `SendInv`: the Player of a
queued event was greeted before the event was queued (`EventsWelcomed`), and
the peer in the worker's hand is the one of the Player it works on
(`TargetInv`); as Players are never rebuilt this is so however late the peer is
used, and with PlaceInv and SlotInv the slot is either the Player's own
client's or that client is gone. `GreetInv`: before its greeting nothing has
been sent for a Player and it has no GrowID, and after it the client has the
greeting or has gone. HelloFirst is not inductive without the last two: that no
answer overtakes the hello rests on events being queued only by the thread that
greets.

The invariant of Startup is one about main: `Position` says what each of its
statements may rely on (behind "items" the data base is connected, behind
"events" there is one worker, behind "spawn" a thread) and that what the other
threads do takes none of it back. ServesOnlyReady is not inductive without it:
a client is connected only when the service thread polls, which it does only
when `running` is set, which is the last thing but one that main does.

The invariant of Account adds two parts to the properties. `JobSound`: while
OnDialogGrowIDApply waits, its player has no GrowID, its name and password fit,
and behind the query the name has no account. It is stable because the worker
runs no other handler meanwhile and the service thread can only delete the
player; without it Register could claim a second time, or claim what was never
checked. That a registration is whole rests on SettersHaveRoom: a name and a
password that fit RegisterPlayer's rules fit the setters' too. `GoneIsBlank`: a
Player starts without a name. The arithmetic lemma behind RegistrationIsWhole
(BackpackHasRoom) says that four kinds of item never fill the twenty places of
a backpack, so neither starter item is refused.

The invariant of the answers, `Answering`, follows what an applicant typed: the
fields read are words without line ends and bars, because Parse and Get cut at
them; the dialog is empty or made of these fields and a message; what is sent
is made of that dialog, or of the fields. Its proof and what follows from it
rest on one law of cutting, by tokens as StringTokenize does or by fields as a
client does: what is behind a delimiter is cut as if it stood alone (CutJoins).
The prover does not know that a literal is a STRING, so the words are typed as
members of STRING or of a list of the literals that occur (Literals).

The constants' assumptions are named in the modules that declare them
(HostAssumption, PoolAssumption, EventAssumption, ServerAssumption,
AccountAssumption, StartupAssumption, TextsAssumption) and hold in every run:
they say that the special values are no members, that packets, names, texts and
connectIDs are of their kind, and of a file of items
(CutAsRead) that its cells are cut as the reader cuts them. The last is what it
is to be a file: its bytes have no cells of their own, the cells are those in
which `ItemInfo::Serialize` consumes them, a string as long as the length before
it. Nothing is assumed of the values, of the count or of where the file ends.

Much here is recursion over data: the loops of StringTokenize and of the item
loader, filters, sums and concatenations. TLAPS knows of a recursive function
only that it is some function that satisfies its equation, if there is one, and
the library's induction theorems cannot be instantiated. *Recursion* therefore
derives from the well-founded order on the finite subsets of an interval that a
set of numbers has a least member (HasLeast), from it that what is passed from
each index to the next holds at all (Rises, Falls), and by these that a function
defined by recursion along a rank exists (RecursionDefines). Every recursive
definition then gets a lemma that states it by its steps (TokenizeBy,
SelectedBy, SumBy, FlattenBy, LoopStays), and the proofs never see the CHOOSE.

Every invariant and every action property of the passing runs, and the three
refinements, are stated by one of these theorems. Model-checked only: liveness
(EventsServedInTurn, ClientsGreeted, ShutdownCompletes,
ApplicationsDecided, StartIsDecided), as fairness and ENABLED are beyond the
prover.

## 6. Findings

Each is a run that TLC ends with a counterexample; PROJECT.json quotes the
texts.

- *gs_active* (`ServerPool.cpp:93`): a client connects and leaves; the
  DISCONNECT looks its Player up under the 0 of a reset peer, does not find it,
  and the Player stays in the pool and is counted by svinfo for ever.
- *gs_stalled* (`EventPool.cpp:73`): a text without a handler is never popped,
  and no event behind it, of any client, is handled again. The run is under
  fairness of both threads.
- *gs_refusal* (`RequestedName.hpp:17`): `(ENetPeer*)pAvatar` reinterprets the
  Player; the refused client is disconnected without the text that explains it.
- *account_unique* (`AccountDialog.hpp:48`): no registration enters the table
  that the next one is checked against, so two players get one GrowID.
- *account_connection* (`PlayerTable.cpp:66`): the query throws out of the
  worker thread before `is_valid` is asked.
- *startup_serves* (`ServerPool.cpp:18`): the service thread may look at
  `running` before it is set, and ends for good. The run is under fairness of
  both threads.

Seen while modelling, without a run of their own, of what the Players left
behind do: the RequestDisconnect of one whose client is gone disconnects the
client that has its slot now (HandleNameInvalid, then Disconnect); its answers
stray to that client (Sessions!Stray); and a client that comes with the
connectID of one is taken for it, gets no hello, and its events run on the
other's Player (KnownId). A client that chooses the connectID 0 has its Player
deleted by anybody's DISCONNECT, while its events wait (HandleDangling). And of
the rest: the dialog asks for a password of 8 to 18 characters with a special
one (`PlayerDialog.cpp:33`), the code accepts 8 to 24 of any
(`PlayerTable.cpp:46`); a late failure of main returns while the HTTP or the
worker thread is joinable, which ends in `std::terminate` in place of
EXIT_FAILURE (Startup!Return); nothing sets the logged-on flag that
OnRequestedName looks at; the static objects that register the handlers and the
pool they register in are in two translation units (`EventType.hpp:27`), and
where the linker initialises the pool last the server starts and answers
nobody; the uptime does not reduce its hours by the days it shows
(`Server.cpp:21`), so that a day and an hour read "1 days, 25 hours", where
`RebillionClockXD::GetString` (`TimingClock.cpp:16`) would count right; a last
item of another version stays loaded under a wrong id (`ItemManager.cpp:28`).

## 7. What is not modelled

Parts with status "partly" or "not_modelled" in PROJECT.json:

- `ItemComponent.hpp` and `ItemType.hpp`, 13,005 of the 16,947 lines: lists of
  constants, with no state and no operation.
- Worlds: declarations and a count.
- Logging, colours, files, the formatting of durations (`Server::GetUptime`,
  `RebillionClockXD`) and the layout of texts that no property is about.
- Several instances and their ids and ports: main starts one, and
  GetBalancedServer and ServerPool::Stop have no caller.
- Methods without a caller: `DialogBuilder` beyond the registration dialog,
  `TextParse::Set`, `PlayerTable::Insert`, gems and clothes of PlayerItems,
  `HTTPServer::Stop`, `ItemManager::Kill`, the lookups GetEvent and GetEvents.
- Of the HTTP answer, its text: constants of `config.hpp` in six lines.

ENet, MySQL and the C++ library are external and appear as the code uses them:
MySQL as a connection that is up, stale or down and a table of rows. The
cursors of `std::deque` are the library's: a race on it, on `m_servers` or
inside ENet is one of two outcomes, the plain effect or the loss of the process,
and no property says that a race does not happen, because they do.

## 8. The plan

Done: the running server with EventLog and Sessions; the registration with
Registrar; the start with the registries and the items; the texts.
Each has its proofs, of everything but liveness.

What would come next, if the code grows towards it: several instances composed
with the rounds of GameServer (ids that stay distinct, each instance polled
once a round), when something starts a second one; the inventory's limits, gems
and clothes, when a handler changes them; the deque's cursors as steps, should
the queue get a lock whose scope is to be justified; worlds.
