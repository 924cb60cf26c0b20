----------------------------- MODULE GameServer -----------------------------
(***************************************************************************)
(* One running server instance: the service thread of ServerPool, the      *)
(* worker thread of EventPool with the event handlers, and the console     *)
(* thread, over one ENet host, its player pool and the event queue.  The   *)
(* threads share all of it and take no lock.                               *)
(*                                                                         *)
(* The state is the one main reaches once Start has returned and the       *)
(* service thread has found the pool running.  Each step below is as large *)
(* as what one thread does between two points where another can be seen.   *)
(*                                                                         *)
(* A data race between two threads, a call through a Player pointer cast   *)
(* to ENetPeer pointer, and the use of a deleted Player are undefined: the *)
(* process is lost ("undefined"), or, where the build usually lets it      *)
(* pass, the step has its plain effect.                                    *)
(***************************************************************************)
EXTENDS EventPool

CONSTANT NoTarget  \* the worker holds no peer

\* What a client may send, by what the server makes of it.
PacketKinds ==
  {"badLength",      \* shorter than 5 or longer than 1024 bytes
   "gamePacket",     \* neither GENERIC_TEXT nor GAME_MESSAGE
   "unknown",        \* a text whose event name has no handler
   "badLine",        \* a text with a line of delimiters alone before a key
                     \*         its handler looks up
   "nameOk",         \* requestedName: accepted
   "nameInvalid",    \* requestedName: the name is refused
   "nameIncomplete", \* requestedName: TankInfo::Serialize returns false
   "nameNoVersion",  \* requestedName: game_version is not a number
   "actionNone",     \* action: no "action" key, or dialog_return without
                     \*         "dialog_name"
   "actionUnknown",  \* action: no such action, or no such dialog
   "applyOk",        \* growid_apply: RegisterPlayer answers SUCCESS
   "applyBad"}       \* growid_apply: RegisterPlayer answers a refusal

ASSUME ServerAssumption ==
  /\ NoTarget \notin Slots \cup {NoSlot}
  /\ Packets \subseteq PacketKinds

VARIABLES svc,        \* where the service thread is in its round
          arrival,    \* the connection whose CONNECT it is handling
          target,     \* the peer pointer a handler has read from its Player
          listed,     \* the instance is in ServerPool::m_servers
          host,       \* the Server object and its ENetHost
          status,     \* what has become of the process
          delivered   \* history: the messages each connection was sent

serviceVars == <<svc, arrival>>
serverVars == <<serviceVars, target, listed, host, status, delivered>>
vars == <<hostVars, poolVars, eventVars, serverVars>>

\* by is the Player the message was sent for.
Messages == [kind : {"hello", "registration", "log"}, by : Conns]

TypeOK ==
  /\ HostTypeOK
  /\ PoolTypeOK
  /\ EventTypeOK
  /\ svc \in {"head", "poll", "connect", "greet", "service"}
  /\ arrival \in Conns \cup {NoConn}
  /\ svc \in {"connect", "greet"} => arrival # NoConn
  /\ target \in Slots \cup {NoSlot, NoTarget}
  /\ listed \in BOOLEAN
  /\ host \in {"alive", "destroyed"}
  /\ status \in {"up", "terminated", "undefined"}
  /\ delivered \in [Conns -> Seq(Messages)]

Init ==
  /\ HostInit
  /\ PoolInit
  /\ EventInit
  /\ svc = "head"
  /\ arrival = NoConn
  /\ target = NoTarget
  /\ listed = TRUE
  /\ host = "alive"
  /\ status = "up"
  /\ delivered = [c \in Conns |-> << >>]

\* The outcomes of a step that races with another thread's.
RaceOutcome == {"up", "undefined"}

\* Mutant: the queued event keeps a plain pointer to the Server.
HeldByRounds(inMap, at, events) == inMap \/ at # "head"

\* The Server object is held by the map, by the service thread's copy of the
\* map during a round and by every queued event; it is destroyed, with its
\* host, when the last of them lets go.
Held(inMap, at, events) == inMap \/ at # "head" \/ events # << >>
DropUnlessHeld(inMap, at, events) ==
  host' = IF Held(inMap, at, events) THEN host ELSE "destroyed"

\* SendPacket to slot s: what the client there is sent.
Transmit(s, m) ==
  IF Accepts(s)
  THEN [delivered EXCEPT ![owner[s]] = Append(@, m)]
  ELSE delivered

-----------------------------------------------------------------------------
(* The service thread.                                                     *)

\* A round begins: GetServers copies the map, and with it a reference.
RoundBegin ==
  /\ svc = "head" /\ listed
  /\ svc' = "poll"
  /\ UNCHANGED <<hostVars, poolVars, eventVars, arrival, target, listed, host,
                 status, delivered>>

\* CONNECT has been returned: the peer is connected from here on, and what
\* the worker sends to its slot is sent to the new client.
PollConnect(c) ==
  /\ svc = "poll"
  /\ DispatchConnect(c)
  /\ svc' = "connect"
  /\ arrival' = c
  /\ UNCHANGED <<poolVars, eventVars, target, listed, host, status, delivered>>

\* The connectID has a player already: nothing is done for the client.
KnownId ==
  /\ svc = "connect"
  /\ GetPlayer(ConnId[arrival]) # NoPlayer
  /\ svc' = "poll"
  /\ arrival' = NoConn
  /\ UNCHANGED <<hostVars, poolVars, eventVars, target, listed, host, status,
                 delivered>>

\* A player is made for the connectID.
MakePlayer ==
  /\ svc = "connect"
  /\ GetPlayer(ConnId[arrival]) = NoPlayer
  /\ \E s \in Slots : owner[s] = arrival /\ NewPlayer(arrival, s)
  /\ svc' = "greet"
  /\ UNCHANGED <<hostVars, eventVars, arrival, target, listed, host, status,
                 delivered>>

\* Mutant: OnConnect sends nothing.
GreetSilently ==
  /\ svc = "greet"
  /\ svc' = "poll"
  /\ arrival' = NoConn
  /\ UNCHANGED <<hostVars, poolVars, eventVars, target, listed, host, status,
                 delivered>>

\* OnConnect: the new player is sent the hello, through its own peer.
Greet ==
  /\ svc = "greet"
  /\ delivered' = Transmit(pPeer[arrival], [kind |-> "hello", by |-> arrival])
  /\ svc' = "poll"
  /\ arrival' = NoConn
  /\ UNCHANGED <<hostVars, poolVars, eventVars, target, listed, host, status>>

\* RECEIVE of a packet the switch drops: of a length out of bounds, of a
\* connection without a player, or of a type that is not a text.
PollDrop(c) ==
  /\ svc = "poll"
  /\ DispatchReceive(c)
  /\ \/ Head(inbox[c]) \in {"badLength", "gamePacket"}
     \/ GetPlayer(ConnId[c]) = NoPlayer
  /\ UNCHANGED <<poolVars, eventVars, serverVars>>

\* RECEIVE of a text: it is queued with the player the connectID names.  The
\* push races with what the worker does to the same deque.
PollReceive(c) ==
  /\ svc = "poll"
  /\ DispatchReceive(c)
  /\ Head(inbox[c]) \notin {"badLength", "gamePacket"}
  /\ GetPlayer(ConnId[c]) # NoPlayer
  /\ AddQueue([from |-> c, avatar |-> GetPlayer(ConnId[c]),
               text |-> Head(inbox[c])])
  /\ status' \in RaceOutcome
  /\ UNCHANGED <<poolVars, serviceVars, target, listed, host, delivered>>

\* Mutant: the connectID is still that of the connection.
DisconnectIdKept(c) == ConnId[c]

\* The connectID the peer of c's DISCONNECT event has: ENet resets the peer,
\* and with it the connectID, before it returns the event.
DisconnectId(c) == ZeroId

\* DISCONNECT: the player found under that connectID is deleted.  The reset
\* and the deletion are one step: what the worker could do in between to the
\* freed slot does nothing, and anything else it could do before both.
PollDisconnect(c) ==
  /\ svc = "poll"
  /\ DispatchDisconnect(c)
  /\ IF GetPlayer(DisconnectId(c)) # NoPlayer
     THEN RemovePlayer(DisconnectId(c))
     ELSE UNCHANGED poolVars
  /\ UNCHANGED <<eventVars, serverVars>>

\* No event is left: enet_host_service is entered.
PollDone ==
  /\ svc = "poll" /\ NothingToDispatch
  /\ svc' = "service"
  /\ UNCHANGED <<hostVars, poolVars, eventVars, arrival, target, listed, host,
                 status, delivered>>

\* Inside enet_host_service the host learns what its clients did.
Traffic ==
  /\ svc = "service"
  /\ \/ \E c \in Conns, s \in Slots : Arrive(c, s)
     \/ \E c \in Conns, k \in Packets : Receive(c, k)
     \/ \E c \in Conns : Leave(c)
     \/ \E c \in Conns : LeavePending(c)
  /\ UNCHANGED <<poolVars, eventVars, serverVars>>

\* Inside enet_host_service a disconnect the server asked for completes.
Complete(c) ==
  /\ svc = "service"
  /\ Depart(c)
  /\ UNCHANGED <<poolVars, eventVars, serverVars>>

\* Mutant: the copied map outlives the round.
ServiceDoneKeeps ==
  /\ svc = "service"
  /\ svc' = "head"
  /\ UNCHANGED <<hostVars, poolVars, eventVars, arrival, target, listed, host,
                 status, delivered>>

\* The round ends and its copy of the map is destroyed.
ServiceDone ==
  /\ svc = "service"
  /\ svc' = "head"
  /\ DropUnlessHeld(listed, "head", queue)
  /\ UNCHANGED <<hostVars, poolVars, eventVars, arrival, target, listed, status,
                 delivered>>

-----------------------------------------------------------------------------
(* The worker thread.  A handler that uses a peer reads the pointer out of *)
(* its Player in one step, takes it along by value (target) while the      *)
(* packet is built, and uses it in a second one.                           *)

WorkerTakes ==
  /\ TakeFront
  /\ UNCHANGED <<hostVars, poolVars, serverVars>>

\* The handler of one of the events in texts begins, on a Player that exists.
Serving(texts) ==
  /\ worker # NoEvent
  /\ worker.text \in texts
  /\ heap[worker.avatar] = "live"
  /\ target = NoTarget

\* The handler of one of the events in texts has a peer in hand.
Holding(texts) ==
  /\ worker # NoEvent
  /\ worker.text \in texts
  /\ target # NoTarget

\* The handler has returned: the event is popped, its reference dropped.
Finish ==
  /\ PopFront
  /\ DropUnlessHeld(listed, svc, Tail(queue))
  /\ target' = NoTarget

\* The pointer is read; nothing else can be seen of the step.
Take(peer) ==
  /\ target' = peer
  /\ UNCHANGED <<hostVars, eventVars, serviceVars, listed, host, status>>

\* OnAction and OnDialogReturn return at once, without touching the Player.
HandleNothing ==
  /\ worker # NoEvent
  /\ worker.text = "actionNone"
  /\ Finish
  /\ status' \in RaceOutcome
  /\ UNCHANGED <<hostVars, poolVars, serviceVars, listed, delivered>>

\* The process goes no further.
Lost(how) ==
  /\ status' = how
  /\ UNCHANGED <<hostVars, poolVars, eventVars, serviceVars, target, listed,
                 host, delivered>>

\* The event's Player was deleted while the event waited, or while its handler
\* was at the data base or built a message and is not done with the Player.
HandleDangling ==
  /\ worker # NoEvent
  /\ worker.text # "actionNone"
  /\ heap[worker.avatar] = "deleted"
  /\ target = NoTarget \/ worker.text = "applyOk"
  /\ Lost("undefined")

\* What (ENetPeer*)pAvatar points to is a Player, never a peer of the host.
CastPeer(p) == NoSlot

\* CAction and VarList messages are all sent through the cast pointer.
SendLog ==
  delivered' = Transmit(CastPeer(worker.avatar),
                        [kind |-> "log", by |-> worker.avatar])

\* No such action or dialog: logged.
HandleUnknownAction ==
  /\ Serving({"actionUnknown"})
  /\ SendLog
  /\ Finish
  /\ status' \in RaceOutcome
  /\ UNCHANGED <<hostVars, poolVars, serviceVars, listed>>

\* No handler at all: logged, and not popped.
HandleUnhandled ==
  /\ Serving({"unknown"})
  /\ SendLog
  /\ KeepFront
  /\ status' \in RaceOutcome
  /\ UNCHANGED <<hostVars, poolVars, serviceVars, target, listed, host>>

\* TextParse::Get compares the first token of a line that has none.
HandleBadLine == Serving({"badLine"}) /\ Lost("undefined")

\* std::stof throws and nothing in the worker thread catches it.
HandleNameThrows == Serving({"nameNoVersion"}) /\ Lost("terminated")

\* OnRequestedName, Serialize failed: the client is to be disconnected.
HandleNameIncomplete ==
  /\ Serving({"nameIncomplete"})
  /\ Take(pPeer[worker.avatar])
  /\ UNCHANGED <<poolVars, delivered>>

\* OnRequestedName, the name is refused: logged, and to be disconnected.
HandleNameInvalid ==
  /\ Serving({"nameInvalid"})
  /\ SendLog
  /\ Take(pPeer[worker.avatar])
  /\ UNCHANGED poolVars

\* Mutant: the worker goes on without popping the event.
DisconnectKeeps ==
  /\ Holding({"nameIncomplete", "nameInvalid"})
  /\ DisconnectLater(target)
  /\ KeepFront
  /\ target' = NoTarget
  /\ status' \in RaceOutcome
  /\ UNCHANGED <<poolVars, serviceVars, listed, host, delivered>>

\* RequestDisconnect, and the handler returns.
Disconnect ==
  /\ Holding({"nameIncomplete", "nameInvalid"})
  /\ DisconnectLater(target)
  /\ Finish
  /\ status' \in RaceOutcome
  /\ UNCHANGED <<poolVars, serviceVars, listed, delivered>>

\* OnRequestedName accepts: the client is to be shown the registration dialog.
HandleNameAccepted ==
  /\ Serving({"nameOk"})
  /\ Take(pPeer[worker.avatar])
  /\ UNCHANGED <<poolVars, delivered>>

\* OnDialogGrowIDApply: a Player with a GrowID is left alone; for another one
\* RegisterPlayer succeeds, refuses (the dialog is to be shown again), or
\* throws because the data base cannot be reached.
HandleApplyAgain ==
  /\ Serving({"applyOk", "applyBad"})
  /\ worker.avatar \in registered
  /\ Finish
  /\ status' \in RaceOutcome
  /\ UNCHANGED <<hostVars, poolVars, serviceVars, listed, delivered>>

HandleApplyRefused ==
  /\ Serving({"applyBad"})
  /\ worker.avatar \notin registered
  /\ Take(pPeer[worker.avatar])
  /\ UNCHANGED <<poolVars, delivered>>

HandleApplyThrows ==
  /\ Serving({"applyOk", "applyBad"})
  /\ worker.avatar \notin registered
  /\ Lost("terminated")

\* The account is written; the Player itself is taken for its peer.
HandleApplyAccepted ==
  /\ Serving({"applyOk"})
  /\ worker.avatar \notin registered
  /\ SetTankIDName(worker.avatar)
  /\ Take(CastPeer(worker.avatar))
  /\ UNCHANGED delivered

\* The welcome is sent through the cast pointer.
ReportSuccess ==
  /\ Holding({"applyOk"})
  /\ heap[worker.avatar] = "live"
  /\ SendLog
  /\ Finish
  /\ status' \in RaceOutcome
  /\ UNCHANGED <<hostVars, poolVars, serviceVars, listed>>

\* Mutant: the dialog is sent to every player.
SendRegistrationAll ==
  delivered' = [c \in Conns |->
                  IF peerState[c] = "connected"
                  THEN Append(delivered[c], [kind |-> "registration",
                                             by |-> worker.avatar])
                  ELSE delivered[c]]

\* enet_peer_send of the registration dialog, to the peer in hand.
SendRegistration ==
  delivered' = Transmit(target, [kind |-> "registration",
                                 by |-> worker.avatar])

\* The dialog is sent, and the handler returns.
SendDialog ==
  /\ Holding({"nameOk", "applyBad"})
  /\ SendRegistration
  /\ Finish
  /\ status' \in RaceOutcome
  /\ UNCHANGED <<hostVars, poolVars, serviceVars, listed>>

-----------------------------------------------------------------------------
(* The console thread.                                                     *)

\* "shutdown": StopInstance erases the instance from the map, which the
\* service thread may be copying.
Shutdown ==
  /\ listed
  /\ listed' = FALSE
  /\ DropUnlessHeld(FALSE, svc, queue)
  /\ status' \in IF svc = "head" THEN RaceOutcome ELSE {"up"}
  /\ UNCHANGED <<hostVars, poolVars, eventVars, serviceVars, target, delivered>>

\* "svinfo" counts the players of an instance whose map the service thread
\* may be changing; a count that succeeds leaves everything as it was.
ServerInfo ==
  /\ listed
  /\ svc \in {"poll", "connect"}
  /\ status' = "undefined"
  /\ UNCHANGED <<hostVars, poolVars, eventVars, serviceVars, target, listed,
                 host, delivered>>

-----------------------------------------------------------------------------
ServiceThread ==
  /\ status = "up"
  /\ \/ RoundBegin
     \/ \E c \in Conns : \/ PollConnect(c)
                         \/ PollDrop(c)
                         \/ PollReceive(c)
                         \/ PollDisconnect(c)
     \/ KnownId \/ MakePlayer \/ Greet
     \/ PollDone
     \/ ServiceDone

WorkerThread ==
  /\ status = "up"
  /\ \/ WorkerTakes
     \/ HandleNothing
     \/ HandleDangling
     \/ HandleUnknownAction
     \/ HandleUnhandled
     \/ HandleBadLine
     \/ HandleNameThrows
     \/ HandleNameIncomplete \/ HandleNameInvalid \/ Disconnect
     \/ HandleNameAccepted \/ HandleApplyRefused \/ SendDialog
     \/ HandleApplyAgain
     \/ HandleApplyThrows
     \/ HandleApplyAccepted \/ ReportSuccess

Network ==
  /\ status = "up"
  /\ \/ Traffic
     \/ \E c \in Conns : Complete(c)

Console ==
  /\ status = "up"
  /\ Shutdown \/ ServerInfo

Next == ServiceThread \/ WorkerThread \/ Network \/ Console

Spec == Init /\ [][Next]_vars

\* The service and the worker thread keep running; a disconnect that the
\* server asked for is acknowledged or times out in some call of
\* enet_host_service.  Clients and console owe nothing.
Fairness ==
  /\ WF_vars(ServiceThread)
  /\ WF_vars(WorkerThread)
  /\ \A c \in Conns : SF_vars(status = "up" /\ Complete(c))

FairSpec == Spec /\ Fairness
=============================================================================
