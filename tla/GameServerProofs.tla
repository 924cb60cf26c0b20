-------------------------- MODULE GameServerProofs --------------------------
(***************************************************************************)
(* Proofs about GameServer, for every set of connections, slots, packets   *)
(* and connectIDs: the types; that the player pool follows the host when   *)
(* clients carry different connectIDs; that only players of the connectID  *)
(* 0 are ever deleted; and that every client has its session.              *)
(***************************************************************************)
EXTENDS GameServerProperties, TLAPS

\* The type invariant is inductive together with the fact that the worker
\* works on the front of the queue: without it pop_front might meet an empty
\* queue.
TypeInv == TypeOK /\ WorksOnFront

\* The initial state has the types and an idle worker.
LEMMA TypeInvInit == Init => TypeInv
  BY HostAssumption, PoolAssumption, EventAssumption
  DEF Init, TypeInv, TypeOK, HostInit, PoolInit, EventInit, HostTypeOK,
      PoolTypeOK, EventTypeOK, WorksOnFront, PeerStates, NoPlayer

\* What the host does by itself keeps its types.
LEMMA HostStepType ==
  ASSUME HostTypeOK, NEW c \in Conns,
         \/ \E s \in Slots : Arrive(c, s)
         \/ \E k \in Packets : Receive(c, k)
         \/ Leave(c) \/ LeavePending(c) \/ Depart(c)
         \/ DispatchConnect(c) \/ DispatchReceive(c) \/ DispatchDisconnect(c)
  PROVE  HostTypeOK'
<1> USE DEF HostTypeOK, PeerStates
<1>1. CASE \E s \in Slots : Arrive(c, s)
  BY <1>1 DEF Arrive
<1>2. CASE \E k \in Packets : Receive(c, k)
  BY <1>2 DEF Receive
<1>3. CASE Leave(c) \/ Depart(c)
  <2>1. inbox' = [inbox EXCEPT ![c] = << >>]
    BY <1>3 DEF Leave, Depart
  <2>2. << >> \in Seq(Packets)
    OBVIOUS
  <2>3. inbox' \in [Conns -> Seq(Packets)]
    BY <2>1, <2>2
  <2> QED
    BY <1>3, <2>3 DEF Leave, Depart
<1>4. CASE LeavePending(c) \/ DispatchDisconnect(c)
  BY <1>4 DEF LeavePending, DispatchDisconnect, Release
<1>5. CASE DispatchConnect(c)
  BY <1>5 DEF DispatchConnect
<1>6. CASE DispatchReceive(c)
  BY <1>6 DEF DispatchReceive
<1> QED
  BY <1>1, <1>2, <1>3, <1>4, <1>5, <1>6

\* Neither does a disconnect that the server asks for.
LEMMA DisconnectLaterType ==
  ASSUME HostTypeOK, NEW s, DisconnectLater(s)
  PROVE  HostTypeOK'
<1>1. CASE UNCHANGED <<peerState, owner>>
  BY <1>1 DEF HostTypeOK, DisconnectLater
<1>2. CASE Occupied(s, "connected") \/ Occupied(s, "pending")
  BY <1>2 DEF HostTypeOK, DisconnectLater, Accepts, Occupied, Release, PeerStates
<1> QED
  BY <1>1, <1>2 DEF DisconnectLater, Accepts

\* A message sent to any slot leaves every history a sequence of messages.
LEMMA TransmitType ==
  ASSUME HostTypeOK, delivered \in [Conns -> Seq(Messages)],
         NEW s, NEW m \in Messages
  PROVE  Transmit(s, m) \in [Conns -> Seq(Messages)]
  BY DEF HostTypeOK, Transmit, Accepts, Occupied

\* The host, and the peer in the worker's hand.
ThreadTypes ==
  /\ host \in {"alive", "destroyed"}
  /\ target \in Slots \cup {NoSlot, NoTarget}

\* A handler that returns pops an event it had taken, so the histories and
\* the queue keep their types and the worker is idle.
LEMMA FinishType ==
  ASSUME TypeInv, worker # NoEvent, Finish
  PROVE  EventTypeOK' /\ WorksOnFront' /\ ThreadTypes'
<1>1. queue # << >> /\ Head(queue) \in Events
  BY DEF TypeInv, TypeOK, EventTypeOK, WorksOnFront
<1>2. ThreadTypes'
  BY DEF TypeInv, TypeOK, Finish, DropUnlessHeld, ThreadTypes
<1> QED
  BY <1>1, <1>2 DEF TypeInv, TypeOK, EventTypeOK, WorksOnFront, Finish,
                    PopFront

\* Creating and deleting players keeps the types of the pool.
LEMMA PoolStepType ==
  ASSUME PoolTypeOK, NEW c \in Conns,
         \/ \E s \in Slots : NewPlayer(c, s)
         \/ \E id \in Ids : GetPlayer(id) # NoPlayer /\ RemovePlayer(id)
         \/ SetTankIDName(c)
  PROVE  PoolTypeOK'
  BY PoolAssumption
  DEF PoolTypeOK, NewPlayer, RemovePlayer, SetTankIDName, GetPlayer, NoPlayer

\* Every step of the service thread keeps the types.
LEMMA ServiceType == TypeInv /\ ServiceThread => TypeInv'
<1> SUFFICES ASSUME TypeInv, ServiceThread PROVE TypeInv'
  OBVIOUS
<1> USE DEF serverVars, serviceVars
<1>1. CASE RoundBegin \/ PollDone \/ KnownId
  BY <1>1
  DEF TypeInv, TypeOK, RoundBegin, PollDone, KnownId, WorksOnFront, HostTypeOK,
      PoolTypeOK, EventTypeOK, hostVars, poolVars, eventVars
<1>2. CASE ServiceDone
  BY <1>2
  DEF TypeInv, TypeOK, ServiceDone, DropUnlessHeld, WorksOnFront, HostTypeOK,
      PoolTypeOK, EventTypeOK, hostVars, poolVars, eventVars
<1>3. ASSUME NEW c \in Conns, PollConnect(c) PROVE TypeInv'
  <2>1. HostTypeOK'
    BY <1>3, HostStepType DEF PollConnect, TypeInv, TypeOK
  <2>2. c # NoConn
    BY HostAssumption
  <2> QED
    BY <1>3, <2>1, <2>2
    DEF PollConnect, TypeInv, TypeOK, PoolTypeOK, EventTypeOK, WorksOnFront,
        poolVars, eventVars
<1>7. CASE MakePlayer
  <2>1. arrival \in Conns
    BY <1>7 DEF MakePlayer, TypeInv, TypeOK
  <2>2. PoolTypeOK'
    BY <1>7, <2>1, PoolStepType DEF MakePlayer, TypeInv, TypeOK
  <2> QED
    BY <1>7, <2>2
    DEF MakePlayer, TypeInv, TypeOK, HostTypeOK, EventTypeOK, WorksOnFront,
        hostVars, eventVars
<1>8. CASE Greet
  <2>1. arrival \in Conns
    BY <1>8 DEF Greet, TypeInv, TypeOK
  <2> DEFINE m == [kind |-> "hello", by |-> arrival]
  <2>2. m \in Messages
    BY <2>1 DEF Messages
  <2>3. delivered' = Transmit(pPeer[arrival], m)
    BY <1>8 DEF Greet
  <2> HIDE DEF m
  <2>4. delivered' \in [Conns -> Seq(Messages)]
    BY <2>2, <2>3, TransmitType DEF TypeInv, TypeOK
  <2> QED
    BY <1>8, <2>4
    DEF Greet, TypeInv, TypeOK, HostTypeOK, PoolTypeOK, EventTypeOK,
        WorksOnFront, hostVars, poolVars, eventVars
<1>4. ASSUME NEW c \in Conns, PollDrop(c) PROVE TypeInv'
  <2>1. HostTypeOK'
    BY <1>4, HostStepType DEF PollDrop, TypeInv, TypeOK
  <2> QED
    BY <1>4, <2>1
    DEF PollDrop, TypeInv, TypeOK, PoolTypeOK, EventTypeOK, WorksOnFront,
        poolVars, eventVars
<1>5. ASSUME NEW c \in Conns, PollReceive(c) PROVE TypeInv'
  <2>1. HostTypeOK'
    BY <1>5, HostStepType DEF PollReceive, TypeInv, TypeOK
  <2> DEFINE e == [from |-> c, avatar |-> GetPlayer(ConnId[c]),
                   text |-> Head(inbox[c])]
  <2>2. e \in Events
    <3>1. GetPlayer(ConnId[c]) \in Conns
      BY <1>5, PoolAssumption
      DEF PollReceive, GetPlayer, TypeInv, TypeOK, PoolTypeOK, NoPlayer
    <3>2. Head(inbox[c]) \in Packets
      BY <1>5 DEF PollReceive, DispatchReceive, TypeInv, TypeOK, HostTypeOK
    <3> QED
      BY <3>1, <3>2 DEF Events
  <2>3. queue' = Append(queue, e) /\ UNCHANGED <<worker, handled>>
    BY <1>5 DEF PollReceive, AddQueue
  <2> HIDE DEF e
  <2>4. EventTypeOK' /\ WorksOnFront'
    BY <2>2, <2>3 DEF TypeInv, TypeOK, EventTypeOK, WorksOnFront
  <2> QED
    BY <1>5, <2>1, <2>4
    DEF PollReceive, TypeInv, TypeOK, PoolTypeOK, poolVars, RaceOutcome
<1>6. ASSUME NEW c \in Conns, PollDisconnect(c) PROVE TypeInv'
  <2>1. HostTypeOK'
    BY <1>6, HostStepType DEF PollDisconnect, TypeInv, TypeOK
  <2>2. PoolTypeOK'
    <3>1. CASE UNCHANGED poolVars
      BY <3>1 DEF TypeInv, TypeOK, PoolTypeOK, poolVars
    <3>2. CASE \E id \in Ids : GetPlayer(id) # NoPlayer /\ RemovePlayer(id)
      BY <3>2, PoolStepType DEF TypeInv, TypeOK
    <3>3. \/ UNCHANGED poolVars
          \/ \E id \in Ids : GetPlayer(id) # NoPlayer /\ RemovePlayer(id)
      BY <1>6, PoolAssumption DEF PollDisconnect, DisconnectId
    <3> QED
      BY <3>1, <3>2, <3>3
  <2> QED
    BY <1>6, <2>1, <2>2
    DEF PollDisconnect, TypeInv, TypeOK, EventTypeOK, WorksOnFront, eventVars
<1> QED
  BY <1>1, <1>2, <1>3, <1>4, <1>5, <1>6, <1>7, <1>8 DEF ServiceThread

\* So does every step of the worker thread.
LEMMA WorkerType == TypeInv /\ WorkerThread => TypeInv'
<1> SUFFICES ASSUME TypeInv, WorkerThread PROVE TypeInv'
  OBVIOUS
<1>1. CASE WorkerTakes
  <2>1. worker' \in Events
    BY <1>1 DEF WorkerTakes, TakeFront, TypeInv, TypeOK, EventTypeOK
  <2> QED
    BY <1>1, <2>1
    DEF WorkerTakes, TakeFront, TypeInv, TypeOK, HostTypeOK, PoolTypeOK,
        EventTypeOK, WorksOnFront, hostVars, poolVars, serverVars, serviceVars
<1>2. ASSUME NEW how \in {"undefined", "terminated"}, Lost(how) PROVE TypeInv'
  BY <1>2
  DEF Lost, TypeInv, TypeOK, HostTypeOK, PoolTypeOK, EventTypeOK, WorksOnFront,
      hostVars, poolVars, eventVars, serviceVars
<1>3. ASSUME NEW m \in Messages, NEW s,
             delivered' \in {delivered, Transmit(s, m)}
      PROVE  delivered' \in [Conns -> Seq(Messages)]
  BY <1>3, TransmitType DEF TypeInv, TypeOK
<1>4. worker # NoEvent =>
        /\ [kind |-> "log", by |-> worker.avatar] \in Messages
        /\ [kind |-> "registration", by |-> worker.avatar] \in Messages
        /\ worker.avatar \in Conns
  BY DEF TypeInv, TypeOK, EventTypeOK, Events, Messages
<1>5. /\ worker # NoEvent
      /\ SendLog \/ SendRegistration \/ UNCHANGED delivered
      => delivered' \in [Conns -> Seq(Messages)]
  BY <1>3, <1>4 DEF SendLog, SendRegistration, TypeInv, TypeOK
<1>6. CASE HandleUnhandled
  BY <1>5, <1>6
  DEF HandleUnhandled, Serving, KeepFront, RaceOutcome, TypeInv, TypeOK,
      HostTypeOK, PoolTypeOK, EventTypeOK, WorksOnFront, hostVars, poolVars,
      serviceVars
<1>7. CASE /\ worker # NoEvent
           /\ Finish
           /\ status' \in RaceOutcome
           /\ SendLog \/ SendRegistration \/ UNCHANGED delivered
           /\ UNCHANGED hostVars \/ DisconnectLater(target)
           /\ UNCHANGED poolVars
           /\ UNCHANGED <<serviceVars, listed>>
  <2>1. EventTypeOK' /\ WorksOnFront' /\ ThreadTypes'
    BY <1>7, FinishType
  <2>2. HostTypeOK'
    BY <1>7, DisconnectLaterType DEF TypeInv, TypeOK, HostTypeOK, hostVars
  <2>3. PoolTypeOK'
    BY <1>7 DEF TypeInv, TypeOK, PoolTypeOK, poolVars
  <2> QED
    BY <1>5, <1>7, <2>1, <2>2, <2>3
    DEF TypeInv, TypeOK, RaceOutcome, ThreadTypes, serviceVars
<1>8. HandleNothing \/ HandleUnknownAction \/ Disconnect \/ SendDialog
      \/ HandleApplyAgain \/ ReportSuccess => TypeInv'
  BY <1>7
  DEF HandleNothing, HandleUnknownAction, Disconnect, SendDialog,
      HandleApplyAgain, ReportSuccess, Serving, Holding
<1>9. CASE /\ worker # NoEvent
           /\ Take(pPeer[worker.avatar]) \/ Take(CastPeer(worker.avatar))
           /\ SendLog \/ UNCHANGED delivered
           /\ UNCHANGED poolVars \/ SetTankIDName(worker.avatar)
  <2>1. PoolTypeOK'
    BY <1>4, <1>9, PoolStepType DEF TypeInv, TypeOK, PoolTypeOK, poolVars
  <2>2. target' \in Slots \cup {NoSlot, NoTarget}
    BY <1>4, <1>9 DEF Take, CastPeer, TypeInv, TypeOK, PoolTypeOK
  <2> QED
    BY <1>5, <1>9, <2>1, <2>2
    DEF Take, TypeInv, TypeOK, HostTypeOK, EventTypeOK, WorksOnFront, hostVars,
        eventVars, serviceVars
<1>10. HandleNameIncomplete \/ HandleNameInvalid \/ HandleNameAccepted
       \/ HandleApplyRefused \/ HandleApplyAccepted => TypeInv'
  BY <1>9
  DEF HandleNameIncomplete, HandleNameInvalid, HandleNameAccepted,
      HandleApplyRefused, HandleApplyAccepted, Serving
<1>11. HandleDangling \/ HandleBadLine \/ HandleNameThrows \/ HandleApplyThrows
         => TypeInv'
  BY <1>2 DEF HandleDangling, HandleBadLine, HandleNameThrows, HandleApplyThrows
<1> QED
  BY <1>1, <1>6, <1>8, <1>10, <1>11 DEF WorkerThread

\* And so does every step of the clients and of the console.
LEMMA OutsideType == TypeInv /\ (Network \/ Console) => TypeInv'
<1> SUFFICES ASSUME TypeInv, Network \/ Console PROVE TypeInv'
  OBVIOUS
<1>1. CASE Network
  <2>1. HostTypeOK'
    BY <1>1, HostStepType DEF Network, Traffic, Complete, TypeInv, TypeOK
  <2> QED
    BY <1>1, <2>1
    DEF Network, Traffic, Complete, TypeInv, TypeOK, PoolTypeOK, EventTypeOK,
        WorksOnFront, poolVars, eventVars, serverVars, serviceVars
<1>2. CASE Console
  BY <1>2
  DEF Console, Shutdown, ServerInfo, DropUnlessHeld, RaceOutcome, TypeInv,
      TypeOK, HostTypeOK, PoolTypeOK, EventTypeOK, WorksOnFront, hostVars,
      poolVars, eventVars, serviceVars
<1> QED
  BY <1>1, <1>2

\* Every step keeps the types, a stuttering one included.
LEMMA TypeInvStep == TypeInv /\ [Next]_vars => TypeInv'
<1>1. TypeInv /\ UNCHANGED vars => TypeInv'
  BY DEF vars, hostVars, poolVars, eventVars, serverVars, serviceVars, TypeInv,
         TypeOK, HostTypeOK, PoolTypeOK, EventTypeOK, WorksOnFront
<1> QED
  BY <1>1, ServiceType, WorkerType, OutsideType DEF Next

\* Every reachable state has the types, and the worker only ever works on the
\* event pop_front is going to remove (EventPool::ServicePoll).
THEOREM TypeCorrect == Spec => []TypeInv
  BY TypeInvInit, TypeInvStep, PTL DEF Spec

\* The type invariant the runs check.
THEOREM TypesHold == Spec => []TypeOK
<1>1. TypeInv => TypeOK
  BY DEF TypeInv
<1> QED
  BY <1>1, TypeCorrect, PTL

-----------------------------------------------------------------------------
(* The peer slots.                                                         *)

\* Every occupied slot has a present connection, every present connection has
\* one slot: what ENet promises of a peer, and what makes m_pPeer meaningful.
SlotInv ==
  /\ \A s \in Slots : owner[s] # NoConn => peerState[owner[s]] \in Present
  /\ \A s, t \in Slots : owner[s] # NoConn /\ owner[s] = owner[t] => s = t
  /\ \A c \in Conns :
       peerState[c] \in Present => \E s \in Slots : owner[s] = c

\* A reset peer gives its slot back.
LEMMA SlotInvReset ==
  ASSUME HostTypeOK, SlotInv, NEW c \in Conns,
         peerState' = [peerState EXCEPT ![c] = "closed"],
         owner' = Release(c)
  PROVE  SlotInv'
  BY HostAssumption DEF HostTypeOK, SlotInv, Present, PeerStates, Release

\* What the host does by itself to the connections and the slots.
LEMMA SlotInvHost ==
  ASSUME HostTypeOK, SlotInv, NEW c \in Conns,
         \/ \E s \in Slots : Arrive(c, s)
         \/ \E k \in Packets : Receive(c, k)
         \/ Leave(c) \/ LeavePending(c) \/ Depart(c)
         \/ DispatchConnect(c) \/ DispatchReceive(c) \/ DispatchDisconnect(c)
  PROVE  SlotInv'
<1> USE HostAssumption DEF HostTypeOK, SlotInv, Present, PeerStates
<1>1. CASE \E s \in Slots : Arrive(c, s)
  <2> PICK s \in Slots : Arrive(c, s)
    BY <1>1
  <2>1. \A t \in Slots : owner[t] # c
    BY DEF Arrive
  <2>2. /\ peerState' = [peerState EXCEPT ![c] = "pending"]
        /\ owner' = [owner EXCEPT ![s] = c]
        /\ owner[s] = NoConn
    BY DEF Arrive
  <2>3. \A t \in Slots : owner'[t] # NoConn => peerState'[owner'[t]] \in Present
    BY <2>1, <2>2
  <2>4. \A t, u \in Slots :
          owner'[t] # NoConn /\ owner'[t] = owner'[u] => t = u
    BY <2>1, <2>2
  <2>5. \A d \in Conns :
          peerState'[d] \in Present => \E t \in Slots : owner'[t] = d
    BY <2>1, <2>2
  <2> QED
    BY <2>3, <2>4, <2>5
<1>2. CASE \/ \E k \in Packets : Receive(c, k)
           \/ DispatchReceive(c)
  BY <1>2 DEF Receive, DispatchReceive
<1>3. CASE Leave(c) \/ Depart(c) \/ DispatchConnect(c)
  <2>1. \A d \in Conns : peerState'[d] \in Present <=> peerState[d] \in Present
    BY <1>3 DEF Leave, Depart, DispatchConnect
  <2>2. UNCHANGED owner
    BY <1>3 DEF Leave, Depart, DispatchConnect
  <2> QED
    BY <2>1, <2>2
<1>4. CASE LeavePending(c) \/ DispatchDisconnect(c)
  BY <1>4, SlotInvReset DEF LeavePending, DispatchDisconnect
<1> QED
  BY <1>1, <1>2, <1>3, <1>4

\* What enet_peer_disconnect_later does to the slots: nothing, or it tells a
\* connected peer to go, or it resets one whose CONNECT was not dispatched.
LEMMA LaterSteps ==
  ASSUME HostTypeOK, NEW s, DisconnectLater(s)
  PROVE  \/ UNCHANGED <<peerState, owner>>
         \/ /\ Occupied(s, "connected")
            /\ owner[s] \in Conns
            /\ peerState' = [peerState EXCEPT ![owner[s]] = "leaving"]
            /\ UNCHANGED owner
         \/ /\ Occupied(s, "pending")
            /\ owner[s] \in Conns
            /\ peerState' = [peerState EXCEPT ![owner[s]] = "closed"]
            /\ owner' = Release(owner[s])
  BY DEF DisconnectLater, Accepts, Occupied, HostTypeOK

\* A disconnect that the server asks for takes nobody else's slot.
LEMMA SlotInvLater ==
  ASSUME HostTypeOK, SlotInv, NEW s, DisconnectLater(s)
  PROVE  SlotInv'
<1>1. CASE UNCHANGED <<peerState, owner>>
  BY <1>1 DEF SlotInv
<1>2. CASE /\ owner[s] \in Conns
           /\ Occupied(s, "connected")
           /\ peerState' = [peerState EXCEPT ![owner[s]] = "leaving"]
           /\ UNCHANGED owner
  <2>1. \A d \in Conns : peerState'[d] \in Present <=> peerState[d] \in Present
    BY <1>2 DEF HostTypeOK, Present, Occupied
  <2> QED
    BY <1>2, <2>1 DEF SlotInv, HostTypeOK
<1>3. CASE /\ owner[s] \in Conns
           /\ peerState' = [peerState EXCEPT ![owner[s]] = "closed"]
           /\ owner' = Release(owner[s])
  BY <1>3, SlotInvReset
<1> QED
  BY <1>1, <1>2, <1>3, LaterSteps

-----------------------------------------------------------------------------
\* What the host does by itself between two CONNECT or DISCONNECT events.
HostMoves(c) ==
  \/ \E s \in Slots : Arrive(c, s)
  \/ \E k \in Packets : Receive(c, k)
  \/ Leave(c) \/ LeavePending(c) \/ Depart(c) \/ DispatchReceive(c)

\* No player is made, deleted or greeted, and nobody is told anything.
Quiet ==
  /\ UNCHANGED <<poolVars, delivered>>
  /\ \/ UNCHANGED serviceVars
     \/ svc \notin {"connect", "greet"} /\ svc' \notin {"connect", "greet"}

\* The steps of the server by what they do to peers, players and messages.
LEMMA ServerSteps ==
  ASSUME [Next]_vars
  PROVE  \/ Quiet /\ UNCHANGED hostVars
         \/ /\ Quiet /\ svc \notin {"connect", "greet"}
            /\ \E c \in Conns : HostMoves(c)
         \/ Quiet /\ \E s : DisconnectLater(s)
         \/ \E c \in Conns : PollConnect(c) \/ PollDisconnect(c)
         \/ KnownId \/ MakePlayer \/ Greet
         \/ HandleApplyAccepted \/ SendDialog
<1>1. SendLog => UNCHANGED delivered
  BY PoolAssumption DEF SendLog, Transmit, Accepts, Occupied, CastPeer
<1>2. CASE UNCHANGED vars
  BY <1>2 DEF vars, serverVars, Quiet
<1>3. CASE ServiceThread
  BY <1>3
  DEF ServiceThread, RoundBegin, PollDrop, PollReceive, PollDone, ServiceDone,
      serverVars, serviceVars, Quiet, HostMoves
<1>4. CASE WorkerThread
  <2>1. CASE WorkerTakes \/ HandleNothing \/ HandleUnknownAction
             \/ HandleUnhandled \/ HandleApplyAgain \/ ReportSuccess
    BY <1>1, <2>1
    DEF WorkerTakes, HandleNothing, HandleUnknownAction, HandleUnhandled,
        HandleApplyAgain, ReportSuccess, serverVars, Quiet
  <2>2. CASE HandleDangling \/ HandleBadLine \/ HandleNameThrows
             \/ HandleApplyThrows
    BY <2>2
    DEF HandleDangling, HandleBadLine, HandleNameThrows, HandleApplyThrows,
        Lost, Quiet
  <2>3. CASE HandleNameIncomplete \/ HandleNameInvalid \/ HandleNameAccepted
             \/ HandleApplyRefused
    BY <1>1, <2>3
    DEF HandleNameIncomplete, HandleNameInvalid, HandleNameAccepted,
        HandleApplyRefused, Take, Quiet
  <2>4. CASE Disconnect
    BY <2>4 DEF Disconnect, Quiet
  <2> QED
    BY <1>4, <2>1, <2>2, <2>3, <2>4 DEF WorkerThread
<1>5. CASE Network \/ Console
  BY <1>5
  DEF Network, Traffic, Complete, Console, Shutdown, ServerInfo, serverVars,
      Quiet, HostMoves
<1> QED
  BY <1>2, <1>3, <1>4, <1>5 DEF Next

\* The slots stay sound through every step.
LEMMA SlotInvInit == Init => SlotInv
  BY HostAssumption DEF Init, HostInit, SlotInv, Present

\* The slots stay sound through every step.
LEMMA SlotInvStep ==
  ASSUME TypeInv, SlotInv, [Next]_vars
  PROVE  SlotInv'
<1>1. HostTypeOK
  BY DEF TypeInv, TypeOK
<1>2. CASE UNCHANGED hostVars
  BY <1>2 DEF hostVars, SlotInv
<1>3. CASE \E s : DisconnectLater(s)
  BY <1>1, <1>3, SlotInvLater
<1>4. CASE \E c \in Conns : HostMoves(c)
  BY <1>1, <1>4, SlotInvHost DEF HostMoves
<1>5. CASE \E c \in Conns : PollConnect(c) \/ PollDisconnect(c)
  BY <1>1, <1>5, SlotInvHost DEF PollConnect, PollDisconnect
<1> QED
  BY <1>2, <1>3, <1>4, <1>5, ServerSteps
  DEF KnownId, MakePlayer, Greet, HandleApplyAccepted, SendDialog, Take

-----------------------------------------------------------------------------
(* The player pool.                                                        *)

\* Only the handling of CONNECT and DISCONNECT changes the map and the heap.
LEMMA PoolSteps ==
  ASSUME TypeInv, [Next]_vars
  PROVE  \/ UNCHANGED <<players, heap, pPeer>>
         \/ /\ MakePlayer
            /\ arrival \in Conns
            /\ GetPlayer(ConnId[arrival]) = NoPlayer
            /\ \E s \in Slots : owner[s] = arrival /\ NewPlayer(arrival, s)
         \/ \E c \in Conns :
              /\ PollDisconnect(c)
              /\ GetPlayer(ZeroId) # NoPlayer
              /\ RemovePlayer(ZeroId)
<1>1. CASE MakePlayer
  BY <1>1 DEF MakePlayer, TypeInv, TypeOK
<1>2. CASE \E c \in Conns : PollDisconnect(c)
  BY <1>2 DEF PollDisconnect, DisconnectId, poolVars
<1> QED
  BY <1>1, <1>2, ServerSteps
  DEF Quiet, PollConnect, KnownId, Greet, HandleApplyAccepted, SendDialog,
      SetTankIDName, poolVars

\* The map and the heap agree at the start and after every step.
LEMMA OwnsInit == Init => PoolOwnsPlayers
  BY DEF Init, PoolInit, PoolOwnsPlayers

\* Creating and deleting a player change map and heap together.
LEMMA OwnsStep ==
  ASSUME TypeInv, PoolOwnsPlayers, [Next]_vars
  PROVE  PoolOwnsPlayers'
<1> USE PoolAssumption, HostAssumption
    DEF TypeInv, TypeOK, PoolTypeOK, PoolOwnsPlayers, NoPlayer
<1>1. CASE UNCHANGED <<players, heap, pPeer>>
  BY <1>1
<1>2. ASSUME NEW c \in Conns, GetPlayer(ConnId[c]) = NoPlayer,
             NEW s \in Slots, NewPlayer(c, s)
      PROVE  PoolOwnsPlayers'
  <2>1. ConnId[c] \in Ids /\ players[ConnId[c]] = NoConn
    BY <1>2 DEF GetPlayer
  <2>2. /\ players' = [players EXCEPT ![ConnId[c]] = c]
        /\ heap' = [heap EXCEPT ![c] = "live"]
    BY <1>2 DEF NewPlayer
  <2> QED
    BY <2>1, <2>2
<1>3. ASSUME NEW id \in Ids, GetPlayer(id) # NoPlayer, RemovePlayer(id)
      PROVE  PoolOwnsPlayers'
  <2>1. players[id] \in Conns
    BY <1>3 DEF GetPlayer
  <2>2. /\ players' = [players EXCEPT ![id] = NoConn]
        /\ heap' = [heap EXCEPT ![players[id]] = "deleted"]
    BY <1>3 DEF RemovePlayer
  <2> QED
    BY <2>1, <2>2
<1> QED
  BY <1>1, <1>2, <1>3, PoolSteps

\* Whatever connectIDs the clients choose, the map holds live players only and
\* every live player is in the map.
THEOREM PoolIsConsistent == Spec => []PoolOwnsPlayers
  BY OwnsInit, OwnsStep, TypeCorrect, PTL DEF Spec

\* A player that was deleted stood under the connectID 0.
DeletedAreZero == \A c \in Conns : heap[c] = "deleted" => ConnId[c] = ZeroId

\* The one lookup that leads to a deletion is that of the 0 of a reset peer.
LEMMA ZeroStep ==
  ASSUME TypeInv, PoolOwnsPlayers, DeletedAreZero, [Next]_vars
  PROVE  DeletedAreZero'
<1> USE DEF TypeInv, TypeOK, PoolTypeOK, DeletedAreZero
<1>1. CASE GetPlayer(ZeroId) # NoPlayer /\ RemovePlayer(ZeroId)
  <2>1. players[ZeroId] \in Conns /\ ConnId[players[ZeroId]] = ZeroId
    BY <1>1, PoolAssumption DEF GetPlayer, NoPlayer, PoolOwnsPlayers
  <2> QED
    BY <1>1, <2>1 DEF RemovePlayer
<1>2. CASE \E s \in Slots : NewPlayer(arrival, s)
  BY <1>2 DEF NewPlayer
<1> QED
  BY <1>1, <1>2, PoolSteps

\* So it is of every player that was ever deleted.
LEMMA ZeroHolds == Spec => []DeletedAreZero
<1>1. Init => DeletedAreZero
  BY DEF Init, PoolInit, DeletedAreZero
<1> QED
  BY <1>1, ZeroStep, TypeCorrect, PoolIsConsistent, PTL DEF Spec

\* A handler meets a deleted player only where its client chose the connectID
\* 0, for any clients and connectIDs: the one lookup that leads to a deletion
\* is that of a reset peer's (ServerPool.cpp:93-97, EventPool.cpp:64).
THEOREM OnlyZeroDangles == Spec => []OnlyZeroIdDangles
<1>1. TypeInv /\ DeletedAreZero => OnlyZeroIdDangles
  BY DEF TypeInv, TypeOK, EventTypeOK, Events, DeletedAreZero,
         OnlyZeroIdDangles
<1> QED
  BY <1>1, ZeroHolds, TypeCorrect, PTL

-----------------------------------------------------------------------------
(* Players and peers.                                                      *)

\* A player is made for a connection whose CONNECT was returned, once; and its
\* peer is that connection's as long as the connection lasts.
PlaceInv ==
  /\ \A c \in Conns : heap[c] # "none" =>
       /\ peerState[c] \notin {"idle", "pending"}
       /\ peerState[c] \in Present => pPeer[c] \in Slots /\ owner[pPeer[c]] = c
  /\ svc = "connect" => /\ heap[arrival] = "none"
                        /\ peerState[arrival] \in {"connected", "leaving"}
  /\ svc = "greet" => /\ heap[arrival] = "live"
                      /\ peerState[arrival] \in {"connected", "leaving"}

\* At first there is no player.
LEMMA PlaceInit == Init => PlaceInv
  BY DEF Init, PoolInit, PlaceInv

\* The moves of the host take no slot from a connection that has a player.
LEMMA PlaceMoves ==
  ASSUME TypeInv, PlaceInv, Quiet, svc \notin {"connect", "greet"},
         NEW c \in Conns, HostMoves(c)
  PROVE  PlaceInv'
<1> USE HostAssumption
    DEF TypeInv, TypeOK, HostTypeOK, PoolTypeOK, PlaceInv, PeerStates, Present,
        Quiet, poolVars
<1>1. svc' \notin {"connect", "greet"} /\ UNCHANGED <<heap, pPeer>>
  BY DEF serviceVars
<1>2. CASE \E s \in Slots : Arrive(c, s)
  <2> PICK s \in Slots : Arrive(c, s)
    BY <1>2
  <2>1. /\ peerState[c] = "idle" /\ owner[s] = NoConn
        /\ peerState' = [peerState EXCEPT ![c] = "pending"]
        /\ owner' = [owner EXCEPT ![s] = c]
    BY DEF Arrive
  <2>2. heap[c] = "none"
    BY <2>1
  <2> QED
    BY <1>1, <2>1, <2>2
<1>3. CASE \/ \E k \in Packets : Receive(c, k)
           \/ DispatchReceive(c)
  BY <1>1, <1>3 DEF Receive, DispatchReceive
<1>4. CASE Leave(c) \/ Depart(c)
  BY <1>1, <1>4 DEF Leave, Depart
<1>5. CASE LeavePending(c)
  BY <1>1, <1>5 DEF LeavePending, Release
<1> QED
  BY <1>2, <1>3, <1>4, <1>5 DEF HostMoves

\* Nor does a disconnect that a handler asks for.
LEMMA PlaceLater ==
  ASSUME TypeInv, PlaceInv, Quiet, NEW s, DisconnectLater(s)
  PROVE  PlaceInv'
<1>1. UNCHANGED <<heap, pPeer>>
  BY DEF Quiet, poolVars
<1>2. svc' \in {"connect", "greet"} => UNCHANGED <<svc, arrival>>
  BY DEF Quiet, serviceVars
<1> USE DEF TypeInv, TypeOK, HostTypeOK, PoolTypeOK, PlaceInv, PeerStates,
            Present
<1>3. CASE UNCHANGED <<peerState, owner>>
  BY <1>1, <1>2, <1>3
<1>4. CASE /\ Occupied(s, "connected")
           /\ owner[s] \in Conns
           /\ peerState' = [peerState EXCEPT ![owner[s]] = "leaving"]
           /\ UNCHANGED owner
  <2>1. peerState[owner[s]] = "connected"
    BY <1>4 DEF Occupied
  <2> QED
    BY <1>1, <1>2, <1>4, <2>1
<1>5. CASE /\ Occupied(s, "pending")
           /\ owner[s] \in Conns
           /\ peerState' = [peerState EXCEPT ![owner[s]] = "closed"]
           /\ owner' = Release(owner[s])
  <2>1. peerState[owner[s]] = "pending"
    BY <1>5 DEF Occupied
  <2>2. heap[owner[s]] = "none"
    BY <1>5, <2>1
  <2> QED
    BY <1>1, <1>2, <1>5, <2>1, <2>2 DEF Release
<1> QED
  BY <1>3, <1>4, <1>5, LaterSteps

\* Every step leaves the players with their peers.
LEMMA PlaceStep ==
  ASSUME TypeInv, PoolOwnsPlayers, PlaceInv, [Next]_vars
  PROVE  PlaceInv'
<1> USE HostAssumption, PoolAssumption
    DEF TypeInv, TypeOK, HostTypeOK, PoolTypeOK, PlaceInv, PeerStates, Present
<1>1. CASE Quiet /\ UNCHANGED hostVars
  BY <1>1 DEF Quiet, hostVars, poolVars, serviceVars
<1>2. CASE /\ Quiet /\ svc \notin {"connect", "greet"}
           /\ \E c \in Conns : HostMoves(c)
  BY <1>2, PlaceMoves
<1>3. CASE Quiet /\ \E s : DisconnectLater(s)
  BY <1>3, PlaceLater
<1>4. ASSUME NEW c \in Conns, PollConnect(c)
      PROVE  PlaceInv'
  <2>1. /\ peerState[c] = "pending"
        /\ peerState' = [peerState EXCEPT ![c] = "connected"]
        /\ UNCHANGED <<owner, heap, pPeer>>
        /\ svc' = "connect" /\ arrival' = c
    BY <1>4 DEF PollConnect, DispatchConnect, poolVars
  <2>2. heap[c] = "none"
    BY <2>1
  <2> QED
    BY <2>1, <2>2
<1>5. ASSUME NEW c \in Conns, PollDisconnect(c)
      PROVE  PlaceInv'
  <2>1. /\ peerState' = [peerState EXCEPT ![c] = "closed"]
        /\ owner' = [s \in Slots |-> IF owner[s] = c THEN NoConn ELSE owner[s]]
        /\ svc = "poll" /\ svc' = "poll"
    BY <1>5
    DEF PollDisconnect, DispatchDisconnect, Release, serverVars, serviceVars
  <2>2. /\ UNCHANGED pPeer
        /\ \A d \in Conns : heap'[d] # "none" => heap[d] # "none"
    <3>1. CASE UNCHANGED poolVars
      BY <3>1 DEF poolVars
    <3>2. CASE GetPlayer(ZeroId) # NoPlayer /\ RemovePlayer(ZeroId)
      <4>1. heap[players[ZeroId]] = "live" /\ players[ZeroId] \in Conns
        BY <3>2 DEF GetPlayer, NoPlayer, PoolOwnsPlayers
      <4> QED
        BY <3>2, <4>1 DEF RemovePlayer
    <3> QED
      BY <1>5, <3>1, <3>2 DEF PollDisconnect, DisconnectId
  <2> QED
    BY <2>1, <2>2
<1>6. CASE KnownId \/ Greet
  BY <1>6 DEF KnownId, Greet, hostVars, poolVars
<1>7. CASE MakePlayer
  <2>1. PICK s \in Slots : owner[s] = arrival /\ NewPlayer(arrival, s)
    BY <1>7 DEF MakePlayer
  <2>2. /\ heap' = [heap EXCEPT ![arrival] = "live"]
        /\ pPeer' = [pPeer EXCEPT ![arrival] = s]
        /\ UNCHANGED <<peerState, owner, arrival>>
        /\ svc = "connect" /\ svc' = "greet"
    BY <1>7, <2>1 DEF MakePlayer, NewPlayer, hostVars
  <2> QED
    BY <2>1, <2>2
<1>8. CASE HandleApplyAccepted \/ SendDialog
  BY <1>8
  DEF HandleApplyAccepted, SendDialog, Take, SetTankIDName, hostVars, poolVars,
      serviceVars
<1> QED
  BY <1>1, <1>2, <1>3, <1>4, <1>5, <1>6, <1>7, <1>8, ServerSteps

\* PlaceInv holds in every reachable state.
LEMMA PlaceHolds == Spec => []PlaceInv
  BY PlaceInit, PlaceStep, TypeCorrect, PoolIsConsistent, PTL DEF Spec

\* With different connectIDs no CONNECT is taken for another client's, so a
\* connection whose CONNECT was handled has had its player.
Joined == {"connected", "leaving", "zombie"}
PlayersStay ==
  \A c \in Conns : peerState[c] \in Joined /\ heap[c] = "none"
                     => svc = "connect" /\ arrival = c

\* A CONNECT is taken for a known one only where a connectID is shared.
LEMMA StayStep ==
  ASSUME UniqueIds, TypeInv, PoolOwnsPlayers, PlaceInv, PlayersStay,
         [Next]_vars
  PROVE  PlayersStay'
<1> USE HostAssumption, PoolAssumption
    DEF TypeInv, TypeOK, HostTypeOK, PoolTypeOK, PlayersStay, PeerStates,
        Joined
<1>1. CASE Quiet /\ UNCHANGED hostVars
  BY <1>1 DEF Quiet, hostVars, poolVars, serviceVars
<1>2. ASSUME Quiet, svc \notin {"connect", "greet"},
             NEW c \in Conns, HostMoves(c)
      PROVE  PlayersStay'
  <2>1. UNCHANGED heap
    BY <1>2 DEF Quiet, poolVars
  <2> QED
    BY <1>2, <2>1
    DEF HostMoves, Arrive, Receive, Leave, LeavePending, Depart,
        DispatchReceive
<1>3. ASSUME Quiet, NEW s, DisconnectLater(s)
      PROVE  PlayersStay'
  <2>1. /\ UNCHANGED heap
        /\ \/ UNCHANGED <<svc, arrival>>
           \/ svc \notin {"connect", "greet"}
    BY <1>3 DEF Quiet, poolVars, serviceVars
  <2>2. \A d \in Conns : peerState'[d] \in Joined => peerState[d] \in Joined
    BY <1>3, LaterSteps DEF Occupied
  <2> QED
    BY <2>1, <2>2
<1>4. ASSUME NEW c \in Conns, PollConnect(c)
      PROVE  PlayersStay'
  BY <1>4 DEF PollConnect, DispatchConnect, poolVars
<1>5. ASSUME NEW c \in Conns, PollDisconnect(c)
      PROVE  PlayersStay'
  <2>1. /\ peerState' = [peerState EXCEPT ![c] = "closed"]
        /\ svc = "poll"
    BY <1>5 DEF PollDisconnect, DispatchDisconnect
  <2>2. \A d \in Conns : heap'[d] = "none" => heap[d] = "none"
    BY <1>5 DEF PollDisconnect, RemovePlayer, poolVars
  <2> QED
    BY <2>1, <2>2
<1>6. ASSUME KnownId
      PROVE  PlayersStay'
  <2>1. heap[arrival] = "none" /\ arrival \in Conns
    BY <1>6 DEF KnownId, PlaceInv
  <2>2. players[ConnId[arrival]] \in Conns
    BY <1>6, <2>1 DEF KnownId, GetPlayer, NoPlayer
  <2>3. players[ConnId[arrival]] = arrival
    BY <2>1, <2>2 DEF PoolOwnsPlayers, NoPlayer, UniqueIds
  <2>4. ConnId[arrival] \in Ids /\ arrival # NoConn
    BY <2>1
  <2>5. \A id \in Ids : players[id] # NoConn => heap[players[id]] = "live"
    BY DEF PoolOwnsPlayers, NoPlayer
  <2>6. heap[arrival] = "live"
    BY ONLY <2>3, <2>4, <2>5
  <2> QED
    BY <2>1, <2>6
<1>7. CASE MakePlayer
  BY <1>7 DEF MakePlayer, NewPlayer, hostVars
<1>8. CASE Greet \/ HandleApplyAccepted \/ SendDialog
  BY <1>8
  DEF Greet, HandleApplyAccepted, SendDialog, Take, SetTankIDName, hostVars,
      poolVars, serviceVars
<1> QED
  BY <1>1, <1>2, <1>3, <1>4, <1>5, <1>6, <1>7, <1>8, ServerSteps

\* PlayersStay holds in every reachable state.
LEMMA StayHolds ==
  ASSUME UniqueIds
  PROVE  Spec => []PlayersStay
<1>1. Init => PlayersStay
  BY DEF Init, HostInit, PlayersStay, Joined
<1>2. TypeInv /\ PoolOwnsPlayers /\ PlaceInv /\ PlayersStay /\ [Next]_vars
        => PlayersStay'
  BY StayStep
<1> QED
  BY <1>1, <1>2, TypeCorrect, PoolIsConsistent, PlaceHolds, PTL DEF Spec

\* With different connectIDs a connection has its own live Player, under its
\* connectID and in the slot that it alone occupies, from its CONNECT to its
\* DISCONNECT, unless its connectID is 0 (ServerPool::ServicePoll, PlayerPool).
THEOREM PoolFollows ==
  ASSUME UniqueIds
  PROVE  Spec => []PoolFollowsHost
<1>1. TypeInv /\ PoolOwnsPlayers /\ DeletedAreZero /\ PlaceInv /\ PlayersStay
        => PoolFollowsHost
  BY DEF TypeInv, TypeOK, PoolTypeOK, PoolOwnsPlayers, DeletedAreZero,
         PlaceInv, PlayersStay, PoolFollowsHost, GetPlayer, Joined, Present
<1> QED
  BY <1>1, TypeCorrect, PoolIsConsistent, ZeroHolds, PlaceHolds, StayHolds, PTL

-----------------------------------------------------------------------------
(* The queue, and the peer in the worker's hand.                           *)

\* How a step of the server changes the queue.
LEMMA QueueSteps ==
  ASSUME TypeInv, [Next]_vars
  PROVE  \/ UNCHANGED queue
         \/ queue # << >> /\ queue' = Tail(queue)
         \/ \E c \in Conns : PollReceive(c)
<1>1. worker # NoEvent => queue # << >>
  BY DEF TypeInv, WorksOnFront
<1>2. CASE UNCHANGED vars
  BY <1>2 DEF vars, eventVars
<1>3. CASE ServiceThread
  BY <1>3
  DEF ServiceThread, RoundBegin, PollConnect, KnownId, MakePlayer, Greet,
      PollDrop, PollDisconnect, PollDone, ServiceDone, eventVars
<1>4. CASE WorkerThread
  <2>1. CASE worker # NoEvent /\ Finish
    BY <1>1, <2>1 DEF Finish, PopFront
  <2> QED
    BY <1>4, <2>1
    DEF WorkerThread, WorkerTakes, TakeFront, KeepFront, Serving, Holding,
        Take, Lost, HandleNothing, HandleDangling, HandleUnknownAction,
        HandleUnhandled, HandleBadLine, HandleNameThrows,
        HandleNameIncomplete, HandleNameInvalid, Disconnect,
        HandleNameAccepted, HandleApplyRefused, SendDialog, HandleApplyAgain,
        HandleApplyThrows, HandleApplyAccepted, ReportSuccess, eventVars
<1>5. CASE Network \/ Console
  BY <1>5
  DEF Network, Traffic, Complete, Console, Shutdown, ServerInfo, eventVars
<1> QED
  BY <1>2, <1>3, <1>4, <1>5 DEF Next

\* How a step of the server changes what the worker holds.
LEMMA WorkerSteps ==
  ASSUME [Next]_vars
  PROVE  \/ UNCHANGED <<worker, target>>
         \/ target' = NoTarget
         \/ worker = NoEvent /\ UNCHANGED target
         \/ /\ worker # NoEvent /\ UNCHANGED worker
            /\ target' \in {pPeer[worker.avatar], NoSlot}
<1>1. CASE UNCHANGED vars
  BY <1>1 DEF vars, eventVars, serverVars
<1>2. CASE ServiceThread
  BY <1>2
  DEF ServiceThread, RoundBegin, PollConnect, KnownId, MakePlayer, Greet,
      PollDrop, PollReceive, AddQueue, PollDisconnect, PollDone, ServiceDone,
      eventVars, serverVars
<1>3. CASE WorkerThread
  BY <1>3
  DEF WorkerThread, WorkerTakes, TakeFront, Finish, Serving, Holding, Take,
      CastPeer, Lost, HandleNothing, HandleDangling, HandleUnknownAction,
      HandleUnhandled, HandleBadLine, HandleNameThrows, HandleNameIncomplete,
      HandleNameInvalid, Disconnect, HandleNameAccepted, HandleApplyRefused,
      SendDialog, HandleApplyAgain, HandleApplyThrows, HandleApplyAccepted,
      ReportSuccess, eventVars, serverVars
<1>4. CASE Network \/ Console
  BY <1>4
  DEF Network, Traffic, Complete, Console, Shutdown, ServerInfo, eventVars,
      serverVars
<1> QED
  BY <1>1, <1>2, <1>3, <1>4 DEF Next

\* A player has been made for c, and OnConnect is done with it.
Welcomed(c) == heap[c] # "none" /\ ~(svc = "greet" /\ arrival = c)

\* A welcomed player stays one, with the peer it was made with; and one
\* becomes welcome only by being greeted.
LEMMA WelcomeStays ==
  ASSUME TypeInv, PlaceInv, [Next]_vars, NEW c \in Conns, Welcomed(c)
  PROVE  Welcomed(c)' /\ pPeer'[c] = pPeer[c]
<1> USE DEF TypeInv, TypeOK, PoolTypeOK, Welcomed
<1>1. heap'[c] # "none"
  BY PoolSteps DEF NewPlayer, RemovePlayer
<1>2. CASE MakePlayer
  <2>1. arrival # c
    BY <1>2 DEF MakePlayer, PlaceInv
  <2> QED
    BY <1>1, <1>2, <2>1 DEF MakePlayer, NewPlayer
<1>3. ~MakePlayer => pPeer' = pPeer
  BY PoolSteps DEF RemovePlayer
<1> QED
  BY <1>1, <1>2, <1>3, ServerSteps
  DEF Quiet, PollConnect, PollDisconnect, KnownId, Greet, HandleApplyAccepted,
      SendDialog, Take, serverVars, serviceVars

\* Only the greeting makes a player a welcomed one.
LEMMA WelcomeBegins ==
  ASSUME TypeInv, PoolOwnsPlayers, [Next]_vars, NEW c \in Conns,
         ~Welcomed(c), Welcomed(c)'
  PROVE  Greet /\ arrival = c
<1> USE DEF TypeInv, TypeOK, PoolTypeOK, Welcomed
<1>1. CASE MakePlayer
  BY <1>1 DEF MakePlayer, NewPlayer
<1>2. ASSUME NEW d \in Conns, PollDisconnect(d) PROVE FALSE
  <2>1. UNCHANGED serviceVars /\ svc = "poll"
    BY <1>2 DEF PollDisconnect, serverVars
  <2>2. heap'[c] # "none" => heap[c] # "none"
    <3>1. CASE UNCHANGED poolVars
      BY <3>1 DEF poolVars
    <3>2. CASE GetPlayer(ZeroId) # NoPlayer /\ RemovePlayer(ZeroId)
      <4>1. players[ZeroId] \in Conns /\ heap[players[ZeroId]] = "live"
        BY <3>2, PoolAssumption DEF GetPlayer, NoPlayer, PoolOwnsPlayers
      <4> QED
        BY <3>2, <4>1 DEF RemovePlayer
    <3> QED
      BY <1>2, <3>1, <3>2 DEF PollDisconnect, DisconnectId
  <2> QED
    BY <2>1, <2>2 DEF serviceVars
<1> QED
  BY <1>1, <1>2, ServerSteps
  DEF Quiet, PollConnect, KnownId, Greet, HandleApplyAccepted, SendDialog, Take,
      SetTankIDName, poolVars, serverVars, serviceVars

\* The Players of queued events are welcome already, and the peer a handler
\* has in hand is that of the Player it works on.
EventsWelcomed == \A i \in DOMAIN queue : Welcomed(queue[i].avatar)
TargetInv ==
  target # NoTarget => worker # NoEvent /\ target \in {pPeer[worker.avatar], NoSlot}

\* The event at work is one of the queue.
LEMMA WorkerWelcomed ==
  ASSUME TypeInv, EventsWelcomed, worker # NoEvent
  PROVE  worker.avatar \in Conns /\ Welcomed(worker.avatar)
  BY DEF TypeInv, TypeOK, EventTypeOK, Events, WorksOnFront, EventsWelcomed

\* What an event in the queue is after a step, whatever the step did to it.
LEMMA QueuedWas ==
  ASSUME TypeInv, [Next]_vars, NEW i \in DOMAIN queue'
  PROVE  \/ \E j \in DOMAIN queue : queue'[i] = queue[j]
         \/ \E c \in Conns :
              /\ PollReceive(c)
              /\ queue'[i] = [from |-> c, avatar |-> GetPlayer(ConnId[c]),
                              text |-> Head(inbox[c])]
<1>1. queue \in Seq(Events)
  BY DEF TypeInv, TypeOK, EventTypeOK
<1>2. CASE UNCHANGED queue
  BY <1>2
<1>3. CASE queue # << >> /\ queue' = Tail(queue)
  <2>1. i + 1 \in DOMAIN queue /\ queue'[i] = queue[i + 1]
    BY <1>1, <1>3
  <2> QED
    BY <2>1
<1>4. ASSUME NEW c \in Conns, PollReceive(c),
             ~\E j \in DOMAIN queue : queue'[i] = queue[j]
      PROVE  queue'[i] = [from |-> c, avatar |-> GetPlayer(ConnId[c]),
                          text |-> Head(inbox[c])]
  <2> DEFINE e == [from |-> c, avatar |-> GetPlayer(ConnId[c]),
                   text |-> Head(inbox[c])]
  <2>1. queue' = Append(queue, e)
    BY <1>4 DEF PollReceive, AddQueue
  <2> HIDE DEF e
  <2>2. i = Len(queue) + 1 \/ (i \in DOMAIN queue /\ queue'[i] = queue[i])
    BY <1>1, <2>1
  <2>3. queue'[i] = e
    BY <1>1, <1>4, <2>1, <2>2
  <2> QED
    BY <2>3 DEF e
<1> QED
  BY <1>2, <1>3, <1>4, QueueSteps

\* The Player an event is queued with is live, and was greeted.
LEMMA ReceiverLives ==
  ASSUME TypeInv, PoolOwnsPlayers, NEW c \in Conns, PollReceive(c)
  PROVE  /\ GetPlayer(ConnId[c]) \in Conns
         /\ heap[GetPlayer(ConnId[c])] = "live"
         /\ ConnId[GetPlayer(ConnId[c])] = ConnId[c]
         /\ Welcomed(GetPlayer(ConnId[c]))
<1>1. ConnId[c] \in Ids
  BY PoolAssumption
<1>2. players[ConnId[c]] # NoPlayer /\ svc = "poll"
  BY DEF PollReceive, GetPlayer
<1>3. /\ players[ConnId[c]] \in Conns
      /\ heap[players[ConnId[c]]] = "live"
      /\ ConnId[players[ConnId[c]]] = ConnId[c]
  BY <1>1, <1>2 DEF TypeInv, TypeOK, PoolTypeOK, PoolOwnsPlayers, NoPlayer
<1> QED
  BY <1>2, <1>3 DEF GetPlayer, Welcomed

\* An event is queued with a welcomed player, which then stays one.
LEMMA WelcomedStep ==
  ASSUME TypeInv, PoolOwnsPlayers, PlaceInv, EventsWelcomed, [Next]_vars
  PROVE  EventsWelcomed'
<1> DEFINE Stays(p) == heap'[p] # "none" /\ ~(svc' = "greet" /\ arrival' = p)
<1>1. \A p \in Conns : Welcomed(p) => Stays(p)
  BY WelcomeStays DEF Welcomed
<1>2. ASSUME NEW i \in DOMAIN queue' PROVE Stays(queue'[i].avatar)
  <2>1. ASSUME NEW j \in DOMAIN queue, queue'[i] = queue[j]
        PROVE  Stays(queue'[i].avatar)
    <3>1. queue[j].avatar \in Conns
      <4>1. queue[j] \in Events
        BY DEF TypeInv, TypeOK, EventTypeOK
      <4> QED
        BY <4>1 DEF Events
    <3>2. Welcomed(queue[j].avatar)
      BY DEF EventsWelcomed
    <3> QED
      BY <1>1, <2>1, <3>1, <3>2
  <2>2. ASSUME NEW c \in Conns, PollReceive(c),
               queue'[i] = [from |-> c, avatar |-> GetPlayer(ConnId[c]),
                            text |-> Head(inbox[c])]
        PROVE  Stays(queue'[i].avatar)
    <3>1. queue'[i].avatar = GetPlayer(ConnId[c])
      BY <2>2
    <3> QED
      BY <1>1, <2>2, <3>1, ReceiverLives
  <2> QED
    BY <2>1, <2>2, QueuedWas
<1> QED
  BY <1>2 DEF EventsWelcomed, Welcomed

\* A handler's peer stays that of its Player while it is held.
LEMMA TargetStep ==
  ASSUME TypeInv, PlaceInv, EventsWelcomed, TargetInv, [Next]_vars
  PROVE  TargetInv'
<1>1. worker # NoEvent => pPeer'[worker.avatar] = pPeer[worker.avatar]
  BY WorkerWelcomed, WelcomeStays
<1> QED
  BY <1>1, WorkerSteps DEF TargetInv

\* What the proofs about messages rest on.
SendInv == EventsWelcomed /\ TargetInv

\* SendInv holds in every reachable state.
LEMMA SendHolds == Spec => []SendInv
<1>1. Init => SendInv
  BY DEF Init, EventInit, SendInv, EventsWelcomed, TargetInv
<1>2. TypeInv /\ PoolOwnsPlayers /\ PlaceInv /\ SendInv /\ [Next]_vars
        => SendInv'
  BY WelcomedStep, TargetStep DEF SendInv
<1> QED
  BY <1>1, <1>2, TypeCorrect, PoolIsConsistent, PlaceHolds, PTL DEF Spec

\* With different connectIDs a queued pointer is that of the sender's own
\* Player (AddQueue).
LEMMA NamesStep ==
  ASSUME UniqueIds, TypeInv, PoolOwnsPlayers, PlaceInv, EventsWelcomed,
         EventsNameTheirPlayer, [Next]_vars
  PROVE  EventsNameTheirPlayer'
<1>1. \A i \in DOMAIN queue' : heap'[queue'[i].avatar] # "none"
  BY WelcomedStep DEF EventsWelcomed, Welcomed
<1> SUFFICES ASSUME NEW i \in DOMAIN queue'
             PROVE  queue'[i].avatar = queue'[i].from
  BY <1>1 DEF EventsNameTheirPlayer
<1>2. ASSUME NEW j \in DOMAIN queue, queue'[i] = queue[j]
      PROVE  queue'[i].avatar = queue'[i].from
  BY <1>2 DEF EventsNameTheirPlayer
<1>3. ASSUME NEW c \in Conns, PollReceive(c),
             queue'[i] = [from |-> c, avatar |-> GetPlayer(ConnId[c]),
                          text |-> Head(inbox[c])]
      PROVE  queue'[i].avatar = queue'[i].from
  BY <1>3, ReceiverLives DEF UniqueIds
<1> QED
  BY <1>2, <1>3, QueuedWas

\* A queued event names the Player of the client that sent it, which was created
\* before, where no connectID is shared (AddQueue, pAvatar).
THEOREM EventsNamed ==
  ASSUME UniqueIds
  PROVE  Spec => []EventsNameTheirPlayer
<1>1. Init => EventsNameTheirPlayer
  BY DEF Init, EventInit, EventsNameTheirPlayer
<1>2. TypeInv /\ PoolOwnsPlayers /\ PlaceInv /\ SendInv
        /\ EventsNameTheirPlayer /\ [Next]_vars => EventsNameTheirPlayer'
  BY NamesStep DEF SendInv
<1> QED
  BY <1>1, <1>2, TypeCorrect, PoolIsConsistent, PlaceHolds, SendHolds, PTL
  DEF Spec

-----------------------------------------------------------------------------
(* Messages.                                                               *)

\* A connection that has ended does not come back.
LEMMA EndedStays ==
  ASSUME TypeInv, PlaceInv, [Next]_vars, NEW c \in Conns
  PROVE  /\ peerState[c] \in Ended => peerState'[c] \in Ended
         /\ peerState[c] = "closed" => peerState'[c] = "closed"
<1> USE DEF TypeInv, TypeOK, HostTypeOK, PeerStates, Ended
<1>1. CASE UNCHANGED hostVars
  BY <1>1 DEF hostVars
<1>2. CASE \E d \in Conns : HostMoves(d)
  BY <1>2
  DEF HostMoves, Arrive, Receive, Leave, LeavePending, Depart, DispatchReceive
<1>3. CASE \E s : DisconnectLater(s)
  BY <1>3, LaterSteps DEF Occupied
<1>4. CASE \E d \in Conns : PollConnect(d) \/ PollDisconnect(d)
  BY <1>4
  DEF PollConnect, PollDisconnect, DispatchConnect, DispatchDisconnect
<1> QED
  BY <1>1, <1>2, <1>3, <1>4, ServerSteps
  DEF KnownId, MakePlayer, Greet, HandleApplyAccepted, SendDialog, Take

\* What is sent with the greeting.
LEMMA Greets ==
  ASSUME TypeInv, PlaceInv, Greet
  PROVE  /\ arrival \in Conns
         /\ \/ /\ peerState[arrival] = "leaving"
               /\ UNCHANGED delivered
            \/ /\ peerState[arrival] = "connected"
               /\ delivered' = [delivered EXCEPT ![arrival] =
                     Append(@, [kind |-> "hello", by |-> arrival])]
<1>1. /\ arrival \in Conns
      /\ heap[arrival] = "live"
      /\ peerState[arrival] \in {"connected", "leaving"}
  BY DEF Greet, PlaceInv, TypeInv, TypeOK
<1>2. pPeer[arrival] \in Slots /\ owner[pPeer[arrival]] = arrival
  BY <1>1 DEF PlaceInv, Present
<1> QED
  BY <1>1, <1>2, HostAssumption DEF Greet, Transmit, Accepts, Occupied

\* What is sent with the registration dialog: it goes to the client of the
\* handler's Player, or that client's connection is over.
LEMMA SendsDialog ==
  ASSUME TypeInv, PlaceInv, SendInv, SendDialog
  PROVE  /\ worker.avatar \in Conns /\ Welcomed(worker.avatar)
         /\ \/ UNCHANGED delivered
            \/ \E c \in Conns :
                 /\ peerState[c] = "connected"
                 /\ c = worker.avatar \/ peerState[worker.avatar] = "closed"
                 /\ delivered' = [delivered EXCEPT ![c] =
                      Append(@, [kind |-> "registration",
                                 by |-> worker.avatar])]
<1> DEFINE p == worker.avatar
<1>1. worker # NoEvent /\ target # NoTarget
  BY DEF SendDialog, Holding
<1>2. p \in Conns /\ Welcomed(p)
  BY <1>1, WorkerWelcomed DEF SendInv
<1>3. target \in {pPeer[p], NoSlot}
  BY <1>1 DEF SendInv, TargetInv
<1>4. CASE UNCHANGED delivered
  BY <1>2, <1>4
<1>5. ASSUME Accepts(target)
      PROVE  /\ owner[target] \in Conns /\ peerState[owner[target]] = "connected"
             /\ owner[target] = p \/ peerState[p] = "closed"
  <2>1. /\ target = pPeer[p] /\ target \in Slots
        /\ owner[target] \in Conns /\ peerState[owner[target]] = "connected"
    BY <1>3, <1>5, PoolAssumption
    DEF Accepts, Occupied, TypeInv, TypeOK, HostTypeOK
  <2>2. peerState[p] \in Present => owner[pPeer[p]] = p
    BY <1>2 DEF Welcomed, PlaceInv
  <2>3. peerState[p] \in Present \/ peerState[p] = "closed"
    BY <1>2 DEF Welcomed, PlaceInv, TypeInv, TypeOK, HostTypeOK, PeerStates,
                Present
  <2> QED
    BY <2>1, <2>2, <2>3
<1>6. SendRegistration
  BY DEF SendDialog
<1> QED
  BY <1>2, <1>5, <1>6 DEF SendRegistration, Transmit

\* No other step sends anything.
LEMMA SendSteps ==
  ASSUME TypeInv, PlaceInv, SendInv, [Next]_vars
  PROVE  \/ UNCHANGED delivered
         \/ Greet
         \/ SendDialog
  BY ServerSteps
  DEF Quiet, PollConnect, PollDisconnect, KnownId, MakePlayer,
      HandleApplyAccepted, serverVars

\* A history after a message was appended to that of one connection.
LEMMA AppendSays ==
  ASSUME TypeInv, NEW c \in Conns, NEW m,
         delivered' = [delivered EXCEPT ![c] = Append(@, m)]
  PROVE  /\ \A d \in Conns : d # c => delivered'[d] = delivered[d]
         /\ delivered'[c] = Append(delivered[c], m)
         /\ Len(delivered[c]) \in Nat
         /\ DOMAIN delivered[c] = 1 .. Len(delivered[c])
         /\ DOMAIN delivered'[c] = 1 .. Len(delivered[c]) + 1
         /\ \A i \in DOMAIN delivered[c] : delivered'[c][i] = delivered[c][i]
         /\ delivered'[c][Len(delivered[c]) + 1] = m
<1>1. delivered \in [Conns -> Seq(Messages)]
  BY DEF TypeInv, TypeOK
<1>2. /\ \A d \in Conns : d # c => delivered'[d] = delivered[d]
      /\ delivered'[c] = Append(delivered[c], m)
  BY <1>1
<1> QED
  BY <1>1, <1>2

\* What is sent in a step goes to its Player's client, or that client is gone.
LEMMA RepliesStep ==
  ASSUME TypeInv, PlaceInv, SendInv, RepliesReachSender, [Next]_vars
  PROVE  RepliesReachSender'
<1>1. \A p \in Conns : peerState[p] = "closed" => peerState'[p] = "closed"
  BY EndedStays
<1>2. \A c \in Conns : \A i \in DOMAIN delivered[c] : delivered[c][i].by \in Conns
  <2>1. \A c \in Conns : \A i \in DOMAIN delivered[c] :
           delivered[c][i] \in Messages
    BY DEF TypeInv, TypeOK
  <2> QED
    BY <2>1 DEF Messages
<1>3. CASE UNCHANGED delivered
  BY <1>1, <1>2, <1>3 DEF RepliesReachSender
<1>4. ASSUME NEW c \in Conns, NEW m, m.by \in Conns,
             m.by = c \/ peerState[m.by] = "closed",
             delivered' = [delivered EXCEPT ![c] = Append(@, m)]
      PROVE  RepliesReachSender'
  <2>1. \A d \in Conns : \A i \in DOMAIN delivered'[d] :
          \/ d = c /\ delivered'[d][i] = m
          \/ i \in DOMAIN delivered[d] /\ delivered'[d][i] = delivered[d][i]
    BY <1>4, AppendSays
  <2> QED
    BY <1>1, <1>2, <1>4, <2>1 DEF RepliesReachSender
<1>5. CASE Greet
  <2> DEFINE m == [kind |-> "hello", by |-> arrival]
  <2>1. m.by = arrival /\ arrival \in Conns
    BY <1>5, Greets
  <2>2. \/ UNCHANGED delivered
        \/ delivered' = [delivered EXCEPT ![arrival] = Append(@, m)]
    BY <1>5, Greets
  <2> HIDE DEF m
  <2> QED
    BY <1>3, <1>4, <2>1, <2>2
<1>6. CASE SendDialog
  <2> DEFINE m == [kind |-> "registration", by |-> worker.avatar]
  <2>1. m.by = worker.avatar /\ worker.avatar \in Conns
    BY <1>6, SendsDialog
  <2>2. \/ UNCHANGED delivered
        \/ \E c \in Conns :
             /\ c = worker.avatar \/ peerState[worker.avatar] = "closed"
             /\ delivered' = [delivered EXCEPT ![c] = Append(@, m)]
    BY <1>6, SendsDialog
  <2> HIDE DEF m
  <2> QED
    BY <1>3, <1>4, <2>1, <2>2
<1> QED
  BY <1>3, <1>5, <1>6, SendSteps

\* What a handler sends reaches the client of the Player it works on or, when
\* that client's connection is over, whoever has its slot: nobody else, for
\* any connectIDs (PlayerDialog::m_pPeer, ENetWrapper::SendPacket).
THEOREM RepliesReach == Spec => []RepliesReachSender
<1>1. Init => RepliesReachSender
  BY DEF Init, RepliesReachSender
<1> QED
  BY <1>1, RepliesStep, TypeCorrect, PlaceHolds, SendHolds, PTL DEF Spec

-----------------------------------------------------------------------------
(* Greetings and GrowIDs.                                                  *)

\* Only RegisterPlayer gives a GrowID, to the Player of the event at work.
LEMMA RegisteredSteps ==
  ASSUME TypeInv, SendInv, [Next]_vars
  PROVE  \/ UNCHANGED registered
         \/ /\ HandleApplyAccepted
            /\ worker # NoEvent /\ worker.text = "applyOk"
            /\ worker.avatar \in Conns /\ Welcomed(worker.avatar)
            /\ worker.avatar \notin registered
            /\ registered' = registered \cup {worker.avatar}
<1>1. CASE HandleApplyAccepted
  <2>1. worker # NoEvent
    BY <1>1 DEF HandleApplyAccepted, Serving
  <2>2. worker.avatar \in Conns /\ Welcomed(worker.avatar)
    BY <2>1, WorkerWelcomed DEF SendInv
  <2> QED
    BY <1>1, <2>1, <2>2 DEF HandleApplyAccepted, Serving, SetTankIDName
<1> QED
  BY <1>1, ServerSteps
  DEF Quiet, PollConnect, PollDisconnect, RemovePlayer, KnownId, MakePlayer,
      NewPlayer, Greet, SendDialog, poolVars

\* A GrowID is given by an event of the Player's own client that is at work
\* (OnDialogGrowIDApply).
THEOREM RegisteredByOwn ==
  ASSUME UniqueIds
  PROVE  Spec => RegisteredByOwnEvent
<1>1. TypeInv /\ SendInv /\ EventsNameTheirPlayer /\ [Next]_vars =>
        [\A p \in registered' \ registered :
           worker # NoEvent /\ worker.from = p /\ worker.text = "applyOk"]_vars
  <2> SUFFICES ASSUME TypeInv, SendInv, EventsNameTheirPlayer, [Next]_vars,
                      NEW p \in registered' \ registered
               PROVE  /\ worker # NoEvent /\ worker.from = p
                      /\ worker.text = "applyOk"
    OBVIOUS
  <2>1. worker # NoEvent /\ worker.text = "applyOk" /\ p = worker.avatar
    BY RegisteredSteps
  <2>2. worker.avatar = worker.from
    BY <2>1 DEF TypeInv, TypeOK, EventTypeOK, WorksOnFront, EventsNameTheirPlayer
  <2> QED
    BY <2>1, <2>2
<1> QED
  BY <1>1, TypeCorrect, SendHolds, EventsNamed, PTL DEF Spec, RegisteredByOwnEvent

\* Nothing is sent for a Player before its greeting, and it has no GrowID;
\* one that was greeted has the greeting, or its connection has ended.
Unheard(c) ==
  /\ c \notin registered
  /\ \A d \in Conns : \A i \in DOMAIN delivered[d] : delivered[d][i].by # c
GreetInv ==
  \A c \in Conns : /\ ~Welcomed(c) => Unheard(c)
                   /\ Welcomed(c) => Greeted(c) \/ peerState[c] \in Ended

\* At first nobody has been told anything.
LEMMA GreetInit == Init => GreetInv /\ HelloFirst
  BY DEF Init, PoolInit, GreetInv, HelloFirst, Welcomed, Unheard

\* A message appended for one connection leaves the others unheard and the
\* greeted greeted.
LEMMA AppendGreets ==
  ASSUME TypeInv, NEW c \in Conns, NEW m,
         delivered' = [delivered EXCEPT ![c] = Append(@, m)]
  PROVE  /\ \A p \in Conns : p # m.by /\ Unheard(p) /\ p \notin registered'
                               => Unheard(p)'
         /\ \A p \in Conns : Greeted(p) => Greeted(p)'
         /\ m = [kind |-> "hello", by |-> c] => Greeted(c)'
<1>1. \A d \in Conns : \A i \in DOMAIN delivered'[d] :
        \/ d = c /\ delivered'[d][i] = m
        \/ i \in DOMAIN delivered[d] /\ delivered'[d][i] = delivered[d][i]
  BY AppendSays
<1>2. \A d \in Conns : \A i \in DOMAIN delivered[d] :
        i \in DOMAIN delivered'[d] /\ delivered'[d][i] = delivered[d][i]
  BY AppendSays
<1>3. \E i \in DOMAIN delivered'[c] : delivered'[c][i] = m
  <2>1. /\ Len(delivered[c]) \in Nat
        /\ DOMAIN delivered'[c] = 1 .. Len(delivered[c]) + 1
        /\ delivered'[c][Len(delivered[c]) + 1] = m
    BY AppendSays
  <2>2. Len(delivered[c]) + 1 \in DOMAIN delivered'[c]
    BY <2>1
  <2> QED
    BY <2>1, <2>2
<1> QED
  BY <1>1, <1>2, <1>3 DEF Unheard, Greeted

\* What a message may be for HelloFirst to hold of the longer history.
LEMMA AppendHello ==
  ASSUME TypeInv, HelloFirst, NEW c \in Conns, NEW m,
         delivered' = [delivered EXCEPT ![c] = Append(@, m)],
         m.kind = "hello" <=> /\ m.by = c
                              /\ \A j \in DOMAIN delivered[c] :
                                   delivered[c][j].by # c
  PROVE  HelloFirst'
<1>1. /\ \A d \in Conns : d # c => delivered'[d] = delivered[d]
      /\ Len(delivered[c]) \in Nat
      /\ DOMAIN delivered[c] = 1 .. Len(delivered[c])
      /\ DOMAIN delivered'[c] = 1 .. Len(delivered[c]) + 1
      /\ \A i \in DOMAIN delivered[c] : delivered'[c][i] = delivered[c][i]
      /\ delivered'[c][Len(delivered[c]) + 1] = m
  BY AppendSays
<1> DEFINE First(h, d) == \A i \in DOMAIN h :
             h[i].kind = "hello" <=> /\ h[i].by = d
                                     /\ \A j \in 1 .. i - 1 : h[j].by # d
<1>2. First(delivered'[c], c)
  <2> SUFFICES ASSUME NEW i \in 1 .. Len(delivered[c]) + 1
               PROVE  delivered'[c][i].kind = "hello" <=>
                        /\ delivered'[c][i].by = c
                        /\ \A j \in 1 .. i - 1 : delivered'[c][j].by # c
    BY <1>1
  <2>1. CASE i \in DOMAIN delivered[c]
    <3>1. delivered[c][i].kind = "hello" <=>
            /\ delivered[c][i].by = c
            /\ \A j \in 1 .. i - 1 : delivered[c][j].by # c
      BY <2>1 DEF HelloFirst
    <3>2. \A j \in 1 .. i - 1 : j \in DOMAIN delivered[c]
      BY <1>1, <2>1
    <3> QED
      BY <1>1, <2>1, <3>1, <3>2
  <2>2. CASE i = Len(delivered[c]) + 1
    <3>1. 1 .. i - 1 = DOMAIN delivered[c]
      BY <1>1, <2>2
    <3> QED
      BY <1>1, <2>2, <3>1
  <2> QED
    BY <1>1, <2>1, <2>2
<1>3. \A d \in Conns : First(delivered[d], d)
  BY DEF HelloFirst
<1>4. \A d \in Conns : First(delivered'[d], d)
  BY <1>1, <1>2, <1>3
<1> QED
  BY <1>4 DEF HelloFirst

\* Both are inductive together with what is known of peers and messages.
LEMMA GreetStep ==
  ASSUME TypeInv, PoolOwnsPlayers, PlaceInv, SendInv, GreetInv, HelloFirst,
         [Next]_vars
  PROVE  GreetInv' /\ HelloFirst'
<1>1. \A c \in Conns : peerState[c] \in Ended => peerState'[c] \in Ended
  BY EndedStays
<1>2. /\ \A c \in Conns : Welcomed(c) => Welcomed(c)'
      /\ \A c \in Conns : ~Welcomed(c) /\ Welcomed(c)' => Greet /\ arrival = c
  BY WelcomeStays, WelcomeBegins
<1>3. \A c \in Conns : ~Welcomed(c) => c \notin registered'
  BY RegisteredSteps DEF GreetInv, Unheard
<1>4. CASE UNCHANGED delivered /\ ~Greet
  <2>1. \A c \in Conns : Unheard(c) /\ c \notin registered' => Unheard(c)'
    BY <1>4 DEF Unheard
  <2>2. \A c \in Conns : Greeted(c) => Greeted(c)'
    BY <1>4 DEF Greeted
  <2>3. HelloFirst'
    BY <1>4 DEF HelloFirst
  <2> QED
    BY <1>1, <1>2, <1>3, <1>4, <2>1, <2>2, <2>3 DEF GreetInv
<1>5. ASSUME NEW c \in Conns, Greet, arrival = c
      PROVE  GreetInv' /\ HelloFirst'
  <2> DEFINE m == [kind |-> "hello", by |-> c]
  <2>1. /\ m.kind = "hello" /\ m.by = c
        /\ m = [kind |-> "hello", by |-> c]
    BY <1>5, Greets
  <2>2. ~Welcomed(c) /\ Welcomed(c)'
    <3>1. heap[c] = "live" /\ svc = "greet" /\ svc' = "poll"
          /\ UNCHANGED heap
      BY <1>5 DEF Greet, PlaceInv, poolVars
    <3> QED
      BY <1>5, <3>1 DEF Welcomed
  <2>3. CASE peerState[c] = "leaving" /\ UNCHANGED delivered
    <3>1. \A d \in Conns : Unheard(d) /\ d \notin registered' => Unheard(d)'
      BY <2>3 DEF Unheard
    <3>2. \A d \in Conns : Greeted(d) => Greeted(d)'
      BY <2>3 DEF Greeted
    <3>3. HelloFirst'
      BY <2>3 DEF HelloFirst
    <3>4. peerState[c] \in Ended
      BY <2>3 DEF Ended
    <3> QED
      BY <1>1, <1>2, <1>3, <2>1, <2>2, <3>1, <3>2, <3>3, <3>4 DEF GreetInv
  <2>4. CASE delivered' = [delivered EXCEPT ![c] = Append(@, m)]
    <3> HIDE DEF m
    <3>1. /\ \A p \in Conns : p # m.by /\ Unheard(p) /\ p \notin registered'
                                => Unheard(p)'
          /\ \A p \in Conns : Greeted(p) => Greeted(p)'
          /\ Greeted(c)'
      BY <2>1, <2>4, AppendGreets
    <3>2. \A j \in DOMAIN delivered[c] :
            delivered[c][j].by # c
      BY <2>1, <2>2 DEF GreetInv, Unheard
    <3>3. HelloFirst'
      BY <2>1, <2>4, <3>2, AppendHello
    <3> QED
      BY <1>1, <1>2, <1>3, <2>1, <2>2, <3>1, <3>3 DEF GreetInv
  <2> QED
    BY <1>5, <2>3, <2>4, Greets
<1>6. CASE SendDialog /\ ~Greet
  <2> DEFINE p == worker.avatar
             m == [kind |-> "registration", by |-> p]
  <2>1. m.kind # "hello" /\ m.by = p /\ p \in Conns /\ Welcomed(p)
    BY <1>6, SendsDialog
  <2>2. CASE UNCHANGED delivered
    BY <1>4, <1>6, <2>2
  <2>3. ASSUME NEW c \in Conns, peerState[c] = "connected",
               delivered' = [delivered EXCEPT ![c] = Append(@, m)]
        PROVE  GreetInv' /\ HelloFirst'
    <3>1. /\ \A q \in Conns : q # m.by /\ Unheard(q) /\ q \notin registered'
                                => Unheard(q)'
          /\ \A q \in Conns : Greeted(q) => Greeted(q)'
      <4> HIDE DEF m
      <4> QED
        BY <2>3, AppendGreets
    <3>2. m.by = c => \E j \in DOMAIN delivered[c] : delivered[c][j].by = c
      <4>1. m.by = c => Greeted(c)
        BY <2>1, <2>3 DEF GreetInv, Ended
      <4> QED
        BY <4>1 DEF Greeted
    <3>3. HelloFirst'
      <4>1. m.kind # "hello"
        BY <2>1
      <4> HIDE DEF m
      <4> QED
        BY <2>3, <3>2, <4>1, AppendHello
    <3> QED
      BY <1>1, <1>2, <1>3, <1>6, <2>1, <3>1, <3>3 DEF GreetInv
  <2> QED
    BY <1>6, <2>2, <2>3, SendsDialog
<1> QED
  BY <1>4, <1>5, <1>6, SendSteps, Greets

\* GreetInv and HelloFirst hold in every reachable state.
LEMMA GreetHolds == Spec => [](GreetInv /\ HelloFirst)
  BY GreetInit, GreetStep, TypeCorrect, PoolIsConsistent, PlaceHolds,
     SendHolds, PTL DEF Spec

\* SERVER_HELLO comes once on every connection, for the client itself and
\* before all else that is meant for it, for any connectIDs
\* (Player::OnConnect).
THEOREM HelloComesFirst == Spec => []HelloFirst
  BY GreetHolds, PTL

-----------------------------------------------------------------------------
(* Sessions.                                                               *)

\* The initial state maps to one in which no session has opened.
LEMMA SessionsBegin == Init => Sess!SessionInit
<1>1. Init => /\ delivered = [c \in Conns |-> << >>]
              /\ registered = {}
              /\ Phase = [c \in Conns |-> "unopened"]
  BY DEF Init, HostInit, PoolInit, Phase, Greeted, Ended
<1> QED
  BY <1>1 DEF Sess!SessionInit

\* A step that moves one connection and tells nobody anything closes its
\* session, or leaves all of them as they are.
LEMMA PhaseMoves ==
  ASSUME HostTypeOK, UNCHANGED <<delivered, registered>>, NEW c \in Conns, NEW v,
         peerState' = [peerState EXCEPT ![c] = v],
         peerState[c] \in Ended => v \in Ended
  PROVE  UNCHANGED Phase \/ Sess!Close(c)
<1>1. /\ peerState'[c] = v
      /\ \A d \in Conns : d # c => peerState'[d] = peerState[d]
  BY DEF HostTypeOK
<1>2. \A d \in Conns : Greeted(d)' <=> Greeted(d)
  BY DEF Greeted
<1>3. CASE v \in Ended /\ peerState[c] \notin Ended
  <2>1. Phase' = [Phase EXCEPT ![c] = "over"]
    BY <1>1, <1>2, <1>3 DEF Phase
  <2>2. Phase[c] # "over"
    BY <1>3 DEF Phase
  <2> QED
    BY <2>1, <2>2 DEF Sess!Close
<1>4. CASE v \in Ended <=> peerState[c] \in Ended
  BY <1>1, <1>2, <1>4 DEF Phase
<1> QED
  BY <1>3, <1>4

\* What a step of the host does to the sessions.
LEMMA SessionsMove ==
  ASSUME TypeInv, NEW c \in Conns, UNCHANGED <<delivered, registered>>,
         HostMoves(c) \/ DispatchConnect(c) \/ DispatchDisconnect(c)
  PROVE  UNCHANGED Phase \/ Sess!Close(c)
<1> USE DEF TypeInv, TypeOK
<1>1. CASE UNCHANGED peerState
  BY <1>1 DEF Phase, Greeted
<1>2. \/ UNCHANGED peerState
      \/ \E v : /\ peerState' = [peerState EXCEPT ![c] = v]
                /\ peerState[c] \in Ended => v \in Ended
  BY DEF HostMoves, Arrive, Receive, Leave, LeavePending, Depart,
         DispatchReceive, DispatchConnect, DispatchDisconnect, Ended
<1> QED
  BY <1>1, <1>2, PhaseMoves

\* A disconnect that a handler asks for closes one session, or none.
LEMMA SessionsLater ==
  ASSUME TypeInv, UNCHANGED <<delivered, registered>>, NEW s, DisconnectLater(s)
  PROVE  UNCHANGED Phase \/ \E c \in Conns : Sess!Close(c)
<1> USE DEF TypeInv, TypeOK
<1>1. CASE UNCHANGED peerState
  BY <1>1 DEF Phase, Greeted
<1>2. \/ UNCHANGED peerState
      \/ \E c \in Conns, v \in Ended : peerState' = [peerState EXCEPT ![c] = v]
  BY LaterSteps DEF Ended
<1> QED
  BY <1>1, <1>2, PhaseMoves

\* The greeting opens the session, unless the connection has ended.
LEMMA SessionsOpen ==
  ASSUME TypeInv, PlaceInv, GreetInv, Greet
  PROVE  UNCHANGED Sess!sessionVars \/ \E c \in Conns : Sess!Open(c)
<1> USE DEF TypeInv, TypeOK
<1>1. UNCHANGED <<peerState, registered>>
  BY DEF Greet, hostVars, poolVars
<1>2. CASE UNCHANGED delivered
  BY <1>1, <1>2 DEF Phase, Greeted, Sess!sessionVars
<1>3. ASSUME NEW c \in Conns, arrival = c, peerState[c] = "connected",
             delivered' = [delivered EXCEPT ![c] =
                             Append(@, [kind |-> "hello", by |-> c])]
      PROVE  Sess!Open(c)
  <2> DEFINE m == [kind |-> "hello", by |-> c]
  <2>1. delivered' = [delivered EXCEPT ![c] = Append(@, m)]
    BY <1>3
  <2>2. m = [kind |-> "hello", by |-> c] /\ m = Sess!Greeting(c)
    BY DEF Sess!Greeting
  <2>3. ~Greeted(c)
    <3>1. ~Welcomed(c)
      BY <1>3 DEF Greet, Welcomed
    <3> QED
      BY <3>1 DEF GreetInv, Unheard, Greeted
  <2> HIDE DEF m
  <2>4. Greeted(c)'
    BY <2>1, <2>2, AppendGreets
  <2>5. \A d \in Conns : d # c => (Greeted(d)' <=> Greeted(d))
    BY <2>1, AppendSays DEF Greeted
  <2>6. Phase[c] = "unopened"
    BY <1>3, <2>3 DEF Phase, Ended
  <2>7. Phase' = [Phase EXCEPT ![c] = "open"]
    BY <1>1, <1>3, <2>4, <2>5 DEF Phase, Ended
  <2> QED
    BY <1>1, <2>1, <2>2, <2>6, <2>7 DEF Sess!Open, Sess!Say
<1> QED
  BY <1>2, <1>3, Greets

\* The dialog continues the session of the handler's own client, or strays
\* into that of a client in its place.
LEMMA SessionsTell ==
  ASSUME TypeInv, PlaceInv, SendInv, GreetInv, SendDialog
  PROVE  \/ UNCHANGED Sess!sessionVars
         \/ \E c \in Conns : Sess!Tell(c) \/ \E d \in Conns : Sess!Stray(d, c)
<1> USE DEF TypeInv, TypeOK
<1>1. UNCHANGED <<peerState, registered>>
  BY DEF SendDialog, hostVars, poolVars
<1>2. CASE UNCHANGED delivered
  BY <1>1, <1>2 DEF Phase, Greeted, Sess!sessionVars
<1>3. ASSUME NEW c \in Conns, NEW d \in Conns, Welcomed(d),
             peerState[c] = "connected", c = d \/ peerState[d] = "closed",
             delivered' = [delivered EXCEPT ![c] =
                             Append(@, [kind |-> "registration", by |-> d])]
      PROVE  Sess!Tell(c) \/ Sess!Stray(d, c)
  <2> DEFINE m == [kind |-> "registration", by |-> d]
  <2>1. delivered' = [delivered EXCEPT ![c] = Append(@, m)]
    BY <1>3
  <2>2. /\ m = [kind |-> "registration", by |-> d]
        /\ \A p \in Conns : m # [kind |-> "hello", by |-> p]
    OBVIOUS
  <2> HIDE DEF m
  <2>3. \A p \in Conns : Greeted(p)' <=> Greeted(p)
    <3>1. \A p \in Conns : Greeted(p) => Greeted(p)'
      BY <2>1, AppendGreets
    <3>2. \A p \in Conns : \A i \in DOMAIN delivered'[p] :
            \/ delivered'[p][i] = m
            \/ i \in DOMAIN delivered[p] /\ delivered'[p][i] = delivered[p][i]
      BY <2>1, AppendSays
    <3> QED
      BY <2>2, <3>1, <3>2 DEF Greeted
  <2>4. UNCHANGED Phase
    BY <1>1, <2>3 DEF Phase
  <2>5. UNCHANGED <<Phase, registered>>
    BY <1>1, <2>4
  <2>6. CASE c = d
    <3>1. Greeted(c)
      BY <1>3, <2>6 DEF GreetInv, Ended
    <3>2. Phase[c] = "open"
      BY <1>3, <3>1 DEF Phase, Ended
    <3> QED
      BY <2>1, <2>2, <2>5, <2>6, <3>2 DEF Sess!Tell, Sess!Say
  <2>7. CASE peerState[d] = "closed"
    <3>1. Phase[d] = "over" /\ Phase[c] # "over"
      BY <1>3, <2>7 DEF Phase, Ended
    <3> QED
      BY <2>1, <2>2, <2>5, <3>1 DEF Sess!Stray, Sess!Say
  <2> QED
    BY <1>3, <2>6, <2>7
<1> QED
  BY <1>2, <1>3, SendsDialog

\* An accepted application registers the handler's own client.
LEMMA SessionsRegister ==
  ASSUME TypeInv, SendInv, GreetInv, [Next]_vars, HandleApplyAccepted
  PROVE  UNCHANGED Sess!sessionVars \/ \E c \in Conns : Sess!Register(c)
<1>1. UNCHANGED <<peerState, delivered>>
  BY DEF HandleApplyAccepted, Take, hostVars
<1>2. UNCHANGED Phase
  BY <1>1 DEF Phase, Greeted
<1>3. CASE UNCHANGED registered
  BY <1>1, <1>2, <1>3 DEF Sess!sessionVars
<1>4. ASSUME NEW c \in Conns, Welcomed(c), c \notin registered,
             registered' = registered \cup {c}
      PROVE  Sess!Register(c)
  <2>1. Phase[c] # "unopened"
    BY <1>4 DEF GreetInv, Phase
  <2> QED
    BY <1>1, <1>2, <1>4, <2>1 DEF Sess!Register
<1> QED
  BY <1>3, <1>4, RegisteredSteps

\* Every step of the server opens, continues or closes one session, or is
\* none of the clients' business.
LEMMA SessionsStep ==
  ASSUME TypeInv, PlaceInv, SendInv, GreetInv, [Next]_vars
  PROVE  [Sess!SessionNext]_(Sess!sessionVars)
<1>1. CASE UNCHANGED hostVars /\ Quiet
  <2>1. UNCHANGED <<peerState, delivered, registered>>
    BY <1>1 DEF hostVars, Quiet, poolVars
  <2> QED
    BY <2>1 DEF Phase, Greeted, Sess!sessionVars
<1>2. CASE Quiet /\ \E c \in Conns : HostMoves(c)
  <2>1. UNCHANGED <<delivered, registered>>
    BY <1>2 DEF Quiet, poolVars
  <2>2. \E c \in Conns : UNCHANGED Phase \/ Sess!Close(c)
    BY <1>2, <2>1, SessionsMove
  <2> QED
    BY <2>1, <2>2 DEF Sess!SessionNext, Sess!sessionVars
<1>3. CASE Quiet /\ \E s : DisconnectLater(s)
  <2>1. UNCHANGED <<delivered, registered>>
    BY <1>3 DEF Quiet, poolVars
  <2>2. UNCHANGED Phase \/ \E c \in Conns : Sess!Close(c)
    BY <1>3, <2>1, SessionsLater
  <2> QED
    BY <2>1, <2>2 DEF Sess!SessionNext, Sess!sessionVars
<1>4. CASE \E c \in Conns : PollConnect(c) \/ PollDisconnect(c)
  <2>1. UNCHANGED <<delivered, registered>>
    BY <1>4 DEF PollConnect, PollDisconnect, RemovePlayer, poolVars, serverVars
  <2>2. \E c \in Conns : UNCHANGED Phase \/ Sess!Close(c)
    BY <1>4, <2>1, SessionsMove DEF PollConnect, PollDisconnect
  <2> QED
    BY <2>1, <2>2 DEF Sess!SessionNext, Sess!sessionVars
<1>5. CASE KnownId \/ MakePlayer
  <2>1. UNCHANGED <<peerState, delivered, registered>>
    BY <1>5 DEF KnownId, MakePlayer, NewPlayer, hostVars, poolVars
  <2> QED
    BY <2>1 DEF Phase, Greeted, Sess!sessionVars
<1>6. CASE Greet
  BY <1>6, SessionsOpen DEF Sess!SessionNext
<1>7. CASE SendDialog
  BY <1>7, SessionsTell DEF Sess!SessionNext
<1>8. CASE HandleApplyAccepted
  BY <1>8, SessionsRegister DEF Sess!SessionNext
<1> QED
  BY <1>1, <1>2, <1>3, <1>4, <1>5, <1>6, <1>7, <1>8, ServerSteps

\* The server gives every client the session Sessions promises, whatever
\* connectIDs the clients choose (ServerPool::ServicePoll, the handlers).
THEOREM ServerImplementsSessions == Spec => ImplementsSessions
<1>1. TypeInv /\ PlaceInv /\ SendInv /\ GreetInv /\ [Next]_vars
        => [Sess!SessionNext]_(Sess!sessionVars)
  BY SessionsStep
<1> QED
  BY <1>1, SessionsBegin, TypeCorrect, PlaceHolds, SendHolds, GreetHolds, PTL
  DEF Spec, ImplementsSessions, Sess!SessionSpec

=============================================================================
