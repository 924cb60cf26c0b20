------------------------ MODULE GameServerProperties ------------------------
(***************************************************************************)
(* What makes the running server correct.  Each property relates the state *)
(* of two components or of two threads.                                    *)
(***************************************************************************)
EXTENDS GameServer, SeqFolds, SequencesExt

\* No two of the clients carry the same connectID.
UniqueIds == \A c, d \in Conns : ConnId[c] = ConnId[d] => c = d

\* The pool follows the host: from the handling of its CONNECT to its
\* DISCONNECT a connection has its Player, live, under its connectID and in the
\* peer that it alone occupies; no DISCONNECT of another client takes it away,
\* unless the connectID is the zero that line 93 of ServerPool.cpp looks up
\* (ServerPool::ServicePoll, PlayerPool).
PoolFollowsHost ==
  \A c \in Conns :
    /\ peerState[c] \in {"connected", "leaving", "zombie"}
    /\ ConnId[c] # ZeroId
    /\ ~(svc = "connect" /\ arrival = c)
    => /\ GetPlayer(ConnId[c]) = c /\ heap[c] = "live"
       /\ pPeer[c] \in Slots /\ owner[pPeer[c]] = c

\* Nobody's answers go astray but those of a Player whose connection is over:
\* what a handler sends through the peer it took from its Player reaches the
\* Player's own client, however late it is sent, as long as that client still
\* has its slot (PlayerDialog::m_pPeer, ENetWrapper::SendPacket).
RepliesReachSender ==
  \A c \in Conns : \A i \in DOMAIN delivered[c] :
    LET p == delivered[c][i].by IN p = c \/ peerState[p] = "closed"

\* SERVER_HELLO comes once, for the client itself, and before everything else
\* that is meant for it, whatever the worker sends meanwhile
\* (Player::OnConnect before any reply).
HelloFirst ==
  \A c \in Conns : \A i \in DOMAIN delivered[c] :
    LET m == delivered[c][i] IN
    m.kind = "hello" <=> /\ m.by = c
                         /\ \A j \in 1 .. i - 1 : delivered[c][j].by # c

\* The session of a connection, read from its peer and from what it was sent.
Greeted(c) ==
  \E i \in DOMAIN delivered[c] : delivered[c][i] = [kind |-> "hello", by |-> c]
Ended == {"leaving", "zombie", "closed"}
Phase ==
  [c \in Conns |-> IF peerState[c] \in Ended THEN "over"
                   ELSE IF Greeted(c) THEN "open" ELSE "unopened"]
Sess == INSTANCE Sessions WITH
          Replies <- {"registration", "log"},
          phase <- Phase,
          told <- delivered

\* Every client has the session Sessions promises, although one thread greets
\* it while another answers through peers it read from Players whose clients
\* may be gone, and whatever connectIDs the clients choose
\* (ServerPool::ServicePoll, the handlers).
ImplementsSessions == Sess!SessionSpec

\* While an event waits or is handled, or a round of the service thread runs,
\* the Server and its ENetHost exist, even after the console has stopped the
\* instance (the shared_ptr in every queue entry and in the copied map).
ServerOutlivesEvents ==
  queue # << >> \/ worker # NoEvent \/ svc # "head" => host = "alive"

\* An event's Player is the Player of the connection that sent it, and was
\* created before the event was queued: a queued pointer is never wild,
\* though it may be out of date (AddQueue, pAvatar).
EventsNameTheirPlayer ==
  \A i \in DOMAIN queue :
    /\ queue[i].avatar = queue[i].from
    /\ heap[queue[i].avatar] # "none"

\* The player a handler works on has not been deleted, unless its client chose
\* the connectID 0: the queue holds raw pointers (EventPool.cpp:64), and what
\* ServerPool.cpp:97 deletes is whatever stands under the 0 of a reset peer.
OnlyZeroIdDangles ==
  worker # NoEvent /\ heap[worker.avatar] = "deleted"
    => ConnId[worker.avatar] = ZeroId

\* The texts among the packets, and the texts of the events of connection c
\* among events, each in order.
Texts(packets) ==
  Selected(packets, [k \in Packets \ {"badLength", "gamePacket"} |-> k])
TextsOf(c, events) ==
  Selected(events, [e \in [from : {c}, avatar : Conns, text : Packets] |-> e.text])

\* The events of one connection are handled in the order its packets arrived,
\* none twice; and none is lost on the way from the host's inbox through the
\* queue to the handlers while the connection and its Player last
\* (ServerPool::ServicePoll, RECEIVE; EventPool::ServicePoll).
EventsInArrivalOrder ==
  \A c \in Conns :
    LET received == Texts(sent[c])
        queued == TextsOf(c, handled \o queue)
    IN  /\ IsPrefix(queued, received)
        /\ peerState[c] = "connected" /\ heap[c] # "deleted"
             => queued \o Texts(inbox[c]) = received

\* The event queue keeps the promise of EventLog: what is queued is handled in
\* order, one event at a time, none lost and none twice.
ImplementsEventLog == Log!LogSpec

\* A GrowID goes only to a Player whose own client applied for it, and by the
\* event that is at work (OnDialogGrowIDApply).
RegisteredByOwnEvent ==
  [][\A p \in registered' \ registered :
        worker # NoEvent /\ worker.from = p /\ worker.text = "applyOk"]_vars

-----------------------------------------------------------------------------
(* Liveness, under FairSpec.                                               *)

\* The process was lost, or an event nobody handles is at work.
Down == status # "up"
Stalled == \E i \in DOMAIN queue : queue[i].text = "unknown"

\* The n-th event ever queued, if no event up to it lacks a handler, is
\* handled (EventPool::ServicePoll).
MaxEvents == 4
Served(n) ==
  LET events == handled \o queue IN
  ( /\ Len(events) >= n
    /\ \A i \in 1..n : events[i].text # "unknown" )
     ~> (Len(handled) >= n \/ Down)
EventsServedInTurn == \A n \in 1..MaxEvents : Served(n)

\* Every event that was queued is handled, whatever came before it.
EveryEventHandled ==
  \A n \in 1..MaxEvents :
    Len(handled \o queue) >= n ~> (Len(handled) >= n \/ Down)

\* After "shutdown" the last reference goes and the host is destroyed, unless
\* an event without a handler keeps the queue.
ShutdownCompletes == ~listed ~> (host = "destroyed" \/ Stalled \/ Down)

\* A client that connected is greeted, unless its connection ends first or its
\* connectID is that of another Player, for whom the server takes it.
ClientsGreeted ==
  \A c \in Conns :
    peerState[c] = "pending"
      ~> \/ Greeted(c) \/ peerState[c] \in Ended
         \/ players[ConnId[c]] \notin {NoPlayer, c}
         \/ ~listed \/ Down

-----------------------------------------------------------------------------
\* The players the console counts as active are those of clients that are
\* there (PlayerPool::GetActivePlayers, ServerPool.cpp:97).
ActivePlayersPresent ==
  \A id \in Ids : players[id] # NoPlayer => peerState[players[id]] # "closed"

\* A client that is refused for its name is told why: RequestedName.hpp logs
\* to it before it disconnects it.
RefusalIsExplained ==
  \A c \in Conns :
    (\E i \in DOMAIN handled :
        handled[i].from = c /\ handled[i].text = "nameInvalid")
    /\ peerState[c] = "leaving"
      => \E i \in DOMAIN delivered[c] : delivered[c][i].kind = "log"
=============================================================================
