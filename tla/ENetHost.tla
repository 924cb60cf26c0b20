------------------------------ MODULE ENetHost ------------------------------
(***************************************************************************)
(* The ENet host below one game server, as the code in src/ uses it.  The  *)
(* library itself is external: what is modelled is the life of a peer and  *)
(* the events enet_host_check_events hands to ServerPool::ServicePoll.     *)
(*                                                                         *)
(* A connection is one client's visit.  It occupies one ENetPeer slot of   *)
(* the host from the connect request until its DISCONNECT event has been   *)
(* returned; the slot is then given to a later connection.                 *)
(*                                                                         *)
(*   idle       the client has not connected                               *)
(*   pending    handshake done, CONNECT event not yet dispatched           *)
(*   connected  CONNECT dispatched; packets are dispatched, sends accepted *)
(*   leaving    enet_peer_disconnect_later was called; neither is any more *)
(*   zombie     gone, DISCONNECT event not yet dispatched                  *)
(*   closed     the slot is free again                                     *)
(***************************************************************************)
EXTENDS Naturals, Sequences

CONSTANTS Conns,     \* the client connections that may be made
          Slots,     \* the ENetPeer slots of the host (0xFF in the code)
          Packets,   \* the kinds of packet a client may send
          NoConn,    \* the owner of a free slot
          MaxSends   \* bound: packets that arrive from one connection

ASSUME HostAssumption ==
  /\ NoConn \notin Conns
  /\ MaxSends \in Nat

VARIABLES peerState,  \* state of each connection
          owner,      \* the connection that occupies each slot
          inbox,      \* packets of a connection received and not dispatched
          sent        \* history: every packet received from a connection

hostVars == <<peerState, owner, inbox, sent>>

PeerStates == {"idle", "pending", "connected", "leaving", "zombie", "closed"}

\* The states in which a connection occupies a slot.
Present == {"pending", "connected", "leaving", "zombie"}

HostTypeOK ==
  /\ peerState \in [Conns -> PeerStates]
  /\ owner \in [Slots -> Conns \cup {NoConn}]
  /\ inbox \in [Conns -> Seq(Packets)]
  /\ sent \in [Conns -> Seq(Packets)]

HostInit ==
  /\ peerState = [c \in Conns |-> "idle"]
  /\ owner = [s \in Slots |-> NoConn]
  /\ inbox = [c \in Conns |-> << >>]
  /\ sent = [c \in Conns |-> << >>]

Release(c) == [s \in Slots |-> IF owner[s] = c THEN NoConn ELSE owner[s]]

-----------------------------------------------------------------------------
(* What happens inside enet_host_service.                                  *)

\* A connect request is accepted into a free slot.
Arrive(c, s) ==
  /\ peerState[c] = "idle"
  /\ owner[s] = NoConn
  /\ peerState' = [peerState EXCEPT ![c] = "pending"]
  /\ owner' = [owner EXCEPT ![s] = c]
  /\ UNCHANGED <<inbox, sent>>

\* A packet is received; ENet takes packets of connected peers only.
Receive(c, k) ==
  /\ peerState[c] = "connected"
  /\ Len(sent[c]) < MaxSends
  /\ inbox' = [inbox EXCEPT ![c] = Append(@, k)]
  /\ sent' = [sent EXCEPT ![c] = Append(@, k)]
  /\ UNCHANGED <<peerState, owner>>

\* The client of a connected peer leaves or times out: what it sent and was
\* not dispatched is dropped.
Leave(c) ==
  /\ peerState[c] = "connected"
  /\ peerState' = [peerState EXCEPT ![c] = "zombie"]
  /\ inbox' = [inbox EXCEPT ![c] = << >>]
  /\ UNCHANGED <<owner, sent>>

\* A peer whose CONNECT was never dispatched is reset without any event.
LeavePending(c) ==
  /\ peerState[c] = "pending"
  /\ peerState' = [peerState EXCEPT ![c] = "closed"]
  /\ owner' = Release(c)
  /\ UNCHANGED <<inbox, sent>>

\* A disconnect asked for by the server completes (acknowledged or timed out).
Depart(c) ==
  /\ peerState[c] = "leaving"
  /\ peerState' = [peerState EXCEPT ![c] = "zombie"]
  /\ inbox' = [inbox EXCEPT ![c] = << >>]
  /\ UNCHANGED <<owner, sent>>

-----------------------------------------------------------------------------
(* The events enet_host_check_events returns.                              *)

DispatchConnect(c) ==
  /\ peerState[c] = "pending"
  /\ peerState' = [peerState EXCEPT ![c] = "connected"]
  /\ UNCHANGED <<owner, inbox, sent>>

DispatchReceive(c) ==
  /\ peerState[c] = "connected"
  /\ inbox[c] # << >>
  /\ inbox' = [inbox EXCEPT ![c] = Tail(@)]
  /\ UNCHANGED <<peerState, owner, sent>>

\* The peer is reset before the event is returned: its slot is free.
DispatchDisconnect(c) ==
  /\ peerState[c] = "zombie"
  /\ peerState' = [peerState EXCEPT ![c] = "closed"]
  /\ owner' = Release(c)
  /\ UNCHANGED <<inbox, sent>>

\* enet_host_check_events returns 0.
NothingToDispatch ==
  \A c \in Conns :
    /\ peerState[c] \notin {"pending", "zombie"}
    /\ peerState[c] = "connected" => inbox[c] = << >>

-----------------------------------------------------------------------------
(* The calls of the server on a peer slot.                                 *)

Occupied(s, state) ==
  /\ s \in Slots
  /\ owner[s] # NoConn
  /\ peerState[owner[s]] = state

\* enet_peer_send queues a packet for connected peers only.
Accepts(s) == Occupied(s, "connected")

\* enet_peer_disconnect_later: a connected peer is told to go; one whose
\* CONNECT was never dispatched is reset, and no event tells of it.
DisconnectLater(s) ==
  /\ UNCHANGED <<inbox, sent>>
  /\ \/ /\ Accepts(s)
        /\ peerState' = [peerState EXCEPT ![owner[s]] = "leaving"]
        /\ UNCHANGED owner
     \/ /\ Occupied(s, "pending")
        /\ peerState' = [peerState EXCEPT ![owner[s]] = "closed"]
        /\ owner' = Release(owner[s])
     \/ /\ ~Accepts(s) /\ ~Occupied(s, "pending")
        /\ UNCHANGED <<peerState, owner>>
=============================================================================
