----------------------------- MODULE PlayerPool -----------------------------
(***************************************************************************)
(* The players of one server: PlayerPool::m_players, a map from an ENet    *)
(* connectID to a Player allocated with new, and what the code keeps in a  *)
(* Player that outlives a call: the ENetPeer it was created with and       *)
(* whether it has registered a GrowID (m_tankIDName is not empty).         *)
(*                                                                         *)
(* A Player object is named after the connection whose CONNECT event       *)
(* created it.  The connectID is chosen by the client, so two connections  *)
(* may carry the same one, and one may carry the zero that ENet writes     *)
(* into a peer it resets.                                                  *)
(***************************************************************************)
EXTENDS ENetHost

CONSTANTS Ids,     \* the connectIDs
          ConnId,  \* the connectID each connection carries
          ZeroId,  \* the connectID of a reset peer: 0
          NoSlot   \* the m_pPeer of an object not yet created

ASSUME PoolAssumption ==
  /\ ConnId \in [Conns -> Ids]
  /\ ZeroId \in Ids
  /\ NoSlot \notin Slots

\* nullptr, and the name of no object.
NoPlayer == NoConn

VARIABLES players,     \* m_players: the object under each connectID
          heap,        \* which objects were created and deleted
          pPeer,       \* Peer::m_pPeer of each object
          registered   \* the objects whose m_tankIDName is not empty

poolVars == <<players, heap, pPeer, registered>>

PoolTypeOK ==
  /\ players \in [Ids -> Conns \cup {NoPlayer}]
  /\ heap \in [Conns -> {"none", "live", "deleted"}]
  /\ pPeer \in [Conns -> Slots \cup {NoSlot}]
  /\ registered \subseteq Conns

PoolInit ==
  /\ players = [id \in Ids |-> NoPlayer]
  /\ heap = [p \in Conns |-> "none"]
  /\ pPeer = [p \in Conns |-> NoSlot]
  /\ registered = {}

\* Mutant: the first player of the map is returned, whatever its connectID.
GetPlayerFirst(id) ==
  IF \E i \in Ids : players[i] # NoPlayer
  THEN players[CHOOSE i \in Ids : players[i] # NoPlayer]
  ELSE NoPlayer

\* GetPlayer: the object stored under a connectID, or nullptr.
GetPlayer(id) == players[id]

\* Mutants: the Player is built by Peer's default constructor; the Player is
\* not stored in the map.
NewPlayerNoPeer(p, s) ==
  /\ players' = [players EXCEPT ![ConnId[p]] = p]
  /\ heap' = [heap EXCEPT ![p] = "live"]
  /\ pPeer' = [pPeer EXCEPT ![p] = NoConn]
  /\ UNCHANGED registered
NewPlayerNotStored(p, s) ==
  /\ heap' = [heap EXCEPT ![p] = "live"]
  /\ pPeer' = [pPeer EXCEPT ![p] = s]
  /\ UNCHANGED <<players, registered>>

\* NewPlayer: a Player is allocated and stored under the peer's connectID.
NewPlayer(p, s) ==
  /\ players' = [players EXCEPT ![ConnId[p]] = p]
  /\ heap' = [heap EXCEPT ![p] = "live"]
  /\ pPeer' = [pPeer EXCEPT ![p] = s]
  /\ UNCHANGED registered

\* Mutant: the entry is not erased.
RemovePlayerNoErase(id) ==
  /\ heap' = [heap EXCEPT ![players[id]] = "deleted"]
  /\ UNCHANGED <<players, pPeer, registered>>

\* RemovePlayer, called with the connectID of an object GetPlayer has found:
\* the object is deleted, then its entry is erased.
RemovePlayer(id) ==
  /\ heap' = [heap EXCEPT ![players[id]] = "deleted"]
  /\ players' = [players EXCEPT ![id] = NoPlayer]
  /\ UNCHANGED <<pPeer, registered>>

\* SetTankIDName with a name of a length it accepts.
SetTankIDName(p) ==
  /\ registered' = registered \cup {p}
  /\ UNCHANGED <<players, heap, pPeer>>

\* The map and the heap agree: an entry holds a live object under the
\* connectID it was created with, and every live object has its entry, so
\* nothing is leaked and nothing deleted can be found.
PoolOwnsPlayers ==
  /\ \A id \in Ids : players[id] # NoPlayer =>
        heap[players[id]] = "live" /\ ConnId[players[id]] = id
  /\ \A p \in Conns : heap[p] = "live" => players[ConnId[p]] = p
=============================================================================
