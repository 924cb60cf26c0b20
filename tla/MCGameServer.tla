---------------------------- MODULE MCGameServer ----------------------------
(* GameServer on small sets of connections, slots and packets.             *)
EXTENDS GameServerProperties

CONSTANTS c1, c2, c3, s1, s2, id1, id2

\* One client; three visits, of which two carry the same connectID; and two
\* clients, of which one chose 0.
MCOneConn == c1 :> id1
MCSharedId == (c1 :> id1) @@ (c2 :> id2) @@ (c3 :> id1)
MCZeroId == (c1 :> ZeroId) @@ (c2 :> id1)
=============================================================================
