------------------------------ MODULE Sessions ------------------------------
(***************************************************************************)
(* What the server promises one client, whatever the others do and however *)
(* its threads share players, peers and the queue: the connection has one  *)
(* session.  It opens with one greeting; the client's own events are       *)
(* answered from then on and as long as it lasts; when it is over nothing  *)
(* more is said.  A client may be given one GrowID, and that after it was  *)
(* heard.  Answers that were still on their way to an earlier client, and  *)
(* those only, may reach a session in its place.                           *)
(* It does not promise that a client is told anything, nor that a session  *)
(* opens: a client may leave, and the process may be lost.                 *)
(***************************************************************************)
EXTENDS Sequences

CONSTANTS Conns,   \* the connections
          Replies  \* the kinds of message but the greeting

VARIABLES phase,      \* of the session of each connection
          told,       \* what each connection was sent
          registered  \* the connections with a GrowID

sessionVars == <<phase, told, registered>>

\* by is the connection the message was meant for.
Greeting(c) == [kind |-> "hello", by |-> c]
Say(c, m) == told' = [told EXCEPT ![c] = Append(@, m)]

SessionInit ==
  /\ phase = [c \in Conns |-> "unopened"]
  /\ told = [c \in Conns |-> << >>]
  /\ registered = {}

Open(c) ==
  /\ phase[c] = "unopened"
  /\ phase' = [phase EXCEPT ![c] = "open"]
  /\ Say(c, Greeting(c))
  /\ UNCHANGED registered

Tell(c) ==
  /\ phase[c] = "open"
  /\ \E k \in Replies : Say(c, [kind |-> k, by |-> c])
  /\ UNCHANGED <<phase, registered>>

\* An answer for d reaches c, which has taken d's place.
Stray(d, c) ==
  /\ phase[d] = "over" /\ phase[c] # "over"
  /\ \E k \in Replies : Say(c, [kind |-> k, by |-> d])
  /\ UNCHANGED <<phase, registered>>

Register(c) ==
  /\ phase[c] # "unopened"
  /\ c \notin registered
  /\ registered' = registered \cup {c}
  /\ UNCHANGED <<phase, told>>

Close(c) ==
  /\ phase[c] # "over"
  /\ phase' = [phase EXCEPT ![c] = "over"]
  /\ UNCHANGED <<told, registered>>

SessionNext ==
  \E c \in Conns : \/ Open(c) \/ Tell(c) \/ Register(c) \/ Close(c)
                   \/ \E d \in Conns : Stray(d, c)

SessionSpec == SessionInit /\ [][SessionNext]_sessionVars
=============================================================================
