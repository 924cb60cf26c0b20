------------------------------ MODULE EventLog ------------------------------
(***************************************************************************)
(* What the event pool promises the rest of the server: the events that    *)
(* were queued form a log that only grows at its end; one reader works     *)
(* through it in order, on one event at a time, and moves past an event    *)
(* only by finishing it.  Nothing is lost, repeated or overtaken.  The     *)
(* reader may put an event down unfinished; it will then meet it again.    *)
(***************************************************************************)
EXTENDS Naturals, Sequences

CONSTANTS Events, NoEvent

VARIABLES log,      \* every event ever queued
          cursor,   \* how many of them are finished
          current   \* the event being worked on, or NoEvent

logVars == <<log, cursor, current>>

LogInit ==
  /\ log = << >>
  /\ cursor = 0
  /\ current = NoEvent

Accept(e) ==
  /\ log' = Append(log, e)
  /\ UNCHANGED <<cursor, current>>

Begin ==
  /\ current = NoEvent
  /\ cursor < Len(log)
  /\ current' = log[cursor + 1]
  /\ UNCHANGED <<log, cursor>>

Finish ==
  /\ current # NoEvent
  /\ current = log[cursor + 1]
  /\ cursor' = cursor + 1
  /\ current' = NoEvent
  /\ UNCHANGED log

PutDown ==
  /\ current # NoEvent
  /\ current' = NoEvent
  /\ UNCHANGED <<log, cursor>>

LogNext ==
  \/ \E e \in Events : Accept(e)
  \/ Begin
  \/ Finish
  \/ PutDown

LogSpec == LogInit /\ [][LogNext]_logVars
=============================================================================
