----------------------------- MODULE EventPool -----------------------------
(***************************************************************************)
(* The event pool: the deque m_workerQueue between the service thread,     *)
(* which pushes the text packets of the clients, and the worker thread of  *)
(* EventPool::ServicePoll, which copies the front, runs its handler and    *)
(* pops it.  An entry carries the raw Player pointer it was queued with.   *)
(***************************************************************************)
EXTENDS PlayerPool

CONSTANT NoEvent   \* the worker holds no event

\* An entry of the queue.  text stands for the event name and its parsed
\* data, avatar is the Player pointer, and from, which the code does not
\* keep, is the connection whose packet it was.
Events == [from : Conns, avatar : Conns, text : Packets]

ASSUME EventAssumption == NoEvent \notin Events

VARIABLES queue,    \* m_workerQueue
          worker,   \* the event the worker has copied from the front
          handled   \* history: the events popped, in the order of popping

eventVars == <<queue, worker, handled>>

EventTypeOK ==
  /\ queue \in Seq(Events)
  /\ worker \in Events \cup {NoEvent}
  /\ handled \in Seq(Events)

EventInit ==
  /\ queue = << >>
  /\ worker = NoEvent
  /\ handled = << >>

\* Mutant: push_front.
AddQueueFront(e) ==
  /\ queue' = <<e>> \o queue
  /\ UNCHANGED <<worker, handled>>

\* AddQueue: m_workerQueue.push_back.
AddQueue(e) ==
  /\ queue' = Append(queue, e)
  /\ UNCHANGED <<worker, handled>>

\* The queue is not empty: the front is copied, and stays in the queue.
TakeFront ==
  /\ worker = NoEvent
  /\ queue # << >>
  /\ worker' = Head(queue)
  /\ UNCHANGED <<queue, handled>>

\* The handler has returned: m_workerQueue.pop_front.
PopFront ==
  /\ queue' = Tail(queue)
  /\ worker' = NoEvent
  /\ handled' = Append(handled, Head(queue))

\* Mutant: the event is dropped.
DropFront ==
  /\ queue' = Tail(queue)
  /\ worker' = NoEvent
  /\ UNCHANGED handled

\* No handler has that name: the loop continues, and the front stays.
KeepFront ==
  /\ worker' = NoEvent
  /\ UNCHANGED <<queue, handled>>

\* The worker works on the front of the queue and on nothing else: the copy
\* it took is still there when the handler returns, so pop_front removes the
\* event that was handled.
WorksOnFront == worker # NoEvent => queue # << >> /\ worker = Head(queue)

-----------------------------------------------------------------------------
\* The queue is a log read by a cursor: the history and the queue form the
\* log, the cursor stands between them.
Log == INSTANCE EventLog WITH
         log <- handled \o queue,
         cursor <- Len(handled),
         current <- worker
=============================================================================
