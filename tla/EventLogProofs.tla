--------------------------- MODULE EventLogProofs ---------------------------
(***************************************************************************)
(* The event queue and its worker implement EventLog, and the server       *)
(* outlives its events, for every value of the constants; and clients that *)
(* carry different connectIDs are served in the order they sent.           *)
(***************************************************************************)
EXTENDS GameServerProofs, Recursion

\* Moving the first element of the queue to the end of the history leaves the
\* log that the two form as it was.
LEMMA PopKeepsLog ==
  ASSUME NEW S, NEW h \in Seq(S), NEW q \in Seq(S), q # << >>
  PROVE  Append(h, Head(q)) \o Tail(q) = h \o q
<1>1. Append(h, Head(q)) \o Tail(q) \in Seq(S) /\ h \o q \in Seq(S)
  OBVIOUS
<1>2. Len(Append(h, Head(q)) \o Tail(q)) = Len(h \o q)
  OBVIOUS
<1>3. ASSUME NEW i \in 1..Len(h \o q)
      PROVE  (Append(h, Head(q)) \o Tail(q))[i] = (h \o q)[i]
  <2>1. CASE i <= Len(h)
    BY <2>1
  <2>2. CASE i = Len(h) + 1
    BY <2>2
  <2>3. CASE i > Len(h) + 1
    BY <2>3
  <2> QED
    BY <2>1, <2>2, <2>3
<1> QED
  BY <1>1, <1>2, <1>3, SeqEqual

\* The cursor stands before the front of the queue.
LEMMA CursorAtFront ==
  ASSUME NEW S, NEW h \in Seq(S), NEW q \in Seq(S), q # << >>
  PROVE  /\ Len(h) < Len(h \o q)
         /\ (h \o q)[Len(h) + 1] = Head(q)
  OBVIOUS

-----------------------------------------------------------------------------
\* A step either leaves the three variables of the event pool alone or is one
\* of its four operations.
LEMMA EventSteps ==
  ASSUME TypeInv, [Next]_vars
  PROVE  \/ UNCHANGED eventVars
         \/ \E e \in Events : AddQueue(e)
         \/ TakeFront
         \/ worker # NoEvent /\ PopFront
         \/ worker # NoEvent /\ KeepFront
<1>1. CASE UNCHANGED vars
  BY <1>1 DEF vars, eventVars
<1>2. CASE ServiceThread
  <2>1. ASSUME NEW c \in Conns, PollReceive(c)
        PROVE  \E e \in Events : AddQueue(e)
    <3>1. GetPlayer(ConnId[c]) \in Conns
      BY <2>1, PoolAssumption
      DEF PollReceive, GetPlayer, TypeInv, TypeOK, PoolTypeOK, NoPlayer
    <3>2. Head(inbox[c]) \in Packets
      BY <2>1 DEF PollReceive, DispatchReceive, TypeInv, TypeOK, HostTypeOK
    <3> QED
      BY <2>1, <3>1, <3>2 DEF PollReceive, Events
  <2> QED
    BY <1>2, <2>1
    DEF ServiceThread, RoundBegin, PollConnect, KnownId, MakePlayer, Greet,
        PollDrop, PollDisconnect, PollDone, ServiceDone
<1>3. CASE WorkerThread
  BY <1>3
  DEF WorkerThread, WorkerTakes, Serving, Holding, Finish, Take, Lost,
      HandleNothing, HandleDangling, HandleUnknownAction, HandleUnhandled,
      HandleBadLine, HandleNameThrows, HandleNameIncomplete, HandleNameInvalid,
      Disconnect, HandleNameAccepted, HandleApplyRefused, SendDialog,
      HandleApplyAgain, HandleApplyThrows, HandleApplyAccepted, ReportSuccess
<1>4. CASE Network \/ Console
  BY <1>4
  DEF Network, Traffic, Complete, Console, Shutdown, ServerInfo
<1> QED
  BY <1>1, <1>2, <1>3, <1>4 DEF Next

\* The initial queue and history are an empty log.
LEMMA LogInitially == Init => Log!LogInit
  BY DEF Init, EventInit, Log!LogInit

\* Every step of the server is a step of the log or leaves it alone.
LEMMA LogStep ==
  ASSUME TypeInv, [Next]_vars
  PROVE  [Log!LogNext]_(Log!logVars)
<1>1. queue \in Seq(Events) /\ handled \in Seq(Events)
  BY DEF TypeInv, TypeOK, EventTypeOK
<1>2. CASE UNCHANGED eventVars
  BY <1>2 DEF eventVars, Log!logVars
<1>3. ASSUME NEW e \in Events, AddQueue(e) PROVE Log!Accept(e)
  BY <1>1, <1>3, AppendCat DEF AddQueue, Log!Accept
<1>4. CASE TakeFront
  <2>1. Log!Begin
    BY <1>1, <1>4, CursorAtFront DEF TakeFront, Log!Begin
  <2> QED
    BY <2>1 DEF Log!LogNext
<1>5. CASE worker # NoEvent /\ PopFront
  <2>1. queue # << >> /\ worker = Head(queue)
    BY <1>5 DEF TypeInv, WorksOnFront
  <2>2. handled' \o queue' = handled \o queue
    BY <1>1, <1>5, <2>1, PopKeepsLog DEF PopFront
  <2>3. Len(handled') = Len(handled) + 1
    BY <1>1, <1>5, <2>1 DEF PopFront
  <2>4. Log!Finish
    BY <1>1, <1>5, <2>1, <2>2, <2>3, CursorAtFront DEF PopFront, Log!Finish
  <2> QED
    BY <2>4 DEF Log!LogNext
<1>6. CASE worker # NoEvent /\ KeepFront
  <2>1. Log!PutDown
    BY <1>6 DEF KeepFront, Log!PutDown
  <2> QED
    BY <2>1 DEF Log!LogNext
<1> QED
  BY <1>2, <1>3, <1>4, <1>5, <1>6, EventSteps DEF Log!LogNext

\* The queue and its worker keep the promise of EventLog: every event that is
\* queued is worked on in its turn, and none is lost, repeated or overtaken
\* (EventPool::AddQueue and EventPool::ServicePoll).
THEOREM QueueImplementsLog == Spec => ImplementsEventLog
  BY LogInitially, LogStep, TypeCorrect, PTL
  DEF Spec, ImplementsEventLog, Log!LogSpec

-----------------------------------------------------------------------------
\* A destroyed Server is held by nobody: the console has stopped it, no round
\* is under way and no event is queued.
DestroyedIsUnheld == host = "destroyed" => ~Held(listed, svc, queue)

\* The first state, and every step, keeps that: a step that gives a reference
\* copies it from one that exists, and one that drops a reference looks at
\* those that are left.
LEMMA UnheldInit == Init => DestroyedIsUnheld
  BY DEF Init, DestroyedIsUnheld

\* A step that drops a reference looks at those that are left.
LEMMA UnheldStep ==
  ASSUME TypeInv, DestroyedIsUnheld, [Next]_vars
  PROVE  DestroyedIsUnheld'
<1> USE DEF DestroyedIsUnheld, Held, DropUnlessHeld
<1>1. CASE UNCHANGED vars
  BY <1>1 DEF vars, eventVars, serverVars, serviceVars
<1>2. CASE ServiceThread
  BY <1>2
  DEF ServiceThread, RoundBegin, PollConnect, KnownId, MakePlayer, Greet,
      PollDrop, PollReceive, PollDisconnect, PollDone, ServiceDone, eventVars,
      serverVars, serviceVars
<1>3. CASE WorkerThread
  <2>1. worker # NoEvent => queue # << >>
    BY DEF TypeInv, WorksOnFront
  <2> QED
    BY <1>3, <2>1
    DEF WorkerThread, WorkerTakes, TakeFront, Serving, Holding, Finish,
        PopFront, KeepFront, Take, Lost, HandleNothing, HandleDangling,
        HandleUnknownAction, HandleUnhandled, HandleBadLine, HandleNameThrows,
        HandleNameIncomplete, HandleNameInvalid, Disconnect,
        HandleNameAccepted, HandleApplyRefused, SendDialog, HandleApplyAgain,
        HandleApplyThrows, HandleApplyAccepted, ReportSuccess, eventVars,
        serverVars, serviceVars
<1>4. CASE Network \/ Console
  BY <1>4
  DEF Network, Traffic, Complete, Console, Shutdown, ServerInfo, eventVars,
      serverVars, serviceVars
<1> QED
  BY <1>1, <1>2, <1>3, <1>4 DEF Next

\* The Server and its host exist while an event is queued or handled and while
\* a round of the service thread runs, whenever the console stops it
\* (the shared_ptr of the queue entries and of the copied map).
THEOREM ServerIsHeld == Spec => []ServerOutlivesEvents
<1>1. TypeInv /\ DestroyedIsUnheld => ServerOutlivesEvents
  BY DEF TypeInv, TypeOK, WorksOnFront, DestroyedIsUnheld, Held,
         ServerOutlivesEvents
<1>2. Spec => []DestroyedIsUnheld
  BY UnheldInit, UnheldStep, TypeCorrect, PTL DEF Spec
<1> QED
  BY <1>1, <1>2, TypeCorrect, PTL

-----------------------------------------------------------------------------
(* From the inbox to the handlers.                                         *)

\* What of a packet or of an event counts for the order.
TextOf == [k \in Packets \ {"badLength", "gamePacket"} |-> k]
TextFrom(c) == [e \in [from : {c}, avatar : Conns, text : Packets] |-> e.text]

\* Both functions select packets.
LEMMA TextValues ==
  Values(TextOf, Packets) /\ \A c \in Conns : Values(TextFrom(c), Packets)
  BY DEF Values, TextOf, TextFrom

\* The texts of packets and of events are what these functions select.
LEMMA TextsAre ==
  /\ \A p : Texts(p) = Selected(p, TextOf)
  /\ \A c, s : TextsOf(c, s) = Selected(s, TextFrom(c))
  BY DEF Texts, TextsOf, TextOf, TextFrom

\* A packet that comes in is the last of the texts, or none of them.
LEMMA TextsGrow ==
  ASSUME NEW p \in Seq(Packets), NEW k \in Packets
  PROVE  /\ Texts(p) \in Seq(Packets)
         /\ k \in {"badLength", "gamePacket"} => Texts(Append(p, k)) = Texts(p)
         /\ k \notin {"badLength", "gamePacket"}
              => Texts(Append(p, k)) = Append(Texts(p), k)
<1>1. Values(TextOf, Packets)
  BY TextValues
<1>2. Selected(p, TextOf) \in Seq(Packets)
  BY <1>1, SelectedType
<1>3. CASE k \in {"badLength", "gamePacket"}
  <2>1. k \notin DOMAIN TextOf
    BY <1>3 DEF TextOf
  <2>2. Selected(Append(p, k), TextOf) = Selected(p, TextOf)
    BY <1>1, <2>1, SelectedSkips
  <2> QED
    BY <1>2, <1>3, <2>2, TextsAre
<1>4. CASE k \notin {"badLength", "gamePacket"}
  <2>1. k \in DOMAIN TextOf /\ TextOf[k] = k
    BY <1>4 DEF TextOf
  <2>2. Selected(Append(p, k), TextOf) = Append(Selected(p, TextOf), TextOf[k])
    BY <1>1, <2>1, SelectedKeeps
  <2> QED
    BY <1>2, <1>4, <2>1, <2>2, TextsAre
<1> QED
  BY <1>3, <1>4

\* No packets, no texts.
LEMMA TextsNone == Texts(<< >>) = << >>
  BY TextValues, SelectedEmpty, TextsAre

\* A packet that is dispatched was the first of the texts, or none of them.
LEMMA TextsShrink ==
  ASSUME NEW p \in Seq(Packets), p # << >>
  PROVE  /\ Head(p) \in {"badLength", "gamePacket"} => Texts(p) = Texts(Tail(p))
         /\ Head(p) \notin {"badLength", "gamePacket"}
              => Texts(p) = <<Head(p)>> \o Texts(Tail(p))
<1> DEFINE h == Head(p)
           r == Tail(p)
<1>1. h \in Packets /\ r \in Seq(Packets) /\ <<h>> \in Seq(Packets)
      /\ p = <<h>> \o r
  OBVIOUS
<1>2. << >> \in Seq(Packets) /\ Append(<< >>, h) = <<h>>
  OBVIOUS
<1> HIDE DEF h, r
<1>3. Selected(<<h>> \o r, TextOf) = Selected(<<h>>, TextOf) \o Selected(r, TextOf)
  <2>1. Values(TextOf, Packets)
    BY TextValues
  <2>2. \A s, u \in Seq(Packets) :
          Selected(s \o u, TextOf) = Selected(s, TextOf) \o Selected(u, TextOf)
    BY <2>1, SelectedCat
  <2> QED
    BY <1>1, <2>2
<1>4. Texts(p) = Texts(<<h>>) \o Texts(r)
  BY <1>1, <1>3, TextsAre
<1>5. Texts(r) \in Seq(Packets)
  BY <1>1, TextsGrow
<1>6. /\ h \in {"badLength", "gamePacket"} => Texts(<<h>>) = << >>
      /\ h \notin {"badLength", "gamePacket"} => Texts(<<h>>) = <<h>>
  BY <1>1, <1>2, TextsGrow, TextsNone, ZenonT(40)
<1>7. << >> \o Texts(r) = Texts(r)
  BY <1>5
<1> QED
  BY <1>4, <1>6, <1>7 DEF h, r

\* A new event is the last of its client's and none of the others'.
LEMMA TextsOfGrow ==
  ASSUME NEW s \in Seq(Events), NEW e \in Events, NEW c \in Conns
  PROVE  /\ TextsOf(c, s) \in Seq(Packets)
         /\ e.from # c => TextsOf(c, Append(s, e)) = TextsOf(c, s)
         /\ e.from = c => TextsOf(c, Append(s, e)) = Append(TextsOf(c, s), e.text)
<1>1. Values(TextFrom(c), Packets)
  BY TextValues
<1>2. Selected(s, TextFrom(c)) \in Seq(Packets)
  BY <1>1, SelectedType
<1>3. CASE e.from # c
  <2>1. e \notin DOMAIN TextFrom(c)
    BY <1>3 DEF TextFrom, Events
  <2>2. Selected(Append(s, e), TextFrom(c)) = Selected(s, TextFrom(c))
    BY <1>1, <2>1, SelectedSkips
  <2> QED
    BY <1>2, <1>3, <2>2, TextsAre
<1>4. CASE e.from = c
  <2>1. e \in DOMAIN TextFrom(c) /\ TextFrom(c)[e] = e.text
    BY <1>4 DEF TextFrom, Events
  <2>2. Selected(Append(s, e), TextFrom(c))
          = Append(Selected(s, TextFrom(c)), TextFrom(c)[e])
    BY <1>1, <2>1, SelectedKeeps
  <2> QED
    BY <1>2, <1>4, <2>1, <2>2, TextsAre
<1> QED
  BY <1>3, <1>4

-----------------------------------------------------------------------------
\* What the server knows of a connection's texts, and what came of them.
Known(c) == TextsOf(c, handled \o queue) \o Texts(inbox[c])
Came(c) == Texts(sent[c])

\* The events that were queued stay what they were but for those of a RECEIVE.
LogKept == handled' \o queue' = handled \o queue

\* Taking, popping and putting down leave the log as it was.
LEMMA LogKeeps ==
  ASSUME TypeInv,
         \/ UNCHANGED eventVars \/ TakeFront
         \/ worker # NoEvent /\ (PopFront \/ KeepFront)
  PROVE  LogKept
<1>1. queue \in Seq(Events) /\ handled \in Seq(Events)
      /\ (worker # NoEvent => queue # << >>)
  BY DEF TypeInv, TypeOK, EventTypeOK, WorksOnFront
<1>2. CASE UNCHANGED eventVars \/ TakeFront \/ KeepFront
  BY <1>2 DEF eventVars, TakeFront, KeepFront, LogKept
<1>3. CASE worker # NoEvent /\ PopFront
  BY <1>1, <1>3, PopKeepsLog DEF PopFront, LogKept
<1> QED
  BY <1>2, <1>3

\* What a step does to the packets of the connections and to the log.
LEMMA OrderSteps ==
  ASSUME TypeInv, [Next]_vars
  PROVE  \/ \E c \in Conns : PollReceive(c) \/ PollDrop(c)
         \/ /\ LogKept
            /\ \/ UNCHANGED hostVars
               \/ \E c \in Conns, s \in Slots : Arrive(c, s)
               \/ \E c \in Conns, k \in Packets : Receive(c, k)
               \/ \E c \in Conns : \/ Leave(c) \/ LeavePending(c) \/ Depart(c)
                                   \/ DispatchConnect(c) \/ DispatchDisconnect(c)
               \/ \E s : DisconnectLater(s)
<1>1. CASE UNCHANGED vars
  BY <1>1, LogKeeps DEF vars
<1>2. CASE ServiceThread
  BY <1>2, LogKeeps
  DEF ServiceThread, RoundBegin, PollConnect, KnownId, MakePlayer, Greet,
      PollDisconnect, PollDone, ServiceDone
<1>3. CASE WorkerThread
  BY <1>3, LogKeeps
  DEF WorkerThread, WorkerTakes, Serving, Holding, Finish, Take, Lost,
      HandleNothing, HandleDangling, HandleUnknownAction, HandleUnhandled,
      HandleBadLine, HandleNameThrows, HandleNameIncomplete, HandleNameInvalid,
      Disconnect, HandleNameAccepted, HandleApplyRefused, SendDialog,
      HandleApplyAgain, HandleApplyThrows, HandleApplyAccepted, ReportSuccess
<1>4. CASE Network \/ Console
  BY <1>4, LogKeeps
  DEF Network, Traffic, Complete, Console, Shutdown, ServerInfo
<1> QED
  BY <1>1, <1>2, <1>3, <1>4 DEF Next

\* No deleted player comes back.
LEMMA DeletedStays ==
  ASSUME TypeInv, PoolOwnsPlayers, PlaceInv, [Next]_vars
  PROVE  \A c \in Conns : heap[c] = "deleted" => heap'[c] = "deleted"
<1> USE DEF TypeInv, TypeOK, PoolTypeOK
<1>1. CASE MakePlayer /\ \E s \in Slots : NewPlayer(arrival, s)
  <2>1. heap[arrival] = "none"
    BY <1>1 DEF MakePlayer, PlaceInv
  <2> QED
    BY <1>1, <2>1 DEF NewPlayer
<1>2. CASE RemovePlayer(ZeroId)
  BY <1>2 DEF RemovePlayer
<1> QED
  BY <1>1, <1>2, PoolSteps

\* What was queued is the first of the texts that came; and all of them are
\* known as long as the connection and its player last.
Going == {"idle", "pending", "connected", "leaving"}
OrderInv ==
  \A c \in Conns :
    /\ IsPrefix(TextsOf(c, handled \o queue), Came(c))
    /\ peerState[c] \in Going /\ heap[c] # "deleted" => Known(c) = Came(c)

\* What a prefix is made of.
LEMMA PrefixParts ==
  ASSUME NEW S, NEW r \in Seq(S), NEW p \in Seq(S), NEW q \in Seq(S)
  PROVE  /\ IsPrefix(r, r)
         /\ p \o << >> = p
         /\ IsPrefix(p \o q, r) => IsPrefix(p, r)
<1>1. SubSeq(r, 1, Len(r)) = r /\ p \o << >> = p
  OBVIOUS
<1>2. ASSUME IsPrefix(p \o q, r)
      PROVE  IsPrefix(p, r)
  <2>1. Len(p) <= Len(r) /\ Len(p) <= Len(p \o q)
    BY <1>2 DEF IsPrefix
  <2>2. \A i \in 1 .. Len(p) : (p \o q)[i] = p[i]
    OBVIOUS
  <2>3. \A i \in 1 .. Len(p \o q) : (p \o q)[i] = r[i]
    <3>1. /\ Len(p \o q) <= Len(r) /\ Len(p \o q) \in Nat
          /\ p \o q = SubSeq(r, 1, Len(p \o q))
      BY <1>2 DEF IsPrefix
    <3> DEFINE n == Len(p \o q)
    <3>2. \A i \in 1 .. n : SubSeq(r, 1, n)[i] = r[i]
      <4> HIDE DEF n
      <4> QED
        BY <3>1 DEF n
    <3> QED
      BY <3>1, <3>2
  <2>4. \A i \in 1 .. Len(p) : p[i] = r[i]
    <3> SUFFICES ASSUME NEW i \in 1 .. Len(p) PROVE p[i] = r[i]
      OBVIOUS
    <3>1. i \in 1 .. Len(p \o q)
      BY <2>1
    <3> QED
      BY <2>2, <2>3, <3>1
  <2>5. p = SubSeq(r, 1, Len(p))
    <3>1. SubSeq(r, 1, Len(p)) \in Seq(S) /\ Len(SubSeq(r, 1, Len(p))) = Len(p)
          /\ \A i \in 1 .. Len(p) : SubSeq(r, 1, Len(p))[i] = r[i]
      BY <2>1
    <3> DEFINE u == SubSeq(r, 1, Len(p))
    <3> HIDE DEF u
    <3> QED
      BY <2>4, <3>1, SeqEqual DEF u
  <2> QED
    BY <2>1, <2>5 DEF IsPrefix
<1> QED
  BY <1>1, <1>2 DEF IsPrefix

\* A prefix of a sequence is one of a longer sequence too.
LEMMA PrefixGrows ==
  ASSUME NEW S, NEW r \in Seq(S), NEW p \in Seq(S), NEW k \in S, IsPrefix(p, r)
  PROVE  IsPrefix(p, Append(r, k))
<1>1. Len(p) <= Len(r) /\ p = SubSeq(r, 1, Len(p))
  BY DEF IsPrefix
<1>2. Append(r, k) \in Seq(S) /\ Len(p) <= Len(Append(r, k))
  BY <1>1
<1>3. SubSeq(Append(r, k), 1, Len(p)) \in Seq(S)
      /\ Len(SubSeq(Append(r, k), 1, Len(p))) = Len(p)
      /\ \A i \in 1 .. Len(p) : SubSeq(Append(r, k), 1, Len(p))[i] = r[i]
  BY <1>1, <1>2
<1>4. \A i \in 1 .. Len(p) : p[i] = r[i]
  <2> DEFINE u == SubSeq(r, 1, Len(p))
  <2>1. \A i \in 1 .. Len(p) : u[i] = r[i]
    BY <1>1
  <2>2. p = u
    BY <1>1
  <2> HIDE DEF u
  <2> QED
    BY <2>1, <2>2
<1>5. p = SubSeq(Append(r, k), 1, Len(p))
  <2> DEFINE u == SubSeq(Append(r, k), 1, Len(p))
  <2>1. u \in Seq(S) /\ Len(u) = Len(p) /\ \A i \in 1 .. Len(p) : u[i] = r[i]
    BY <1>3
  <2> HIDE DEF u
  <2>2. p = u
    BY <1>4, <2>1, SeqEqual
  <2> QED
    BY <2>2 DEF u
<1> QED
  BY <1>2, <1>5 DEF IsPrefix

\* Everything known is kept by a step that adds nothing and takes nothing.
LEMMA OrderKept ==
  ASSUME OrderInv, LogKept, UNCHANGED <<inbox, sent>>,
         \A c \in Conns : heap[c] = "deleted" => heap'[c] = "deleted",
         \A c \in Conns : peerState'[c] \in Going => peerState[c] \in Going
  PROVE  OrderInv'
<1>1. \A c \in Conns : Known(c)' = Known(c) /\ Came(c)' = Came(c)
  BY DEF LogKept, Known, Came, Texts, TextsOf
<1>2. \A c \in Conns : TextsOf(c, handled \o queue)'
                          = TextsOf(c, handled \o queue)
  BY DEF LogKept, TextsOf
<1> QED
  BY <1>1, <1>2 DEF OrderInv

\* Every step keeps the order of the texts.
LEMMA OrderStep ==
  ASSUME UniqueIds, TypeInv, PoolOwnsPlayers, PlaceInv, PlayersStay, OrderInv,
         [Next]_vars
  PROVE  OrderInv'
<1> DEFINE log == handled \o queue
<1>1. /\ log \in Seq(Events)
      /\ inbox \in [Conns -> Seq(Packets)] /\ sent \in [Conns -> Seq(Packets)]
      /\ peerState \in [Conns -> PeerStates]
  BY DEF TypeInv, TypeOK, EventTypeOK, HostTypeOK
<1>2. \A c \in Conns : /\ TextsOf(c, log) \in Seq(Packets)
                       /\ Texts(inbox[c]) \in Seq(Packets)
                       /\ Came(c) \in Seq(Packets)
  BY <1>1, SelectedType, TextValues, TextsAre DEF Came
<1>0. \A c \in Conns : heap[c] = "deleted" => heap'[c] = "deleted"
  BY DeletedStays
<1>3. CASE LogKept /\ UNCHANGED hostVars
  BY <1>0, <1>3, OrderKept DEF hostVars
<1>4. ASSUME LogKept, NEW c \in Conns,
             \/ \E s \in Slots : Arrive(c, s)
             \/ LeavePending(c) \/ DispatchConnect(c) \/ DispatchDisconnect(c)
      PROVE  OrderInv'
  <2>1. UNCHANGED <<inbox, sent>>
    BY <1>4 DEF Arrive, LeavePending, DispatchConnect, DispatchDisconnect
  <2>2. \A d \in Conns : peerState'[d] \in Going => peerState[d] \in Going
    BY <1>1, <1>4
    DEF Arrive, LeavePending, DispatchConnect, DispatchDisconnect, Going,
        PeerStates
  <2> QED
    BY <1>0, <1>4, <2>1, <2>2, OrderKept
<1>5. ASSUME LogKept, NEW s, DisconnectLater(s)
      PROVE  OrderInv'
  <2>1. UNCHANGED <<inbox, sent>>
    BY <1>5 DEF DisconnectLater
  <2>2. \A d \in Conns : peerState'[d] \in Going => peerState[d] \in Going
    BY <1>1, <1>5, LaterSteps DEF Occupied, Going, TypeInv, TypeOK
  <2> QED
    BY <1>0, <1>5, <2>1, <2>2, OrderKept
<1>6. ASSUME LogKept, NEW c \in Conns, Leave(c) \/ Depart(c)
      PROVE  OrderInv'
  <2>1. /\ sent' = sent /\ inbox' = [inbox EXCEPT ![c] = << >>]
        /\ peerState' = [peerState EXCEPT ![c] = "zombie"]
    BY <1>6 DEF Leave, Depart
  <2>2. ASSUME NEW d \in Conns
        PROVE  /\ d # c => Known(d)' = Known(d) /\ peerState'[d] = peerState[d]
               /\ Came(d)' = Came(d)
               /\ TextsOf(d, handled' \o queue') = TextsOf(d, log)
    BY <1>1, <1>6, <2>1, <2>2 DEF LogKept, Known, Came, Texts, TextsOf
  <2>3. peerState'[c] \notin Going
    BY <1>1, <2>1 DEF Going
  <2> QED
    BY <1>0, <2>2, <2>3 DEF OrderInv, TextsOf
<1>7. ASSUME LogKept, NEW c \in Conns, NEW k \in Packets, Receive(c, k)
      PROVE  OrderInv'
  <2>1. /\ peerState' = peerState /\ peerState[c] \in Going
        /\ inbox' = [inbox EXCEPT ![c] = Append(@, k)]
        /\ sent' = [sent EXCEPT ![c] = Append(@, k)]
    BY <1>7 DEF Receive, Going
  <2>2. ASSUME NEW d \in Conns, d # c
        PROVE  Known(d)' = Known(d) /\ Came(d)' = Came(d)
    BY <1>1, <1>7, <2>1, <2>2 DEF LogKept, Known, Came, Texts, TextsOf
  <2>3. \A d \in Conns : TextsOf(d, handled' \o queue') = TextsOf(d, log)
    BY <1>7 DEF LogKept
  <2>4. /\ Known(c)' = TextsOf(c, log) \o Texts(Append(inbox[c], k))
        /\ Came(c)' = Texts(Append(sent[c], k))
    BY <1>1, <1>7, <2>1 DEF LogKept, Known, Came, Texts, TextsOf
  <2>5. /\ Known(c) = Came(c) => Known(c)' = Came(c)'
        /\ IsPrefix(TextsOf(c, log), Came(c)')
    <3>1. inbox[c] \in Seq(Packets) /\ sent[c] \in Seq(Packets)
      BY <1>1
    <3>2. IsPrefix(TextsOf(c, log), Came(c))
      BY DEF OrderInv
    <3>3. CASE k \in {"badLength", "gamePacket"}
      <4>1. /\ Texts(Append(inbox[c], k)) = Texts(inbox[c])
            /\ Texts(Append(sent[c], k)) = Texts(sent[c])
        BY <3>1, <3>3, TextsGrow
      <4> QED
        BY <2>4, <3>2, <4>1 DEF Known, Came
    <3>4. CASE k \notin {"badLength", "gamePacket"}
      <4>1. /\ Texts(Append(inbox[c], k)) = Append(Texts(inbox[c]), k)
            /\ Texts(Append(sent[c], k)) = Append(Texts(sent[c]), k)
        BY <3>1, <3>4, TextsGrow
      <4>2. TextsOf(c, log) \o Append(Texts(inbox[c]), k)
              = Append(TextsOf(c, log) \o Texts(inbox[c]), k)
        <5> HIDE DEF log
        <5> QED
          BY <1>2, AppendCat
      <4>3. Known(c)' = Append(Known(c), k) /\ Came(c)' = Append(Came(c), k)
        BY <2>4, <4>1, <4>2 DEF Known, Came
      <4>4. IsPrefix(TextsOf(c, log), Append(Came(c), k))
        <5> HIDE DEF log
        <5> QED
          BY <1>2, <3>2, PrefixGrows
      <4> QED
        BY <4>3, <4>4
    <3> QED
      BY <3>3, <3>4
  <2>6. \A d \in Conns : peerState'[d] \in Going /\ heap'[d] # "deleted"
                           => peerState[d] \in Going /\ heap[d] # "deleted"
    BY <1>0, <2>1
  <2> QED
    BY <2>2, <2>3, <2>5, <2>6 DEF OrderInv, TextsOf
<1>8. ASSUME NEW c \in Conns, PollReceive(c) \/ PollDrop(c)
      PROVE  OrderInv'
  <2>1. /\ peerState' = peerState /\ sent' = sent
        /\ inbox' = [inbox EXCEPT ![c] = Tail(@)]
        /\ inbox[c] # << >> /\ peerState[c] = "connected"
        /\ svc = "poll" /\ UNCHANGED heap
    BY <1>8 DEF PollReceive, PollDrop, DispatchReceive, poolVars
  <2>2. inbox[c] \in Seq(Packets) /\ Head(inbox[c]) \in Packets
        /\ Texts(Tail(inbox[c])) \in Seq(Packets)
    <3>1. inbox[c] \in Seq(Packets) /\ Head(inbox[c]) \in Packets
          /\ Tail(inbox[c]) \in Seq(Packets)
      BY <1>1, <2>1
    <3> QED
      BY <3>1, SelectedType, TextValues, TextsAre
  <2>4. CASE PollDrop(c)
    <3>1. queue' = queue /\ handled' = handled
      BY <2>4 DEF PollDrop, eventVars
    <3>2. Head(inbox[c]) \in {"badLength", "gamePacket"} \/ heap[c] = "deleted"
      <4>1. heap[c] \in {"live", "deleted"}
        BY <2>1 DEF PlayersStay, Joined, TypeInv, TypeOK, PoolTypeOK
      <4>2. heap[c] = "live" => GetPlayer(ConnId[c]) # NoPlayer
        BY HostAssumption DEF PoolOwnsPlayers, GetPlayer, NoPlayer
      <4> QED
        BY <2>4, <4>1, <4>2 DEF PollDrop
    <3>3. heap[c] # "deleted" => Texts(Tail(inbox[c])) = Texts(inbox[c])
      BY <2>1, <2>2, <3>2, TextsShrink
    <3>4. \A d \in Conns : heap[d] # "deleted" => Texts(inbox'[d]) = Texts(inbox[d])
      BY <1>1, <2>1, <3>3
    <3>5. /\ \A d \in Conns : heap[d] # "deleted" => Known(d)' = Known(d)
          /\ \A d \in Conns : Came(d)' = Came(d)
      BY <2>1, <3>1, <3>4 DEF Known, Came, Texts, TextsOf
    <3> QED
      BY <2>1, <3>1, <3>5 DEF OrderInv, TextsOf
  <2>5. CASE PollReceive(c)
    <3> DEFINE k == Head(inbox[c])
               e == [from |-> c, avatar |-> c, text |-> k]
    <3>0. GetPlayer(ConnId[c]) = c /\ heap[c] = "live"
      BY <2>5, ReceiverLives DEF UniqueIds
    <3>1. /\ k \notin {"badLength", "gamePacket"} /\ k \in Packets
          /\ queue' = Append(queue, e) /\ handled' = handled
      BY <2>2, <2>5, <3>0 DEF PollReceive, AddQueue
    <3>2. e \in Events /\ e.from = c /\ e.text = k
      BY <3>1 DEF Events
    <3> HIDE DEF k, e
    <3>3. handled' \o queue' = Append(log, e)
      <4>1. queue \in Seq(Events) /\ handled \in Seq(Events)
        BY DEF TypeInv, TypeOK, EventTypeOK
      <4> QED
        BY <3>1, <3>2, <4>1, AppendCat
    <3> HIDE DEF log
    <3>4. ASSUME NEW d \in Conns, d # c
          PROVE  /\ Known(d)' = Known(d) /\ Came(d)' = Came(d)
                 /\ TextsOf(d, handled' \o queue') = TextsOf(d, log)
      <4>1. TextsOf(d, Append(log, e)) = TextsOf(d, log)
        BY <1>1, <3>2, <3>4, TextsOfGrow
      <4>2. inbox'[d] = inbox[d]
        BY <1>1, <2>1, <3>4
      <4> QED
        BY <2>1, <3>3, <4>1, <4>2 DEF Known, Came, Texts, TextsOf, log
    <3>5. /\ Known(c)' = Known(c) /\ Came(c)' = Came(c)
          /\ Known(c)' = TextsOf(c, handled' \o queue') \o Texts(Tail(inbox[c]))
      <4> DEFINE a == TextsOf(c, log)
                 b == Texts(Tail(inbox[c]))
      <4>1. TextsOf(c, Append(log, e)) = Append(a, k)
        BY <1>1, <3>2, TextsOfGrow
      <4>2. Texts(inbox[c]) = <<k>> \o b
        BY <2>1, <2>2, <3>1, TextsShrink DEF k
      <4>3. Texts(inbox'[c]) = b
        BY <1>1, <2>1
      <4>4. a \in Seq(Packets) /\ b \in Seq(Packets) /\ k \in Packets
        BY <1>2, <2>2, <3>1
      <4>5. Known(c)' = Append(a, k) \o b
        BY <3>3, <4>1, <4>3 DEF Known, Texts, TextsOf
      <4>6. Known(c) = a \o (<<k>> \o b)
        BY <4>2 DEF Known, log
      <4> HIDE DEF a, b
      <4>7. Append(a, k) \o b = a \o (<<k>> \o b)
        BY <4>4
      <4>8. Known(c)' = Known(c) /\ Came(c)' = Came(c)
        BY <2>1, <4>5, <4>6, <4>7 DEF Came, Texts
      <4>9. TextsOf(c, handled' \o queue') = Append(a, k)
        BY <3>3, <4>1
      <4> QED
        BY <4>5, <4>8, <4>9 DEF b
    <3>6. Known(c) = Came(c)
      BY <2>1, <3>0 DEF OrderInv, Going
    <3>7. IsPrefix(TextsOf(c, handled' \o queue'), Came(c))
      <4> DEFINE q == TextsOf(c, handled' \o queue')
                 b == Texts(Tail(inbox[c]))
                 r == Came(c)
      <4>1. q \in Seq(Packets)
        <5>1. Append(log, e) \in Seq(Events)
          BY <1>1, <3>2
        <5> QED
          BY <3>3, <5>1, SelectedType, TextValues, TextsAre
      <4>2. b \in Seq(Packets) /\ r \in Seq(Packets) /\ r = q \o b
        BY <1>2, <2>2, <3>5, <3>6
      <4> HIDE DEF q, b, r
      <4>3. IsPrefix(q \o b, r)
        BY <4>2, PrefixParts
      <4>4. IsPrefix(q, r)
        BY <4>1, <4>2, <4>3, PrefixParts
      <4> QED
        BY <4>4 DEF q, r
    <3> QED
      BY <2>1, <3>4, <3>5, <3>6, <3>7 DEF OrderInv, TextsOf, log
  <2> QED
    BY <1>8, <2>4, <2>5
<1> QED
  BY <1>3, <1>4, <1>5, <1>6, <1>7, <1>8, OrderSteps

\* Where the clients carry different connectIDs, the texts of each are handled
\* in the order they came, none twice, and none is left out while its client
\* and its player last (ServerPool::ServicePoll, RECEIVE;
\* EventPool::ServicePoll).
THEOREM ArrivalOrder ==
  ASSUME UniqueIds
  PROVE  Spec => []EventsInArrivalOrder
<1>1. Init => OrderInv
  <2> SUFFICES ASSUME Init, NEW c \in Conns
               PROVE  /\ Known(c) = << >> /\ Came(c) = << >>
                      /\ TextsOf(c, handled \o queue) = << >>
    <3>1. << >> \in Seq(Packets)
      OBVIOUS
    <3>2. IsPrefix(<< >>, << >>)
      BY <3>1, PrefixParts
    <3> QED
      BY <3>2 DEF OrderInv
  <2>1. handled \o queue = << >> /\ inbox[c] = << >> /\ sent[c] = << >>
    BY DEF Init, HostInit, EventInit
  <2>2. TextsOf(c, << >>) = << >>
    BY TextValues, SelectedEmpty, TextsAre
  <2>3. << >> \o << >> = << >>
    OBVIOUS
  <2> QED
    BY <2>1, <2>2, <2>3, TextsNone DEF Known, Came
<1>2. TypeInv /\ PoolOwnsPlayers /\ PlaceInv /\ PlayersStay /\ OrderInv
        /\ [Next]_vars => OrderInv'
  BY OrderStep
<1>3. OrderInv => EventsInArrivalOrder
  BY DEF OrderInv, EventsInArrivalOrder, Known, Came, Going
<1> QED
  BY <1>1, <1>2, <1>3, TypeCorrect, PoolIsConsistent, PlaceHolds, StayHolds,
     PTL DEF Spec
=============================================================================
