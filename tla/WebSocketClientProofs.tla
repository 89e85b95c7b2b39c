------------------------ MODULE WebSocketClientProofs ------------------------
(***************************************************************************)
(* Proofs about the websocket client: SessionEvents, WireOrder and         *)
(* ResourcesAccounted for any number of messages, pings and frames, any    *)
(* number of fragments and any options.  The invariant says where each of  *)
(* the three threads may be when close(), the handshake and the reader     *)
(* meet.                                                                   *)
(***************************************************************************)
EXTENDS WebSocketClient, FiniteSetTheorems, FunctionTheorems, SequenceTheorems, TLAPS

(* The parts of the invariant. *)

\* The points of the worker before the session is open, those at which it has
\* tested stop_ with the socket published, and those before its first event.
Handshake == {"request", "headers", "openState"}
Opening == Handshake \cup {"start", "connect", "connected"}
Silent == Opening \cup {"failError", "openEvent"}

Events == [kind : {"open", "error", "message", "close"}, by : {"worker", "reader", "final"}]
Sendings == [kind : {"data", "close"}, msg : 0..MaxWork, by : {"worker", "script"}]

\* Types, and the room that a counter still has when a step is to raise it.
Types ==
    /\ TypeOK /\ inQ \in Seq(Events) /\ wire \in Seq(Sendings)
    /\ buffered <= sends
    /\ At("worker", "ping") => pings < MaxWork
    /\ At("script", "sendPush") => sends > 0

\* The reader has announced the end of the session by the event e.
PeerClosed(e) == e.kind = "close" /\ e.by = "reader"
HasClose == \E i \in DOMAIN inQ : inQ[i].kind = "close"

\* What the queue of events holds, from where the worker and the reader are.
EventLine ==
    /\ pc.worker \in Silent \cup {"failClose"} => At("reader", "none")
    /\ pc.worker \in Silent <=> inQ = <<>>
    /\ At("worker", "failClose") => Len(inQ) = 1 /\ inQ[1].kind = "error"
    /\ inQ # <<>> /\ inQ[1].kind = "error" /\ ~At("worker", "failClose") =>
          /\ At("reader", "none") /\ pc.worker \in {"failState", "done"}
          /\ Len(inQ) = 2 /\ inQ[2].kind = "close"
    /\ \A i \in DOMAIN inQ : PeerClosed(inQ[i]) =>
          pc.reader \in {"closeState", "closeStop", "emitState", "emitStop", "done"}
    /\ \/ state = "closed"
       \/ pc.worker \in {"emitState", "emitStop", "failState", "done"}
       \/ pc.reader \in {"emitState", "emitStop", "closeState", "closeStop"}
       => HasClose

\* The socket exists from the connection on, and after the destructor has
\* closed it only a worker that has just connected still holds an open one.
SocketUse ==
    /\ pc.worker \in {"start", "connect"} => sock = "none"
    /\ sock = "none" => /\ state # "open"
                        /\ pc.worker \in {"start", "connect", "failError", "failClose", "failState", "done"}
    /\ pc.script \in {"destroyNotify", "join", "gone"} => stop
    /\ pc.script \in {"join", "gone"} => sock # "open" \/ At("worker", "connected")
    /\ At("script", "gone") => At("worker", "done")

\* What send and close know of the handshake from the state they have loaded.
CallPoints ==
    /\ pc.worker \in Opening => state \in {"connecting", "closing"}
    /\ pc.script \in {"closeStore", "closePush"} /\ closeFrom = "open" => pc.worker \notin Opening
    /\ At("script", "sendPush") => pc.worker \notin Opening
    /\ At("script", "closePush") /\ closeFrom = "open" => state # "open"

\* The close frame of close() has left the queue, or is in it.
CloseGone == \/ pc.worker \in {"sendClose", "sentClose"}
             \/ \E k \in DOMAIN wire : wire[k].by = "script"
CloseSeen == CloseGone \/ \E i \in DOMAIN outQ : outQ[i] = CloseOp
\* close() is about to close the socket.
Cutting == pc.script \in {"closeStop", "closeSock"}
Shut == sock = "closed"

\* Once close() has queued its frame, a session that is (or will be) open all
\* the same has its socket closed before anything can be sent behind it.
CloseCuts ==
    /\ CloseSeen /\ state = "open" /\ ~Cutting => Shut
    /\ CloseSeen /\ At("script", "sendPush") => Shut
    /\ CloseSeen /\ pc.worker \in Handshake /\ ~Cutting => Shut
    /\ CloseSeen /\ pc.worker \in Opening /\ ~At("script", "closeStop") => stop
    /\ \A i, j \in DOMAIN outQ : i < j /\ outQ[i] = CloseOp /\ outQ[j] # CloseOp => Shut
    /\ \A i \in DOMAIN outQ : CloseGone /\ outQ[i] # CloseOp => Shut
    /\ CloseGone /\ At("worker", "sendData") => Shut

\* m has been accepted by send, and is not the message about to be queued.
Queued(m) == m <= sends /\ (At("script", "sendPush") => m < sends)

\* Messages are numbered along the wire, the worker's hands and the queue.
SendOrder ==
    /\ \A i, j \in DOMAIN outQ :
          i < j /\ outQ[i] # CloseOp /\ outQ[j] # CloseOp => outQ[i] < outQ[j]
    /\ \A i \in DOMAIN outQ : Queued(outQ[i])
    /\ \A i \in DOMAIN outQ : outQ[i] # CloseOp /\ At("worker", "sendData") => cur.msg < outQ[i]
    /\ At("worker", "sendData") => cur.msg # CloseOp /\ Queued(cur.msg)
    /\ \A k \in DOMAIN wire : wire[k].kind = "data" =>
          /\ Queued(wire[k].msg)
          /\ At("worker", "sendData") => wire[k].msg <= cur.msg
          /\ \A i \in DOMAIN outQ : outQ[i] # CloseOp => wire[k].msg < outQ[i]

IInv ==
    /\ Types /\ BufferedExact
    /\ EventLine /\ SessionEvents
    /\ SocketUse /\ CallPoints
    /\ CloseCuts /\ SendOrder /\ WireOrder

-----------------------------------------------------------------------------
(* How many messages the queue holds. *)

Messages(q) == {i \in DOMAIN q : q[i] # CloseOp}

\* The number of messages in a queue is a number.
LEMMA CountType ==
    ASSUME NEW q \in Seq(0..MaxWork)
    PROVE  IsFiniteSet(Messages(q)) /\ Cardinality(Messages(q)) \in Nat
  <1>1. Len(q) \in Int /\ 1 \in Int
    OBVIOUS
  <1>2. IsFiniteSet(1..Len(q)) /\ Messages(q) \in SUBSET (1..Len(q))
    <2>1. IsFiniteSet(1..Len(q))
      BY <1>1, FS_Interval
    <2> QED
      BY <2>1 DEF Messages
  <1>3. IsFiniteSet(Messages(q))
    BY <1>2, FS_Subset
  <1> QED
    BY <1>3, FS_CardinalityType

\* A message appended to the queue is counted, a close frame is not.
LEMMA CountAppend ==
    ASSUME NEW q \in Seq(0..MaxWork), NEW m \in 0..MaxWork
    PROVE  Cardinality(Messages(Append(q, m))) =
             Cardinality(Messages(q)) + (IF m # CloseOp THEN 1 ELSE 0)
  <1>1. IsFiniteSet(Messages(q)) /\ Len(q) + 1 \notin Messages(q)
    BY CountType DEF Messages
  <1>2. Messages(Append(q, m)) = IF m # CloseOp THEN Messages(q) \cup {Len(q) + 1} ELSE Messages(q)
    <2>1. /\ DOMAIN Append(q, m) = DOMAIN q \cup {Len(q) + 1} /\ Append(q, m)[Len(q) + 1] = m
          /\ \A i \in DOMAIN q : Append(q, m)[i] = q[i]
      OBVIOUS
    <2> QED
      BY <2>1 DEF Messages
  <1>3. Cardinality(Messages(q) \cup {Len(q) + 1}) = Cardinality(Messages(q)) + 1
    BY <1>1, FS_AddElement
  <1>4. Cardinality(Messages(q)) \in Nat
    BY CountType
  <1> QED
    BY <1>2, <1>3, <1>4

\* A message taken from the front of the queue is no longer counted.
LEMMA CountTail ==
    ASSUME NEW q \in Seq(0..MaxWork), q # <<>>
    PROVE  Cardinality(Messages(q)) =
             Cardinality(Messages(Tail(q))) + (IF q[1] # CloseOp THEN 1 ELSE 0)
  <1> DEFINE M == Messages(Tail(q))
             R == Messages(q) \ {1}
             f == [i \in M |-> i + 1]
  <1>1. Tail(q) \in Seq(0..MaxWork) /\ \A i : i \in DOMAIN Tail(q) <=> i \in Nat
          /\ i + 1 \in DOMAIN q /\ i # 0
    OBVIOUS
  <1>2. \A i \in DOMAIN Tail(q) : Tail(q)[i] = q[i + 1] /\ i \in Nat
    OBVIOUS
  <1>3. f \in [M -> R]
    BY <1>1, <1>2 DEF Messages
  <1>4. \A i, j \in M : f[i] = f[j] => i = j
    BY <1>1 DEF Messages
  <1>5. \A k \in R : \E i \in M : f[i] = k
    <2> SUFFICES ASSUME NEW k \in R PROVE \E i \in M : f[i] = k
      OBVIOUS
    <2>1. k \in DOMAIN q /\ k # 1 /\ q[k] # CloseOp /\ k \in Nat /\ k - 1 \in Nat /\ k - 1 # 0
            /\ (k - 1) + 1 = k
      BY DEF Messages
    <2>2. k - 1 \in M
      BY <1>1, <1>2, <2>1 DEF Messages
    <2> QED
      BY <2>1, <2>2
  <1>6. ExistsBijection(M, R)
    <2> HIDE DEF f
    <2>1. f \in Bijection(M, R)
      BY <1>3, <1>4, <1>5 DEF Bijection, Injection, Surjection, IsInjective
    <2> QED
      BY <2>1 DEF ExistsBijection
  <1>7. IsFiniteSet(M) /\ Cardinality(M) \in Nat
    BY <1>1, CountType
  <1>8. Cardinality(R) = Cardinality(M)
    BY <1>6, <1>7, FS_Bijection
  <1>9. IsFiniteSet(Messages(q)) /\ Cardinality(Messages(q)) \in Nat
    BY CountType
  <1>10. Cardinality(R) = IF 1 \in Messages(q) THEN Cardinality(Messages(q)) - 1 ELSE Cardinality(Messages(q))
    BY <1>9, FS_RemoveElement
  <1>11. 1 \in Messages(q) <=> q[1] # CloseOp
    BY DEF Messages
  <1> QED
    BY <1>7, <1>8, <1>9, <1>10, <1>11

-----------------------------------------------------------------------------
(* One lemma for each part of the invariant. *)

\* The counters of TypeOK, and the room they have.
Counts ==
    /\ received \in 0..MaxWork /\ pings \in 0..MaxWork /\ sends \in 0..MaxWork
    /\ buffered \in 0..MaxWork /\ spoilt \in 0..MaxWork
    /\ cur \in [msg : 0..MaxWork, part : 1..Fragments]
    /\ buffered <= sends
    /\ At("worker", "ping") => pings < MaxWork
    /\ At("script", "sendPush") => sends > 0

\* The flags of TypeOK.
Flags ==
    /\ opt \in Options /\ stop \in BOOLEAN /\ awaiting \in BOOLEAN
    /\ assembling \in BOOLEAN
    /\ state \in States /\ closeFrom \in {"connecting", "open"}
    /\ sock \in {"none", "open", "closed"} /\ link \in {"up", "dropped"}

\* Every thread stays at a point of its own.
LEMMA PointsStep ==
    ASSUME IInv, [Next]_vars
    PROVE  pc' \in [script : ScriptPoints, worker : WorkerPoints, reader : ReaderPoints]
  <1> USE DEF vars, cliVars, wrkVars, netVars, scriptRest, emitRest, handshakeRest,
     openRest, writerRest, readerRest, At, Goto
  <1>p. pc \in [script : ScriptPoints, worker : WorkerPoints, reader : ReaderPoints]
    BY DEF IInv, Types, TypeOK
  <1>1. CASE SendPush
    BY <1>1, <1>p DEF ScriptPoints, WorkerPoints, ReaderPoints, EmitPoints, SendPush,
       Woken, OutMuFree
  <1>2. CASE ClosePush
    BY <1>2, <1>p DEF ScriptPoints, WorkerPoints, ReaderPoints, EmitPoints, ClosePush,
       Woken, OutMuFree
  <1>3. CASE RuntimePump
    BY <1>3, <1>p DEF ScriptPoints, WorkerPoints, ReaderPoints, EmitPoints, RuntimePump,
       Woken
  <1>4. CASE DestroyNotify
    BY <1>4, <1>p DEF ScriptPoints, WorkerPoints, ReaderPoints, EmitPoints, DestroyNotify,
       Woken, OutMuFree, Closed
  <1>5. ASSUME NEW t \in Emitters, EmitStop(t)
        PROVE  pc' \in [script : ScriptPoints, worker : WorkerPoints, reader : ReaderPoints]
    BY <1>5, <1>p DEF ScriptPoints, WorkerPoints, ReaderPoints, EmitPoints, EmitStop,
       Woken, Closed, Emitters
  <1>6. CASE ReaderClose
    <2>1. CASE At("reader", "closeLoad")
      BY <1>6, <2>1, <1>p DEF ScriptPoints, WorkerPoints, ReaderPoints, EmitPoints,
         ReaderClose, Woken, Sent, Frame, Push, Event
    <2>2. CASE At("reader", "echo")
      BY <1>6, <2>2, <1>p DEF ScriptPoints, WorkerPoints, ReaderPoints, EmitPoints,
         ReaderClose, Woken, Sent, Frame, Push, Event
    <2>3. CASE At("reader", "closePush")
      BY <1>6, <2>3, <1>p DEF ScriptPoints, WorkerPoints, ReaderPoints, EmitPoints,
         ReaderClose, Woken, Sent, Frame, Push, Event
    <2>4. CASE At("reader", "closeState")
      BY <1>6, <2>4, <1>p DEF ScriptPoints, WorkerPoints, ReaderPoints, EmitPoints,
         ReaderClose, Woken, Sent, Frame, Push, Event
    <2>5. CASE At("reader", "closeStop")
      BY <1>6, <2>5, <1>p DEF ScriptPoints, WorkerPoints, ReaderPoints, EmitPoints,
         ReaderClose, Woken, Sent, Frame, Push, Event
    <2> QED
      BY <1>6, <2>1, <2>2, <2>3, <2>4, <2>5 DEF ReaderClose
  <1>7. ASSUME NEW t \in Emitters, EmitFrame(t) \/ EmitPush(t) \/ EmitState(t) PROVE pc'
     \in [script : ScriptPoints, worker : WorkerPoints, reader : ReaderPoints]
    BY <1>7, <1>p DEF ScriptPoints, WorkerPoints, ReaderPoints, EmitPoints, EmitFrame,
       Sent, Frame, Emitters, EmitPush, Push, Event, EmitState
  <1>8. ASSUME NEW f \in Frames, ReaderRecv(f) PROVE pc' \in [script : ScriptPoints, worker
     : WorkerPoints, reader : ReaderPoints]
    BY <1>8, <1>p DEF ScriptPoints, WorkerPoints, ReaderPoints, EmitPoints, ReaderRecv,
       Outcome, More, Frames
  <1>9. CASE Send \/ CloseLoad \/ CloseStore
    BY <1>9, <1>p DEF ScriptPoints, WorkerPoints, ReaderPoints, EmitPoints, Send, More,
       CloseLoad, CloseStore
  <1>10. CASE CloseStop \/ CloseSock
    BY <1>10, <1>p DEF ScriptPoints, WorkerPoints, ReaderPoints, EmitPoints, CloseStop,
       CloseSock, Closed
  <1>11. CASE Destroy \/ DestroyJoin
    BY <1>11, <1>p DEF ScriptPoints, WorkerPoints, ReaderPoints, EmitPoints, Destroy,
       DestroyJoin
  <1>12. CASE HandshakeStart \/ HandshakeConnect \/ HandshakeCheck \/ HandshakeRequest \/
     HandshakeHeaders
    BY <1>12, <1>p DEF ScriptPoints, WorkerPoints, ReaderPoints, EmitPoints,
       HandshakeStart, HandshakeConnect, HandshakeCheck, Closed, HandshakeRequest,
       HandshakeHeaders
  <1>13. CASE HandshakeFailed \/ Opened \/ OpenEvent
    BY <1>13, <1>p DEF ScriptPoints, WorkerPoints, ReaderPoints, EmitPoints,
       HandshakeFailed, Push, Event, Opened, OpenEvent
  <1>14. CASE WriterLoop \/ WriterTest \/ WriterPark \/ WriterTimeout
    BY <1>14, <1>p DEF ScriptPoints, WorkerPoints, ReaderPoints, EmitPoints, WriterLoop,
       WriterTest, WriterPark, WriterTimeout
  <1>15. CASE WriterPop \/ WriterData \/ WriterSpoilt
    BY <1>15, <1>p DEF ScriptPoints, WorkerPoints, ReaderPoints, EmitPoints, WriterPop,
       WriterData, Sent, Frame, WriterSpoilt
  <1>16. CASE WriterClose \/ CheckIdle
    BY <1>16, <1>p DEF ScriptPoints, WorkerPoints, ReaderPoints, EmitPoints, WriterClose,
       Sent, Frame, CheckIdle, More
  <1>17. CASE CheckIdlePing \/ Teardown
    BY <1>17, <1>p DEF ScriptPoints, WorkerPoints, ReaderPoints, EmitPoints, CheckIdlePing,
       Sent, Frame, Closed, Teardown, Push, Event
  <1>18. CASE ReaderLoop \/ ReaderBreak \/ ReaderMessage \/ ReaderPong
    BY <1>18, <1>p DEF ScriptPoints, WorkerPoints, ReaderPoints, EmitPoints, ReaderLoop,
       ReaderBreak, ReaderMessage, Push, Event, ReaderPong, Sent, Frame
  <1>19. CASE PeerDrop
    BY <1>19, <1>p DEF ScriptPoints, WorkerPoints, ReaderPoints, EmitPoints, PeerDrop
  <1>20. CASE UNCHANGED vars
    BY <1>20, <1>p DEF ScriptPoints, WorkerPoints, ReaderPoints, EmitPoints
  <1> QED
    BY <1>1, <1>2, <1>3, <1>4, <1>5, <1>6, <1>7, <1>8, <1>9, <1>10, <1>11, <1>12, <1>13,
       <1>14, <1>15, <1>16, <1>17, <1>18, <1>19, <1>20 DEF Next, ScriptStep, WorkerStep,
       ReaderStep, EmitLocalClose, Emitters

\* The queues and the wire hold what they are for.
LEMMA QueuesStep ==
    ASSUME IInv, [Next]_vars
    PROVE  inQ' \in Seq(Events) /\ wire' \in Seq(Sendings) /\ outQ' \in Seq(0..MaxWork)
  <1> USE DEF vars, cliVars, wrkVars, netVars, scriptRest, emitRest, handshakeRest,
     openRest, writerRest, readerRest, At, Goto
  <1>a. inQ \in Seq(Events) /\ wire \in Seq(Sendings) /\ outQ \in Seq(0..MaxWork)
    BY DEF IInv, Types, TypeOK
  <1>b. cur.msg \in 0..MaxWork /\ sends \in 0..MaxWork /\ CloseOp \in 0..MaxWork
    BY WorkAssumption DEF IInv, Types, TypeOK, CloseOp
  <1>e. \A k \in {"open", "error", "message", "close"}, t \in {"worker", "reader", "final"} : Event(k, t) \in Events
    BY DEF Event, Events
  <1>1. ASSUME UNCHANGED <<inQ, wire, outQ>>
        PROVE  inQ' \in Seq(Events) /\ wire' \in Seq(Sendings) /\ outQ' \in Seq(0..MaxWork)
    BY <1>a, <1>1
  <1>2. CASE SendPush
    BY <1>2, <1>a, <1>b DEF SendPush
  <1>3. CASE ClosePush
    BY <1>3, <1>a, <1>b DEF ClosePush
  <1>4. CASE WriterPop
    <2>1. UNCHANGED <<inQ, wire>> /\ (outQ' = outQ \/ (outQ # <<>> /\ outQ' = Tail(outQ)))
      BY <1>4 DEF WriterPop
    <2> QED
      BY ONLY <1>a, <2>1, HeadTailProperties
  <1>5. ASSUME NEW t \in Emitters, EmitPush(t)
        PROVE  inQ' \in Seq(Events) /\ wire' \in Seq(Sendings) /\ outQ' \in Seq(0..MaxWork)
    BY <1>5, <1>a, <1>b DEF EmitPush, Push, Event, Events, Emitters
  <1>6. CASE OpenEvent
    BY <1>6, <1>a, <1>b DEF OpenEvent, Push, Event, Events
  <1>7. CASE ReaderMessage
    BY <1>7, <1>a, <1>b DEF ReaderMessage, Push, Event, Events
  <1>8. CASE HandshakeFailed
    <2>1. CASE At("worker", "failError")
      <3>1. UNCHANGED <<wire, outQ>> /\ inQ' = Append(inQ, Event("error", "worker"))
              /\ Event("error", "worker") \in Events
        BY <1>8, <1>e, <2>1 DEF HandshakeFailed, Push
      <3> QED
        BY <1>8, <1>a, <3>1
    <2>2. CASE At("worker", "failClose")
      <3>1. UNCHANGED <<wire, outQ>> /\ inQ' = Append(inQ, Event("close", "worker"))
              /\ Event("close", "worker") \in Events
        BY <1>8, <1>e, <2>2 DEF HandshakeFailed, Push
      <3> QED
        BY <1>8, <1>a, <3>1
    <2>3. CASE At("worker", "failState")
      BY <1>8, <1>a, <1>b, <2>3 DEF HandshakeFailed, Push, Event
    <2> QED
      BY <1>8, <2>1, <2>2, <2>3 DEF HandshakeFailed
  <1>9. CASE Teardown
    <2>1. CASE At("worker", "teardown")
      BY <1>9, <1>a, <1>b, <2>1 DEF Teardown, Push, Event, Closed
    <2>2. CASE At("worker", "joinReader")
      BY <1>9, <1>a, <1>b, <2>2 DEF Teardown, Push, Event, Closed
    <2>3. CASE At("worker", "finalPush")
      <3>1. UNCHANGED <<wire, outQ>> /\ inQ' = Append(inQ, Event("close", "final"))
              /\ Event("close", "final") \in Events
        BY <1>9, <1>e, <2>3 DEF Teardown, Push
      <3> QED
        BY <1>9, <1>a, <3>1
    <2> QED
      BY <1>9, <2>1, <2>2, <2>3 DEF Teardown
  <1>10. CASE ReaderClose
    <2>1. CASE At("reader", "closeLoad")
      BY <1>10, <1>a, <1>b, <2>1 DEF ReaderClose, Woken, Sent, Frame, Push, Event
    <2>2. CASE At("reader", "echo")
      BY <1>10, <1>a, <1>b, <2>2 DEF ReaderClose, Woken, Sent, Frame, Push, Event
    <2>3. CASE At("reader", "closePush")
      <3>1. UNCHANGED <<wire, outQ>> /\ inQ' = Append(inQ, Event("close", "reader"))
              /\ Event("close", "reader") \in Events
        BY <1>10, <1>e, <2>3 DEF ReaderClose, Push
      <3> QED
        BY <1>10, <1>a, <3>1
    <2>4. CASE At("reader", "closeState")
      BY <1>10, <1>a, <1>b, <2>4 DEF ReaderClose, Woken, Sent, Frame, Push, Event
    <2>5. CASE At("reader", "closeStop")
      BY <1>10, <1>a, <1>b, <2>5 DEF ReaderClose, Woken, Sent, Frame, Push, Event
    <2> QED
      BY <1>10, <2>1, <2>2, <2>3, <2>4, <2>5 DEF ReaderClose
  <1>11. CASE WriterData
    <2>1. Frame("data", cur.msg, "worker") \in Sendings
      BY <1>11, <1>b DEF Frame, Sendings
    <2> QED
      BY <1>11, <1>a, <2>1 DEF WriterData, Sent
  <1>12. CASE WriterClose
    <2>1. Frame("close", CloseOp, "script") \in Sendings
      BY <1>12, <1>b DEF Frame, Sendings
    <2>2. UNCHANGED <<inQ, outQ>>
            /\ (wire' = wire \/ wire' = Append(wire, Frame("close", CloseOp, "script")))
      BY <1>12 DEF WriterClose, Sent
    <2> QED
      BY <1>12, <1>a, <2>1, <2>2
  <1>13. ASSUME NEW t \in Emitters, EmitFrame(t) \/ EmitState(t) \/ EmitStop(t) PROVE inQ'
     \in Seq(Events) /\ wire' \in Seq(Sendings) /\ outQ' \in Seq(0..MaxWork)
    BY <1>13, <1>1 DEF EmitFrame, Sent, Frame, Emitters, EmitState, EmitStop, Woken, Closed
  <1>14. ASSUME NEW f \in Frames, ReaderRecv(f) PROVE inQ' \in Seq(Events) /\ wire' \in
     Seq(Sendings) /\ outQ' \in Seq(0..MaxWork)
    BY <1>14, <1>1 DEF ReaderRecv, Outcome, More, Frames
  <1>15. CASE Send \/ CloseLoad \/ CloseStore
    BY <1>15, <1>1 DEF Send, More, CloseLoad, CloseStore
  <1>16. CASE CloseStop \/ CloseSock
    BY <1>16, <1>1 DEF CloseStop, CloseSock, Closed
  <1>17. CASE RuntimePump \/ Destroy \/ DestroyNotify \/ DestroyJoin
    BY <1>17, <1>1 DEF RuntimePump, Woken, Destroy, DestroyNotify, OutMuFree, Closed,
       DestroyJoin
  <1>18. CASE HandshakeStart \/ HandshakeConnect \/ HandshakeCheck \/ HandshakeRequest \/
     HandshakeHeaders
    BY <1>18, <1>1 DEF HandshakeStart, HandshakeConnect, HandshakeCheck, Closed,
       HandshakeRequest, HandshakeHeaders
  <1>19. CASE Opened
    BY <1>19, <1>1 DEF Opened
  <1>20. CASE WriterLoop \/ WriterTest \/ WriterPark \/ WriterTimeout
    BY <1>20, <1>1 DEF WriterLoop, WriterTest, WriterPark, WriterTimeout
  <1>21. CASE WriterSpoilt
    BY <1>21, <1>1 DEF WriterSpoilt
  <1>22. CASE CheckIdle
    BY <1>22, <1>1 DEF CheckIdle, More
  <1>23. CASE CheckIdlePing
    BY <1>23, <1>1 DEF CheckIdlePing, Sent, Frame, Closed
  <1>24. CASE ReaderLoop \/ ReaderBreak \/ ReaderPong
    BY <1>24, <1>1 DEF ReaderLoop, ReaderBreak, ReaderPong, Sent, Frame
  <1>25. CASE PeerDrop
    BY <1>25, <1>1 DEF PeerDrop
  <1>26. CASE UNCHANGED vars
    BY <1>1, <1>26
  <1> QED
    BY <1>2, <1>3, <1>4, <1>5, <1>6, <1>7, <1>8, <1>9, <1>10, <1>11, <1>12, <1>13, <1>14,
       <1>15, <1>16, <1>17, <1>18, <1>19, <1>20, <1>21, <1>22, <1>23, <1>24, <1>25, <1>26
       DEF Next, ScriptStep, WorkerStep, ReaderStep, EmitLocalClose, Emitters

\* Every counter stays within its bound.
LEMMA CountsStep ==
    ASSUME IInv, [Next]_vars
    PROVE  Counts'
  <1> USE DEF vars, cliVars, wrkVars, netVars, scriptRest, emitRest, handshakeRest,
     openRest, writerRest, readerRest, At, Goto
  <1>p. pc \in [script : ScriptPoints, worker : WorkerPoints, reader : ReaderPoints]
    BY DEF IInv, Types, TypeOK
  <1>a. Counts
    BY DEF IInv, Types, TypeOK, Counts
  <1>b. spoilt <= buffered /\ (pc.worker = "sendData" => spoilt < buffered /\ buffered > 0)
    <2>1. buffered = Cardinality(Messages(outQ)) + spoilt
               + (IF pc.script = "sendPush" THEN 1 ELSE 0) + (IF pc.worker = "sendData" THEN 1 ELSE 0)
      BY DEF IInv, BufferedExact, Messages
    <2>2. outQ \in Seq(0..MaxWork)
      BY DEF IInv, Types, TypeOK
    <2>3. Cardinality(Messages(outQ)) \in Nat /\ spoilt \in Nat
      BY <1>a, <2>2, CountType, WorkAssumption DEF Counts
    <2> QED
      BY <2>1, <2>3
  <1>n. MaxWork \in Nat /\ Fragments \in Nat /\ Fragments > 0
    BY WorkAssumption, FragmentsAssumption
  <1>o. outQ \in Seq(0..MaxWork) /\ CloseOp \in 0..MaxWork
    BY <1>n DEF IInv, Types, TypeOK, CloseOp
  <1>1. CASE Send
    BY <1>1, <1>p, <1>a, <1>b, <1>n DEF Counts, Send, More
  <1>2. CASE WriterPop
    <2>1. outQ # <<>> => Head(outQ) \in 0..MaxWork
      BY ONLY <1>o, HeadTailProperties
    <2>2. cur' \in [msg : 0..MaxWork, part : 1..Fragments]
      BY <1>2, <1>n, <1>o, <2>1 DEF WriterPop
    <2> QED
      BY <1>2, <1>p, <1>a, <2>2 DEF Counts, WriterPop
  <1>3. CASE WriterData
    <2>1. cur' \in [msg : 0..MaxWork, part : 1..Fragments]
      BY <1>3, <1>a, <1>n DEF Counts, WriterData
    <2>2. buffered' \in 0..MaxWork /\ buffered' <= sends
      BY <1>3, <1>a, <1>b, <1>n DEF Counts, WriterData
    <2> QED
      BY <1>3, <1>p, <1>a, <2>1, <2>2 DEF Counts, WriterData
  <1>4. ASSUME NEW t \in Emitters, EmitFrame(t) \/ EmitPush(t) \/ EmitState(t) \/
     EmitStop(t) PROVE Counts'
    BY <1>4, <1>p, <1>a, <1>b, <1>n DEF Counts, EmitFrame, Sent, Frame, Emitters, EmitPush,
       Push, Event, EmitState, EmitStop, Woken, Closed
  <1>5. ASSUME NEW f \in Frames, ReaderRecv(f) PROVE Counts'
    BY <1>5, <1>p, <1>a, <1>b, <1>n DEF Counts, ReaderRecv, Outcome, More, Frames
  <1>6. CASE SendPush \/ CloseLoad \/ CloseStore
    BY <1>6, <1>p, <1>a, <1>b, <1>n DEF Counts, SendPush, Woken, OutMuFree, CloseLoad,
       CloseStore
  <1>7. CASE ClosePush \/ CloseStop \/ CloseSock
    BY <1>7, <1>p, <1>a, <1>b, <1>n DEF Counts, ClosePush, Woken, OutMuFree, CloseStop,
       CloseSock, Closed
  <1>8. CASE RuntimePump \/ Destroy \/ DestroyNotify \/ DestroyJoin
    BY <1>8, <1>p, <1>a, <1>b, <1>n DEF Counts, RuntimePump, Woken, Destroy, DestroyNotify,
       OutMuFree, Closed, DestroyJoin
  <1>9. CASE HandshakeStart \/ HandshakeConnect \/ HandshakeCheck \/ HandshakeRequest \/
     HandshakeHeaders
    BY <1>9, <1>p, <1>a, <1>b, <1>n DEF Counts, HandshakeStart, HandshakeConnect,
       HandshakeCheck, Closed, HandshakeRequest, HandshakeHeaders
  <1>10. CASE HandshakeFailed \/ Opened \/ OpenEvent
    BY <1>10, <1>p, <1>a, <1>b, <1>n DEF Counts, HandshakeFailed, Push, Event, Opened,
       OpenEvent
  <1>11. CASE WriterLoop \/ WriterTest \/ WriterPark \/ WriterTimeout
    BY <1>11, <1>p, <1>a, <1>b, <1>n DEF Counts, WriterLoop, WriterTest, WriterPark,
       WriterTimeout
  <1>12. CASE WriterSpoilt
    BY <1>12, <1>p, <1>a, <1>b, <1>n DEF Counts, WriterSpoilt
  <1>13. CASE WriterClose \/ CheckIdle
    BY <1>13, <1>p, <1>a, <1>b, <1>n DEF Counts, WriterClose, Sent, Frame, CheckIdle, More
  <1>14. CASE CheckIdlePing \/ Teardown
    BY <1>14, <1>p, <1>a, <1>b, <1>n DEF Counts, CheckIdlePing, Sent, Frame, Closed,
       Teardown, Push, Event
  <1>15. CASE ReaderLoop \/ ReaderBreak \/ ReaderMessage \/ ReaderPong
    BY <1>15, <1>p, <1>a, <1>b, <1>n DEF Counts, ReaderLoop, ReaderBreak, ReaderMessage,
       Push, Event, ReaderPong, Sent, Frame
  <1>16. CASE ReaderClose \/ PeerDrop
    BY <1>16, <1>p, <1>a, <1>b, <1>n DEF Counts, ReaderClose, Woken, Sent, Frame, Push,
       Event, PeerDrop
  <1>17. CASE UNCHANGED vars
    BY <1>17, <1>p, <1>a, <1>b, <1>n DEF Counts
  <1> QED
    BY <1>1, <1>2, <1>3, <1>4, <1>5, <1>6, <1>7, <1>8, <1>9, <1>10, <1>11, <1>12, <1>13,
       <1>14, <1>15, <1>16, <1>17 DEF Next, ScriptStep, WorkerStep, ReaderStep,
       EmitLocalClose, Emitters

\* Every flag stays one.
LEMMA FlagsStep ==
    ASSUME IInv, [Next]_vars
    PROVE  Flags'
  <1> USE DEF vars, cliVars, wrkVars, netVars, scriptRest, emitRest, handshakeRest,
     openRest, writerRest, readerRest, At, Goto
  <1>a. Flags
    BY DEF IInv, Types, TypeOK, Flags
  <1>1. ASSUME NEW t \in Emitters, EmitFrame(t) \/ EmitPush(t) \/ EmitState(t) \/
     EmitStop(t) PROVE Flags'
    BY <1>1, <1>a DEF Flags, States, EmitFrame, Sent, Frame, Emitters, EmitPush, Push,
       Event, EmitState, EmitStop, Woken, Closed
  <1>2. ASSUME NEW f \in Frames, ReaderRecv(f) PROVE Flags'
    BY <1>2, <1>a DEF Flags, States, ReaderRecv, Outcome, More, Frames
  <1>3. CASE Send \/ SendPush \/ CloseLoad \/ CloseStore
    BY <1>3, <1>a DEF Flags, States, Send, More, SendPush, Woken, OutMuFree, CloseLoad,
       CloseStore
  <1>4. CASE ClosePush \/ CloseStop \/ CloseSock
    BY <1>4, <1>a DEF Flags, States, ClosePush, Woken, OutMuFree, CloseStop, CloseSock,
       Closed
  <1>5. CASE RuntimePump \/ Destroy \/ DestroyNotify \/ DestroyJoin
    BY <1>5, <1>a DEF Flags, States, RuntimePump, Woken, Destroy, DestroyNotify, OutMuFree,
       Closed, DestroyJoin
  <1>6. CASE HandshakeStart \/ HandshakeConnect \/ HandshakeCheck \/ HandshakeRequest \/
     HandshakeHeaders
    BY <1>6, <1>a DEF Flags, States, HandshakeStart, HandshakeConnect, HandshakeCheck,
       Closed, HandshakeRequest, HandshakeHeaders
  <1>7. CASE HandshakeFailed \/ Opened \/ OpenEvent
    BY <1>7, <1>a DEF Flags, States, HandshakeFailed, Push, Event, Opened, OpenEvent
  <1>8. CASE WriterLoop \/ WriterTest \/ WriterPark \/ WriterTimeout
    BY <1>8, <1>a DEF Flags, States, WriterLoop, WriterTest, WriterPark, WriterTimeout
  <1>9. CASE WriterPop \/ WriterData \/ WriterSpoilt
    BY <1>9, <1>a DEF Flags, States, WriterPop, WriterData, Sent, Frame, WriterSpoilt
  <1>10. CASE WriterClose \/ CheckIdle
    BY <1>10, <1>a DEF Flags, States, WriterClose, Sent, Frame, CheckIdle, More
  <1>11. CASE CheckIdlePing \/ Teardown
    BY <1>11, <1>a DEF Flags, States, CheckIdlePing, Sent, Frame, Closed, Teardown, Push,
       Event
  <1>12. CASE ReaderLoop \/ ReaderBreak \/ ReaderMessage \/ ReaderPong
    BY <1>12, <1>a DEF Flags, States, ReaderLoop, ReaderBreak, ReaderMessage, Push, Event,
       ReaderPong, Sent, Frame
  <1>13. CASE ReaderClose \/ PeerDrop
    BY <1>13, <1>a DEF Flags, States, ReaderClose, Woken, Sent, Frame, Push, Event,
       PeerDrop
  <1>14. CASE UNCHANGED vars
    BY <1>14, <1>a DEF Flags, States
  <1> QED
    BY <1>1, <1>2, <1>3, <1>4, <1>5, <1>6, <1>7, <1>8, <1>9, <1>10, <1>11, <1>12, <1>13,
       <1>14 DEF Next, ScriptStep, WorkerStep, ReaderStep, EmitLocalClose, Emitters

\* Every step keeps the types.
LEMMA TypeStep ==
    ASSUME IInv, [Next]_vars
    PROVE  Types'
  <1>1. \A e \in Range(inQ') : e \in Events
    BY QueuesStep DEF Range
  <1>2. \A f \in Range(wire') : f \in Sendings
    BY QueuesStep DEF Range
  <1> QED
    BY <1>1, <1>2, PointsStep, QueuesStep, CountsStep, FlagsStep DEF Types, TypeOK, Counts, Flags, Events, Sendings

\* A message is counted from send to its last frame, or for ever once it is spoilt.
LEMMA BufferedStep ==
    ASSUME IInv, [Next]_vars
    PROVE  BufferedExact'
  <1> USE DEF vars, cliVars, wrkVars, netVars, scriptRest, emitRest, handshakeRest,
     openRest, writerRest, readerRest, At, Goto
  <1>p. pc \in [script : ScriptPoints, worker : WorkerPoints, reader : ReaderPoints]
    BY DEF IInv, Types, TypeOK
  <1>a. Types /\ TypeOK /\ BufferedExact
    BY DEF IInv, Types
  <1>b. outQ \in Seq(0..MaxWork) /\ sends \in 0..MaxWork /\ CloseOp \in 0..MaxWork
    BY WorkAssumption DEF IInv, Types, TypeOK, CloseOp
  <1>n. buffered \in Nat /\ spoilt \in Nat /\ sends \in Nat
    BY WorkAssumption DEF IInv, Types, TypeOK
  <1>m. At("script", "sendPush") => sends # CloseOp
    BY <1>n DEF IInv, Types, CloseOp
  <1>q. BufferedExact => buffered = Cardinality(Messages(outQ)) + spoilt
               + (IF pc.script = "sendPush" THEN 1 ELSE 0) + (IF pc.worker = "sendData" THEN 1 ELSE 0)
    BY DEF BufferedExact, Messages
  <1>r. buffered' = Cardinality(Messages(outQ')) + spoilt'
               + (IF pc'.script = "sendPush" THEN 1 ELSE 0) + (IF pc'.worker = "sendData" THEN 1 ELSE 0)
          => BufferedExact'
    BY DEF BufferedExact, Messages
  <1>t. Cardinality(Messages(outQ)) \in Nat
    BY <1>b, CountType
  <1>1. CASE WriterData
    BY <1>1, <1>p, <1>a, <1>n, <1>q, <1>r, <1>t DEF WriterData, Sent
  <1>2. CASE SendPush
    <2>1. Cardinality(Messages(outQ')) = Cardinality(Messages(outQ)) + 1
      BY <1>2, <1>b, <1>m, CountAppend DEF SendPush
    <2> QED
      BY <1>2, <1>p, <1>a, <1>n, <1>q, <1>r, <1>t, <2>1 DEF SendPush, Woken
  <1>3. CASE ClosePush
    <2>1. Cardinality(Messages(outQ')) = Cardinality(Messages(outQ))
      BY <1>3, <1>b, <1>t, CountAppend DEF ClosePush
    <2> QED
      BY <1>3, <1>p, <1>a, <1>n, <1>q, <1>r, <1>t, <2>1 DEF ClosePush, Woken
  <1>4. CASE WriterPop
    <2>1. CASE outQ = <<>>
      BY <1>4, <1>p, <1>a, <1>n, <1>q, <1>r, <1>t, <2>1 DEF WriterPop
    <2>2. CASE outQ # <<>>
      <3>1. Cardinality(Messages(outQ)) = Cardinality(Messages(Tail(outQ))) + (IF outQ[1] # CloseOp THEN 1 ELSE 0)
        BY <1>4, <1>b, <2>2, CountTail
      <3>2. Tail(outQ) \in Seq(0..MaxWork) /\ Head(outQ) = outQ[1]
        BY <1>4, <1>b, <2>2
      <3>3. Cardinality(Messages(Tail(outQ))) \in Nat
        BY <1>4, <3>2, CountType
      <3>4. /\ outQ' = Tail(outQ) /\ UNCHANGED <<buffered, spoilt>> /\ pc.worker = "drain" /\ pc'.script = pc.script
            /\ pc'.worker = IF outQ[1] = CloseOp THEN "sendClose" ELSE "sendData"
        BY <1>4, <1>p, <2>2, <3>2 DEF WriterPop
      <3> QED
        BY <1>4, <1>a, <1>n, <1>q, <1>r, <1>t, <3>1, <3>3, <3>4
    <2> QED
      BY <1>4, <2>1, <2>2
  <1>5. ASSUME NEW t \in Emitters, EmitFrame(t) \/ EmitPush(t) \/ EmitState(t) \/
     EmitStop(t) PROVE BufferedExact'
    BY <1>5, <1>p, <1>a, <1>n, <1>q, <1>r, <1>t DEF EmitFrame, Sent, Frame, Emitters,
       EmitPush, Push, Event, EmitState, EmitStop, Woken, Closed
  <1>6. ASSUME NEW f \in Frames, ReaderRecv(f) PROVE BufferedExact'
    BY <1>6, <1>p, <1>a, <1>n, <1>q, <1>r, <1>t DEF ReaderRecv, Outcome, More, Frames
  <1>7. CASE Send \/ CloseLoad \/ CloseStore
    BY <1>7, <1>p, <1>a, <1>n, <1>q, <1>r, <1>t DEF Send, More, CloseLoad, CloseStore
  <1>8. CASE CloseStop \/ CloseSock
    BY <1>8, <1>p, <1>a, <1>n, <1>q, <1>r, <1>t DEF CloseStop, CloseSock, Closed
  <1>9. CASE RuntimePump \/ Destroy \/ DestroyNotify \/ DestroyJoin
    BY <1>9, <1>p, <1>a, <1>n, <1>q, <1>r, <1>t DEF RuntimePump, Woken, Destroy,
       DestroyNotify, OutMuFree, Closed, DestroyJoin
  <1>10. CASE HandshakeStart \/ HandshakeConnect \/ HandshakeCheck \/ HandshakeRequest \/
     HandshakeHeaders
    BY <1>10, <1>p, <1>a, <1>n, <1>q, <1>r, <1>t DEF HandshakeStart, HandshakeConnect,
       HandshakeCheck, Closed, HandshakeRequest, HandshakeHeaders
  <1>11. CASE HandshakeFailed \/ Opened \/ OpenEvent
    BY <1>11, <1>p, <1>a, <1>n, <1>q, <1>r, <1>t DEF HandshakeFailed, Push, Event, Opened,
       OpenEvent
  <1>12. CASE WriterLoop \/ WriterTest \/ WriterPark \/ WriterTimeout
    BY <1>12, <1>p, <1>a, <1>n, <1>q, <1>r, <1>t DEF WriterLoop, WriterTest, WriterPark,
       WriterTimeout
  <1>13. CASE WriterSpoilt
    BY <1>13, <1>p, <1>a, <1>n, <1>q, <1>r, <1>t DEF WriterSpoilt
  <1>14. CASE WriterClose \/ CheckIdle
    BY <1>14, <1>p, <1>a, <1>n, <1>q, <1>r, <1>t DEF WriterClose, Sent, Frame, CheckIdle,
       More
  <1>15. CASE CheckIdlePing \/ Teardown
    BY <1>15, <1>p, <1>a, <1>n, <1>q, <1>r, <1>t DEF CheckIdlePing, Sent, Frame, Closed,
       Teardown, Push, Event
  <1>16. CASE ReaderLoop \/ ReaderBreak \/ ReaderMessage \/ ReaderPong
    BY <1>16, <1>p, <1>a, <1>n, <1>q, <1>r, <1>t DEF ReaderLoop, ReaderBreak,
       ReaderMessage, Push, Event, ReaderPong, Sent, Frame
  <1>17. CASE ReaderClose \/ PeerDrop
    BY <1>17, <1>p, <1>a, <1>n, <1>q, <1>r, <1>t DEF ReaderClose, Woken, Sent, Frame, Push,
       Event, PeerDrop
  <1>18. CASE UNCHANGED vars
    BY <1>18, <1>p, <1>a, <1>n, <1>q, <1>r, <1>t
  <1> QED
    BY <1>1, <1>2, <1>3, <1>4, <1>5, <1>6, <1>7, <1>8, <1>9, <1>10, <1>11, <1>12, <1>13,
       <1>14, <1>15, <1>16, <1>17, <1>18 DEF Next, ScriptStep, WorkerStep, ReaderStep,
       EmitLocalClose, Emitters

\* Only a worker that has just connected can hold an open socket the destructor missed.
LEMMA SocketStep ==
    ASSUME IInv, [Next]_vars
    PROVE  SocketUse' /\ CallPoints'
  <1> USE DEF vars, cliVars, wrkVars, netVars, scriptRest, emitRest, handshakeRest,
     openRest, writerRest, readerRest, At, Goto
  <1>p. pc \in [script : ScriptPoints, worker : WorkerPoints, reader : ReaderPoints]
    BY DEF IInv, Types, TypeOK
  <1>a. SocketUse /\ CallPoints
    BY DEF IInv
  <1>r. pc.worker \in Opening => pc.reader = "none"
    BY DEF IInv, EventLine, Silent
  <1>1. ASSUME NEW t \in Emitters, EmitFrame(t) \/ EmitPush(t) \/ EmitState(t) \/
     EmitStop(t) PROVE SocketUse' /\ CallPoints'
    BY <1>1, <1>p, <1>a, <1>r DEF SocketUse, CallPoints, Handshake, Opening, EmitFrame,
       Sent, Frame, Emitters, EmitPush, Push, Event, EmitState, EmitStop, Woken, Closed
  <1>2. ASSUME NEW f \in Frames, ReaderRecv(f) PROVE SocketUse' /\ CallPoints'
    BY <1>2, <1>p, <1>a, <1>r DEF SocketUse, CallPoints, Handshake, Opening, ReaderRecv,
       Outcome, More, Frames
  <1>3. CASE Send \/ SendPush \/ CloseLoad \/ CloseStore
    BY <1>3, <1>p, <1>a, <1>r DEF SocketUse, CallPoints, Handshake, Opening, Send, More,
       SendPush, Woken, OutMuFree, CloseLoad, CloseStore
  <1>4. CASE ClosePush \/ CloseStop \/ CloseSock
    BY <1>4, <1>p, <1>a, <1>r DEF SocketUse, CallPoints, Handshake, Opening, ClosePush,
       Woken, OutMuFree, CloseStop, CloseSock, Closed
  <1>5. CASE RuntimePump \/ Destroy \/ DestroyNotify \/ DestroyJoin
    BY <1>5, <1>p, <1>a, <1>r DEF SocketUse, CallPoints, Handshake, Opening, RuntimePump,
       Woken, Destroy, DestroyNotify, OutMuFree, Closed, DestroyJoin
  <1>6. CASE HandshakeStart \/ HandshakeConnect \/ HandshakeCheck \/ HandshakeRequest \/
     HandshakeHeaders
    BY <1>6, <1>p, <1>a, <1>r DEF SocketUse, CallPoints, Handshake, Opening,
       HandshakeStart, HandshakeConnect, HandshakeCheck, Closed, HandshakeRequest,
       HandshakeHeaders
  <1>7. CASE HandshakeFailed \/ Opened \/ OpenEvent
    BY <1>7, <1>p, <1>a, <1>r DEF SocketUse, CallPoints, Handshake, Opening,
       HandshakeFailed, Push, Event, Opened, OpenEvent
  <1>8. CASE WriterLoop \/ WriterTest \/ WriterPark \/ WriterTimeout
    BY <1>8, <1>p, <1>a, <1>r DEF SocketUse, CallPoints, Handshake, Opening, WriterLoop,
       WriterTest, WriterPark, WriterTimeout
  <1>9. CASE WriterPop \/ WriterData \/ WriterSpoilt
    BY <1>9, <1>p, <1>a, <1>r DEF SocketUse, CallPoints, Handshake, Opening, WriterPop,
       WriterData, Sent, Frame, WriterSpoilt
  <1>10. CASE WriterClose \/ CheckIdle
    BY <1>10, <1>p, <1>a, <1>r DEF SocketUse, CallPoints, Handshake, Opening, WriterClose,
       Sent, Frame, CheckIdle, More
  <1>11. CASE CheckIdlePing \/ Teardown
    BY <1>11, <1>p, <1>a, <1>r DEF SocketUse, CallPoints, Handshake, Opening,
       CheckIdlePing, Sent, Frame, Closed, Teardown, Push, Event
  <1>12. CASE ReaderLoop \/ ReaderBreak \/ ReaderMessage \/ ReaderPong
    BY <1>12, <1>p, <1>a, <1>r DEF SocketUse, CallPoints, Handshake, Opening, ReaderLoop,
       ReaderBreak, ReaderMessage, Push, Event, ReaderPong, Sent, Frame
  <1>13. CASE ReaderClose \/ PeerDrop
    BY <1>13, <1>p, <1>a, <1>r DEF SocketUse, CallPoints, Handshake, Opening, ReaderClose,
       Woken, Sent, Frame, Push, Event, PeerDrop
  <1>14. CASE UNCHANGED vars
    BY <1>14, <1>p, <1>a, <1>r DEF SocketUse, CallPoints, Handshake, Opening
  <1> QED
    BY <1>1, <1>2, <1>3, <1>4, <1>5, <1>6, <1>7, <1>8, <1>9, <1>10, <1>11, <1>12, <1>13,
       <1>14 DEF Next, ScriptStep, WorkerStep, ReaderStep, EmitLocalClose, Emitters

\* The queue of events holds what the places of the threads say.
LEMMA EventStep ==
    ASSUME IInv, [Next]_vars
    PROVE  EventLine'
  <1> USE DEF vars, cliVars, wrkVars, netVars, scriptRest, emitRest, handshakeRest,
     openRest, writerRest, readerRest, At, Goto
  <1>p. pc \in [script : ScriptPoints, worker : WorkerPoints, reader : ReaderPoints]
    BY DEF IInv, Types, TypeOK
  <1>a. EventLine
    BY DEF IInv
  <1>b. inQ \in Seq(Events)
    BY DEF IInv, Types
  <1>1. ASSUME NEW t \in Emitters, EmitPush(t) PROVE EventLine'
    BY <1>1, <1>p, <1>a, <1>b DEF EventLine, HasClose, PeerClosed, Silent, Handshake,
       Opening, EmitPush, Push, Event, Emitters
  <1>2. CASE OpenEvent
    BY <1>2, <1>p, <1>a, <1>b DEF EventLine, HasClose, PeerClosed, Silent, Handshake,
       Opening, OpenEvent, Push, Event
  <1>3. CASE Teardown
    BY <1>3, <1>p, <1>a, <1>b DEF EventLine, HasClose, PeerClosed, Silent, Handshake,
       Opening, Teardown, Push, Event, Closed
  <1>4. CASE ReaderMessage
    BY <1>4, <1>p, <1>a, <1>b DEF EventLine, HasClose, PeerClosed, Silent, Handshake,
       Opening, ReaderMessage, Push, Event
  <1>5. CASE HandshakeFailed
    <2>1. CASE At("worker", "failError")
      BY <1>5, <2>1, <1>p, <1>a, <1>b DEF EventLine, HasClose, PeerClosed, Silent,
         Handshake, Opening, HandshakeFailed, Push, Event
    <2>2. CASE At("worker", "failClose")
      <3>1. /\ inQ' = Append(inQ, Event("close", "worker")) /\ UNCHANGED state
            /\ pc'.worker = "failState" /\ pc'.reader = pc.reader
        BY <1>5, <2>2, <1>p DEF HandshakeFailed, Push
      <3>2. Len(inQ) = 1 /\ inQ[1].kind = "error" /\ pc.reader = "none"
        BY <1>5, <1>a, <2>2 DEF EventLine
      <3>3. /\ Len(inQ') = 2 /\ DOMAIN inQ' = 1..2 /\ inQ'[1] = inQ[1]
            /\ inQ'[2] = Event("close", "worker") /\ 2 \in DOMAIN inQ'
        <4> DEFINE e == Event("close", "worker")
        <4>1. e \in Events
          BY <1>5 DEF Event, Events
        <4> HIDE DEF e
        <4>2. inQ' = Append(inQ, e)
          BY <1>5, <3>1 DEF e
        <4>3. /\ Len(inQ') = Len(inQ) + 1 /\ DOMAIN inQ' = 1..Len(inQ') /\ inQ'[Len(inQ')] = e
              /\ \A i \in 1..Len(inQ) : inQ'[i] = inQ[i]
          BY ONLY <1>b, <4>1, <4>2
        <4> QED
          BY <1>5, <3>2, <4>3 DEF e
      <3>4. ~PeerClosed(inQ'[1]) /\ ~PeerClosed(inQ'[2]) /\ inQ'[2].kind = "close"
        BY <1>5, <3>2, <3>3 DEF PeerClosed, Event
      <3>5. inQ' # <<>>
        BY <1>5, <3>3
      <3> QED
        BY <1>5, <3>1, <3>2, <3>3, <3>4, <3>5 DEF EventLine, HasClose, Silent, Handshake,
           Opening
    <2>3. CASE At("worker", "failState")
      BY <1>5, <2>3, <1>p, <1>a, <1>b DEF EventLine, HasClose, PeerClosed, Silent,
         Handshake, Opening, HandshakeFailed, Push, Event
    <2> QED
      BY <1>5, <2>1, <2>2, <2>3 DEF HandshakeFailed
  <1>6. CASE ReaderClose
    <2>1. CASE At("reader", "closeLoad")
      BY <1>6, <2>1, <1>p, <1>a, <1>b DEF EventLine, HasClose, PeerClosed, Silent,
         Handshake, Opening, ReaderClose, Woken, Sent, Frame, Push, Event
    <2>2. CASE At("reader", "echo")
      BY <1>6, <2>2, <1>p, <1>a, <1>b DEF EventLine, HasClose, PeerClosed, Silent,
         Handshake, Opening, ReaderClose, Woken, Sent, Frame, Push, Event
    <2>3. CASE At("reader", "closePush")
      BY <1>6, <2>3, <1>p, <1>a, <1>b DEF EventLine, HasClose, PeerClosed, Silent,
         Handshake, Opening, ReaderClose, Woken, Sent, Frame, Push, Event
    <2>4. CASE At("reader", "closeState")
      BY <1>6, <2>4, <1>p, <1>a, <1>b DEF EventLine, HasClose, PeerClosed, Silent,
         Handshake, Opening, ReaderClose, Woken, Sent, Frame, Push, Event
    <2>5. CASE At("reader", "closeStop")
      BY <1>6, <2>5, <1>p, <1>a, <1>b DEF EventLine, HasClose, PeerClosed, Silent,
         Handshake, Opening, ReaderClose, Woken, Sent, Frame, Push, Event
    <2> QED
      BY <1>6, <2>1, <2>2, <2>3, <2>4, <2>5 DEF ReaderClose
  <1>7. ASSUME NEW t \in Emitters, EmitFrame(t) \/ EmitState(t) \/ EmitStop(t) PROVE
     EventLine'
    BY <1>7, <1>p, <1>a, <1>b DEF EventLine, HasClose, PeerClosed, Silent, Handshake,
       Opening, EmitFrame, Sent, Frame, Emitters, EmitState, EmitStop, Woken, Closed
  <1>8. ASSUME NEW f \in Frames, ReaderRecv(f) PROVE EventLine'
    BY <1>8, <1>p, <1>a, <1>b DEF EventLine, HasClose, PeerClosed, Silent, Handshake,
       Opening, ReaderRecv, Outcome, More, Frames
  <1>9. CASE Send \/ SendPush \/ CloseLoad \/ CloseStore
    BY <1>9, <1>p, <1>a, <1>b DEF EventLine, HasClose, PeerClosed, Silent, Handshake,
       Opening, Send, More, SendPush, Woken, OutMuFree, CloseLoad, CloseStore
  <1>10. CASE ClosePush \/ CloseStop \/ CloseSock
    BY <1>10, <1>p, <1>a, <1>b DEF EventLine, HasClose, PeerClosed, Silent, Handshake,
       Opening, ClosePush, Woken, OutMuFree, CloseStop, CloseSock, Closed
  <1>11. CASE RuntimePump \/ Destroy \/ DestroyNotify \/ DestroyJoin
    BY <1>11, <1>p, <1>a, <1>b DEF EventLine, HasClose, PeerClosed, Silent, Handshake,
       Opening, RuntimePump, Woken, Destroy, DestroyNotify, OutMuFree, Closed, DestroyJoin
  <1>12. CASE HandshakeStart \/ HandshakeConnect \/ HandshakeCheck \/ HandshakeRequest \/
     HandshakeHeaders
    BY <1>12, <1>p, <1>a, <1>b DEF EventLine, HasClose, PeerClosed, Silent, Handshake,
       Opening, HandshakeStart, HandshakeConnect, HandshakeCheck, Closed, HandshakeRequest,
       HandshakeHeaders
  <1>13. CASE Opened
    BY <1>13, <1>p, <1>a, <1>b DEF EventLine, HasClose, PeerClosed, Silent, Handshake,
       Opening, Opened
  <1>14. CASE WriterLoop \/ WriterTest \/ WriterPark \/ WriterTimeout
    BY <1>14, <1>p, <1>a, <1>b DEF EventLine, HasClose, PeerClosed, Silent, Handshake,
       Opening, WriterLoop, WriterTest, WriterPark, WriterTimeout
  <1>15. CASE WriterPop \/ WriterData \/ WriterSpoilt
    BY <1>15, <1>p, <1>a, <1>b DEF EventLine, HasClose, PeerClosed, Silent, Handshake,
       Opening, WriterPop, WriterData, Sent, Frame, WriterSpoilt
  <1>16. CASE WriterClose \/ CheckIdle
    BY <1>16, <1>p, <1>a, <1>b DEF EventLine, HasClose, PeerClosed, Silent, Handshake,
       Opening, WriterClose, Sent, Frame, CheckIdle, More
  <1>17. CASE CheckIdlePing
    BY <1>17, <1>p, <1>a, <1>b DEF EventLine, HasClose, PeerClosed, Silent, Handshake,
       Opening, CheckIdlePing, Sent, Frame, Closed
  <1>18. CASE ReaderLoop \/ ReaderBreak \/ ReaderPong
    BY <1>18, <1>p, <1>a, <1>b DEF EventLine, HasClose, PeerClosed, Silent, Handshake,
       Opening, ReaderLoop, ReaderBreak, ReaderPong, Sent, Frame
  <1>19. CASE PeerDrop
    BY <1>19, <1>p, <1>a, <1>b DEF EventLine, HasClose, PeerClosed, Silent, Handshake,
       Opening, PeerDrop
  <1>20. CASE UNCHANGED vars
    BY <1>20, <1>p, <1>a, <1>b DEF EventLine, HasClose, PeerClosed, Silent, Handshake,
       Opening
  <1> QED
    BY <1>1, <1>2, <1>3, <1>4, <1>5, <1>6, <1>7, <1>8, <1>9, <1>10, <1>11, <1>12, <1>13,
       <1>14, <1>15, <1>16, <1>17, <1>18, <1>19, <1>20 DEF Next, ScriptStep, WorkerStep,
       ReaderStep, EmitLocalClose, Emitters

\* Every event that is queued keeps the order of the session.
LEMMA SessionStep ==
    ASSUME IInv, [Next]_vars
    PROVE  SessionEvents'
  <1> USE DEF vars, cliVars, wrkVars, netVars, scriptRest, emitRest, handshakeRest,
     openRest, writerRest, readerRest, At, Goto
  <1>p. pc \in [script : ScriptPoints, worker : WorkerPoints, reader : ReaderPoints]
    BY DEF IInv, Types, TypeOK
  <1>a. EventLine /\ SessionEvents
    BY DEF IInv
  <1>b. inQ \in Seq(Events)
    BY DEF IInv, Types
  <1>c. EventLine'
    BY EventStep
  <1>1. ASSUME UNCHANGED inQ
        PROVE  SessionEvents'
    BY <1>a, <1>c, <1>1 DEF EventLine, SessionEvents, HasClose, Range
  <1>2. ASSUME NEW t \in Emitters, EmitPush(t) PROVE SessionEvents'
    BY <1>2, <1>p, <1>a, <1>b, <1>c DEF EventLine, SessionEvents, HasClose, PeerClosed,
       Silent, Handshake, Opening, Range, EmitPush, Push, Event, Emitters
  <1>3. CASE HandshakeFailed
    <2>1. CASE At("worker", "failError")
      BY <1>3, <2>1, <1>p, <1>a, <1>b, <1>c DEF EventLine, SessionEvents, HasClose,
         PeerClosed, Silent, Handshake, Opening, Range, HandshakeFailed, Push, Event
    <2>2. CASE At("worker", "failClose")
      BY <1>3, <2>2, <1>p, <1>a, <1>b, <1>c DEF EventLine, SessionEvents, HasClose,
         PeerClosed, Silent, Handshake, Opening, Range, HandshakeFailed, Push, Event
    <2>3. CASE At("worker", "failState")
      BY <1>3, <2>3, <1>p, <1>a, <1>b, <1>c DEF EventLine, SessionEvents, HasClose,
         PeerClosed, Silent, Handshake, Opening, Range, HandshakeFailed, Push, Event
    <2> QED
      BY <1>3, <2>1, <2>2, <2>3 DEF HandshakeFailed
  <1>4. CASE OpenEvent
    BY <1>4, <1>p, <1>a, <1>b, <1>c DEF EventLine, SessionEvents, HasClose, PeerClosed,
       Silent, Handshake, Opening, Range, OpenEvent, Push, Event
  <1>5. CASE Teardown
    <2>1. CASE At("worker", "teardown")
      BY <1>5, <2>1, <1>p, <1>a, <1>b, <1>c DEF EventLine, SessionEvents, HasClose,
         PeerClosed, Silent, Handshake, Opening, Range, Teardown, Push, Event, Closed
    <2>2. CASE At("worker", "joinReader")
      BY <1>5, <2>2, <1>p, <1>a, <1>b, <1>c DEF EventLine, SessionEvents, HasClose,
         PeerClosed, Silent, Handshake, Opening, Range, Teardown, Push, Event, Closed
    <2>3. CASE At("worker", "finalPush")
      <3>1. /\ inQ' = Append(inQ, Event("close", "final")) /\ UNCHANGED state
            /\ pc'.worker = "failState"
        BY <1>5, <2>3, <1>p DEF Teardown, Push
      <3>2. inQ # <<>> /\ inQ[1].kind # "error"
        BY <1>5, <1>a, <2>3 DEF EventLine, Silent, Handshake, Opening
      <3>3. /\ Len(inQ') = Len(inQ) + 1 /\ DOMAIN inQ' = 1..Len(inQ') /\ Len(inQ) > 0
            /\ \A i \in 1..Len(inQ) : inQ'[i] = inQ[i] /\ i \in DOMAIN inQ
            /\ inQ'[Len(inQ')].kind = "close"
        BY <1>5, <1>b, <3>1, <3>2 DEF Event
      <3>4. Len(inQ) \in Nat
        BY <1>5, <1>b
      <3> QED
        BY <1>5, <1>a, <3>1, <3>2, <3>3, <3>4 DEF SessionEvents, Range
    <2> QED
      BY <1>5, <2>1, <2>2, <2>3 DEF Teardown
  <1>6. CASE ReaderMessage
    BY <1>6, <1>p, <1>a, <1>b, <1>c DEF EventLine, SessionEvents, HasClose, PeerClosed,
       Silent, Handshake, Opening, Range, ReaderMessage, Push, Event
  <1>7. CASE ReaderClose
    <2>1. CASE At("reader", "closeLoad")
      BY <1>7, <2>1, <1>p, <1>a, <1>b, <1>c DEF EventLine, SessionEvents, HasClose,
         PeerClosed, Silent, Handshake, Opening, Range, ReaderClose, Woken, Sent, Frame,
         Push, Event
    <2>2. CASE At("reader", "echo")
      BY <1>7, <2>2, <1>p, <1>a, <1>b, <1>c DEF EventLine, SessionEvents, HasClose,
         PeerClosed, Silent, Handshake, Opening, Range, ReaderClose, Woken, Sent, Frame,
         Push, Event
    <2>3. CASE At("reader", "closePush")
      BY <1>7, <2>3, <1>p, <1>a, <1>b, <1>c DEF EventLine, SessionEvents, HasClose,
         PeerClosed, Silent, Handshake, Opening, Range, ReaderClose, Woken, Sent, Frame,
         Push, Event
    <2>4. CASE At("reader", "closeState")
      BY <1>7, <2>4, <1>p, <1>a, <1>b, <1>c DEF EventLine, SessionEvents, HasClose,
         PeerClosed, Silent, Handshake, Opening, Range, ReaderClose, Woken, Sent, Frame,
         Push, Event
    <2>5. CASE At("reader", "closeStop")
      BY <1>7, <2>5, <1>p, <1>a, <1>b, <1>c DEF EventLine, SessionEvents, HasClose,
         PeerClosed, Silent, Handshake, Opening, Range, ReaderClose, Woken, Sent, Frame,
         Push, Event
    <2> QED
      BY <1>7, <2>1, <2>2, <2>3, <2>4, <2>5 DEF ReaderClose
  <1>8. ASSUME NEW t \in Emitters, EmitFrame(t) \/ EmitState(t) \/ EmitStop(t) PROVE
     SessionEvents'
    BY <1>8, <1>1 DEF EmitFrame, Sent, Frame, Emitters, EmitState, EmitStop, Woken, Closed
  <1>9. ASSUME NEW f \in Frames, ReaderRecv(f) PROVE SessionEvents'
    BY <1>9, <1>1 DEF ReaderRecv, Outcome, More, Frames
  <1>10. CASE Send \/ SendPush \/ CloseLoad \/ CloseStore
    BY <1>10, <1>1 DEF Send, More, SendPush, Woken, OutMuFree, CloseLoad, CloseStore
  <1>11. CASE ClosePush \/ CloseStop \/ CloseSock
    BY <1>11, <1>1 DEF ClosePush, Woken, OutMuFree, CloseStop, CloseSock, Closed
  <1>12. CASE RuntimePump \/ Destroy \/ DestroyNotify \/ DestroyJoin
    BY <1>12, <1>1 DEF RuntimePump, Woken, Destroy, DestroyNotify, OutMuFree, Closed,
       DestroyJoin
  <1>13. CASE HandshakeStart \/ HandshakeConnect \/ HandshakeCheck \/ HandshakeRequest \/
     HandshakeHeaders
    BY <1>13, <1>1 DEF HandshakeStart, HandshakeConnect, HandshakeCheck, Closed,
       HandshakeRequest, HandshakeHeaders
  <1>14. CASE Opened
    BY <1>14, <1>1 DEF Opened
  <1>15. CASE WriterLoop \/ WriterTest \/ WriterPark \/ WriterTimeout
    BY <1>15, <1>1 DEF WriterLoop, WriterTest, WriterPark, WriterTimeout
  <1>16. CASE WriterPop \/ WriterData \/ WriterSpoilt
    BY <1>16, <1>1 DEF WriterPop, WriterData, Sent, Frame, WriterSpoilt
  <1>17. CASE WriterClose \/ CheckIdle
    BY <1>17, <1>1 DEF WriterClose, Sent, Frame, CheckIdle, More
  <1>18. CASE CheckIdlePing
    BY <1>18, <1>1 DEF CheckIdlePing, Sent, Frame, Closed
  <1>19. CASE ReaderLoop \/ ReaderBreak \/ ReaderPong
    BY <1>19, <1>1 DEF ReaderLoop, ReaderBreak, ReaderPong, Sent, Frame
  <1>20. CASE PeerDrop
    BY <1>20, <1>1 DEF PeerDrop
  <1>21. CASE UNCHANGED vars
    BY <1>1, <1>21
  <1> QED
    BY <1>2, <1>3, <1>4, <1>5, <1>6, <1>7, <1>8, <1>9, <1>10, <1>11, <1>12, <1>13, <1>14,
       <1>15, <1>16, <1>17, <1>18, <1>19, <1>20, <1>21 DEF Next, ScriptStep, WorkerStep,
       ReaderStep, EmitLocalClose, Emitters

\* The frame of close() is followed by the end of the socket.
LEMMA CutStep ==
    ASSUME IInv, [Next]_vars
    PROVE  CloseCuts'
  <1> USE DEF vars, cliVars, wrkVars, netVars, scriptRest, emitRest, handshakeRest,
     openRest, writerRest, readerRest, At, Goto
  <1>p. pc \in [script : ScriptPoints, worker : WorkerPoints, reader : ReaderPoints]
    BY DEF IInv, Types, TypeOK
  <1>a. CloseCuts /\ SocketUse /\ CallPoints
    BY DEF IInv
  <1>b. outQ \in Seq(0..MaxWork) /\ wire \in Seq(Sendings) /\ sends \in 0..MaxWork
          /\ CloseOp \in 0..MaxWork
    BY WorkAssumption DEF IInv, Types, TypeOK, CloseOp
  <1>s. At("script", "sendPush") => sends # CloseOp
    BY <1>b DEF IInv, Types, CloseOp
  <1>t. sock \in {"none", "open", "closed"}
    BY DEF IInv, Types, TypeOK
  <1>1. CASE SendPush
    BY <1>1, <1>s, <1>p, <1>a, <1>b, <1>t DEF CloseCuts, CloseGone, CloseSeen, Cutting,
       Shut, SocketUse, CallPoints, Handshake, Opening, SendPush, Woken, OutMuFree
  <1>2. CASE WriterData
    BY <1>2, <1>p, <1>a, <1>b, <1>t DEF CloseCuts, CloseGone, CloseSeen, Cutting, Shut,
       SocketUse, CallPoints, Handshake, Opening, WriterData, Sent, Frame
  <1>3. CASE WriterClose
    <2>1. CASE At("worker", "sendClose")
      BY <1>3, <2>1, <1>p, <1>a, <1>b, <1>t DEF CloseCuts, CloseGone, CloseSeen, Cutting,
         Shut, SocketUse, CallPoints, Handshake, Opening, WriterClose, Sent, Frame
    <2>2. CASE At("worker", "sentClose")
      BY <1>3, <2>2, <1>p, <1>a, <1>b, <1>t DEF CloseCuts, CloseGone, CloseSeen, Cutting,
         Shut, SocketUse, CallPoints, Handshake, Opening, WriterClose, Sent, Frame
    <2> QED
      BY <1>3, <2>1, <2>2 DEF WriterClose
  <1>4. CASE ReaderClose
    <2>1. CASE At("reader", "closeLoad")
      BY <1>4, <2>1, <1>p, <1>a, <1>b, <1>t DEF CloseCuts, CloseGone, CloseSeen, Cutting,
         Shut, SocketUse, CallPoints, Handshake, Opening, ReaderClose, Woken, Sent, Frame,
         Push, Event
    <2>2. CASE At("reader", "echo")
      BY <1>4, <2>2, <1>p, <1>a, <1>b, <1>t DEF CloseCuts, CloseGone, CloseSeen, Cutting,
         Shut, SocketUse, CallPoints, Handshake, Opening, ReaderClose, Woken, Sent, Frame,
         Push, Event
    <2>3. CASE At("reader", "closePush")
      BY <1>4, <2>3, <1>p, <1>a, <1>b, <1>t DEF CloseCuts, CloseGone, CloseSeen, Cutting,
         Shut, SocketUse, CallPoints, Handshake, Opening, ReaderClose, Woken, Sent, Frame,
         Push, Event
    <2>4. CASE At("reader", "closeState")
      BY <1>4, <2>4, <1>p, <1>a, <1>b, <1>t DEF CloseCuts, CloseGone, CloseSeen, Cutting,
         Shut, SocketUse, CallPoints, Handshake, Opening, ReaderClose, Woken, Sent, Frame,
         Push, Event
    <2>5. CASE At("reader", "closeStop")
      BY <1>4, <2>5, <1>p, <1>a, <1>b, <1>t DEF CloseCuts, CloseGone, CloseSeen, Cutting,
         Shut, SocketUse, CallPoints, Handshake, Opening, ReaderClose, Woken, Sent, Frame,
         Push, Event
    <2> QED
      BY <1>4, <2>1, <2>2, <2>3, <2>4, <2>5 DEF ReaderClose
  <1>5. CASE ClosePush
    <2>1. /\ pc.script = "closePush" /\ outQ' = Append(outQ, CloseOp) /\ UNCHANGED <<state, stop, sock, wire>>
          /\ pc'.script = IF closeFrom = "connecting" THEN "closeStop" ELSE "idle"
          /\ pc'.worker \in {pc.worker, "test"} /\ (pc'.worker # pc.worker => pc.worker = "wait")
      BY <1>5, <1>p DEF ClosePush, Woken
    <2>2. /\ Len(outQ') = Len(outQ) + 1 /\ Len(outQ) \in Nat /\ DOMAIN outQ = 1..Len(outQ)
          /\ DOMAIN outQ' = 1..Len(outQ') /\ outQ'[Len(outQ')] = CloseOp
          /\ \A i \in 1..Len(outQ) : outQ'[i] = outQ[i]
      BY <1>5, <1>b, <2>1
    <2>3. CloseGone' = CloseGone
      BY <1>5, <2>1 DEF CloseGone
    <2>4. closeFrom # "connecting" => closeFrom = "open"
      BY <1>5 DEF IInv, Types, TypeOK
    <2>7. \A j \in DOMAIN outQ' : outQ'[j] # CloseOp =>
            /\ j \in DOMAIN outQ /\ outQ'[j] = outQ[j]
            /\ \A i \in DOMAIN outQ' : i < j => i \in DOMAIN outQ /\ outQ'[i] = outQ[i]
      BY ONLY <2>2
    <2>8. UNCHANGED sock /\ (pc'.worker = "sendData" => pc.worker = "sendData")
      BY <1>5, <2>1
    <2>5. \A i, j \in DOMAIN outQ' : i < j /\ outQ'[i] = CloseOp /\ outQ'[j] # CloseOp => Shut'
      BY ONLY <1>a, <2>7, <2>8 DEF CloseCuts, Shut
    <2>6. /\ \A i \in DOMAIN outQ' : CloseGone' /\ outQ'[i] # CloseOp => Shut'
          /\ CloseGone' /\ pc'.worker = "sendData" => Shut'
      BY ONLY <1>a, <2>3, <2>7, <2>8 DEF CloseCuts, Shut, At
    <2> QED
      BY <1>5, <1>a, <2>1, <2>4, <2>5, <2>6 DEF CloseCuts, Cutting, CallPoints, Handshake,
         Opening

  <1>6. CASE WriterPop
    <2>1. CASE outQ = <<>>
      BY <1>6, <1>p, <1>a, <2>1 DEF WriterPop, CloseCuts, CloseGone, CloseSeen, Cutting,
         Shut, Handshake, Opening
    <2>2. CASE outQ # <<>>
      <3>1. /\ pc.worker = "drain" /\ outQ' = Tail(outQ) /\ UNCHANGED <<state, stop, sock, wire>>
            /\ pc'.worker = IF outQ[1] = CloseOp THEN "sendClose" ELSE "sendData"
            /\ pc'.script = pc.script
        BY <1>6, <1>p, <1>b, <2>2 DEF WriterPop
      <3>2. /\ \A i \in DOMAIN outQ' : i + 1 \in DOMAIN outQ /\ outQ'[i] = outQ[i + 1] /\ i \in Nat /\ 1 < i + 1
            /\ 1 \in DOMAIN outQ
        BY <1>6, <1>b, <2>2, <3>1
      <3>3. CloseGone' => CloseGone \/ outQ[1] = CloseOp
        BY <1>6, <3>1 DEF CloseGone
      <3>4. CloseSeen' => CloseSeen
        BY <1>6, <3>2, <3>3 DEF CloseSeen
      <3>5. \A i, j \in DOMAIN outQ' : i < j /\ outQ'[i] = CloseOp /\ outQ'[j] # CloseOp => Shut'
        BY <1>6, <1>a, <3>1, <3>2 DEF CloseCuts, Shut
      <3>6. \A i \in DOMAIN outQ' : CloseGone' /\ outQ'[i] # CloseOp => Shut'
        BY <1>6, <1>a, <3>1, <3>2, <3>3 DEF CloseCuts, Shut
      <3>7. CloseGone' /\ pc'.worker = "sendData" => Shut'
        BY <1>6, <1>a, <3>1, <3>2, <3>3 DEF CloseCuts, Shut
      <3> QED
        BY <1>6, <1>a, <3>1, <3>4, <3>5, <3>6, <3>7 DEF CloseCuts, Cutting, Shut,
           Handshake, Opening
    <2> QED
      BY <1>6, <2>1, <2>2

  <1>7. ASSUME NEW t \in Emitters, EmitFrame(t) \/ EmitPush(t) \/ EmitState(t) \/
     EmitStop(t) PROVE CloseCuts'
    BY <1>7, <1>p, <1>a, <1>b, <1>t DEF CloseCuts, CloseGone, CloseSeen, Cutting, Shut,
       SocketUse, CallPoints, Handshake, Opening, EmitFrame, Sent, Frame, Emitters,
       EmitPush, Push, Event, EmitState, EmitStop, Woken, Closed
  <1>8. ASSUME NEW f \in Frames, ReaderRecv(f) PROVE CloseCuts'
    BY <1>8, <1>p, <1>a, <1>b, <1>t DEF CloseCuts, CloseGone, CloseSeen, Cutting, Shut,
       SocketUse, CallPoints, Handshake, Opening, ReaderRecv, Outcome, More, Frames
  <1>9. CASE Send \/ CloseLoad \/ CloseStore
    BY <1>9, <1>p, <1>a, <1>b, <1>t DEF CloseCuts, CloseGone, CloseSeen, Cutting, Shut,
       SocketUse, CallPoints, Handshake, Opening, Send, More, CloseLoad, CloseStore
  <1>10. CASE CloseStop \/ CloseSock
    BY <1>10, <1>p, <1>a, <1>b, <1>t DEF CloseCuts, CloseGone, CloseSeen, Cutting, Shut,
       SocketUse, CallPoints, Handshake, Opening, CloseStop, CloseSock, Closed
  <1>11. CASE RuntimePump \/ Destroy \/ DestroyNotify \/ DestroyJoin
    BY <1>11, <1>p, <1>a, <1>b, <1>t DEF CloseCuts, CloseGone, CloseSeen, Cutting, Shut,
       SocketUse, CallPoints, Handshake, Opening, RuntimePump, Woken, Destroy,
       DestroyNotify, OutMuFree, Closed, DestroyJoin
  <1>12. CASE HandshakeStart \/ HandshakeConnect \/ HandshakeCheck \/ HandshakeRequest \/
     HandshakeHeaders
    BY <1>12, <1>p, <1>a, <1>b, <1>t DEF CloseCuts, CloseGone, CloseSeen, Cutting, Shut,
       SocketUse, CallPoints, Handshake, Opening, HandshakeStart, HandshakeConnect,
       HandshakeCheck, Closed, HandshakeRequest, HandshakeHeaders
  <1>13. CASE HandshakeFailed \/ Opened \/ OpenEvent
    BY <1>13, <1>p, <1>a, <1>b, <1>t DEF CloseCuts, CloseGone, CloseSeen, Cutting, Shut,
       SocketUse, CallPoints, Handshake, Opening, HandshakeFailed, Push, Event, Opened,
       OpenEvent
  <1>14. CASE WriterLoop \/ WriterTest \/ WriterPark \/ WriterTimeout
    BY <1>14, <1>p, <1>a, <1>b, <1>t DEF CloseCuts, CloseGone, CloseSeen, Cutting, Shut,
       SocketUse, CallPoints, Handshake, Opening, WriterLoop, WriterTest, WriterPark,
       WriterTimeout
  <1>15. CASE WriterSpoilt
    BY <1>15, <1>p, <1>a, <1>b, <1>t DEF CloseCuts, CloseGone, CloseSeen, Cutting, Shut,
       SocketUse, CallPoints, Handshake, Opening, WriterSpoilt
  <1>16. CASE CheckIdle
    BY <1>16, <1>p, <1>a, <1>b, <1>t DEF CloseCuts, CloseGone, CloseSeen, Cutting, Shut,
       SocketUse, CallPoints, Handshake, Opening, CheckIdle, More
  <1>17. CASE CheckIdlePing \/ Teardown
    BY <1>17, <1>p, <1>a, <1>b, <1>t DEF CloseCuts, CloseGone, CloseSeen, Cutting, Shut,
       SocketUse, CallPoints, Handshake, Opening, CheckIdlePing, Sent, Frame, Closed,
       Teardown, Push, Event
  <1>18. CASE ReaderLoop \/ ReaderBreak \/ ReaderMessage \/ ReaderPong
    BY <1>18, <1>p, <1>a, <1>b, <1>t DEF CloseCuts, CloseGone, CloseSeen, Cutting, Shut,
       SocketUse, CallPoints, Handshake, Opening, ReaderLoop, ReaderBreak, ReaderMessage,
       Push, Event, ReaderPong, Sent, Frame
  <1>19. CASE PeerDrop
    BY <1>19, <1>p, <1>a, <1>b, <1>t DEF CloseCuts, CloseGone, CloseSeen, Cutting, Shut,
       SocketUse, CallPoints, Handshake, Opening, PeerDrop
  <1>20. CASE UNCHANGED vars
    BY <1>20, <1>p, <1>a, <1>b, <1>t DEF CloseCuts, CloseGone, CloseSeen, Cutting, Shut,
       SocketUse, CallPoints, Handshake, Opening
  <1> QED
    BY <1>1, <1>2, <1>3, <1>4, <1>5, <1>6, <1>7, <1>8, <1>9, <1>10, <1>11, <1>12, <1>13,
       <1>14, <1>15, <1>16, <1>17, <1>18, <1>19, <1>20 DEF Next, ScriptStep, WorkerStep,
       ReaderStep, EmitLocalClose, Emitters

\* Messages pass from send to the queue to the wire in the order of their numbers.
LEMMA OrderStep ==
    ASSUME IInv, [Next]_vars
    PROVE  SendOrder'
  <1> USE DEF vars, cliVars, wrkVars, netVars, scriptRest, emitRest, handshakeRest,
     openRest, writerRest, readerRest, At, Goto
  <1>p. pc \in [script : ScriptPoints, worker : WorkerPoints, reader : ReaderPoints]
    BY DEF IInv, Types, TypeOK
  <1>a. SendOrder
    BY DEF IInv
  <1>b. outQ \in Seq(0..MaxWork) /\ wire \in Seq(Sendings) /\ sends \in 0..MaxWork
          /\ cur.msg \in 0..MaxWork
    BY DEF IInv, Types, TypeOK
  <1>n. sends \in Nat /\ cur.msg \in Nat /\ MaxWork \in Nat
    BY <1>b, WorkAssumption
  <1>o. \A i \in DOMAIN outQ : outQ[i] \in Nat
    BY <1>b, WorkAssumption
  <1>w. \A k \in DOMAIN wire : wire[k].msg \in Nat
    <2>1. \A k \in DOMAIN wire : wire[k] \in Sendings
      BY <1>b
    <2> QED
      BY <2>1, WorkAssumption DEF Sendings
  <1>1. CASE SendPush
    BY <1>1, <1>p, <1>a, <1>b, <1>n, <1>o, <1>w DEF SendOrder, Queued, SendPush, Woken
  <1>2. CASE WriterClose
    <2>1. CASE At("worker", "sendClose")
      <3>1. /\ UNCHANGED <<outQ, sends, cur>> /\ pc'.script = pc.script /\ pc'.worker = "sentClose"
            /\ wire' = wire \/ wire' = Append(wire, Frame("close", CloseOp, "script"))
        BY <1>2, <1>p, <2>1 DEF WriterClose, Sent
      <3>2. \A k \in DOMAIN wire' :
              (k \in DOMAIN wire /\ wire'[k] = wire[k]) \/ wire'[k].kind = "close"
        BY <1>2, <1>b, <3>1 DEF Frame
      <3> QED
        BY <1>2, <1>a, <3>1, <3>2 DEF SendOrder, Queued
    <2>2. CASE At("worker", "sentClose")
      BY <1>2, <2>2, <1>p, <1>a, <1>b, <1>n, <1>o, <1>w DEF SendOrder, Queued, WriterClose,
         Sent, Frame
    <2> QED
      BY <1>2, <2>1, <2>2 DEF WriterClose
  <1>3. CASE ClosePush
    <2>1. /\ UNCHANGED <<wire, sends, cur>> /\ outQ' = Append(outQ, CloseOp) /\ pc'.script # "sendPush"
          /\ (pc'.worker = "sendData" => pc.worker = "sendData")
      BY <1>3, <1>p DEF ClosePush, Woken
    <2>2. /\ \A i \in DOMAIN outQ' : (i \in DOMAIN outQ /\ outQ'[i] = outQ[i]) \/ outQ'[i] = CloseOp
      BY <1>3, <1>b, <2>1
    <2>3. CloseOp <= sends
      BY <1>3, <1>n DEF CloseOp
    <2> QED
      BY ONLY <1>a, <2>1, <2>2, <2>3 DEF SendOrder, Queued, At

  <1>4. CASE WriterPop
    <2>1. CASE outQ = <<>>
      BY <1>4, <1>p, <1>a, <2>1 DEF WriterPop, SendOrder, Queued
    <2>2. CASE outQ # <<>>
      <3>1. /\ pc.worker = "drain" /\ outQ' = Tail(outQ) /\ UNCHANGED <<wire, sends>>
            /\ cur'.msg = outQ[1] /\ (pc'.worker = "sendData" => outQ[1] # CloseOp)
            /\ pc'.script = pc.script
        BY <1>4, <1>p, <1>b, <2>2 DEF WriterPop
      <3>2. /\ \A i \in DOMAIN outQ' : i + 1 \in DOMAIN outQ /\ outQ'[i] = outQ[i + 1] /\ i \in Nat /\ 1 < i + 1
            /\ 1 \in DOMAIN outQ
        BY <1>4, <1>b, <2>2, <3>1
      <3>3. \A i, j \in DOMAIN outQ' :
              i < j /\ outQ'[i] # CloseOp /\ outQ'[j] # CloseOp => outQ'[i] < outQ'[j]
        BY <1>4, <1>a, <3>2 DEF SendOrder
      <3>4. \A i \in DOMAIN outQ' : Queued(outQ[i])'
        BY <1>4, <1>a, <3>1, <3>2 DEF SendOrder, Queued
      <3>5. \A i \in DOMAIN outQ' : outQ'[i] # CloseOp
              /\ pc'.worker = "sendData" => cur'.msg < outQ'[i]
        BY <1>4, <1>a, <3>1, <3>2 DEF SendOrder
      <3>6. pc'.worker = "sendData" => cur'.msg # CloseOp /\ Queued(cur.msg)'
        BY <1>4, <1>a, <3>1, <3>2 DEF SendOrder, Queued
      <3>7. \A k \in DOMAIN wire' : wire'[k].kind = "data" =>
              /\ Queued(wire[k].msg)'
              /\ pc'.worker = "sendData" => wire'[k].msg <= cur'.msg
              /\ \A i \in DOMAIN outQ' : outQ'[i] # CloseOp => wire'[k].msg < outQ'[i]
        BY <1>4, <1>a, <1>o, <1>w, <3>1, <3>2 DEF SendOrder, Queued
      <3> QED
        BY <1>4, <3>3, <3>4, <3>5, <3>6, <3>7 DEF SendOrder
    <2> QED
      BY <1>4, <2>1, <2>2

  <1>5. CASE WriterData
    <2>1. /\ UNCHANGED <<outQ, sends>> /\ pc.worker = "sendData" /\ pc'.script = pc.script /\ cur'.msg = cur.msg
          /\ wire' = wire \/ wire' = Append(wire, Frame("data", cur.msg, "worker"))
      <3>1. cur \in [msg : 0..MaxWork, part : 1..Fragments]
        BY <1>5 DEF IInv, Types, TypeOK
      <3> QED
        BY <1>5, <1>p, <3>1 DEF WriterData, Sent
    <2>2. \A k \in DOMAIN wire' :
            \/ k \in DOMAIN wire /\ wire'[k] = wire[k]
            \/ wire'[k].kind = "data" /\ wire'[k].msg = cur.msg
      BY <1>5, <1>b, <2>1 DEF Frame
    <2> QED
      BY ONLY <1>a, <1>n, <2>1, <2>2 DEF SendOrder, Queued, At

  <1>6. ASSUME NEW t \in Emitters, EmitFrame(t) \/ EmitPush(t) \/ EmitState(t) \/
     EmitStop(t) PROVE SendOrder'
    BY <1>6, <1>p, <1>a, <1>b, <1>n, <1>o, <1>w DEF SendOrder, Queued, EmitFrame, Sent,
       Frame, Emitters, EmitPush, Push, Event, EmitState, EmitStop, Woken, Closed
  <1>7. ASSUME NEW f \in Frames, ReaderRecv(f) PROVE SendOrder'
    BY <1>7, <1>p, <1>a, <1>b, <1>n, <1>o, <1>w DEF SendOrder, Queued, ReaderRecv, Outcome,
       More, Frames
  <1>8. CASE Send \/ CloseLoad \/ CloseStore
    BY <1>8, <1>p, <1>a, <1>b, <1>n, <1>o, <1>w DEF SendOrder, Queued, Send, More,
       CloseLoad, CloseStore
  <1>9. CASE CloseStop \/ CloseSock
    BY <1>9, <1>p, <1>a, <1>b, <1>n, <1>o, <1>w DEF SendOrder, Queued, CloseStop,
       CloseSock, Closed
  <1>10. CASE RuntimePump \/ Destroy \/ DestroyNotify \/ DestroyJoin
    BY <1>10, <1>p, <1>a, <1>b, <1>n, <1>o, <1>w DEF SendOrder, Queued, RuntimePump, Woken,
       Destroy, DestroyNotify, OutMuFree, Closed, DestroyJoin
  <1>11. CASE HandshakeStart \/ HandshakeConnect \/ HandshakeCheck \/ HandshakeRequest \/
     HandshakeHeaders
    BY <1>11, <1>p, <1>a, <1>b, <1>n, <1>o, <1>w DEF SendOrder, Queued, HandshakeStart,
       HandshakeConnect, HandshakeCheck, Closed, HandshakeRequest, HandshakeHeaders
  <1>12. CASE HandshakeFailed \/ Opened \/ OpenEvent
    BY <1>12, <1>p, <1>a, <1>b, <1>n, <1>o, <1>w DEF SendOrder, Queued, HandshakeFailed,
       Push, Event, Opened, OpenEvent
  <1>13. CASE WriterLoop \/ WriterTest \/ WriterPark \/ WriterTimeout
    BY <1>13, <1>p, <1>a, <1>b, <1>n, <1>o, <1>w DEF SendOrder, Queued, WriterLoop,
       WriterTest, WriterPark, WriterTimeout
  <1>14. CASE WriterSpoilt
    BY <1>14, <1>p, <1>a, <1>b, <1>n, <1>o, <1>w DEF SendOrder, Queued, WriterSpoilt
  <1>15. CASE CheckIdle
    BY <1>15, <1>p, <1>a, <1>b, <1>n, <1>o, <1>w DEF SendOrder, Queued, CheckIdle, More
  <1>16. CASE CheckIdlePing \/ Teardown
    BY <1>16, <1>p, <1>a, <1>b, <1>n, <1>o, <1>w DEF SendOrder, Queued, CheckIdlePing,
       Sent, Frame, Closed, Teardown, Push, Event
  <1>17. CASE ReaderLoop \/ ReaderBreak \/ ReaderMessage \/ ReaderPong
    BY <1>17, <1>p, <1>a, <1>b, <1>n, <1>o, <1>w DEF SendOrder, Queued, ReaderLoop,
       ReaderBreak, ReaderMessage, Push, Event, ReaderPong, Sent, Frame
  <1>18. CASE ReaderClose \/ PeerDrop
    BY <1>18, <1>p, <1>a, <1>b, <1>n, <1>o, <1>w DEF SendOrder, Queued, ReaderClose, Woken,
       Sent, Frame, Push, Event, PeerDrop
  <1>19. CASE UNCHANGED vars
    BY <1>19, <1>p, <1>a, <1>b, <1>n, <1>o, <1>w DEF SendOrder, Queued
  <1> QED
    BY <1>1, <1>2, <1>3, <1>4, <1>5, <1>6, <1>7, <1>8, <1>9, <1>10, <1>11, <1>12, <1>13,
       <1>14, <1>15, <1>16, <1>17, <1>18, <1>19 DEF Next, ScriptStep, WorkerStep,
       ReaderStep, EmitLocalClose, Emitters

\* A frame is sent behind the frames of earlier messages, and none behind a close frame.
LEMMA WireStep ==
    ASSUME IInv, [Next]_vars
    PROVE  WireOrder'
  <1> USE DEF vars, cliVars, wrkVars, netVars, scriptRest, emitRest, handshakeRest,
     openRest, writerRest, readerRest, At, Goto
  <1>a. WireOrder /\ SendOrder /\ CloseCuts
    BY DEF IInv
  <1>b. wire \in Seq(Sendings)
    BY DEF IInv, Types, TypeOK
  <1>1. ASSUME UNCHANGED wire
        PROVE  WireOrder'
    BY <1>a, <1>1 DEF WireOrder
  <1>2. CASE WriterData
    BY <1>2, <1>a, <1>b DEF WireOrder, SendOrder, CloseCuts, CloseGone, Shut, WriterData,
       Sent, Frame
  <1>3. CASE WriterClose
    <2>1. wire' = wire \/ wire' = Append(wire, Frame("close", CloseOp, "script"))
      BY <1>3 DEF WriterClose, Sent
    <2>2. /\ \A k \in DOMAIN wire' : (k \in DOMAIN wire /\ wire'[k] = wire[k]) \/ wire'[k].kind # "data"
          /\ \A k \in DOMAIN wire : wire'[k] = wire[k]
          /\ \A j \in DOMAIN wire, i \in DOMAIN wire' : i < j => i \in DOMAIN wire
      BY <1>3, <1>b, <2>1 DEF Frame
    <2> QED
      BY ONLY <1>a, <2>2 DEF WireOrder

  <1>4. ASSUME NEW t \in Emitters, EmitFrame(t) \/ EmitPush(t) \/ EmitState(t) \/
     EmitStop(t) PROVE WireOrder'
    BY <1>4, <1>1 DEF EmitFrame, Sent, Frame, Emitters, EmitPush, Push, Event, EmitState,
       EmitStop, Woken, Closed
  <1>5. ASSUME NEW f \in Frames, ReaderRecv(f) PROVE WireOrder'
    BY <1>5, <1>1 DEF ReaderRecv, Outcome, More, Frames
  <1>6. CASE Send \/ SendPush \/ CloseLoad \/ CloseStore
    BY <1>6, <1>1 DEF Send, More, SendPush, Woken, OutMuFree, CloseLoad, CloseStore
  <1>7. CASE ClosePush \/ CloseStop \/ CloseSock
    BY <1>7, <1>1 DEF ClosePush, Woken, OutMuFree, CloseStop, CloseSock, Closed
  <1>8. CASE RuntimePump \/ Destroy \/ DestroyNotify \/ DestroyJoin
    BY <1>8, <1>1 DEF RuntimePump, Woken, Destroy, DestroyNotify, OutMuFree, Closed,
       DestroyJoin
  <1>9. CASE HandshakeStart \/ HandshakeConnect \/ HandshakeCheck \/ HandshakeRequest \/
     HandshakeHeaders
    BY <1>9, <1>1 DEF HandshakeStart, HandshakeConnect, HandshakeCheck, Closed,
       HandshakeRequest, HandshakeHeaders
  <1>10. CASE HandshakeFailed \/ Opened \/ OpenEvent
    BY <1>10, <1>1 DEF HandshakeFailed, Push, Event, Opened, OpenEvent
  <1>11. CASE WriterLoop \/ WriterTest \/ WriterPark \/ WriterTimeout
    BY <1>11, <1>1 DEF WriterLoop, WriterTest, WriterPark, WriterTimeout
  <1>12. CASE WriterPop \/ WriterSpoilt
    BY <1>12, <1>1 DEF WriterPop, WriterSpoilt
  <1>13. CASE CheckIdle
    BY <1>13, <1>1 DEF CheckIdle, More
  <1>14. CASE CheckIdlePing \/ Teardown
    BY <1>14, <1>1 DEF CheckIdlePing, Sent, Frame, Closed, Teardown, Push, Event
  <1>15. CASE ReaderLoop \/ ReaderBreak \/ ReaderMessage \/ ReaderPong
    BY <1>15, <1>1 DEF ReaderLoop, ReaderBreak, ReaderMessage, Push, Event, ReaderPong,
       Sent, Frame
  <1>16. CASE ReaderClose \/ PeerDrop
    BY <1>16, <1>1 DEF ReaderClose, Woken, Sent, Frame, Push, Event, PeerDrop
  <1>17. CASE UNCHANGED vars
    BY <1>1, <1>17
  <1> QED
    BY <1>2, <1>3, <1>4, <1>5, <1>6, <1>7, <1>8, <1>9, <1>10, <1>11, <1>12, <1>13, <1>14,
       <1>15, <1>16, <1>17 DEF Next, ScriptStep, WorkerStep, ReaderStep, EmitLocalClose,
       Emitters

-----------------------------------------------------------------------------
(* The theorems. *)

\* The invariant holds when the worker has just been started.
LEMMA InitInv ==
    Init => IInv
  <1> SUFFICES ASSUME Init PROVE IInv
    OBVIOUS
  <1> USE DEF At
  <1>1. Types
    <2>1. inQ \in Seq(Events) /\ wire \in Seq(Sendings) /\ outQ \in Seq(0..MaxWork)
      BY DEF Init
    <2>2. Range(inQ) = {} /\ Range(wire) = {}
      BY DEF Init, Range
    <2>3. 0 \in 0..MaxWork /\ 1 \in 1..Fragments
      BY WorkAssumption, FragmentsAssumption
    <2>4. pc \in [script : ScriptPoints, worker : WorkerPoints, reader : ReaderPoints]
      BY DEF Init, ScriptPoints, WorkerPoints, ReaderPoints, EmitPoints
    <2>5. cur \in [msg : 0..MaxWork, part : 1..Fragments]
      BY <2>3 DEF Init, CloseOp
    <2>6. TypeOK
      BY <2>1, <2>2, <2>3, <2>4, <2>5 DEF Init, TypeOK, States
    <2> QED
      BY <2>1, <2>4, <2>5, <2>6 DEF Init, Types
  <1>2. BufferedExact
    <2>1. {i \in DOMAIN outQ : outQ[i] # CloseOp} = {}
      BY DEF Init
    <2> QED
      BY <2>1, FS_EmptySet DEF Init, BufferedExact
  <1>3. EventLine /\ SessionEvents /\ WireOrder
    BY DEF Init, EventLine, SessionEvents, WireOrder, Silent, Opening, Handshake, HasClose
  <1>4. SocketUse /\ CallPoints
    BY DEF Init, SocketUse, CallPoints
  <1>5. CloseCuts /\ SendOrder
    BY DEF Init, CloseCuts, CloseSeen, CloseGone, SendOrder
  <1> QED
    BY <1>1, <1>2, <1>3, <1>4, <1>5 DEF IInv

\* The invariant is inductive.
THEOREM Invariance ==
    Spec => []IInv
  <1>1. IInv /\ [Next]_vars => IInv'
    BY TypeStep, BufferedStep, EventStep, SessionStep, SocketStep, CutStep, OrderStep, WireStep
       DEF IInv
  <1> QED
    BY InitInv, <1>1, PTL DEF Spec

\* A handler sees open first and once, or error and then close; nothing but a
\* close follows a close of the peer (the push_event_ calls of the worker, the
\* reader and emit_local_close); and no state CLOSED is without its event.
THEOREM SessionIsTold ==
    Spec => []SessionEvents
  <1>1. IInv => SessionEvents
    BY DEF IInv
  <1> QED
    BY Invariance, <1>1, PTL

\* Messages leave in the order of send, and none leaves behind the close frame
\* of close(), also when close() meets the end of the handshake.
THEOREM WireIsOrdered ==
    Spec => []WireOrder
  <1>1. IInv => WireOrder
    BY DEF IInv
  <1> QED
    BY Invariance, <1>1, PTL

\* Every variable has its type, bufferedAmount counts the messages that are
\* neither written nor given up, and the destructor leaves no socket open.
THEOREM ResourcesAreAccounted ==
    Spec => []ResourcesAccounted
  <1>1. IInv => SocketReleased
    BY DEF IInv, SocketUse, SocketReleased, At
  <1>2. IInv => ResourcesAccounted
    BY <1>1 DEF IInv, Types, ResourcesAccounted
  <1> QED
    BY Invariance, <1>2, PTL

====
