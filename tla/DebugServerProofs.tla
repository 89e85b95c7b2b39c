------------------------- MODULE DebugServerProofs -------------------------
(***************************************************************************)
(* Proofs about DebugServer, for any number of sessions, requests and      *)
(* lines.                                                                  *)
(*                                                                         *)
(* Bookkeeping, AbortIsFinal and SessionCap follow from IInv.  It ties the *)
(* accept thread's locals to the session map, counts the sessions          *)
(* live_clients stands for one by one (Counted), numbers the calls         *)
(* (CallsNumbered) and says where a call is while the render thread pumps  *)
(* (CallsApart).  RepliesRouted needs in addition the order in which calls *)
(* leave the inbox and what a writer holds (StreamInv); EventsSubscribed   *)
(* that a session was told of its subscriptions (SubscriptionInv).         *)
(***************************************************************************)
EXTENDS DebugServer, FiniteSetTheorems, SequenceTheorems, TLAPS

(***************************************************************************)
(* The inductive invariant.                                                *)
(***************************************************************************)

\* stop() has taken over the session map.
MapTaken == rt \in StopPoints \ {"halt", "snapshot"}

\* Session ids: those not handed out yet are unused, the accept thread's
\* locals still hold when it acts on them, and a reader that has begun
\* finish_session is dead and leaves the map on its way out.
SessionIdsUsed ==
    /\ \A s \in SessionIds : s >= nextId => s \notin sessions /\ ~alive[s] /\ rpc[s] = "none"
    /\ apc = "register" => nextId <= MaxSessions /\ Cardinality(sessions) < MaxClients
    /\ apc \in {"count", "announce"} => nextId > 1 /\ rpc[nextId - 1] = "none"
    /\ apc = "count" /\ ~MapTaken => nextId - 1 \in sessions
    /\ \A s \in SessionIds : rpc[s] \in {"uncount", "publish", "exited"} => s \notin sessions
    /\ \A s \in SessionIds :
          rpc[s] \in {"abort", "erase", "uncount", "publish", "exited"} => ~alive[s]

\* The sessions live_clients counts: incremented for, and not yet decremented.
Counted == {s \in SessionIds :
    (s \in sessions /\ ~(apc = "count" /\ s = nextId - 1)) \/ rpc[s] = "uncount"}

\* live_clients never runs below the sessions it counts, and is exact until
\* stop() empties the map (what stop() removes is never decremented).
CountedClients ==
    /\ liveClients >= Cardinality(Counted)
    /\ ~MapTaken => liveClients = Cardinality(Counted)

\* The callback that is between its two looks at live_clients is not queued.
WaiterHeld ==
    /\ waiters \cap rtWaiter = {}
    /\ rt # "attach" => rtWaiter = {}

AllCalls == inbox \cup drained \cup executed \cup dropped

\* Every arrival number belongs to one call, and calls come from sessions
\* that exist.
CallsNumbered ==
    /\ IsFiniteSet(AllCalls)
    /\ Cardinality(AllCalls) = nextAt
    /\ {c.at : c \in AllCalls} = 0..(nextAt - 1)
    /\ \A c, d \in AllCalls : c.at = d.at => c = d
    /\ \A c \in AllCalls : c.origin < nextId

\* The render thread works on the calls of a pump.
Pumping == {"exec", "apply", "reply"}

\* Where a call can be.  The calls of a pump are pending until the one in
\* front is dispatched; it stays in front, executed, until it was answered.
CallsApart ==
    /\ inbox \cap (drained \cup executed \cup dropped) = {}
    /\ executed \cap dropped = {}
    /\ drained \cap dropped = {}
    /\ rt \notin Pumping => drained = {}
    /\ rt = "exec" => drained \cap executed = {}
    /\ rt \in {"apply", "reply"} => \A c \in drained : c \in executed <=> Front(c)
    /\ \A c \in dropped : ~alive[c.origin] \/ rt \in StopPoints

IInv ==
    /\ TypeOK
    /\ WaiterNotLost
    /\ SessionIdsUsed
    /\ CountedClients
    /\ WaiterHeld
    /\ CallsNumbered
    /\ CallsApart
    /\ AbortIsFinal
    /\ SessionCap

-----------------------------------------------------------------------------
(* Types. *)

\* Everything the server sends is a message.
LEMMA MessageFacts ==
    /\ \A c \in Call : Reply(c) \in Message
    /\ \A e \in EventName : Event(e) \in Message
    /\ ErrorReply \in Message
  BY DEF Message, Reply, Event, ErrorReply

\* Waking writers keeps their control points in range.
LEMMA NotifiedType ==
    ASSUME TypeOK, NEW S
    PROVE  Notified(S) \in [SessionIds -> WriterPoints]
  BY DEF TypeOK, Notified, WriterPoints

\* A push keeps outboxes and writers in their types.
LEMMA PushType ==
    ASSUME TypeOK, NEW S, NEW m \in Message, PushTo(S, m)
    PROVE  /\ outbox' \in [SessionIds -> Seq(Message)]
           /\ wpc' \in [SessionIds -> WriterPoints]
  <1>1. outbox \in [SessionIds -> Seq(Message)]
    BY DEF TypeOK
  <1>2. \A s \in SessionIds : Append(outbox[s], m) \in Seq(Message)
    BY <1>1, AppendProperties
  <1>3. outbox' \in [SessionIds -> Seq(Message)]
    BY <1>1, <1>2 DEF PushTo
  <1> QED
    BY <1>3, NotifiedType DEF PushTo

\* live_clients is positive when a reader is about to decrement it.
LEMMA UncountPositive ==
    ASSUME IInv, NEW s \in SessionIds, rpc[s] = "uncount"
    PROVE  liveClients - 1 \in Nat
  <1>1. s \in Counted /\ Counted \subseteq SessionIds
    BY DEF Counted
  <1>2. IsFiniteSet(SessionIds)
    BY FS_Interval, MaxSessionsAssumption DEF SessionIds
  <1>3. IsFiniteSet(Counted) /\ Counted # {}
    BY <1>1, <1>2, FS_Subset
  <1>4. Cardinality(Counted) \in Nat /\ Cardinality(Counted) # 0
    BY <1>3, FS_CardinalityType, FS_EmptySet
  <1> QED
    BY <1>4 DEF TypeOK, IInv, CountedClients

\* Every step keeps every variable in its type.
LEMMA TypeStep ==
    ASSUME IInv, [Next]_vars
    PROVE  TypeOK'
  <1> USE MaxSessionsAssumption, BoundsAssumption DEF AcceptPoints, ReaderPoints,
          WriterPoints, StopPoints, RenderPoints, vars, serverVars, inboxVars, sessionVars,
          renderVars, targetVars, obsVars
  <1>0. TypeOK
    BY DEF IInv
  <1>1. CASE RegisterSession
    <2>1. nextId \in SessionIds /\ nextId' \in 1..(MaxSessions + 1)
      BY <1>1, <1>0 DEF TypeOK, RegisterSession, IInv, SessionIdsUsed, SessionIds
    <2>2. alive' \in [SessionIds -> BOOLEAN]
      BY <1>1, <1>0, <2>1 DEF TypeOK, RegisterSession
    <2> QED
      BY <1>1, <1>0, <2>1, <2>2 DEF TypeOK, RegisterSession
  <1>2. CASE CountClient
    BY <1>0, <1>2 DEF TypeOK, CountClient
  <1>3. CASE Announce
    <2>1. fired' \in [Waiters -> Nat]
      BY <1>3, <1>0 DEF TypeOK, Announce, NotifyClientAttached
    <2>2. waiters' \in SUBSET Waiters
      BY <1>3 DEF Announce, NotifyClientAttached
    <2>3. rpc' \in [SessionIds -> ReaderPoints] /\ wpc' \in [SessionIds -> WriterPoints]
      BY <1>3, <1>0 DEF TypeOK, Announce
    <2> QED
      BY <1>3, <1>0, <2>1, <2>2, <2>3 DEF TypeOK, Announce
  <1>4. CASE AcceptExit
    BY <1>0, <1>4 DEF TypeOK, AcceptExit
  <1>5. ASSUME NEW s \in SessionIds, HandleBadLine(s) PROVE TypeOK'
    <2>1. outbox' \in [SessionIds -> Seq(Message)] /\ wpc' \in [SessionIds -> WriterPoints]
      BY <1>5, <1>0, PushType, MessageFacts DEF HandleBadLine
    <2> QED
      BY <1>5, <1>0, <2>1 DEF TypeOK, HandleBadLine
  <1>6. ASSUME NEW s \in SessionIds, NEW req \in Requests, HandleCall(s, req) PROVE TypeOK'
    <2>1. [origin |-> s, at |-> nextAt, req |-> req] \in Call
      BY <1>6, <1>0 DEF TypeOK, Call
    <2>2. inbox' \in SUBSET Call /\ notYet' \in SUBSET Call
      BY <1>6, <1>0, <2>1 DEF TypeOK, HandleCall
    <2>3. nextAt' \in Nat /\ rpc' \in [SessionIds -> ReaderPoints]
      BY <1>6, <1>0 DEF TypeOK, HandleCall
    <2> QED
      BY <1>6, <1>0, <2>2, <2>3 DEF TypeOK, HandleCall
  <1>7. ASSUME NEW s \in SessionIds, AbortPending(s) PROVE TypeOK'
    BY <1>0, <1>7 DEF TypeOK, AbortPending
  <1>8. ASSUME NEW s \in SessionIds, EraseSession(s) PROVE TypeOK'
    BY <1>0, <1>8 DEF TypeOK, EraseSession, AggregateMask
  <1>9. ASSUME NEW s \in SessionIds, AlreadyErased(s) PROVE TypeOK'
    BY <1>0, <1>9 DEF TypeOK, AlreadyErased
  <1>10. ASSUME NEW s \in SessionIds, UncountClient(s) PROVE TypeOK'
    <2>1. liveClients - 1 \in Nat
      BY <1>10, UncountPositive DEF UncountClient
    <2> QED
      BY <1>10, <1>0, <2>1 DEF TypeOK, UncountClient
  <1>11. ASSUME NEW s \in SessionIds, PublishMask(s) PROVE TypeOK'
    BY <1>0, <1>11 DEF TypeOK, PublishMask
  <1>12. ASSUME NEW s \in SessionIds, WriterTop(s) PROVE TypeOK'
    BY <1>0, <1>12 DEF TypeOK, WriterTop
  <1>13. ASSUME NEW s \in SessionIds, WriterTake(s) PROVE TypeOK'
    <2>1. outbox[s] \in Seq(Message) /\ outbox[s] # <<>>
      BY <1>13, <1>0 DEF TypeOK, WriterTake
    <2>2. Head(outbox[s]) \in Message /\ Tail(outbox[s]) \in Seq(Message)
      BY <1>13, <2>1, HeadTailProperties
    <2>3. <<Head(outbox[s])>> \in Seq(Message)
      BY <1>13, <2>2
    <2>4. outbox' \in [SessionIds -> Seq(Message)] /\ inflight' \in [SessionIds -> Seq(Message)]
      BY <1>13, <1>0, <2>2, <2>3 DEF TypeOK, WriterTake
    <2> QED
      BY <1>13, <1>0, <2>4 DEF TypeOK, WriterTake
  <1>14. ASSUME NEW s \in SessionIds, WriterQuit(s) PROVE TypeOK'
    BY <1>0, <1>14 DEF TypeOK, WriterQuit
  <1>15. ASSUME NEW s \in SessionIds, WriterDecide(s) PROVE TypeOK'
    BY <1>0, <1>15 DEF TypeOK, WriterDecide
  <1>16. ASSUME NEW s \in SessionIds, WriterBlock(s) PROVE TypeOK'
    BY <1>0, <1>16 DEF TypeOK, WriterBlock
  <1>17. ASSUME NEW s \in SessionIds, WriterSend(s) PROVE TypeOK'
    <2>1. delivered[s] \o inflight[s] \in Seq(Message)
      BY <1>17, <1>0, ConcatProperties DEF TypeOK
    <2>2. <<>> \in Seq(Message)
      BY <1>17, EmptySeq
    <2>3. delivered' \in [SessionIds -> Seq(Message)] /\ inflight' \in [SessionIds -> Seq(Message)]
      BY <1>17, <1>0, <2>1, <2>2 DEF TypeOK, WriterSend
    <2> QED
      BY <1>17, <1>0, <2>3 DEF TypeOK, WriterSend
  <1>18. ASSUME NEW s \in SessionIds, WriterFail(s) PROVE TypeOK'
    <2>1. <<>> \in Seq(Message)
      BY <1>18, EmptySeq
    <2>2. inflight' \in [SessionIds -> Seq(Message)]
      BY <1>18, <1>0, <2>1 DEF TypeOK, WriterFail
    <2> QED
      BY <1>18, <1>0, <2>2 DEF TypeOK, WriterFail
  <1>19. CASE Pump
    BY <1>0, <1>19 DEF TypeOK, Pump
  <1>20. ASSUME NEW c \in drained, SkipDead(c) PROVE TypeOK'
    BY <1>0, <1>20 DEF TypeOK, SkipDead, Advance
  <1>21. ASSUME NEW c \in drained, Dispatch(c) PROVE TypeOK'
    <2>1. c \in Call
      BY <1>21, <1>0 DEF TypeOK
    <2>2. c.req.ch \in Channels /\ c.origin \in SessionIds
      BY <1>21, <2>1, RequestsAssumption DEF Call
    <2>3. executed' \in SUBSET Call
      BY <1>21, <1>0, <2>1 DEF TypeOK, Dispatch
    <2>4. CASE DispatchPlain(c)
      BY <1>21, <1>0, <2>3, <2>4 DEF TypeOK, Dispatch, DispatchPlain
    <2>5. CASE DispatchChannel(c)
      <3> DEFINE new == IF c.req.op = "sub" THEN chan[c.origin] \cup {c.req.ch}
                        ELSE chan[c.origin] \ {c.req.ch}
      <3>a. new \in SUBSET Channels
        BY <1>21, <1>0, <2>2 DEF TypeOK
      <3>b. chan' = [chan EXCEPT ![c.origin] = new] \/ chan' = chan
        BY <1>21, <2>5 DEF DispatchChannel
      <3>1. chan' \in [SessionIds -> SUBSET Channels]
        BY <1>21, <1>0, <3>a, <3>b DEF TypeOK
      <3>2. rtMask' \in SUBSET Channels
        BY <1>21, <1>0, <2>5, <3>1 DEF TypeOK, DispatchChannel, AggregateMask
      <3> QED
        BY <1>21, <1>0, <2>3, <2>5, <3>1, <3>2 DEF TypeOK, Dispatch, DispatchChannel
    <2>6. CASE DispatchConsole(c)
      <3>1. console' \in [SessionIds -> BOOLEAN]
        BY <1>21, <1>0, <2>6 DEF TypeOK, DispatchConsole
      <3> QED
        BY <1>21, <1>0, <2>3, <2>6, <3>1 DEF TypeOK, Dispatch, DispatchConsole
    <2>7. CASE DispatchPause(c)
      <3>1. outbox' \in [SessionIds -> Seq(Message)] /\ wpc' \in [SessionIds -> WriterPoints]
        BY <1>21, <1>0, <2>7, PushType, MessageFacts DEF DispatchPause, Broadcast,
           EventName
      <3>2. paused' \in BOOLEAN
        BY <1>21, <1>0, <2>7 DEF TypeOK, DispatchPause
      <3> QED
        BY <1>21, <1>0, <2>3, <2>7, <3>1, <3>2 DEF TypeOK, Dispatch, DispatchPause
    <2>8. CASE DispatchShutdown(c)
      BY <1>21, <1>0, <2>3, <2>8 DEF TypeOK, Dispatch, DispatchShutdown
    <2> QED
      BY <1>21, <2>4, <2>5, <2>6, <2>7, <2>8 DEF Dispatch
  <1>22. ASSUME NEW c \in drained, SendReply(c) PROVE TypeOK'
    <2>1. c \in Call
      BY <1>22, <1>0 DEF TypeOK
    <2>2. outbox' \in [SessionIds -> Seq(Message)] /\ wpc' \in [SessionIds -> WriterPoints]
      BY <1>22, <1>0, <2>1, PushType, MessageFacts DEF SendReply
    <2> QED
      BY <1>22, <1>0, <2>2 DEF TypeOK, SendReply, Advance
  <1>23. CASE ApplyMask
    BY <1>0, <1>23 DEF TypeOK, ApplyMask
  <1>24. CASE AttachWait
    <2>1. fired' \in [Waiters -> Nat]
      BY <1>24, <1>0 DEF TypeOK, AttachWait
    <2>2. waiters' \in SUBSET Waiters /\ rtWaiter' \in SUBSET Waiters
      BY <1>24, <1>0 DEF TypeOK, AttachWait
    <2> QED
      BY <1>24, <1>0, <2>1, <2>2 DEF TypeOK, AttachWait
  <1>25. CASE Stop
    BY <1>0, <1>25 DEF TypeOK, Stop
  <1>26. CASE StopHalt
    BY <1>0, <1>26 DEF TypeOK, StopHalt
  <1>27. CASE StopSnapshot
    BY <1>0, <1>27 DEF TypeOK, StopSnapshot
  <1>28. CASE StopKill
    <2>1. alive' \in [SessionIds -> BOOLEAN] /\ wpc' \in [SessionIds -> WriterPoints]
      BY <1>28, <1>0, NotifiedType DEF TypeOK, StopKill
    <2> QED
      BY <1>28, <1>0, <2>1 DEF TypeOK, StopKill
  <1>29. CASE StopAbort
    BY <1>0, <1>29 DEF TypeOK, StopAbort
  <1>30. CASE StopReset
    BY <1>0, <1>30 DEF TypeOK, StopReset
  <1>31. CASE JoinAccept
    BY <1>0, <1>31 DEF TypeOK, JoinAccept
  <1>32. CASE JoinSessions
    BY <1>0, <1>32 DEF TypeOK, JoinSessions
  <1>33. ASSUME NEW c \in inbox, TimePasses(c) PROVE TypeOK'
    BY <1>0, <1>33 DEF TypeOK, TimePasses
  <1>34. CASE AcceptConnection
    BY <1>0, <1>34 DEF TypeOK, AcceptConnection
  <1>35. ASSUME NEW s \in SessionIds, ReceiveLine(s) PROVE TypeOK'
    <2>1. lines' \in [SessionIds -> 0..MaxLines]
      BY <1>35, <1>0 DEF TypeOK, ReceiveLine
    <2> QED
      BY <1>35, <1>0, <2>1 DEF TypeOK, ReceiveLine
  <1>36. ASSUME NEW s \in SessionIds, ServeHttp(s) PROVE TypeOK'
    <2>1. wpc' \in [SessionIds -> WriterPoints]
      BY <1>36, <1>0, NotifiedType DEF ServeHttp, FinishSession
    <2> QED
      BY <1>36, <1>0, <2>1 DEF TypeOK, ServeHttp, FinishSession
  <1>37. ASSUME NEW s \in SessionIds, EndReading(s) PROVE TypeOK'
    <2>1. wpc' \in [SessionIds -> WriterPoints]
      BY <1>37, <1>0, NotifiedType DEF EndReading, FinishSession
    <2> QED
      BY <1>37, <1>0, <2>1 DEF TypeOK, EndReading, FinishSession
  <1>38. ASSUME NEW w \in Waiters, AttachCheck(w) PROVE TypeOK'
    <2>1. fired' \in [Waiters -> Nat]
      BY <1>38, <1>0 DEF TypeOK, AttachCheck
    <2> QED
      BY <1>38, <1>0, <2>1 DEF TypeOK, AttachCheck
  <1>39. ASSUME NEW ch \in Channels, EmitEvent(ch) PROVE TypeOK'
    <2>1. outbox' \in [SessionIds -> Seq(Message)] /\ wpc' \in [SessionIds -> WriterPoints]
      BY <1>39, <1>0, PushType, MessageFacts DEF EmitEvent, Broadcast, EventName
    <2> QED
      BY <1>39, <1>0, <2>1 DEF TypeOK, EmitEvent
  <1>40. CASE EmitConsole
    <2>1. outbox' \in [SessionIds -> Seq(Message)] /\ wpc' \in [SessionIds -> WriterPoints]
      BY <1>40, <1>0, PushType, MessageFacts DEF EmitConsole, Broadcast, EventName
    <2> QED
      BY <1>40, <1>0, <2>1 DEF TypeOK, EmitConsole
  <1>41. CASE CloseWindow
    BY <1>0, <1>41 DEF TypeOK, CloseWindow
  <1>42. CASE UNCHANGED vars
    BY <1>0, <1>42 DEF TypeOK
  <1> QED
    BY <1>1, <1>2, <1>3, <1>4, <1>5, <1>6, <1>7, <1>8, <1>9, <1>10, <1>11, <1>12, <1>13,
       <1>14, <1>15, <1>16, <1>17, <1>18, <1>19, <1>20, <1>21, <1>22, <1>23, <1>24,
       <1>25, <1>26, <1>27, <1>28, <1>29, <1>30, <1>31, <1>32, <1>33, <1>34, <1>35,
       <1>36, <1>37, <1>38, <1>39, <1>40, <1>41, <1>42 DEF Next, AcceptStep, ReaderStep,
       WriterStep, PumpStep, StopStep, Environment
-----------------------------------------------------------------------------
(* The parts of the invariant, step by step. *)

\* A writer touches its own outbox and its message in flight, nothing else.
LEMMA WriterFrame ==
    ASSUME NEW s \in SessionIds, WriterStep(s)
    PROVE  UNCHANGED <<serverVars, inboxVars, alive, chan, console, targetVars, apc, rpc,
                       rmask, renderVars, lines, events, executed, dropped, fired>>
  BY DEF WriterStep, WriterTop, WriterTake, WriterQuit, WriterDecide, WriterBlock,
     WriterSend, WriterFail, sessionVars, obsVars

Emission == EmitConsole \/ \E ch \in Channels : EmitEvent(ch)

\* An event only enters outboxes.
LEMMA EmissionFrame ==
    ASSUME Emission
    PROVE  UNCHANGED <<serverVars, inboxVars, alive, chan, console, targetVars, apc, rpc,
                       rmask, inflight, renderVars, lines, executed, dropped, delivered,
                       fired>>
  BY DEF Emission, EmitConsole, EmitEvent

\* The session map is a finite set, and shrinks when a session leaves it.
LEMMA SessionsFinite ==
    ASSUME TypeOK
    PROVE  /\ IsFiniteSet(SessionIds)
           /\ IsFiniteSet(sessions)
           /\ Cardinality(sessions) \in Nat
           /\ \A s : /\ Cardinality(sessions \ {s}) \in Nat
                     /\ Cardinality(sessions \ {s}) <= Cardinality(sessions)
                     /\ Cardinality(sessions \cup {s}) \in Nat
                     /\ Cardinality(sessions \cup {s}) <= Cardinality(sessions) + 1
  <1>1. IsFiniteSet(SessionIds)
    BY FS_Interval, MaxSessionsAssumption DEF SessionIds
  <1>2. IsFiniteSet(sessions)
    BY <1>1, FS_Subset DEF TypeOK
  <1>3. Cardinality(sessions) \in Nat
    BY <1>2, FS_CardinalityType
  <1>4. ASSUME NEW s
        PROVE  /\ Cardinality(sessions \ {s}) \in Nat
               /\ Cardinality(sessions \ {s}) <= Cardinality(sessions)
    <2>1. sessions \ {s} \subseteq sessions
      OBVIOUS
    <2>2. IsFiniteSet(sessions \ {s})
      BY <1>2, <2>1, FS_Subset
    <2> QED
      BY <1>2, <2>1, <2>2, FS_Subset, FS_CardinalityType
  <1>5. ASSUME NEW s
        PROVE  /\ Cardinality(sessions \cup {s}) \in Nat
               /\ Cardinality(sessions \cup {s}) <= Cardinality(sessions) + 1
    BY <1>2, <1>3, FS_AddElement
  <1> QED
    BY <1>1, <1>2, <1>3, <1>4, <1>5

\* stop() never gives the session map back.
LEMMA MapTakenForever ==
    ASSUME [Next]_vars, MapTaken
    PROVE  MapTaken'
  <1> USE DEF vars, serverVars, inboxVars, sessionVars, renderVars, targetVars, obsVars
  <1>1. ASSUME UNCHANGED rt
        PROVE  MapTaken'
    BY <1>1 DEF MapTaken
  <1>2. CASE StopHalt
    BY <1>2 DEF MapTaken, StopPoints, StopHalt
  <1>3. CASE StopSnapshot
    BY <1>3 DEF MapTaken, StopPoints, StopSnapshot
  <1>4. CASE StopKill
    BY <1>4 DEF MapTaken, StopPoints, StopKill
  <1>5. CASE StopAbort
    BY <1>5 DEF MapTaken, StopPoints, StopAbort
  <1>6. CASE StopReset
    BY <1>6 DEF MapTaken, StopPoints, StopReset
  <1>7. CASE JoinAccept
    BY <1>7 DEF MapTaken, StopPoints, JoinAccept
  <1>8. CASE JoinSessions
    BY <1>8 DEF MapTaken, StopPoints, JoinSessions
  <1>9. ASSUME NEW w \in Waiters, AttachCheck(w) PROVE MapTaken'
    BY <1>9 DEF MapTaken, StopPoints, AttachCheck
  <1>10. CASE AttachWait
    BY <1>10 DEF MapTaken, StopPoints, AttachWait
  <1>11. CASE Stop
    BY <1>11 DEF MapTaken, StopPoints, Stop
  <1>12. CASE Pump
    BY <1>12 DEF MapTaken, StopPoints, Pump
  <1>13. ASSUME NEW c \in drained, SkipDead(c) PROVE MapTaken'
    BY <1>13 DEF MapTaken, StopPoints, SkipDead, Advance
  <1>14. ASSUME NEW c \in drained, Dispatch(c) PROVE MapTaken'
    BY <1>14 DEF MapTaken, StopPoints, Dispatch, DispatchPlain, DispatchChannel,
       DispatchConsole, DispatchPause, DispatchShutdown
  <1>15. ASSUME NEW c \in drained, SendReply(c) PROVE MapTaken'
    BY <1>15 DEF MapTaken, StopPoints, SendReply, Advance, PushTo
  <1>16. CASE ApplyMask
    BY <1>16 DEF MapTaken, StopPoints, ApplyMask
  <1>17. CASE RegisterSession \/ CountClient \/ Announce \/ AcceptExit \/
           AcceptConnection
    BY <1>17, <1>1 DEF RegisterSession, CountClient, Announce, NotifyClientAttached,
       AcceptExit, AcceptConnection
  <1>18. ASSUME NEW s \in SessionIds, HandleBadLine(s) \/ AbortPending(s) \/
           EraseSession(s) \/ AlreadyErased(s) \/ UncountClient(s) \/ PublishMask(s) \/
           ReceiveLine(s) \/ ServeHttp(s) \/ EndReading(s) PROVE MapTaken'
    BY <1>18, <1>1 DEF HandleBadLine, PushTo, AbortPending, EraseSession, AlreadyErased,
       UncountClient, PublishMask, ReceiveLine, ServeHttp, FinishSession, EndReading
  <1>19. ASSUME NEW s \in SessionIds, NEW req \in Requests, HandleCall(s, req) PROVE
           MapTaken'
    BY <1>19, <1>1 DEF HandleCall
  <1>20. CASE CloseWindow
    BY <1>20, <1>1 DEF CloseWindow
  <1>21. ASSUME NEW c \in inbox, TimePasses(c) PROVE MapTaken'
    BY <1>21, <1>1 DEF TimePasses
  <1>22. ASSUME NEW s \in SessionIds, WriterStep(s) PROVE MapTaken'
    BY <1>22, <1>1, WriterFrame
  <1>23. CASE Emission
    BY <1>23, <1>1, EmissionFrame
  <1>24. CASE UNCHANGED vars
    BY <1>1, <1>24
  <1> QED
    BY <1>2, <1>3, <1>4, <1>5, <1>6, <1>7, <1>8, <1>9, <1>10, <1>11, <1>12, <1>13, <1>14,
       <1>15, <1>16, <1>17, <1>18, <1>19, <1>20, <1>21, <1>22, <1>23, <1>24 DEF Next,
       AcceptStep, ReaderStep, PumpStep, StopStep, Environment, Emission

\* Session ids are used in order and finish_session runs in order.
LEMMA SessionIdsStep ==
    ASSUME IInv, [Next]_vars
    PROVE  SessionIdsUsed'
  <1> USE DEF vars, serverVars, inboxVars, sessionVars, renderVars, targetVars, obsVars
  <1>a. TypeOK /\ SessionIdsUsed
    BY DEF IInv
  <1>b. MapTaken => MapTaken'
    BY MapTakenForever
  <1>1. ASSUME UNCHANGED <<nextId, sessions, alive, rpc, apc>>
        PROVE  SessionIdsUsed'
    BY <1>a, <1>b, <1>1 DEF SessionIdsUsed
  <1>2. CASE RegisterSession
    BY <1>2, <1>a, <1>b DEF SessionIdsUsed, TypeOK, RegisterSession, SessionIds
  <1>3. CASE CountClient
    BY <1>3, <1>a, <1>b DEF SessionIdsUsed, TypeOK, CountClient, SessionIds
  <1>4. CASE Announce
    BY <1>4, <1>a, <1>b DEF SessionIdsUsed, TypeOK, Announce, NotifyClientAttached,
       SessionIds
  <1>5. CASE AcceptExit
    BY <1>5, <1>a, <1>b DEF SessionIdsUsed, TypeOK, AcceptExit, SessionIds
  <1>6. CASE AcceptConnection
    BY <1>6, <1>a, <1>b DEF SessionIdsUsed, TypeOK, AcceptConnection, SessionIds
  <1>7. ASSUME NEW s \in SessionIds, HandleBadLine(s) PROVE SessionIdsUsed'
    BY <1>7, <1>a, <1>b DEF SessionIdsUsed, TypeOK, HandleBadLine, PushTo, SessionIds
  <1>8. ASSUME NEW s \in SessionIds, NEW req \in Requests, HandleCall(s, req) PROVE SessionIdsUsed'
    BY <1>8, <1>a, <1>b DEF SessionIdsUsed, TypeOK, HandleCall, SessionIds
  <1>9. ASSUME NEW s \in SessionIds, AbortPending(s) PROVE SessionIdsUsed'
    BY <1>9, <1>a, <1>b DEF SessionIdsUsed, TypeOK, AbortPending, SessionIds
  <1>10. ASSUME NEW s \in SessionIds, EraseSession(s) PROVE SessionIdsUsed'
    <2>1. Cardinality(sessions') \in Nat /\ Cardinality(sessions') <= Cardinality(sessions)
      BY <1>10, <1>a, SessionsFinite DEF EraseSession
    <2>2. apc = "register" => Cardinality(sessions') < MaxClients
      BY <1>10, <1>a, <2>1, SessionsFinite, MaxClientsAssumption DEF SessionIdsUsed
    <2> QED
      BY <1>10, <1>a, <1>b, <2>2 DEF SessionIdsUsed, TypeOK, EraseSession, SessionIds
  <1>11. ASSUME NEW s \in SessionIds, AlreadyErased(s) PROVE SessionIdsUsed'
    BY <1>11, <1>a, <1>b DEF SessionIdsUsed, TypeOK, AlreadyErased, SessionIds
  <1>12. ASSUME NEW s \in SessionIds, UncountClient(s) PROVE SessionIdsUsed'
    BY <1>12, <1>a, <1>b DEF SessionIdsUsed, TypeOK, UncountClient, SessionIds
  <1>13. ASSUME NEW s \in SessionIds, PublishMask(s) PROVE SessionIdsUsed'
    BY <1>13, <1>a, <1>b DEF SessionIdsUsed, TypeOK, PublishMask, SessionIds
  <1>14. ASSUME NEW s \in SessionIds, ReceiveLine(s) PROVE SessionIdsUsed'
    BY <1>14, <1>a, <1>b DEF SessionIdsUsed, TypeOK, ReceiveLine, SessionIds
  <1>15. ASSUME NEW s \in SessionIds, ServeHttp(s) PROVE SessionIdsUsed'
    BY <1>15, <1>a, <1>b DEF SessionIdsUsed, TypeOK, ServeHttp, FinishSession, SessionIds
  <1>16. ASSUME NEW s \in SessionIds, EndReading(s) PROVE SessionIdsUsed'
    BY <1>16, <1>a, <1>b DEF SessionIdsUsed, TypeOK, EndReading, FinishSession,
       SessionIds
  <1>17. CASE StopSnapshot
    <2>1. Cardinality(sessions') = 0
      BY <1>17, FS_EmptySet DEF StopSnapshot
    <2>2. MapTaken'
      BY <1>17 DEF StopSnapshot, MapTaken, StopPoints
    <2> QED
      BY <1>17, <1>a, <2>1, <2>2, MaxClientsAssumption DEF SessionIdsUsed, StopSnapshot
  <1>18. CASE StopKill
    BY <1>18, <1>a, <1>b DEF SessionIdsUsed, TypeOK, StopKill, SessionIds
  <1>19. ASSUME NEW c \in drained, SkipDead(c) \/ Dispatch(c) \/ SendReply(c) PROVE
           SessionIdsUsed'
    BY <1>19, <1>1 DEF SkipDead, Advance, Dispatch, DispatchPlain, DispatchChannel,
       DispatchConsole, DispatchPause, DispatchShutdown, SendReply, PushTo
  <1>20. CASE Pump \/ ApplyMask \/ AttachWait \/ CloseWindow
    BY <1>20, <1>1 DEF Pump, ApplyMask, AttachWait, CloseWindow
  <1>21. ASSUME NEW w \in Waiters, AttachCheck(w) PROVE SessionIdsUsed'
    BY <1>21, <1>1 DEF AttachCheck
  <1>22. ASSUME NEW c \in inbox, TimePasses(c) PROVE SessionIdsUsed'
    BY <1>22, <1>1 DEF TimePasses
  <1>23. CASE Stop \/ StopHalt \/ StopAbort \/ StopReset \/ JoinAccept \/ JoinSessions
    BY <1>23, <1>1 DEF Stop, StopHalt, StopAbort, StopReset, JoinAccept, JoinSessions
  <1>24. ASSUME NEW s \in SessionIds, WriterStep(s) PROVE SessionIdsUsed'
    BY <1>24, <1>1, WriterFrame
  <1>25. CASE Emission
    BY <1>25, <1>1, EmissionFrame
  <1>26. CASE UNCHANGED vars
    BY <1>1, <1>26
  <1> QED
    BY <1>2, <1>3, <1>4, <1>5, <1>6, <1>7, <1>8, <1>9, <1>10, <1>11, <1>12, <1>13, <1>14,
       <1>15, <1>16, <1>17, <1>18, <1>19, <1>20, <1>21, <1>22, <1>23, <1>24, <1>25, <1>26
       DEF Next, AcceptStep, ReaderStep, PumpStep, StopStep, Environment, Emission

\* The counted sessions are finitely many.
LEMMA CountedFinite ==
    ASSUME TypeOK
    PROVE  /\ IsFiniteSet(Counted)
           /\ Cardinality(Counted) \in Nat
           /\ \A T \in SUBSET Counted : Cardinality(T) \in Nat /\ Cardinality(T) <= Cardinality(Counted)
           /\ \A s \in Counted : Cardinality(Counted \ {s}) = Cardinality(Counted) - 1
           /\ \A s : s \notin Counted => Cardinality(Counted \cup {s}) = Cardinality(Counted) + 1
  <1>1. Counted \subseteq SessionIds
    BY DEF Counted
  <1>2. IsFiniteSet(Counted)
    BY <1>1, SessionsFinite, FS_Subset
  <1>3. Cardinality(Counted) \in Nat
    BY <1>2, FS_CardinalityType
  <1>4. \A T \in SUBSET Counted : Cardinality(T) \in Nat /\ Cardinality(T) <= Cardinality(Counted)
    BY <1>2, FS_Subset, FS_CardinalityType
  <1>5. \A s \in Counted : Cardinality(Counted \ {s}) = Cardinality(Counted) - 1
    BY <1>2, FS_RemoveElement
  <1>6. \A s : s \notin Counted => Cardinality(Counted \cup {s}) = Cardinality(Counted) + 1
    BY <1>2, FS_AddElement
  <1> QED
    BY <1>2, <1>3, <1>4, <1>5, <1>6

\* live_clients follows the sessions it counts.
LEMMA CountedStep ==
    ASSUME IInv, [Next]_vars
    PROVE  CountedClients'
  <1> USE DEF vars, serverVars, inboxVars, sessionVars, renderVars, targetVars, obsVars
  <1>a. TypeOK /\ SessionIdsUsed /\ CountedClients
    BY DEF IInv
  <1>b. MapTaken => MapTaken'
    BY MapTakenForever
  <1>c. ASSUME Counted' = Counted, UNCHANGED liveClients
        PROVE  CountedClients'
    BY <1>a, <1>b, <1>c DEF CountedClients
  <1>1. ASSUME UNCHANGED <<sessions, nextId, apc, rpc, liveClients>>
        PROVE  CountedClients'
    BY <1>c, <1>1 DEF Counted
  <1>2. CASE RegisterSession
    <2>1. Counted' = Counted
      BY <1>2, <1>a DEF Counted, SessionIdsUsed, TypeOK, SessionIds, RegisterSession
    <2> QED
      BY <1>2, <1>c, <2>1 DEF RegisterSession
  <1>3. CASE CountClient
    <2>1. Counted' = IF nextId - 1 \in sessions THEN Counted \cup {nextId - 1} ELSE Counted
      BY <1>3, <1>a DEF Counted, SessionIdsUsed, TypeOK, SessionIds, CountClient
    <2>2. nextId - 1 \notin Counted
      BY <1>3, <1>a DEF Counted, SessionIdsUsed, CountClient
    <2>3. /\ Cardinality(Counted) \in Nat
          /\ Cardinality(Counted') \in {Cardinality(Counted), Cardinality(Counted) + 1}
          /\ ~MapTaken => Cardinality(Counted') = Cardinality(Counted) + 1
      BY <1>3, <1>a, <2>1, <2>2, CountedFinite DEF SessionIdsUsed, CountClient
    <2> QED
      BY <1>3, <1>a, <1>b, <2>3 DEF CountedClients, TypeOK, CountClient
  <1>4. CASE Announce
    <2>1. Counted' = Counted
      BY <1>4, <1>a DEF Counted, SessionIdsUsed, TypeOK, SessionIds, Announce,
         NotifyClientAttached
    <2> QED
      BY <1>4, <1>c, <2>1 DEF Announce, NotifyClientAttached
  <1>5. CASE AcceptExit
    <2>1. Counted' = Counted
      BY <1>5, <1>a DEF Counted, SessionIdsUsed, TypeOK, SessionIds, AcceptExit
    <2> QED
      BY <1>5, <1>c, <2>1 DEF AcceptExit
  <1>6. CASE AcceptConnection
    <2>1. Counted' = Counted
      BY <1>6, <1>a DEF Counted, SessionIdsUsed, TypeOK, SessionIds, AcceptConnection
    <2> QED
      BY <1>6, <1>c, <2>1 DEF AcceptConnection
  <1>7. ASSUME NEW s \in SessionIds, HandleBadLine(s) PROVE CountedClients'
    <2>1. Counted' = Counted
      BY <1>7, <1>a DEF Counted, SessionIdsUsed, TypeOK, SessionIds, HandleBadLine,
         PushTo
    <2> QED
      BY <1>7, <1>c, <2>1 DEF HandleBadLine, PushTo
  <1>8. ASSUME NEW s \in SessionIds, NEW req \in Requests, HandleCall(s, req) PROVE CountedClients'
    <2>1. Counted' = Counted
      BY <1>8, <1>a DEF Counted, SessionIdsUsed, TypeOK, SessionIds, HandleCall
    <2> QED
      BY <1>8, <1>c, <2>1 DEF HandleCall
  <1>9. ASSUME NEW s \in SessionIds, AbortPending(s) PROVE CountedClients'
    <2>1. Counted' = Counted
      BY <1>9, <1>a DEF Counted, SessionIdsUsed, TypeOK, SessionIds, AbortPending
    <2> QED
      BY <1>9, <1>c, <2>1 DEF AbortPending
  <1>10. ASSUME NEW s \in SessionIds, EraseSession(s) PROVE CountedClients'
    <2>1. Counted' = Counted
      BY <1>10, <1>a DEF Counted, SessionIdsUsed, TypeOK, SessionIds, EraseSession
    <2> QED
      BY <1>10, <1>c, <2>1 DEF EraseSession
  <1>11. ASSUME NEW s \in SessionIds, AlreadyErased(s) PROVE CountedClients'
    <2>1. Counted' = Counted
      BY <1>11, <1>a DEF Counted, SessionIdsUsed, TypeOK, SessionIds, AlreadyErased
    <2> QED
      BY <1>11, <1>c, <2>1 DEF AlreadyErased
  <1>12. ASSUME NEW s \in SessionIds, UncountClient(s) PROVE CountedClients'
    <2>1. Counted' = Counted \ {s}
      BY <1>12, <1>a DEF Counted, SessionIdsUsed, TypeOK, UncountClient
    <2>2. s \in Counted
      BY <1>12 DEF Counted, UncountClient
    <2>3. Cardinality(Counted) \in Nat /\ Cardinality(Counted') = Cardinality(Counted) - 1
      BY <1>12, <1>a, <2>1, <2>2, CountedFinite
    <2> QED
      BY <1>12, <1>a, <1>b, <2>3 DEF CountedClients, TypeOK, UncountClient
  <1>13. ASSUME NEW s \in SessionIds, PublishMask(s) PROVE CountedClients'
    <2>1. Counted' = Counted
      BY <1>13, <1>a DEF Counted, SessionIdsUsed, TypeOK, SessionIds, PublishMask
    <2> QED
      BY <1>13, <1>c, <2>1 DEF PublishMask
  <1>14. ASSUME NEW s \in SessionIds, ReceiveLine(s) PROVE CountedClients'
    <2>1. Counted' = Counted
      BY <1>14, <1>a DEF Counted, SessionIdsUsed, TypeOK, SessionIds, ReceiveLine
    <2> QED
      BY <1>14, <1>c, <2>1 DEF ReceiveLine
  <1>15. ASSUME NEW s \in SessionIds, ServeHttp(s) PROVE CountedClients'
    <2>1. Counted' = Counted
      BY <1>15, <1>a DEF Counted, SessionIdsUsed, TypeOK, SessionIds, ServeHttp,
         FinishSession
    <2> QED
      BY <1>15, <1>c, <2>1 DEF ServeHttp, FinishSession
  <1>16. ASSUME NEW s \in SessionIds, EndReading(s) PROVE CountedClients'
    <2>1. Counted' = Counted
      BY <1>16, <1>a DEF Counted, SessionIdsUsed, TypeOK, SessionIds, EndReading,
         FinishSession
    <2> QED
      BY <1>16, <1>c, <2>1 DEF EndReading, FinishSession
  <1>17. CASE StopSnapshot
    <2>1. Counted' \subseteq Counted
      BY <1>17 DEF Counted, StopSnapshot
    <2>2. /\ Cardinality(Counted) \in Nat
          /\ Cardinality(Counted') \in Nat /\ Cardinality(Counted') <= Cardinality(Counted)
      BY <1>17, <1>a, <2>1, CountedFinite
    <2>3. MapTaken'
      BY <1>17 DEF StopSnapshot, MapTaken, StopPoints
    <2> QED
      BY <1>17, <1>a, <2>2, <2>3 DEF CountedClients, TypeOK, StopSnapshot
  <1>18. ASSUME NEW c \in drained, SkipDead(c) \/ Dispatch(c) \/ SendReply(c) PROVE
           CountedClients'
    BY <1>18, <1>1 DEF SkipDead, Advance, Dispatch, DispatchPlain, DispatchChannel,
       DispatchConsole, DispatchPause, DispatchShutdown, SendReply, PushTo
  <1>19. CASE Pump \/ ApplyMask \/ AttachWait \/ CloseWindow
    BY <1>19, <1>1 DEF Pump, ApplyMask, AttachWait, CloseWindow
  <1>20. ASSUME NEW w \in Waiters, AttachCheck(w) PROVE CountedClients'
    BY <1>20, <1>1 DEF AttachCheck
  <1>21. ASSUME NEW c \in inbox, TimePasses(c) PROVE CountedClients'
    BY <1>21, <1>1 DEF TimePasses
  <1>22. CASE Stop \/ StopHalt \/ StopKill \/ StopAbort \/ StopReset \/ JoinAccept \/
           JoinSessions
    BY <1>22, <1>1 DEF Stop, StopHalt, StopKill, StopAbort, StopReset, JoinAccept,
       JoinSessions
  <1>23. ASSUME NEW s \in SessionIds, WriterStep(s) PROVE CountedClients'
    BY <1>23, <1>1, WriterFrame
  <1>24. CASE Emission
    BY <1>24, <1>1, EmissionFrame
  <1>25. CASE UNCHANGED vars
    BY <1>1, <1>25
  <1> QED
    BY <1>2, <1>3, <1>4, <1>5, <1>6, <1>7, <1>8, <1>9, <1>10, <1>11, <1>12, <1>13, <1>14,
       <1>15, <1>16, <1>17, <1>18, <1>19, <1>20, <1>21, <1>22, <1>23, <1>24, <1>25 DEF
       Next, AcceptStep, ReaderStep, PumpStep, StopStep, Environment, Emission

\* No step loses a callback or calls it twice.
LEMMA WaiterStep ==
    ASSUME IInv, [Next]_vars
    PROVE  WaiterNotLost' /\ WaiterHeld'
  <1> USE DEF vars, serverVars, inboxVars, sessionVars, renderVars, targetVars, obsVars
  <1>a. TypeOK /\ WaiterNotLost /\ WaiterHeld
    BY DEF IInv
  <1>1. ASSUME UNCHANGED <<waiters, liveClients, apc, rtWaiter, fired>>, rt = "attach" => rt' = "attach"
        PROVE  WaiterNotLost' /\ WaiterHeld'
    BY <1>a, <1>1 DEF WaiterNotLost, WaiterHeld, TypeOK
  <1>2. CASE RegisterSession
    BY <1>2, <1>a DEF WaiterNotLost, WaiterHeld, TypeOK, RegisterSession
  <1>3. CASE CountClient
    BY <1>3, <1>a DEF WaiterNotLost, WaiterHeld, TypeOK, CountClient
  <1>4. CASE Announce
    BY <1>4, <1>a DEF WaiterNotLost, WaiterHeld, TypeOK, Announce, NotifyClientAttached
  <1>5. CASE AcceptExit
    BY <1>5, <1>a DEF WaiterNotLost, WaiterHeld, TypeOK, AcceptExit
  <1>6. CASE AcceptConnection
    BY <1>6, <1>a DEF WaiterNotLost, WaiterHeld, TypeOK, AcceptConnection
  <1>7. ASSUME NEW s \in SessionIds, UncountClient(s) PROVE WaiterNotLost' /\ WaiterHeld'
    BY <1>7, <1>a, UncountPositive DEF WaiterNotLost, WaiterHeld, TypeOK, UncountClient
  <1>8. ASSUME NEW w \in Waiters, AttachCheck(w) PROVE WaiterNotLost' /\ WaiterHeld'
    <2>1. fired[w] = 0 /\ rtWaiter = {} /\ w \notin waiters
      BY <1>8, <1>a DEF WaiterHeld, AttachCheck
    <2>2. CASE liveClients # 0
      <3>1. fired' = [fired EXCEPT ![w] = 1]
        BY <1>8, <2>1, <2>2 DEF AttachCheck
      <3>2. \A x \in Waiters : fired'[x] = IF x = w THEN 1 ELSE fired[x]
        BY <1>8, <1>a, <3>1 DEF TypeOK
      <3> QED
        BY <1>8, <1>a, <2>1, <2>2, <3>2 DEF WaiterNotLost, WaiterHeld, TypeOK,
           AttachCheck
    <2>3. CASE liveClients = 0
      BY <1>8, <1>a, <2>1, <2>3 DEF WaiterNotLost, WaiterHeld, TypeOK, AttachCheck
    <2> QED
      BY <1>8, <2>2, <2>3
  <1>9. CASE AttachWait
    BY <1>9, <1>a DEF WaiterNotLost, WaiterHeld, TypeOK, AttachWait
  <1>10. ASSUME NEW s \in SessionIds, HandleBadLine(s) \/ AbortPending(s) \/
           EraseSession(s) \/ AlreadyErased(s) \/ PublishMask(s) \/ ReceiveLine(s) \/
           ServeHttp(s) \/ EndReading(s) PROVE WaiterNotLost' /\ WaiterHeld'
    BY <1>10, <1>1 DEF HandleBadLine, PushTo, AbortPending, EraseSession, AlreadyErased,
       PublishMask, ReceiveLine, ServeHttp, FinishSession, EndReading
  <1>11. ASSUME NEW s \in SessionIds, NEW req \in Requests, HandleCall(s, req) PROVE
           WaiterNotLost' /\ WaiterHeld'
    BY <1>11, <1>1 DEF HandleCall
  <1>12. ASSUME NEW c \in drained, SkipDead(c) \/ Dispatch(c) \/ SendReply(c) PROVE
           WaiterNotLost' /\ WaiterHeld'
    BY <1>12, <1>1 DEF SkipDead, Advance, Dispatch, DispatchPlain, DispatchChannel,
       DispatchConsole, DispatchPause, DispatchShutdown, SendReply, PushTo
  <1>13. CASE Pump \/ ApplyMask \/ CloseWindow
    BY <1>13, <1>1 DEF Pump, ApplyMask, CloseWindow
  <1>14. ASSUME NEW c \in inbox, TimePasses(c) PROVE WaiterNotLost' /\ WaiterHeld'
    BY <1>14, <1>1 DEF TimePasses
  <1>15. CASE Stop \/ StopHalt \/ StopSnapshot \/ StopKill \/ StopAbort \/ StopReset \/
           JoinAccept \/ JoinSessions
    BY <1>15, <1>1 DEF Stop, StopHalt, StopSnapshot, StopKill, StopAbort, StopReset,
       JoinAccept, JoinSessions
  <1>16. ASSUME NEW s \in SessionIds, WriterStep(s) PROVE WaiterNotLost' /\ WaiterHeld'
    BY <1>16, <1>1, WriterFrame
  <1>17. CASE Emission
    BY <1>17, <1>1, EmissionFrame
  <1>18. CASE UNCHANGED vars
    BY <1>1, <1>18
  <1> QED
    BY <1>2, <1>3, <1>4, <1>5, <1>6, <1>7, <1>8, <1>9, <1>10, <1>11, <1>12, <1>13, <1>14,
       <1>15, <1>16, <1>17, <1>18 DEF Next, AcceptStep, ReaderStep, PumpStep, StopStep,
       Environment, Emission

\* No call of a session enters the inbox after they were aborted.
LEMMA AbortStep ==
    ASSUME IInv, [Next]_vars
    PROVE  AbortIsFinal'
  <1> USE DEF vars, serverVars, inboxVars, sessionVars, renderVars, targetVars, obsVars
  <1>a. TypeOK /\ AbortIsFinal
    BY DEF IInv
  <1>1. ASSUME UNCHANGED <<rpc, inbox>>
        PROVE  AbortIsFinal'
    BY <1>a, <1>1 DEF AbortIsFinal
  <1>2. CASE Announce
    BY <1>2, <1>a DEF AbortIsFinal, TypeOK, Announce, NotifyClientAttached
  <1>3. ASSUME NEW s \in SessionIds, HandleBadLine(s) PROVE AbortIsFinal'
    BY <1>3, <1>a DEF AbortIsFinal, TypeOK, HandleBadLine, PushTo
  <1>4. ASSUME NEW s \in SessionIds, NEW req \in Requests, HandleCall(s, req) PROVE AbortIsFinal'
    BY <1>4, <1>a DEF AbortIsFinal, TypeOK, HandleCall
  <1>5. ASSUME NEW s \in SessionIds, AbortPending(s) PROVE AbortIsFinal'
    BY <1>5, <1>a DEF AbortIsFinal, TypeOK, AbortPending
  <1>6. ASSUME NEW s \in SessionIds, EraseSession(s) PROVE AbortIsFinal'
    BY <1>6, <1>a DEF AbortIsFinal, TypeOK, EraseSession
  <1>7. ASSUME NEW s \in SessionIds, AlreadyErased(s) PROVE AbortIsFinal'
    BY <1>7, <1>a DEF AbortIsFinal, TypeOK, AlreadyErased
  <1>8. ASSUME NEW s \in SessionIds, UncountClient(s) PROVE AbortIsFinal'
    BY <1>8, <1>a DEF AbortIsFinal, TypeOK, UncountClient
  <1>9. ASSUME NEW s \in SessionIds, PublishMask(s) PROVE AbortIsFinal'
    BY <1>9, <1>a DEF AbortIsFinal, TypeOK, PublishMask
  <1>10. ASSUME NEW s \in SessionIds, ReceiveLine(s) PROVE AbortIsFinal'
    BY <1>10, <1>a DEF AbortIsFinal, TypeOK, ReceiveLine
  <1>11. ASSUME NEW s \in SessionIds, ServeHttp(s) PROVE AbortIsFinal'
    BY <1>11, <1>a DEF AbortIsFinal, TypeOK, ServeHttp, FinishSession
  <1>12. ASSUME NEW s \in SessionIds, EndReading(s) PROVE AbortIsFinal'
    BY <1>12, <1>a DEF AbortIsFinal, TypeOK, EndReading, FinishSession
  <1>13. CASE Pump
    BY <1>13, <1>a DEF AbortIsFinal, TypeOK, Pump
  <1>14. CASE StopAbort
    BY <1>14, <1>a DEF AbortIsFinal, TypeOK, StopAbort
  <1>15. CASE RegisterSession \/ CountClient \/ AcceptExit \/ AcceptConnection
    BY <1>15, <1>1 DEF RegisterSession, CountClient, AcceptExit, AcceptConnection
  <1>16. ASSUME NEW c \in drained, SkipDead(c) \/ Dispatch(c) \/ SendReply(c) PROVE
           AbortIsFinal'
    BY <1>16, <1>1 DEF SkipDead, Advance, Dispatch, DispatchPlain, DispatchChannel,
       DispatchConsole, DispatchPause, DispatchShutdown, SendReply, PushTo
  <1>17. CASE ApplyMask \/ AttachWait \/ CloseWindow
    BY <1>17, <1>1 DEF ApplyMask, AttachWait, CloseWindow
  <1>18. ASSUME NEW w \in Waiters, AttachCheck(w) PROVE AbortIsFinal'
    BY <1>18, <1>1 DEF AttachCheck
  <1>19. ASSUME NEW c \in inbox, TimePasses(c) PROVE AbortIsFinal'
    BY <1>19, <1>1 DEF TimePasses
  <1>20. CASE Stop \/ StopHalt \/ StopSnapshot \/ StopKill \/ StopReset \/ JoinAccept \/
           JoinSessions
    BY <1>20, <1>1 DEF Stop, StopHalt, StopSnapshot, StopKill, StopReset, JoinAccept,
       JoinSessions
  <1>21. ASSUME NEW s \in SessionIds, WriterStep(s) PROVE AbortIsFinal'
    BY <1>21, <1>1, WriterFrame
  <1>22. CASE Emission
    BY <1>22, <1>1, EmissionFrame
  <1>23. CASE UNCHANGED vars
    BY <1>1, <1>23
  <1> QED
    BY <1>2, <1>3, <1>4, <1>5, <1>6, <1>7, <1>8, <1>9, <1>10, <1>11, <1>12, <1>13, <1>14,
       <1>15, <1>16, <1>17, <1>18, <1>19, <1>20, <1>21, <1>22, <1>23 DEF Next,
       AcceptStep, ReaderStep, PumpStep, StopStep, Environment, Emission

\* The cap tested by the accept thread still holds when it registers the session.
LEMMA CapStep ==
    ASSUME IInv, [Next]_vars
    PROVE  SessionCap'
  <1> USE DEF vars, serverVars, inboxVars, sessionVars, renderVars, targetVars, obsVars
  <1>a. TypeOK /\ SessionIdsUsed /\ SessionCap
    BY DEF IInv
  <1>1. ASSUME UNCHANGED sessions
        PROVE  SessionCap'
    BY <1>a, <1>1 DEF SessionCap
  <1>2. CASE RegisterSession
    <2>1. /\ Cardinality(sessions) \in Nat
          /\ Cardinality(sessions') \in Nat /\ Cardinality(sessions') <= Cardinality(sessions) + 1
      BY <1>2, <1>a, SessionsFinite DEF RegisterSession
    <2> QED
      BY <1>2, <1>a, <2>1, MaxClientsAssumption DEF SessionCap, SessionIdsUsed,
         RegisterSession
  <1>3. ASSUME NEW s \in SessionIds, EraseSession(s) PROVE SessionCap'
    <2>1. /\ Cardinality(sessions) \in Nat
          /\ Cardinality(sessions') \in Nat /\ Cardinality(sessions') <= Cardinality(sessions)
      BY <1>3, <1>a, SessionsFinite DEF EraseSession
    <2> QED
      BY <1>3, <1>a, <2>1, MaxClientsAssumption DEF SessionCap
  <1>4. CASE StopSnapshot
    BY <1>4, FS_EmptySet, MaxClientsAssumption DEF SessionCap, StopSnapshot
  <1>5. CASE CountClient \/ Announce \/ AcceptExit \/ AcceptConnection
    BY <1>5, <1>1 DEF CountClient, Announce, NotifyClientAttached, AcceptExit,
       AcceptConnection
  <1>6. ASSUME NEW s \in SessionIds, HandleBadLine(s) \/ AbortPending(s) \/
           AlreadyErased(s) \/ UncountClient(s) \/ PublishMask(s) \/ ReceiveLine(s) \/
           ServeHttp(s) \/ EndReading(s) PROVE SessionCap'
    BY <1>6, <1>1 DEF HandleBadLine, PushTo, AbortPending, AlreadyErased, UncountClient,
       PublishMask, ReceiveLine, ServeHttp, FinishSession, EndReading
  <1>7. ASSUME NEW s \in SessionIds, NEW req \in Requests, HandleCall(s, req) PROVE
           SessionCap'
    BY <1>7, <1>1 DEF HandleCall
  <1>8. ASSUME NEW c \in drained, SkipDead(c) \/ Dispatch(c) \/ SendReply(c) PROVE
           SessionCap'
    BY <1>8, <1>1 DEF SkipDead, Advance, Dispatch, DispatchPlain, DispatchChannel,
       DispatchConsole, DispatchPause, DispatchShutdown, SendReply, PushTo
  <1>9. CASE Pump \/ ApplyMask \/ AttachWait \/ CloseWindow
    BY <1>9, <1>1 DEF Pump, ApplyMask, AttachWait, CloseWindow
  <1>10. ASSUME NEW w \in Waiters, AttachCheck(w) PROVE SessionCap'
    BY <1>10, <1>1 DEF AttachCheck
  <1>11. ASSUME NEW c \in inbox, TimePasses(c) PROVE SessionCap'
    BY <1>11, <1>1 DEF TimePasses
  <1>12. CASE Stop \/ StopHalt \/ StopKill \/ StopAbort \/ StopReset \/ JoinAccept \/
           JoinSessions
    BY <1>12, <1>1 DEF Stop, StopHalt, StopKill, StopAbort, StopReset, JoinAccept,
       JoinSessions
  <1>13. ASSUME NEW s \in SessionIds, WriterStep(s) PROVE SessionCap'
    BY <1>13, <1>1, WriterFrame
  <1>14. CASE Emission
    BY <1>14, <1>1, EmissionFrame
  <1>15. CASE UNCHANGED vars
    BY <1>1, <1>15
  <1> QED
    BY <1>2, <1>3, <1>4, <1>5, <1>6, <1>7, <1>8, <1>9, <1>10, <1>11, <1>12, <1>13, <1>14,
       <1>15 DEF Next, AcceptStep, ReaderStep, PumpStep, StopStep, Environment, Emission

\* A call takes the next number when it arrives, and no call disappears.
LEMMA NumberedStep ==
    ASSUME IInv, [Next]_vars
    PROVE  CallsNumbered'
  <1> USE DEF vars, serverVars, inboxVars, sessionVars, renderVars, targetVars, obsVars
  <1>a. TypeOK /\ CallsNumbered /\ CallsApart
    BY DEF IInv
  <1>1. ASSUME AllCalls' = AllCalls, UNCHANGED <<nextAt, nextId>>
        PROVE  CallsNumbered'
    BY <1>a, <1>1 DEF CallsNumbered
  <1>2. ASSUME NEW s \in SessionIds, NEW req \in Requests, HandleCall(s, req) PROVE CallsNumbered'
    <2> DEFINE new == [origin |-> s, at |-> nextAt, req |-> req]
    <2>1. AllCalls' = AllCalls \cup {new}
      BY <1>2 DEF AllCalls, HandleCall
    <2>2. new.at = nextAt /\ new.origin = s
      OBVIOUS
    <2>3. nextAt \in Nat /\ nextAt' = nextAt + 1 /\ nextId' = nextId
      BY <1>2, <1>a DEF TypeOK, HandleCall
    <2> HIDE DEF new
    <2>4. \A c \in AllCalls : c.at \in 0..(nextAt - 1)
      BY <1>2, <1>a DEF CallsNumbered
    <2>5. new \notin AllCalls
      BY <1>2, <2>2, <2>3, <2>4
    <2>6. IsFiniteSet(AllCalls') /\ Cardinality(AllCalls') = nextAt'
      BY <1>2, <1>a, <2>1, <2>3, <2>5, FS_AddElement DEF CallsNumbered
    <2>7. {c.at : c \in AllCalls'} = {c.at : c \in AllCalls} \cup {nextAt}
      BY <1>2, <2>1, <2>2
    <2>8. {c.at : c \in AllCalls'} = 0..(nextAt' - 1)
      <3>1. 0..(nextAt + 1 - 1) = 0..(nextAt - 1) \cup {nextAt}
        BY ONLY <2>3
      <3>2. {c.at : c \in AllCalls} = 0..(nextAt - 1)
        BY <1>2, <1>a DEF CallsNumbered
      <3>3. 0..(nextAt' - 1) = 0..(nextAt + 1 - 1)
        BY ONLY <2>3
      <3> QED
        BY ONLY <2>7, <3>1, <3>2, <3>3, Zenon
    <2>9. \A c, d \in AllCalls' : c.at = d.at => c = d
      BY <1>2, <1>a, <2>1, <2>2, <2>3, <2>4 DEF CallsNumbered
    <2>10. s < nextId
      BY <1>2, <1>a DEF IInv, SessionIdsUsed, HandleCall, TypeOK, SessionIds
    <2>11. \A c \in AllCalls' : c.origin < nextId'
      BY <1>2, <1>a, <2>1, <2>2, <2>3, <2>10 DEF CallsNumbered
    <2> QED
      BY <1>2, <2>6, <2>8, <2>9, <2>11 DEF CallsNumbered
  <1>3. CASE RegisterSession
    <2>1. AllCalls' = AllCalls /\ nextAt' = nextAt
      BY <1>3 DEF AllCalls, RegisterSession
    <2>2. \A c \in AllCalls : c.origin \in SessionIds
      BY <1>3, <1>a DEF TypeOK, AllCalls, Call
    <2>3. \A c \in AllCalls' : c.origin < nextId'
      BY <1>3, <1>a, <2>1, <2>2 DEF CallsNumbered, TypeOK, RegisterSession, SessionIds
    <2> QED
      BY <1>3, <1>a, <2>1, <2>3 DEF CallsNumbered
  <1>4. ASSUME NEW s \in SessionIds, AbortPending(s) PROVE CallsNumbered'
    BY <1>4, <1>1 DEF AllCalls, AbortPending
  <1>5. CASE Pump
    BY <1>5, <1>1, <1>a DEF AllCalls, CallsApart, Pumping, Pump
  <1>6. CASE StopAbort
    BY <1>6, <1>1 DEF AllCalls, StopAbort
  <1>7. ASSUME NEW c \in drained, SkipDead(c) PROVE CallsNumbered'
    BY <1>7, <1>1 DEF AllCalls, SkipDead, Advance, Front
  <1>8. ASSUME NEW c \in drained, Dispatch(c) PROVE CallsNumbered'
    BY <1>8, <1>1 DEF AllCalls, Dispatch
  <1>9. ASSUME NEW c \in drained, SendReply(c) PROVE CallsNumbered'
    BY <1>9, <1>1, <1>a DEF AllCalls, SendReply, Advance, CallsApart
  <1>10. CASE CountClient \/ Announce \/ AcceptExit \/ AcceptConnection
    BY <1>10, <1>1 DEF CountClient, Announce, NotifyClientAttached, AcceptExit,
       AcceptConnection, AllCalls
  <1>11. ASSUME NEW s \in SessionIds, HandleBadLine(s) \/ EraseSession(s) \/
           AlreadyErased(s) \/ UncountClient(s) \/ PublishMask(s) \/ ReceiveLine(s) \/
           ServeHttp(s) \/ EndReading(s) PROVE CallsNumbered'
    BY <1>11, <1>1 DEF HandleBadLine, PushTo, EraseSession, AlreadyErased, UncountClient,
       PublishMask, ReceiveLine, ServeHttp, FinishSession, EndReading, AllCalls
  <1>12. CASE ApplyMask \/ AttachWait \/ CloseWindow
    BY <1>12, <1>1 DEF ApplyMask, AttachWait, CloseWindow, AllCalls
  <1>13. ASSUME NEW w \in Waiters, AttachCheck(w) PROVE CallsNumbered'
    BY <1>13, <1>1 DEF AttachCheck, AllCalls
  <1>14. ASSUME NEW c \in inbox, TimePasses(c) PROVE CallsNumbered'
    BY <1>14, <1>1 DEF TimePasses, AllCalls
  <1>15. CASE Stop \/ StopHalt \/ StopSnapshot \/ StopKill \/ StopReset \/ JoinAccept \/
           JoinSessions
    BY <1>15, <1>1 DEF Stop, StopHalt, StopSnapshot, StopKill, StopReset, JoinAccept,
       JoinSessions, AllCalls
  <1>16. ASSUME NEW s \in SessionIds, WriterStep(s) PROVE CallsNumbered'
    BY <1>16, <1>1, WriterFrame DEF AllCalls
  <1>17. CASE Emission
    BY <1>17, <1>1, EmissionFrame DEF AllCalls
  <1>18. CASE UNCHANGED vars
    BY <1>1, <1>18 DEF AllCalls
  <1> QED
    BY <1>2, <1>3, <1>4, <1>5, <1>6, <1>7, <1>8, <1>9, <1>10, <1>11, <1>12, <1>13, <1>14,
       <1>15, <1>16, <1>17, <1>18 DEF Next, AcceptStep, ReaderStep, PumpStep, StopStep,
       Environment, Emission

\* A call is dropped, or executed and answered, once.
LEMMA ApartStep ==
    ASSUME IInv, [Next]_vars
    PROVE  CallsApart'
  <1> USE DEF vars, serverVars, inboxVars, sessionVars, renderVars, targetVars, obsVars
  <1>a. TypeOK /\ CallsNumbered /\ CallsApart /\ SessionIdsUsed
    BY DEF IInv
  <1>b. \A c \in dropped : c.origin \in SessionIds /\ c.origin < nextId
    BY <1>a DEF TypeOK, CallsNumbered, AllCalls, Call
  <1>1. ASSUME UNCHANGED <<inbox, drained, executed, dropped, alive>>,
               rt' = rt \/ /\ rt \notin Pumping /\ rt' \notin Pumping
                           /\ rt \in StopPoints => rt' \in StopPoints
        PROVE  CallsApart'
    <2>1. CASE rt' = rt
      <3>1. \A c : Front(c)' <=> Front(c)
        BY <1>1 DEF Front
      <3> QED
        BY <1>1, <1>a, <2>1, <3>1 DEF CallsApart
    <2>2. CASE rt \notin Pumping /\ rt' \notin Pumping /\ (rt \in StopPoints => rt' \in StopPoints)
      BY <1>1, <1>a, <2>2 DEF CallsApart, Pumping
    <2> QED
      BY <1>1, <2>1, <2>2
  <1>2. CASE RegisterSession
    BY <1>2, <1>a, <1>b DEF CallsApart, Pumping, TypeOK, Front, RegisterSession,
       StopPoints
  <1>3. ASSUME NEW s \in SessionIds, ServeHttp(s) PROVE CallsApart'
    BY <1>3, <1>a, <1>b DEF CallsApart, Pumping, TypeOK, Front, ServeHttp, FinishSession,
       StopPoints
  <1>4. ASSUME NEW s \in SessionIds, EndReading(s) PROVE CallsApart'
    BY <1>4, <1>a, <1>b DEF CallsApart, Pumping, TypeOK, Front, EndReading,
       FinishSession, StopPoints
  <1>5. CASE StopKill
    BY <1>5, <1>a, <1>b DEF CallsApart, Pumping, TypeOK, Front, StopKill, StopPoints
  <1>6. ASSUME NEW s \in SessionIds, NEW req \in Requests, HandleCall(s, req) PROVE CallsApart'
    <2> DEFINE new == [origin |-> s, at |-> nextAt, req |-> req]
    <2>1. new \notin AllCalls
      <3>1. new.at = nextAt
        OBVIOUS
      <3>2. \A c \in AllCalls : c.at \in 0..(nextAt - 1)
        BY <1>6, <1>a DEF CallsNumbered
      <3> HIDE DEF new
      <3> QED
        BY <1>6, <1>a, <3>1, <3>2 DEF TypeOK
    <2>2. inbox' = inbox \cup {new}
      BY <1>6 DEF HandleCall
    <2> HIDE DEF new
    <2> QED
      BY <1>6, <1>a, <2>1, <2>2 DEF CallsApart, AllCalls, Front, HandleCall
  <1>7. ASSUME NEW s \in SessionIds, AbortPending(s) PROVE CallsApart'
    BY <1>7, <1>a DEF CallsApart, SessionIdsUsed, AbortPending, Front
  <1>8. CASE Pump
    BY <1>8, <1>a DEF CallsApart, Pumping, Pump, Front, StopPoints
  <1>9. ASSUME NEW c \in drained, SkipDead(c) PROVE CallsApart'
    BY <1>9, <1>a DEF CallsApart, Pumping, SkipDead, Advance, Front, StopPoints
  <1>10. ASSUME NEW c \in drained, Dispatch(c) PROVE CallsApart'
    <2>1. \A d \in drained : Front(d) => d = c
      <3> SUFFICES ASSUME NEW d \in drained, Front(d) PROVE d = c
        OBVIOUS
      <3>1. c \in AllCalls /\ d \in AllCalls /\ c.at \in Nat /\ d.at \in Nat
        BY <1>10, <1>a DEF AllCalls, TypeOK, Call
      <3>2. c.at <= d.at /\ d.at <= c.at
        BY <1>10 DEF Dispatch, Front
      <3> QED
        BY <1>10, <1>a, <3>1, <3>2 DEF CallsNumbered
    <2>2. UNCHANGED <<inbox, drained, dropped, alive>> /\ executed' = executed \cup {c}
      BY <1>10 DEF Dispatch
    <2>3. rt = "exec" /\ rt' \in {"apply", "reply"}
      BY <1>10 DEF Dispatch, DispatchPlain, DispatchChannel, DispatchConsole,
         DispatchPause, DispatchShutdown
    <2>4. Front(c)
      BY <1>10 DEF Dispatch
    <2> QED
      BY <1>10, <1>a, <2>1, <2>2, <2>3, <2>4 DEF CallsApart, Pumping, Front, StopPoints
  <1>11. ASSUME NEW c \in drained, SendReply(c) PROVE CallsApart'
    <2>1. \A d \in drained : Front(d) => d = c
      <3> SUFFICES ASSUME NEW d \in drained, Front(d) PROVE d = c
        OBVIOUS
      <3>1. c \in AllCalls /\ d \in AllCalls /\ c.at \in Nat /\ d.at \in Nat
        BY <1>11, <1>a DEF AllCalls, TypeOK, Call
      <3>2. c.at <= d.at /\ d.at <= c.at
        BY <1>11 DEF SendReply, Front
      <3> QED
        BY <1>11, <1>a, <3>1, <3>2 DEF CallsNumbered
    <2> QED
      BY <1>11, <1>a, <2>1 DEF CallsApart, Pumping, Front, SendReply, Advance, StopPoints
  <1>12. CASE ApplyMask
    BY <1>12, <1>a DEF CallsApart, Pumping, ApplyMask, Front, StopPoints
  <1>13. CASE StopAbort
    BY <1>13, <1>a DEF CallsApart, Pumping, StopAbort, StopPoints
  <1>14. CASE CountClient \/ Announce \/ AcceptExit \/ AcceptConnection
    BY <1>14, <1>1 DEF CountClient, Announce, NotifyClientAttached, AcceptExit,
       AcceptConnection, Pumping, StopPoints
  <1>15. ASSUME NEW s \in SessionIds, HandleBadLine(s) \/ EraseSession(s) \/
           AlreadyErased(s) \/ UncountClient(s) \/ PublishMask(s) \/ ReceiveLine(s) PROVE
           CallsApart'
    BY <1>15, <1>1 DEF HandleBadLine, PushTo, EraseSession, AlreadyErased, UncountClient,
       PublishMask, ReceiveLine, Pumping, StopPoints
  <1>16. CASE AttachWait \/ CloseWindow
    BY <1>16, <1>1 DEF AttachWait, CloseWindow, Pumping, StopPoints
  <1>17. ASSUME NEW w \in Waiters, AttachCheck(w) PROVE CallsApart'
    BY <1>17, <1>1 DEF AttachCheck, Pumping, StopPoints
  <1>18. ASSUME NEW c \in inbox, TimePasses(c) PROVE CallsApart'
    BY <1>18, <1>1 DEF TimePasses, Pumping, StopPoints
  <1>19. CASE Stop \/ StopHalt \/ StopSnapshot \/ StopReset \/ JoinAccept \/ JoinSessions
    BY <1>19, <1>1 DEF Stop, StopHalt, StopSnapshot, StopReset, JoinAccept, JoinSessions,
       Pumping, StopPoints
  <1>20. ASSUME NEW s \in SessionIds, WriterStep(s) PROVE CallsApart'
    BY <1>20, <1>1, WriterFrame DEF Pumping, StopPoints
  <1>21. CASE Emission
    BY <1>21, <1>1, EmissionFrame DEF Pumping, StopPoints
  <1>22. CASE UNCHANGED vars
    BY <1>1, <1>22 DEF Pumping, StopPoints
  <1> QED
    BY <1>2, <1>3, <1>4, <1>5, <1>6, <1>7, <1>8, <1>9, <1>10, <1>11, <1>12, <1>13, <1>14,
       <1>15, <1>16, <1>17, <1>18, <1>19, <1>20, <1>21, <1>22 DEF Next, AcceptStep,
       ReaderStep, PumpStep, StopStep, Environment, Emission

-----------------------------------------------------------------------------
\* A server that has just started satisfies the invariant.
LEMMA InitIInv == Init => IInv
  <1> SUFFICES ASSUME Init PROVE IInv
    OBVIOUS
  <1> USE MaxSessionsAssumption, MaxClientsAssumption, BoundsAssumption, FlagsAssumption DEF Init
  <1>1. TypeOK
    BY EmptySeq DEF TypeOK, AcceptPoints, ReaderPoints, WriterPoints, RenderPoints
  <1>2. WaiterNotLost /\ WaiterHeld
    BY DEF WaiterNotLost, WaiterHeld
  <1>3. SessionIdsUsed
    BY DEF SessionIdsUsed, SessionIds
  <1>4. Counted = {} /\ AllCalls = {}
    BY DEF Counted, AllCalls
  <1>5. CountedClients
    BY <1>4, FS_EmptySet DEF CountedClients
  <1>6. CallsNumbered
    <2>1. 0..(nextAt - 1) = {}
      OBVIOUS
    <2> QED
      BY <1>4, <2>1, FS_EmptySet DEF CallsNumbered
  <1>7. CallsApart /\ AbortIsFinal
    BY DEF CallsApart, Pumping, AbortIsFinal
  <1>8. SessionCap
    BY FS_EmptySet DEF SessionCap
  <1> QED
    BY <1>1, <1>2, <1>3, <1>5, <1>6, <1>7, <1>8 DEF IInv

\* Every step preserves the invariant.
LEMMA NextIInv == IInv /\ [Next]_vars => IInv'
  <1> SUFFICES ASSUME IInv, [Next]_vars PROVE IInv'
    OBVIOUS
  <1> QED
    BY TypeStep, SessionIdsStep, CountedStep, WaiterStep, AbortStep, CapStep, NumberedStep,
       ApartStep DEF IInv

\* Counting the sessions one by one gives the sum that LiveCountExact states.
LEMMA CountIsExact == IInv => LiveCountExact
  <1> SUFFICES ASSUME IInv, ~MapTaken
               PROVE  liveClients + (IF apc = "count" THEN 1 ELSE 0)
                        = Cardinality(sessions)
                          + Cardinality({s \in SessionIds : rpc[s] = "uncount"})
    BY DEF LiveCountExact, MapTaken
  <1> DEFINE leaving == {s \in SessionIds : rpc[s] = "uncount"}
  <1>1. TypeOK /\ SessionIdsUsed /\ CountedClients
    BY DEF IInv
  <1>2. IsFiniteSet(sessions) /\ IsFiniteSet(leaving) /\ IsFiniteSet(Counted)
    <2>1. leaving \subseteq SessionIds
      OBVIOUS
    <2> QED
      BY <1>1, <2>1, SessionsFinite, CountedFinite, FS_Subset
  <1>3. sessions \cap leaving = {}
    BY <1>1 DEF SessionIdsUsed
  <1>4. Cardinality(sessions \cup leaving) = Cardinality(sessions) + Cardinality(leaving)
    <2>1. Cardinality(sessions \cup leaving)
            = Cardinality(sessions) + Cardinality(leaving) - Cardinality(sessions \cap leaving)
      BY <1>2, FS_Union
    <2>2. Cardinality(sessions) \in Nat /\ Cardinality(leaving) \in Nat
      BY <1>2, FS_CardinalityType
    <2> HIDE DEF leaving
    <2> QED
      BY <1>3, <2>1, <2>2, FS_EmptySet
  <1>5. CASE apc = "count"
    <2>1. sessions \cup leaving = Counted \cup {nextId - 1}
      BY <1>1, <1>5 DEF SessionIdsUsed, Counted, TypeOK
    <2>2. nextId - 1 \notin Counted
      BY <1>1, <1>5 DEF SessionIdsUsed, Counted
    <2>3. Cardinality(sessions \cup leaving) = Cardinality(Counted) + 1
      BY <1>1, <2>1, <2>2, CountedFinite
    <2>4. liveClients = Cardinality(Counted)
      BY <1>1 DEF CountedClients
    <2> QED
      BY <1>4, <1>5, <2>3, <2>4
  <1>6. CASE apc # "count"
    <2>1. sessions \cup leaving = Counted
      BY <1>1, <1>6 DEF Counted, TypeOK
    <2>2. liveClients = Cardinality(Counted) /\ liveClients \in Nat
      BY <1>1 DEF CountedClients, TypeOK
    <2> QED
      BY <1>4, <1>6, <2>1, <2>2
  <1> QED
    BY <1>5, <1>6

\* The two halves of the inductive invariant give the partition of the calls.
LEMMA CallsArePartitioned == IInv => CallsPartitioned
  BY DEF IInv, CallsPartitioned, CallsNumbered, CallsApart, Pumping, AllCalls

(* The server's books agree at every step of any number of clients: types,  *)
(* calls, client count and waiters (accept_loop, session_loop,              *)
(* finish_session, pump_tasks, when_client_attached, stop).                 *)
THEOREM BooksAgree == Spec => []Bookkeeping
  <1>1. IInv => Bookkeeping
    BY CountIsExact, CallsArePartitioned DEF IInv, Bookkeeping
  <1> QED
    BY InitIInv, NextIInv, <1>1, PTL DEF Spec

(* "only that session's pending calls are aborted", and for good: no call of *)
(* a session is in the inbox once finish_session has aborted its calls.      *)
THEOREM AbortedForGood == Spec => []AbortIsFinal
  <1>1. IInv => AbortIsFinal
    BY DEF IInv
  <1> QED
    BY InitIInv, NextIInv, <1>1, PTL DEF Spec

(* "Conservative cap on simultaneously attached debug clients": accept_loop's *)
(* test is still true when it registers the session.                          *)
THEOREM CapHolds == Spec => []SessionCap
  <1>1. IInv => SessionCap
    BY DEF IInv
  <1> QED
    BY InitIInv, NextIInv, <1>1, PTL DEF Spec

-----------------------------------------------------------------------------
(***************************************************************************)
(* Streams: what is sent to a session.                                     *)
(***************************************************************************)

\* Only delayed calls are overtaken: a call that is not delayed arrived after
\* everything that left the inbox before it.
ArrivalOrder ==
    /\ \A c \in notYet : c.req.op = "shot"
    /\ \A c \in inbox : c.req.op # "shot" => \A d \in drained \cup executed : d.at < c.at
    /\ \A c \in drained : c.req.op # "shot" => \A d \in executed \ drained : d.at < c.at

\* A writer holds one message while it sends it, none otherwise; it runs only
\* once its session was announced.
OneInflight ==
    \A s \in SessionIds :
        /\ IF wpc[s] = "send" THEN Len(inflight[s]) = 1 ELSE inflight[s] = <<>>
        /\ rpc[s] = "none" => wpc[s] = "none"

\* What RepliesRouted says of one stream, and that the call in progress has
\* no reply in it yet.
GoodStream(s, out) ==
    /\ \A i \in DOMAIN out : IsReply(out[i]) =>
          /\ out[i].call.origin = s
          /\ out[i].call \in executed \ drained
          /\ out[i].call.req.id
    /\ \A i, j \in DOMAIN out : i < j /\ IsReply(out[i]) /\ IsReply(out[j]) =>
          \/ out[i].call.at < out[j].call.at
          \/ out[i].call # out[j].call /\ out[j].call.req.op = "shot"

StreamsGood == \A s \in SessionIds : GoodStream(s, Outgoing(s))

StreamInv == ArrivalOrder /\ OneInflight /\ StreamsGood

\* Calls that are not delayed leave the inbox in arrival order.
LEMMA ArrivalStep ==
    ASSUME IInv, StreamInv, [Next]_vars
    PROVE  ArrivalOrder'
  <1> USE DEF vars, serverVars, inboxVars, sessionVars, renderVars, targetVars, obsVars
  <1>a. TypeOK /\ CallsApart /\ CallsNumbered /\ ArrivalOrder
    BY DEF IInv, StreamInv
  <1>1. ASSUME UNCHANGED <<inbox, notYet, drained, executed>>
        PROVE  ArrivalOrder'
    BY <1>a, <1>1 DEF ArrivalOrder
  <1>2. ASSUME NEW s \in SessionIds, NEW req \in Requests, HandleCall(s, req) PROVE ArrivalOrder'
    <2> DEFINE new == [origin |-> s, at |-> nextAt, req |-> req]
    <2>1. inbox' = inbox \cup {new} /\ new.at = nextAt
      BY <1>2 DEF HandleCall
    <2>2. notYet' = IF new.req.op = "shot" THEN notYet \cup {new} ELSE notYet
      BY <1>2 DEF HandleCall
    <2>3. UNCHANGED <<drained, executed>>
      BY <1>2 DEF HandleCall
    <2> HIDE DEF new
    <2>4. \A d \in drained \cup executed : d.at < nextAt
      <3> SUFFICES ASSUME NEW d \in drained \cup executed PROVE d.at < nextAt
        OBVIOUS
      <3>1. d \in AllCalls
        BY <1>2 DEF AllCalls
      <3>2. d.at \in 0..(nextAt - 1)
        BY <1>2, <1>a, <3>1 DEF CallsNumbered
      <3> QED
        BY <1>2, <1>a, <3>2 DEF TypeOK
    <2> QED
      BY <1>2, <1>a, <2>1, <2>2, <2>3, <2>4 DEF ArrivalOrder
  <1>3. ASSUME NEW s \in SessionIds, AbortPending(s) PROVE ArrivalOrder'
    BY <1>3, <1>a DEF ArrivalOrder, AbortPending
  <1>4. CASE Pump
    BY <1>4, <1>a DEF ArrivalOrder, CallsApart, Pumping, Pump
  <1>5. ASSUME NEW c \in drained, SkipDead(c) PROVE ArrivalOrder'
    BY <1>5, <1>a DEF ArrivalOrder, CallsApart, SkipDead, Advance
  <1>6. ASSUME NEW c \in drained, Dispatch(c) PROVE ArrivalOrder'
    <2>1. UNCHANGED <<inbox, notYet, drained>> /\ executed' = executed \cup {c}
      BY <1>6 DEF Dispatch
    <2> QED
      BY <1>6, <1>a, <2>1 DEF ArrivalOrder
  <1>7. ASSUME NEW c \in drained, SendReply(c) PROVE ArrivalOrder'
    <2>1. UNCHANGED <<inbox, notYet, executed>> /\ drained' = drained \ {c}
      BY <1>7 DEF SendReply, Advance
    <2>2. \A d \in drained : d # c => c.at < d.at
      <3> SUFFICES ASSUME NEW d \in drained, d # c PROVE c.at < d.at
        OBVIOUS
      <3>1. c \in AllCalls /\ d \in AllCalls /\ c.at \in Nat /\ d.at \in Nat
        BY <1>7, <1>a DEF AllCalls, TypeOK, Call
      <3>2. c.at <= d.at
        BY <1>7 DEF SendReply, Front
      <3> QED
        BY <1>7, <1>a, <3>1, <3>2 DEF CallsNumbered
    <2> QED
      BY <1>7, <1>a, <2>1, <2>2 DEF ArrivalOrder
  <1>8. CASE StopAbort
    BY <1>8, <1>a DEF ArrivalOrder, StopAbort
  <1>9. ASSUME NEW c \in inbox, TimePasses(c) PROVE ArrivalOrder'
    BY <1>9, <1>a DEF ArrivalOrder, TimePasses
  <1>10. CASE RegisterSession \/ CountClient \/ Announce \/ AcceptExit \/
           AcceptConnection
    BY <1>10, <1>1 DEF RegisterSession, CountClient, Announce, NotifyClientAttached,
       AcceptExit, AcceptConnection
  <1>11. ASSUME NEW s \in SessionIds, HandleBadLine(s) \/ EraseSession(s) \/
           AlreadyErased(s) \/ UncountClient(s) \/ PublishMask(s) \/ ReceiveLine(s) \/
           ServeHttp(s) \/ EndReading(s) PROVE ArrivalOrder'
    BY <1>11, <1>1 DEF HandleBadLine, PushTo, EraseSession, AlreadyErased, UncountClient,
       PublishMask, ReceiveLine, ServeHttp, FinishSession, EndReading
  <1>12. CASE ApplyMask \/ AttachWait \/ CloseWindow
    BY <1>12, <1>1 DEF ApplyMask, AttachWait, CloseWindow
  <1>13. ASSUME NEW w \in Waiters, AttachCheck(w) PROVE ArrivalOrder'
    BY <1>13, <1>1 DEF AttachCheck
  <1>14. CASE Stop \/ StopHalt \/ StopSnapshot \/ StopKill \/ StopReset \/ JoinAccept \/
           JoinSessions
    BY <1>14, <1>1 DEF Stop, StopHalt, StopSnapshot, StopKill, StopReset, JoinAccept,
       JoinSessions
  <1>15. ASSUME NEW s \in SessionIds, WriterStep(s) PROVE ArrivalOrder'
    BY <1>15, <1>1, WriterFrame
  <1>16. CASE Emission
    BY <1>16, <1>1, EmissionFrame
  <1>17. CASE UNCHANGED vars
    BY <1>1, <1>17
  <1> QED
    BY <1>2, <1>3, <1>4, <1>5, <1>6, <1>7, <1>8, <1>9, <1>10, <1>11, <1>12, <1>13, <1>14,
       <1>15, <1>16, <1>17 DEF Next, AcceptStep, ReaderStep, PumpStep, StopStep,
       Environment, Emission

\* A writer has at most one message in flight.
LEMMA InflightStep ==
    ASSUME IInv, StreamInv, [Next]_vars
    PROVE  OneInflight'
  <1> USE DEF vars, serverVars, inboxVars, sessionVars, renderVars, targetVars, obsVars
  <1>a. TypeOK /\ OneInflight
    BY DEF IInv, StreamInv
  <1>1. ASSUME UNCHANGED <<rpc, wpc, inflight>>
        PROVE  OneInflight'
    BY <1>a, <1>1 DEF OneInflight
  <1>2. ASSUME NEW s \in SessionIds, HandleBadLine(s) PROVE OneInflight'
    BY <1>2, <1>a DEF OneInflight, TypeOK, HandleBadLine, PushTo, Notified
  <1>3. ASSUME NEW s \in SessionIds, NEW req \in Requests, HandleCall(s, req) PROVE OneInflight'
    BY <1>3, <1>a DEF OneInflight, TypeOK, HandleCall
  <1>4. ASSUME NEW s \in SessionIds, AbortPending(s) PROVE OneInflight'
    BY <1>4, <1>a DEF OneInflight, TypeOK, AbortPending
  <1>5. ASSUME NEW s \in SessionIds, EraseSession(s) PROVE OneInflight'
    BY <1>5, <1>a DEF OneInflight, TypeOK, EraseSession
  <1>6. ASSUME NEW s \in SessionIds, AlreadyErased(s) PROVE OneInflight'
    BY <1>6, <1>a DEF OneInflight, TypeOK, AlreadyErased
  <1>7. ASSUME NEW s \in SessionIds, UncountClient(s) PROVE OneInflight'
    BY <1>7, <1>a DEF OneInflight, TypeOK, UncountClient
  <1>8. ASSUME NEW s \in SessionIds, PublishMask(s) PROVE OneInflight'
    BY <1>8, <1>a DEF OneInflight, TypeOK, PublishMask
  <1>9. ASSUME NEW s \in SessionIds, ReceiveLine(s) PROVE OneInflight'
    BY <1>9, <1>a DEF OneInflight, TypeOK, ReceiveLine
  <1>10. ASSUME NEW s \in SessionIds, ServeHttp(s) PROVE OneInflight'
    BY <1>10, <1>a DEF OneInflight, TypeOK, ServeHttp, FinishSession, Notified
  <1>11. ASSUME NEW s \in SessionIds, EndReading(s) PROVE OneInflight'
    BY <1>11, <1>a DEF OneInflight, TypeOK, EndReading, FinishSession, Notified
  <1>12. CASE StopKill
    BY <1>12, <1>a DEF OneInflight, TypeOK, StopKill, Notified
  <1>13. CASE Announce
    BY <1>13, <1>a DEF OneInflight, TypeOK, Announce, IInv, SessionIdsUsed
  <1>14. ASSUME NEW c \in drained, SendReply(c) PROVE OneInflight'
    BY <1>14, <1>a DEF OneInflight, TypeOK, SendReply, PushTo, Notified
  <1>15. ASSUME NEW c \in drained, Dispatch(c) PROVE OneInflight'
    <2>1. UNCHANGED <<inflight, rpc>> /\ (wpc' = wpc \/ \E S : wpc' = Notified(S))
      BY <1>15 DEF Dispatch, DispatchPlain, DispatchChannel, DispatchConsole,
         DispatchPause, DispatchShutdown, Broadcast, PushTo
    <2> QED
      BY <1>15, <1>a, <2>1 DEF OneInflight, TypeOK, Notified
  <1>16. CASE Emission
    <2>1. UNCHANGED <<inflight, rpc>> /\ \E S : wpc' = Notified(S)
      BY <1>16 DEF Emission, EmitConsole, EmitEvent, Broadcast, PushTo
    <2> QED
      BY <1>16, <1>a, <2>1 DEF OneInflight, TypeOK, Notified
  <1>17. ASSUME NEW s \in SessionIds, WriterStep(s) PROVE OneInflight'
    <2>1. CASE WriterTop(s) \/ WriterQuit(s) \/ WriterDecide(s) \/ WriterBlock(s)
      BY <1>17, <1>a, <2>1 DEF OneInflight, TypeOK, WriterTop, WriterQuit, WriterDecide,
         WriterBlock
    <2>2. CASE WriterTake(s)
      BY <1>17, <1>a, <2>2 DEF OneInflight, TypeOK, WriterTake
    <2>3. CASE WriterSend(s)
      BY <1>17, <1>a, <2>3 DEF OneInflight, TypeOK, WriterSend
    <2>4. CASE WriterFail(s)
      BY <1>17, <1>a, <2>4 DEF OneInflight, TypeOK, WriterFail
    <2> QED
      BY <1>17, <2>1, <2>2, <2>3, <2>4 DEF WriterStep
  <1>18. CASE RegisterSession \/ CountClient \/ AcceptExit \/ AcceptConnection
    BY <1>18, <1>1 DEF RegisterSession, CountClient, AcceptExit, AcceptConnection
  <1>19. ASSUME NEW c \in drained, SkipDead(c) PROVE OneInflight'
    BY <1>19, <1>1 DEF SkipDead, Advance
  <1>20. CASE Pump \/ ApplyMask \/ AttachWait \/ CloseWindow
    BY <1>20, <1>1 DEF Pump, ApplyMask, AttachWait, CloseWindow
  <1>21. ASSUME NEW w \in Waiters, AttachCheck(w) PROVE OneInflight'
    BY <1>21, <1>1 DEF AttachCheck
  <1>22. ASSUME NEW c \in inbox, TimePasses(c) PROVE OneInflight'
    BY <1>22, <1>1 DEF TimePasses
  <1>23. CASE Stop \/ StopHalt \/ StopSnapshot \/ StopAbort \/ StopReset \/ JoinAccept \/
           JoinSessions
    BY <1>23, <1>1 DEF Stop, StopHalt, StopSnapshot, StopAbort, StopReset, JoinAccept,
       JoinSessions
  <1>24. CASE UNCHANGED vars
    BY <1>1, <1>24
  <1> QED
    BY <1>2, <1>3, <1>4, <1>5, <1>6, <1>7, <1>8, <1>9, <1>10, <1>11, <1>12, <1>13, <1>14,
       <1>15, <1>16, <1>17, <1>18, <1>19, <1>20, <1>21, <1>22, <1>23, <1>24 DEF Next,
       AcceptStep, ReaderStep, PumpStep, StopStep, Environment, Emission

-----------------------------------------------------------------------------
(* Sequences of three parts: delivered, in flight, queued. *)

\* The elements of three sequences put together.
LEMMA ThreeParts ==
    ASSUME NEW T, NEW a \in Seq(T), NEW b \in Seq(T), NEW o \in Seq(T)
    PROVE  /\ a \o b \o o \in Seq(T)
           /\ Len(a \o b \o o) = Len(a) + Len(b) + Len(o)
           /\ \A i \in 1..(Len(a) + Len(b) + Len(o)) :
                 (a \o b \o o)[i] = IF i <= Len(a) THEN a[i]
                                    ELSE IF i <= Len(a) + Len(b) THEN b[i - Len(a)]
                                    ELSE o[i - Len(a) - Len(b)]
  <1>1. a \o b \in Seq(T) /\ Len(a \o b) = Len(a) + Len(b)
    BY ConcatProperties
  <1>2. \A i \in 1..(Len(a) + Len(b)) : (a \o b)[i] = IF i <= Len(a) THEN a[i] ELSE b[i - Len(a)]
    BY ConcatProperties
  <1>3. Len(a) \in Nat /\ Len(b) \in Nat /\ Len(o) \in Nat
    BY LenProperties
  <1> QED
    BY <1>1, <1>2, <1>3, ConcatProperties

\* Appending to the last part appends to the whole.
LEMMA AppendThree ==
    ASSUME NEW T, NEW a \in Seq(T), NEW b \in Seq(T), NEW o \in Seq(T), NEW m \in T
    PROVE  a \o b \o Append(o, m) = Append(a \o b \o o, m)
  <1>1. a \o b \in Seq(T)
    BY ConcatProperties
  <1> QED
    BY <1>1

\* Moving the head of the last part into an empty middle changes nothing.
LEMMA TakeHead ==
    ASSUME NEW T, NEW a \in Seq(T), NEW o \in Seq(T), o # <<>>
    PROVE  a \o <<Head(o)>> \o Tail(o) = a \o <<>> \o o
  <1>1. Head(o) \in T /\ Tail(o) \in Seq(T) /\ Len(Tail(o)) = Len(o) - 1 /\ Len(o) \in Nat /\ Len(o) > 0
    BY HeadTailProperties, LenProperties, EmptySeq
  <1>2. \A i \in 1..(Len(o) - 1) : Tail(o)[i] = o[i + 1]
    BY HeadTailProperties
  <1>3. <<Head(o)>> \in Seq(T) /\ Len(<<Head(o)>>) = 1 /\ <<Head(o)>>[1] = o[1]
    BY <1>1
  <1>4. <<>> \in Seq(T) /\ Len(<<>>) = 0
    BY EmptySeq
  <1> DEFINE l == a \o <<Head(o)>> \o Tail(o)
             r == a \o <<>> \o o
  <1>5. l \in Seq(T) /\ Len(l) = Len(a) + 1 + (Len(o) - 1)
    BY <1>1, <1>3, ThreeParts
  <1>6. r \in Seq(T) /\ Len(r) = Len(a) + 0 + Len(o)
    BY <1>4, ThreeParts
  <1>7. ASSUME NEW i \in 1..(Len(a) + Len(o)) PROVE l[i] = r[i]
    <2>1. Len(a) \in Nat
      BY LenProperties
    <2>2. l[i] = IF i <= Len(a) THEN a[i] ELSE IF i <= Len(a) + 1 THEN <<Head(o)>>[i - Len(a)]
                 ELSE Tail(o)[i - Len(a) - 1]
      BY <1>1, <1>3, <2>1, ThreeParts
    <2>3. r[i] = IF i <= Len(a) THEN a[i] ELSE o[i - Len(a)]
      <3>1. r[i] = IF i <= Len(a) THEN a[i] ELSE IF i <= Len(a) + 0 THEN <<>>[i - Len(a)] ELSE o[i - Len(a) - 0]
        BY <1>4, <2>1, ThreeParts
      <3> HIDE DEF r
      <3> QED
        BY <2>1, <3>1, <1>1
    <2> HIDE DEF l, r
    <2> QED
      BY <1>1, <1>2, <1>3, <2>1, <2>2, <2>3
  <1> HIDE DEF l, r
  <1>8. l = r
    BY <1>1, <1>5, <1>6, <1>7, LenProperties, SeqEqual
  <1> QED
    BY <1>8 DEF l, r

\* Nor does moving the middle to the end of the first.
LEMMA PassOn ==
    ASSUME NEW T, NEW a \in Seq(T), NEW b \in Seq(T), NEW o \in Seq(T)
    PROVE  (a \o b) \o <<>> \o o = a \o b \o o
  <1>1. a \o b \in Seq(T)
    BY ConcatProperties
  <1>2. (a \o b) \o <<>> = a \o b
    BY <1>1, ConcatEmptySeq
  <1> QED
    BY <1>2

\* A stream is a sequence of messages.
LEMMA OutgoingType ==
    ASSUME TypeOK, NEW s \in SessionIds
    PROVE  Outgoing(s) \in Seq(Message)
  BY ThreeParts DEF TypeOK, Outgoing

\* A push extends the streams of the sessions it goes to.
LEMMA PushOutgoing ==
    ASSUME TypeOK, NEW S, NEW m \in Message, PushTo(S, m), UNCHANGED <<delivered, inflight>>
    PROVE  \A s \in SessionIds :
              Outgoing(s)' = IF s \in S THEN Append(Outgoing(s), m) ELSE Outgoing(s)
  <1> TAKE s \in SessionIds
  <1>1. delivered[s] \in Seq(Message) /\ inflight[s] \in Seq(Message) /\ outbox[s] \in Seq(Message)
    BY DEF TypeOK
  <1>2. outbox'[s] = IF s \in S THEN Append(outbox[s], m) ELSE outbox[s]
    BY DEF PushTo
  <1>3. Outgoing(s)' = delivered[s] \o inflight[s] \o outbox'[s]
    BY DEF Outgoing
  <1>4. \A a, b, o \in Seq(Message) : a \o b \o Append(o, m) = Append(a \o b \o o, m)
    BY AppendThree
  <1>5. delivered[s] \o inflight[s] \o Append(outbox[s], m)
          = Append(delivered[s] \o inflight[s] \o outbox[s], m)
    BY <1>1, <1>4, Zenon
  <1> QED
    BY <1>2, <1>3, <1>5 DEF Outgoing

\* A message that is no reply may be appended to any stream.
LEMMA AppendOther ==
    ASSUME NEW s, NEW out \in Seq(Message), NEW m \in Message, GoodStream(s, out), ~IsReply(m)
    PROVE  GoodStream(s, Append(out, m))
  <1>1. /\ DOMAIN out = 1..Len(out) /\ Len(out) \in Nat
        /\ DOMAIN Append(out, m) = 1..(Len(out) + 1)
        /\ \A i \in 1..Len(out) : Append(out, m)[i] = out[i]
        /\ Append(out, m)[Len(out) + 1] = m
    BY AppendProperties, LenProperties
  <1>2. \A i \in DOMAIN Append(out, m) : IsReply(Append(out, m)[i]) =>
           i \in DOMAIN out /\ Append(out, m)[i] = out[i]
    BY <1>1
  <1> QED
    BY <1>2 DEF GoodStream

\* The reply to a call in progress may be appended to its origin's stream.
LEMMA AppendReply ==
    ASSUME NEW s, NEW out \in Seq(Message), NEW c \in Call, GoodStream(s, out),
           c.origin = s, c.req.id,
           \A i \in DOMAIN out : IsReply(out[i]) =>
              out[i].call.at < c.at \/ (out[i].call # c /\ c.req.op = "shot"),
           c \in executed', executed \subseteq executed', drained' = drained \ {c}
    PROVE  GoodStream(s, Append(out, Reply(c)))'
  <1> DEFINE new == Append(out, Reply(c))
  <1>0. Reply(c) \in Message /\ Reply(c).call = c
    BY MessageFacts DEF Reply
  <1>1. /\ DOMAIN out = 1..Len(out) /\ Len(out) \in Nat
        /\ DOMAIN new = 1..(Len(out) + 1)
        /\ \A i \in 1..Len(out) : new[i] = out[i]
        /\ new[Len(out) + 1] = Reply(c)
    BY <1>0, AppendProperties, LenProperties
  <1> HIDE DEF new
  <1>2. ASSUME NEW i \in DOMAIN new, IsReply(new[i])
        PROVE  new[i].call.origin = s /\ new[i].call \in executed' \ drained' /\ new[i].call.req.id
    <2>1. CASE i \in DOMAIN out
      BY <1>1, <1>2, <2>1 DEF GoodStream
    <2>2. CASE i = Len(out) + 1
      BY <1>0, <1>1, <2>2
    <2> QED
      BY <1>1, <2>1, <2>2
  <1>3. ASSUME NEW i \in DOMAIN new, NEW j \in DOMAIN new, i < j, IsReply(new[i]), IsReply(new[j])
        PROVE  \/ new[i].call.at < new[j].call.at
               \/ new[i].call # new[j].call /\ new[j].call.req.op = "shot"
    <2>1. i \in DOMAIN out /\ new[i] = out[i]
      BY <1>1, <1>3
    <2>2. CASE j \in DOMAIN out
      BY <1>1, <1>3, <2>1, <2>2 DEF GoodStream
    <2>3. CASE j = Len(out) + 1
      BY <1>0, <1>1, <1>3, <2>1, <2>3
    <2> QED
      BY <1>1, <2>2, <2>3
  <1>4. GoodStream(s, new)'
    BY <1>2, <1>3 DEF GoodStream, new
  <1> QED
    BY <1>4 DEF new

\* A stream that loses a message stays good (a writer that gives up).
LEMMA DropOne ==
    ASSUME NEW s, NEW a \in Seq(Message), NEW b \in Seq(Message), NEW o \in Seq(Message),
           GoodStream(s, a \o b \o o)
    PROVE  GoodStream(s, a \o <<>> \o o)
  <1> DEFINE old == a \o b \o o
             new == a \o <<>> \o o
             At(i) == IF i <= Len(a) THEN i ELSE i + Len(b)
  <1>1. Len(a) \in Nat /\ Len(b) \in Nat /\ Len(o) \in Nat
    BY LenProperties
  <1>2. <<>> \in Seq(Message) /\ Len(<<>>) = 0
    BY EmptySeq
  <1>3. DOMAIN old = 1..(Len(a) + Len(b) + Len(o)) /\ DOMAIN new = 1..(Len(a) + 0 + Len(o))
    BY <1>2, ThreeParts, LenProperties
  <1>4. ASSUME NEW i \in DOMAIN new
        PROVE  At(i) \in DOMAIN old /\ new[i] = old[At(i)]
    <2>1. i \in 1..(Len(a) + 0 + Len(o)) /\ At(i) \in 1..(Len(a) + Len(b) + Len(o))
      BY <1>1, <1>3
    <2>2. new[i] = IF i <= Len(a) THEN a[i] ELSE IF i <= Len(a) + 0 THEN <<>>[i - Len(a)]
                   ELSE o[i - Len(a) - 0]
      BY <1>2, <2>1, ThreeParts
    <2>3. old[At(i)] = IF At(i) <= Len(a) THEN a[At(i)]
                       ELSE IF At(i) <= Len(a) + Len(b) THEN b[At(i) - Len(a)]
                       ELSE o[At(i) - Len(a) - Len(b)]
      BY <2>1, ThreeParts
    <2> HIDE DEF old, new
    <2> QED
      BY <1>1, <1>3, <2>1, <2>2, <2>3
  <1>5. \A i, j \in DOMAIN new : i < j => At(i) < At(j)
    BY <1>1, <1>3
  <1> HIDE DEF old, new, At
  <1>6. GoodStream(s, old)
    BY DEF old
  <1>7. GoodStream(s, new)
    BY <1>4, <1>5, <1>6 DEF GoodStream
  <1> QED
    BY <1>7 DEF new

\* The replies of a good stream stay good while calls move on.
LEMMA KeepStream ==
    ASSUME NEW s, NEW out, GoodStream(s, out), executed \subseteq executed',
           drained' \cap executed \subseteq drained
    PROVE  GoodStream(s, out)'
  BY DEF GoodStream

\* A writer moves messages along its stream, and loses one only when it gives up.
LEMMA WriterOutgoing ==
    ASSUME TypeOK, OneInflight, NEW s \in SessionIds, WriterStep(s)
    PROVE  \A x \in SessionIds : Outgoing(x)' = Outgoing(x) \/ (x = s /\ WriterFail(s))
  <1>1. delivered[s] \in Seq(Message) /\ inflight[s] \in Seq(Message) /\ outbox[s] \in Seq(Message)
    BY DEF TypeOK
  <1>2. \A x \in SessionIds : x # s => Outgoing(x)' = Outgoing(x)
    BY DEF Outgoing, TypeOK, sessionVars, obsVars, WriterStep, WriterTop, WriterTake, WriterQuit,
       WriterDecide, WriterBlock, WriterSend, WriterFail
  <1>3. CASE WriterTop(s) \/ WriterQuit(s) \/ WriterDecide(s) \/ WriterBlock(s)
    BY <1>3 DEF Outgoing, sessionVars, obsVars, WriterTop, WriterQuit, WriterDecide, WriterBlock
  <1>4. CASE WriterTake(s)
    <2>1. inflight[s] = <<>> /\ outbox[s] # <<>>
      BY <1>4 DEF OneInflight, WriterTake
    <2>2. Outgoing(s)' = delivered[s] \o <<Head(outbox[s])>> \o Tail(outbox[s])
      BY <1>4 DEF Outgoing, WriterTake, TypeOK, obsVars
    <2>3. Outgoing(s)' = Outgoing(s)
      BY <1>1, <2>1, <2>2, TakeHead DEF Outgoing
    <2> QED
      BY <1>2, <2>3
  <1>5. CASE WriterSend(s)
    <2>1. Outgoing(s)' = (delivered[s] \o inflight[s]) \o <<>> \o outbox[s]
      BY <1>5 DEF Outgoing, WriterSend, TypeOK, sessionVars
    <2>2. Outgoing(s)' = Outgoing(s)
      BY <1>1, <2>1, PassOn DEF Outgoing
    <2> QED
      BY <1>2, <2>2
  <1> QED
    BY <1>2, <1>3, <1>4, <1>5 DEF WriterStep

\* Every step keeps every stream good.
LEMMA StreamStep ==
    ASSUME IInv, StreamInv, [Next]_vars
    PROVE  StreamsGood'
  <1> USE DEF vars, serverVars, inboxVars, sessionVars, renderVars, targetVars, obsVars
  <1>a. TypeOK /\ CallsApart /\ ArrivalOrder /\ OneInflight /\ StreamsGood
    BY DEF IInv, StreamInv
  <1>b. ASSUME NEW S, NEW m \in Message, PushTo(S, m), ~IsReply(m),
               UNCHANGED <<delivered, inflight, drained>>, executed \subseteq executed'
        PROVE  StreamsGood'
    <2> SUFFICES ASSUME NEW x \in SessionIds PROVE GoodStream(x, Outgoing(x))'
      BY DEF StreamsGood
    <2>1. Outgoing(x)' = IF x \in S THEN Append(Outgoing(x), m) ELSE Outgoing(x)
      BY <1>a, <1>b, PushOutgoing
    <2>2. GoodStream(x, Outgoing(x)) /\ Outgoing(x) \in Seq(Message)
      BY <1>a, OutgoingType DEF StreamsGood
    <2>3. \E out : out = Outgoing(x)' /\ GoodStream(x, out)
      BY <1>b, <2>1, <2>2, AppendOther
    <2>4. GoodStream(x, Outgoing(x)')
      BY <2>3
    <2> QED
      BY <1>b, <2>4 DEF GoodStream
  <1>c. \A e \in EventName : Event(e) \in Message /\ ~IsReply(Event(e))
    BY MessageFacts DEF Event, IsReply
  <1>1. ASSUME \A s \in SessionIds : Outgoing(s)' = Outgoing(s),
               executed \subseteq executed', drained' \cap executed \subseteq drained
        PROVE  StreamsGood'
    <2> SUFFICES ASSUME NEW s \in SessionIds PROVE GoodStream(s, Outgoing(s))'
      BY DEF StreamsGood
    <2>1. GoodStream(s, Outgoing(s)) /\ Outgoing(s)' = Outgoing(s)
      BY <1>1, <1>a DEF StreamsGood
    <2> QED
      BY <1>1, <2>1 DEF GoodStream
  <1>2. ASSUME NEW s \in SessionIds, HandleBadLine(s) PROVE StreamsGood'
    <2>1. ErrorReply \in Message /\ ~IsReply(ErrorReply)
      BY <1>2, MessageFacts DEF ErrorReply, IsReply
    <2> QED
      BY <1>2, <1>b, <2>1 DEF HandleBadLine
  <1>3. CASE Emission
    <2>1. CASE EmitConsole
      <3>1. "Console.messageAdded" \in EventName
        BY <1>3 DEF EventName
      <3> QED
        BY <1>3, <1>b, <1>c, <2>1, <3>1 DEF EmitConsole, Broadcast
    <2>2. ASSUME NEW ch \in Channels, EmitEvent(ch) PROVE StreamsGood'
      <3>1. ch \in EventName
        BY <1>3 DEF EventName
      <3> QED
        BY <1>3, <1>b, <1>c, <2>2, <3>1 DEF EmitEvent, Broadcast
    <2> QED
      BY <1>3, <2>1, <2>2 DEF Emission
  <1>4. ASSUME NEW s \in SessionIds, WriterStep(s) PROVE StreamsGood'
    <2>0. delivered[s] \in Seq(Message) /\ inflight[s] \in Seq(Message) /\ outbox[s] \in Seq(Message)
      BY <1>4, <1>a DEF TypeOK
    <2>a. UNCHANGED <<executed, drained>>
      BY <1>4, WriterFrame
    <2>b. \A x \in SessionIds : x # s => Outgoing(x)' = Outgoing(x)
      BY <1>4, <1>a, WriterOutgoing
    <2>c. ASSUME GoodStream(s, Outgoing(s)') PROVE StreamsGood'
      BY <1>4, <1>a, <2>a, <2>b, <2>c DEF StreamsGood, GoodStream
    <2>d. GoodStream(s, Outgoing(s))
      BY <1>4, <1>a DEF StreamsGood
    <2>1. CASE WriterFail(s)
      <3>1. Outgoing(s)' = delivered[s] \o <<>> \o outbox[s]
        BY <1>4, <1>a, <2>1 DEF Outgoing, WriterFail, TypeOK
      <3>2. GoodStream(s, delivered[s] \o inflight[s] \o outbox[s])
        BY <1>4, <2>d DEF Outgoing
      <3> QED
        BY <1>4, <2>0, <2>c, <3>1, <3>2, DropOne
    <2>2. CASE ~WriterFail(s)
      <3>1. Outgoing(s)' = Outgoing(s)
        BY <1>4, <1>a, <2>2, WriterOutgoing
      <3> QED
        BY <1>4, <2>c, <2>d, <3>1
    <2> QED
      BY <1>4, <2>1, <2>2
  <1>5. CASE Pump
    BY <1>5, <1>1, <1>a DEF Outgoing, CallsApart, Pump
  <1>6. ASSUME NEW c \in drained, SkipDead(c) PROVE StreamsGood'
    BY <1>6, <1>1 DEF Outgoing, SkipDead, Advance
  <1>7. ASSUME NEW c \in drained, Dispatch(c) PROVE StreamsGood'
    <2>1. UNCHANGED <<delivered, inflight, drained>> /\ executed \subseteq executed'
      BY <1>7 DEF Dispatch
    <2>2. CASE DispatchPause(c)
      <3>1. "Debugger.paused" \in EventName /\ "Debugger.resumed" \in EventName
        BY <1>7 DEF EventName
      <3> QED
        BY <1>7, <1>b, <1>c, <2>1, <2>2, <3>1 DEF DispatchPause, Broadcast
    <2>3. CASE UNCHANGED outbox
      BY <1>7, <1>1, <2>1, <2>3 DEF Outgoing
    <2> QED
      BY <1>7, <2>2, <2>3 DEF Dispatch, DispatchPlain, DispatchChannel, DispatchConsole,
         DispatchShutdown
  <1>8. ASSUME NEW c \in drained, SendReply(c) PROVE StreamsGood'
    <2> DEFINE S == IF c.req.id THEN Reachable(c.origin) ELSE {}
    <2>1. c \in Call /\ c \in executed /\ c \in drained
      BY <1>8, <1>a DEF TypeOK, CallsApart, SendReply
    <2>2. UNCHANGED <<delivered, inflight, executed>> /\ drained' = drained \ {c}
      BY <1>8 DEF SendReply, Advance
    <2>3. PushTo(S, Reply(c)) /\ Reply(c) \in Message
      BY <1>8, <2>1, MessageFacts DEF SendReply
    <2>4. \A x \in S : x = c.origin /\ c.req.id
      BY <1>8 DEF Reachable
    <2> HIDE DEF S
    <2>5. \A x \in SessionIds : Outgoing(x)' = IF x \in S THEN Append(Outgoing(x), Reply(c)) ELSE Outgoing(x)
      BY <1>8, <1>a, <2>2, <2>3, PushOutgoing
    <2> SUFFICES ASSUME NEW x \in SessionIds PROVE GoodStream(x, Outgoing(x))'
      BY <1>8 DEF StreamsGood
    <2>6. GoodStream(x, Outgoing(x)) /\ Outgoing(x) \in Seq(Message)
      BY <1>8, <1>a, OutgoingType DEF StreamsGood
    <2>7. CASE x \notin S
      BY <1>8, <2>2, <2>5, <2>6, <2>7 DEF GoodStream
    <2>8. CASE x \in S
      <3>1. ASSUME NEW i \in DOMAIN Outgoing(x), IsReply(Outgoing(x)[i])
            PROVE  \/ Outgoing(x)[i].call.at < c.at
                   \/ Outgoing(x)[i].call # c /\ c.req.op = "shot"
        <4>1. Outgoing(x)[i].call \in executed \ drained
          BY <1>8, <2>6, <3>1 DEF GoodStream
        <4> QED
          BY <1>8, <1>a, <2>1, <4>1 DEF ArrivalOrder
      <3>2. c.origin = x /\ c.req.id
        BY <1>8, <2>4, <2>8
      <3>3. \A out \in Seq(Message) : out = Outgoing(x) => GoodStream(x, Append(out, Reply(c)))'
        BY <1>8, <2>1, <2>2, <2>6, <3>1, <3>2, AppendReply
      <3> QED
        BY <1>8, <2>5, <2>6, <2>8, <3>3 DEF GoodStream
    <2> QED
      BY <1>8, <2>7, <2>8
  <1>9. CASE RegisterSession \/ CountClient \/ Announce \/ AcceptExit \/ AcceptConnection
    BY <1>9, <1>1 DEF RegisterSession, CountClient, Announce, NotifyClientAttached,
       AcceptExit, AcceptConnection, Outgoing
  <1>10. ASSUME NEW s \in SessionIds, AbortPending(s) \/ EraseSession(s) \/
           AlreadyErased(s) \/ UncountClient(s) \/ PublishMask(s) \/ ReceiveLine(s) \/
           ServeHttp(s) \/ EndReading(s) PROVE StreamsGood'
    BY <1>10, <1>1 DEF AbortPending, EraseSession, AlreadyErased, UncountClient,
       PublishMask, ReceiveLine, ServeHttp, FinishSession, EndReading, Outgoing
  <1>11. ASSUME NEW s \in SessionIds, NEW req \in Requests, HandleCall(s, req) PROVE
           StreamsGood'
    BY <1>11, <1>1 DEF HandleCall, Outgoing
  <1>12. CASE ApplyMask \/ AttachWait \/ CloseWindow
    BY <1>12, <1>1 DEF ApplyMask, AttachWait, CloseWindow, Outgoing
  <1>13. ASSUME NEW w \in Waiters, AttachCheck(w) PROVE StreamsGood'
    BY <1>13, <1>1 DEF AttachCheck, Outgoing
  <1>14. ASSUME NEW c \in inbox, TimePasses(c) PROVE StreamsGood'
    BY <1>14, <1>1 DEF TimePasses, Outgoing
  <1>15. CASE Stop \/ StopHalt \/ StopSnapshot \/ StopKill \/ StopAbort \/ StopReset \/
           JoinAccept \/ JoinSessions
    BY <1>15, <1>1 DEF Stop, StopHalt, StopSnapshot, StopKill, StopAbort, StopReset,
       JoinAccept, JoinSessions, Outgoing
  <1>16. CASE UNCHANGED vars
    BY <1>1, <1>16 DEF Outgoing
  <1> QED
    BY <1>2, <1>3, <1>4, <1>5, <1>6, <1>7, <1>8, <1>9, <1>10, <1>11, <1>12, <1>13, <1>14,
       <1>15, <1>16 DEF Next, AcceptStep, ReaderStep, PumpStep, StopStep, Environment,
       Emission

\* The streams are empty at the start.
LEMMA StreamInit == Init => StreamInv
  <1> SUFFICES ASSUME Init PROVE StreamInv
    OBVIOUS
  <1>1. ArrivalOrder /\ OneInflight
    BY DEF Init, ArrivalOrder, OneInflight
  <1>2. ASSUME NEW s \in SessionIds PROVE Outgoing(s) = <<>>
    BY <1>2 DEF Init, Outgoing
  <1>3. StreamsGood
    BY <1>2 DEF StreamsGood, GoodStream
  <1> QED
    BY <1>1, <1>3 DEF StreamInv

\* Every step keeps them in order.
LEMMA StreamNext == IInv /\ StreamInv /\ [Next]_vars => StreamInv'
  BY ArrivalStep, InflightStep, StreamStep DEF StreamInv

(* "Replies are ... routed only to the origin session": for any clients and any *)
(* requests, a reply goes to the session that asked, once, and replies to calls *)
(* that were not delayed keep the order of the calls (pump_tasks, dispatch,     *)
(* enqueue_outgoing, writer_loop).                                              *)
THEOREM RepliesAreRouted == Spec => []RepliesRouted
  <1>1. StreamInv => RepliesRouted
    BY DEF StreamInv, StreamsGood, GoodStream, RepliesRouted
  <1> QED
    BY InitIInv, NextIInv, StreamInit, StreamNext, <1>1, PTL DEF Spec

-----------------------------------------------------------------------------
(***************************************************************************)
(* Subscriptions: the events of a stream.                                  *)
(***************************************************************************)

\* What broadcast_event looks at for a filtered event.
Enabled(s, e) == IF e = "Console.messageAdded" THEN console[s] ELSE e \in chan[s]

\* The latest answer about e in a stream turned it on.
LastOn(out, e) ==
    \E j \in DOMAIN out :
        /\ Toggles(out[j], e) /\ TurnsOn(out[j])
        /\ \A k \in (j + 1)..Len(out) : ~Toggles(out[k], e)

\* The session can still be sent messages, and they are delivered in order.
Serving(s) == s \in sessions /\ alive[s] /\ wpc[s] # "exited"

\* A session starts without subscriptions.
NewSessionsMute == \A s \in SessionIds : s >= nextId => chan[s] = {} /\ ~console[s]

\* The call that was dispatched and is not answered yet.
Unanswered == drained \cap executed

\* What a session is subscribed to is what it was told last, except for the
\* call whose answer is still to come.
SubscriptionsTold ==
    \A s \in SessionIds, e \in Filtered : Serving(s) =>
        /\ Enabled(s, e) => \/ LastOn(Outgoing(s), e)
                            \/ \E c \in Unanswered : c.origin = s /\ Toggles(Reply(c), e)
        /\ \A c \in Unanswered : c.origin = s /\ Toggles(Reply(c), e) => (Enabled(s, e) <=> TurnsOn(Reply(c)))

\* Until a message is lost, events follow the answer that turned them on also
\* in what is still to be sent.
StreamsSubscribed ==
    \A s \in SessionIds : wpc[s] # "exited" => SubscribedStream(Outgoing(s))

SubscriptionInv == NewSessionsMute /\ SubscriptionsTold /\ StreamsSubscribed /\ EventsSubscribed

\* The clients ask for an answer to every request that changes a subscription.
TogglesAnswered ==
    \A r \in Requests : r.op \in {"sub", "unsub", "consoleOn", "consoleOff"} => r.id

\* What appending does to a stream, index by index.
LEMMA AppendFacts ==
    ASSUME NEW out \in Seq(Message), NEW m \in Message
    PROVE  /\ Append(out, m) \in Seq(Message)
           /\ DOMAIN out = 1..Len(out) /\ Len(out) \in Nat
           /\ Len(Append(out, m)) = Len(out) + 1
           /\ DOMAIN Append(out, m) = 1..(Len(out) + 1)
           /\ \A i \in 1..Len(out) : Append(out, m)[i] = out[i]
           /\ Append(out, m)[Len(out) + 1] = m
  BY AppendProperties, LenProperties

\* The latest answer about e after one more message.
LEMMA AppendLastOn ==
    ASSUME NEW out \in Seq(Message), NEW m \in Message, NEW e,
           IF Toggles(m, e) THEN TurnsOn(m) ELSE LastOn(out, e)
    PROVE  LastOn(Append(out, m), e)
  <1> DEFINE new == Append(out, m)
  <1>1. /\ DOMAIN out = 1..Len(out) /\ Len(out) \in Nat /\ Len(new) = Len(out) + 1
        /\ DOMAIN new = 1..(Len(out) + 1)
        /\ \A i \in 1..Len(out) : new[i] = out[i]
        /\ new[Len(out) + 1] = m
    BY AppendFacts
  <1> HIDE DEF new
  <1>2. CASE Toggles(m, e)
    <2>1. Toggles(new[Len(out) + 1], e) /\ TurnsOn(new[Len(out) + 1])
      BY <1>1, <1>2
    <2>2. (Len(out) + 1 + 1)..Len(new) = {}
      BY <1>1
    <2>3. LastOn(new, e)
      BY <1>1, <2>1, <2>2 DEF LastOn
    <2> QED
      BY <2>3 DEF new
  <1>3. CASE ~Toggles(m, e)
    <2>1. PICK j \in DOMAIN out : /\ Toggles(out[j], e) /\ TurnsOn(out[j])
                                  /\ \A k \in (j + 1)..Len(out) : ~Toggles(out[k], e)
      BY <1>3 DEF LastOn
    <2>2. ASSUME NEW k \in (j + 1)..Len(new) PROVE ~Toggles(new[k], e)
      <3>1. k \in (j + 1)..Len(out) \/ k = Len(out) + 1
        BY <1>1, <2>1
      <3>2. CASE k \in (j + 1)..Len(out)
        <4>1. k \in 1..Len(out)
          BY <1>1, <2>1, <3>2
        <4> QED
          BY <1>1, <2>1, <3>2, <4>1
      <3> QED
        BY <1>1, <1>3, <3>1, <3>2
    <2>3. j \in DOMAIN new /\ new[j] = out[j]
      BY <1>1, <2>1
    <2>4. LastOn(new, e)
      BY <2>1, <2>2, <2>3 DEF LastOn
    <2> QED
      BY <2>4 DEF new
  <1> QED
    BY <1>2, <1>3

\* A filtered event may follow the answer that turned it on, any other message
\* may follow anything.
LEMMA AppendSubscribed ==
    ASSUME NEW out \in Seq(Message), NEW m \in Message, SubscribedStream(out),
           m.kind = "event" /\ m.name \in Filtered => LastOn(out, m.name)
    PROVE  SubscribedStream(Append(out, m))
  <1> DEFINE new == Append(out, m)
  <1>1. /\ DOMAIN out = 1..Len(out) /\ Len(out) \in Nat /\ Len(new) = Len(out) + 1
        /\ DOMAIN new = 1..(Len(out) + 1)
        /\ \A i \in 1..Len(out) : new[i] = out[i]
        /\ new[Len(out) + 1] = m
    BY AppendFacts
  <1> HIDE DEF new
  <1> SUFFICES ASSUME NEW i \in DOMAIN new, new[i].kind = "event", new[i].name \in Filtered
               PROVE  \E j \in 1..(i - 1) :
                         /\ Toggles(new[j], new[i].name) /\ TurnsOn(new[j])
                         /\ \A k \in (j + 1)..(i - 1) : ~Toggles(new[k], new[i].name)
    BY DEF SubscribedStream, new
  <1>2. PICK j \in 1..(i - 1) : /\ Toggles(out[j], new[i].name) /\ TurnsOn(out[j])
                                /\ \A k \in (j + 1)..(i - 1) : ~Toggles(out[k], new[i].name)
    <2>1. CASE i \in DOMAIN out
      BY <1>1, <2>1 DEF SubscribedStream
    <2>2. CASE i = Len(out) + 1
      <3>1. i - 1 = Len(out)
        BY <1>1, <2>2
      <3> QED
        BY <1>1, <2>2, <3>1 DEF LastOn
    <2> QED
      BY <1>1, <2>1, <2>2
  <1>3. \A k \in 1..(i - 1) : new[k] = out[k]
    BY <1>1
  <1>4. (j + 1)..(i - 1) \subseteq 1..(i - 1)
    BY <1>1, <1>2
  <1> QED
    BY <1>2, <1>3, <1>4

\* What was sent first is in order by itself.
LEMMA PrefixSubscribed ==
    ASSUME NEW a \in Seq(Message), NEW o \in Seq(Message), SubscribedStream(a \o o)
    PROVE  SubscribedStream(a)
  <1> DEFINE whole == a \o o
  <1>1. /\ DOMAIN a = 1..Len(a) /\ Len(a) \in Nat /\ Len(o) \in Nat
        /\ DOMAIN whole = 1..(Len(a) + Len(o))
        /\ \A i \in 1..Len(a) : whole[i] = a[i]
    BY ConcatProperties, LenProperties
  <1>2. SubscribedStream(whole)
    OBVIOUS
  <1> HIDE DEF whole
  <1> SUFFICES ASSUME NEW i \in DOMAIN a, a[i].kind = "event", a[i].name \in Filtered
               PROVE  \E j \in 1..(i - 1) :
                         /\ Toggles(a[j], a[i].name) /\ TurnsOn(a[j])
                         /\ \A k \in (j + 1)..(i - 1) : ~Toggles(a[k], a[i].name)
    BY DEF SubscribedStream
  <1>3. i \in DOMAIN whole /\ whole[i] = a[i]
    BY <1>1
  <1>4. PICK j \in 1..(i - 1) : /\ Toggles(whole[j], a[i].name) /\ TurnsOn(whole[j])
                                /\ \A k \in (j + 1)..(i - 1) : ~Toggles(whole[k], a[i].name)
    BY <1>2, <1>3 DEF SubscribedStream
  <1>5. \A k \in 1..(i - 1) : whole[k] = a[k]
    BY <1>1
  <1>6. (j + 1)..(i - 1) \subseteq 1..(i - 1)
    BY <1>1, <1>4
  <1> QED
    BY <1>4, <1>5, <1>6

\* Only calls change subscriptions, and calls come from sessions that exist.
LEMMA MuteStep ==
    ASSUME IInv, SubscriptionInv, [Next]_vars
    PROVE  NewSessionsMute'
  <1> USE DEF vars, serverVars, inboxVars, sessionVars, renderVars, targetVars, obsVars
  <1>a. TypeOK /\ CallsNumbered 
    BY DEF IInv
  <1>b. NewSessionsMute
    BY DEF SubscriptionInv
  <1>1. ASSUME UNCHANGED <<nextId, chan, console>>
        PROVE  NewSessionsMute'
    BY <1>b, <1>1 DEF NewSessionsMute
  <1>2. CASE RegisterSession
    BY <1>2, <1>a, <1>b DEF NewSessionsMute, RegisterSession, TypeOK, SessionIds
  <1>3. ASSUME NEW c \in drained, Dispatch(c) PROVE NewSessionsMute'
    <2>1. c.origin < nextId /\ c.origin \in SessionIds
      BY <1>3, <1>a DEF CallsNumbered, AllCalls, TypeOK, Call
    <2>2. UNCHANGED nextId
      BY <1>3 DEF Dispatch
    <2>3. \A s \in SessionIds : s # c.origin => chan'[s] = chan[s] /\ console'[s] = console[s]
      BY <1>3, <1>a DEF TypeOK, Dispatch, DispatchPlain, DispatchChannel,
         DispatchConsole, DispatchPause, DispatchShutdown
    <2> QED
      BY <1>3, <1>a, <1>b, <2>1, <2>2, <2>3 DEF NewSessionsMute, TypeOK, SessionIds
  <1>4. CASE CountClient \/ Announce \/ AcceptExit \/ AcceptConnection
    BY <1>4, <1>1 DEF CountClient, Announce, NotifyClientAttached, AcceptExit,
       AcceptConnection
  <1>5. ASSUME NEW s \in SessionIds, HandleBadLine(s) \/ AbortPending(s) \/
           EraseSession(s) \/ AlreadyErased(s) \/ UncountClient(s) \/ PublishMask(s) \/
           ReceiveLine(s) \/ ServeHttp(s) \/ EndReading(s) PROVE NewSessionsMute'
    BY <1>5, <1>1 DEF HandleBadLine, PushTo, AbortPending, EraseSession, AlreadyErased,
       UncountClient, PublishMask, ReceiveLine, ServeHttp, FinishSession, EndReading
  <1>6. ASSUME NEW s \in SessionIds, NEW req \in Requests, HandleCall(s, req) PROVE
           NewSessionsMute'
    BY <1>6, <1>1 DEF HandleCall
  <1>7. ASSUME NEW c \in drained, SkipDead(c) \/ SendReply(c) PROVE NewSessionsMute'
    BY <1>7, <1>1 DEF SkipDead, Advance, SendReply, PushTo
  <1>8. CASE Pump \/ ApplyMask \/ AttachWait \/ CloseWindow
    BY <1>8, <1>1 DEF Pump, ApplyMask, AttachWait, CloseWindow
  <1>9. ASSUME NEW w \in Waiters, AttachCheck(w) PROVE NewSessionsMute'
    BY <1>9, <1>1 DEF AttachCheck
  <1>10. ASSUME NEW c \in inbox, TimePasses(c) PROVE NewSessionsMute'
    BY <1>10, <1>1 DEF TimePasses
  <1>11. CASE Stop \/ StopHalt \/ StopSnapshot \/ StopKill \/ StopAbort \/ StopReset \/
           JoinAccept \/ JoinSessions
    BY <1>11, <1>1 DEF Stop, StopHalt, StopSnapshot, StopKill, StopAbort, StopReset,
       JoinAccept, JoinSessions
  <1>12. ASSUME NEW s \in SessionIds, WriterStep(s) PROVE NewSessionsMute'
    BY <1>12, <1>1, WriterFrame
  <1>13. CASE Emission
    BY <1>13, <1>1, EmissionFrame
  <1>14. CASE UNCHANGED vars
    BY <1>1, <1>14
  <1> QED
    BY <1>2, <1>3, <1>4, <1>5, <1>6, <1>7, <1>8, <1>9, <1>10, <1>11, <1>12, <1>13, <1>14
       DEF Next, AcceptStep, ReaderStep, PumpStep, StopStep, Environment, Emission

\* A session knows its subscriptions at every step.
LEMMA ToldStep ==
    ASSUME TogglesAnswered, IInv, StreamInv, SubscriptionInv, [Next]_vars
    PROVE  SubscriptionsTold'
  <1> USE DEF vars, serverVars, inboxVars, sessionVars, renderVars, targetVars, obsVars
  <1>a. TypeOK /\ CallsApart /\ CallsNumbered /\ SessionIdsUsed /\ OneInflight
    BY DEF IInv, StreamInv
  <1>b. NewSessionsMute /\ SubscriptionsTold /\ StreamsSubscribed /\ EventsSubscribed
    BY DEF SubscriptionInv
  <1>p. ASSUME NEW S, NEW m \in Message, PushTo(S, m), ~IsReply(m),
               UNCHANGED <<delivered, inflight, chan, console, sessions, alive>>, Unanswered' = Unanswered
        PROVE  SubscriptionsTold'
    <2> SUFFICES ASSUME NEW x \in SessionIds, NEW e \in Filtered, Serving(x)'
                 PROVE  /\ Enabled(x, e)' => \/ LastOn(Outgoing(x)', e)
                                             \/ \E c \in Unanswered : c.origin = x /\ Toggles(Reply(c), e)
                        /\ \A c \in Unanswered : c.origin = x /\ Toggles(Reply(c), e) =>
                              (Enabled(x, e)' <=> TurnsOn(Reply(c)))
      BY <1>p DEF SubscriptionsTold
    <2>1. Serving(x) /\ (Enabled(x, e)' <=> Enabled(x, e))
      BY <1>p, <1>a DEF Serving, Enabled, PushTo, Notified, TypeOK
    <2>2. Outgoing(x)' = IF x \in S THEN Append(Outgoing(x), m) ELSE Outgoing(x)
      BY <1>a, <1>p, PushOutgoing
    <2>3. LastOn(Outgoing(x), e) => LastOn(Outgoing(x)', e)
      BY <1>a, <1>p, <2>2, OutgoingType, AppendLastOn DEF Toggles
    <2> QED
      BY <1>b, <2>1, <2>3 DEF SubscriptionsTold
  <1>e. \A e \in EventName : Event(e) \in Message /\ ~IsReply(Event(e))
    BY MessageFacts DEF Event, IsReply
  <1>n. rt \notin {"apply", "reply"} => Unanswered = {}
    BY <1>a DEF CallsApart, Unanswered, Pumping, TypeOK, RenderPoints
  <1>1. ASSUME \A s \in SessionIds : Serving(s)' => Serving(s) /\ Outgoing(s)' = Outgoing(s),
               UNCHANGED <<chan, console>>, Unanswered' = Unanswered
        PROVE  SubscriptionsTold'
    BY <1>b, <1>1 DEF SubscriptionsTold, Enabled
  <1>2. CASE RegisterSession
    <2> SUFFICES ASSUME NEW x \in SessionIds, NEW e \in Filtered, Serving(x)'
                 PROVE  /\ Enabled(x, e) => \/ LastOn(Outgoing(x), e)
                                            \/ \E c \in Unanswered : c.origin = x /\ Toggles(Reply(c), e)
                        /\ \A c \in Unanswered : c.origin = x /\ Toggles(Reply(c), e) =>
                              (Enabled(x, e) <=> TurnsOn(Reply(c)))
      BY <1>2 DEF SubscriptionsTold, RegisterSession, Enabled, Outgoing, Unanswered
    <2>1. CASE x = nextId
      <3>1. ~Enabled(x, e)
        BY <1>2, <1>a, <1>b, <2>1 DEF NewSessionsMute, Enabled, TypeOK, SessionIds
      <3>2. \A c \in Unanswered : c.origin # x
        BY <1>2, <1>a, <2>1 DEF Unanswered, CallsNumbered, AllCalls, TypeOK
      <3> QED
        BY <1>2, <3>1, <3>2
    <2>2. CASE x # nextId
      <3>1. Serving(x)
        BY <1>2, <1>a, <2>2 DEF Serving, RegisterSession, TypeOK
      <3> QED
        BY <1>2, <1>b, <3>1 DEF SubscriptionsTold
    <2> QED
      BY <1>2, <2>1, <2>2
  <1>3. CASE Announce
    <2>0. nextId - 1 \in SessionIds /\ rpc[nextId - 1] = "none"
      BY <1>3, <1>a, MaxSessionsAssumption DEF Announce, SessionIdsUsed, TypeOK,
         SessionIds
    <2>1. nextId - 1 \in SessionIds /\ wpc[nextId - 1] = "none"
      BY <1>3, <1>a, <2>0 DEF OneInflight
    <2>2. \A s \in SessionIds : Serving(s)' => Serving(s) /\ Outgoing(s)' = Outgoing(s)
      BY <1>3, <1>a, <2>1 DEF Announce, Serving, Outgoing, TypeOK
    <2> QED
      BY <1>3, <1>1, <2>2 DEF Announce, Unanswered
  <1>4. ASSUME NEW s \in SessionIds, HandleBadLine(s) PROVE SubscriptionsTold'
    <2>1. ErrorReply \in Message /\ ~IsReply(ErrorReply)
      BY <1>4, MessageFacts DEF ErrorReply, IsReply
    <2>2. PushTo(Reachable(s), ErrorReply)
      BY <1>4 DEF HandleBadLine
    <2>3. UNCHANGED <<delivered, inflight, chan, console, sessions, alive>> /\ Unanswered' = Unanswered
      BY <1>4 DEF HandleBadLine, Unanswered
    <2> QED
      BY <1>4, <1>p, <2>1, <2>2, <2>3
  <1>5. CASE Emission
    <2>1. UNCHANGED <<delivered, inflight, chan, console, sessions, alive>> /\ Unanswered' = Unanswered
      BY <1>5, EmissionFrame DEF Unanswered
    <2>2. PICK e \in EventName : Broadcast(e)
      BY <1>5 DEF Emission, EmitConsole, EmitEvent, EventName
    <2> QED
      BY <1>5, <1>e, <1>p, <2>1, <2>2 DEF Broadcast
  <1>6. ASSUME NEW s \in SessionIds, WriterStep(s) PROVE SubscriptionsTold'
    <2>1. UNCHANGED <<chan, console, sessions, alive>> /\ Unanswered' = Unanswered
      BY <1>6, WriterFrame DEF Unanswered
    <2>2. ASSUME NEW x \in SessionIds, Serving(x)' PROVE Serving(x) /\ Outgoing(x)' = Outgoing(x)
      <3>1. wpc[x] # "exited" /\ ~(x = s /\ WriterFail(s))
        BY <1>6, <1>a, <2>2 DEF Serving, WriterStep, WriterTop, WriterTake, WriterQuit,
           WriterDecide, WriterBlock, WriterSend, WriterFail, TypeOK
      <3> QED
        BY <1>6, <1>a, <2>1, <2>2, <3>1, WriterOutgoing DEF Serving
    <2> QED
      BY <1>6, <1>1, <2>1, <2>2
  <1>7. CASE Pump
    <2>1. Unanswered = {} /\ Unanswered' = {}
      BY <1>7, <1>a, <1>n DEF Pump, Unanswered, CallsApart
    <2> QED
      BY <1>7, <1>1, <2>1 DEF Pump, Serving, Outgoing
  <1>8. ASSUME NEW c \in drained, SkipDead(c) PROVE SubscriptionsTold'
    <2>1. Unanswered = {} /\ Unanswered' = {}
      BY <1>8, <1>n DEF SkipDead, Advance, Unanswered
    <2> QED
      BY <1>8, <1>1, <2>1 DEF SkipDead, Serving, Outgoing
  <1>9. ASSUME NEW c \in drained, Dispatch(c) PROVE SubscriptionsTold'
    <2>1. Unanswered = {} /\ Unanswered' = {c} /\ c \in Call /\ Reply(c).call = c
      BY <1>9, <1>a, <1>n DEF Dispatch, Unanswered, TypeOK, Reply
    <2>2. UNCHANGED <<delivered, inflight, sessions, alive>>
      BY <1>9 DEF Dispatch
    <2> SUFFICES ASSUME NEW x \in SessionIds, NEW e \in Filtered, Serving(x)'
                 PROVE  /\ Enabled(x, e)' => \/ LastOn(Outgoing(x)', e)
                                             \/ c.origin = x /\ Toggles(Reply(c), e)
                        /\ c.origin = x /\ Toggles(Reply(c), e) => (Enabled(x, e)' <=> TurnsOn(Reply(c)))
      BY <1>9, <2>1 DEF SubscriptionsTold
    <2>3. Serving(x)
      BY <1>9, <1>a, <2>2 DEF Serving, Dispatch, DispatchPlain, DispatchChannel,
         DispatchConsole, DispatchPause, DispatchShutdown, Broadcast, PushTo, Notified,
         TypeOK
    <2>4. LastOn(Outgoing(x), e) => LastOn(Outgoing(x)', e)
      <3>1. CASE UNCHANGED outbox
        BY <1>9, <2>2, <3>1 DEF Outgoing
      <3>2. ASSUME NEW d \in EventName, Broadcast(d) PROVE LastOn(Outgoing(x), e) => LastOn(Outgoing(x)', e)
        <4>1. Event(d) \in Message /\ ~Toggles(Event(d), e)
          BY <1>9, <1>e DEF Toggles
        <4>2. Outgoing(x)' = Append(Outgoing(x), Event(d)) \/ Outgoing(x)' = Outgoing(x)
          BY <1>9, <1>a, <2>2, <3>2, <4>1, PushOutgoing DEF Broadcast
        <4> QED
          BY <1>9, <1>a, <4>1, <4>2, OutgoingType, AppendLastOn
      <3> QED
        BY <1>9, <3>1, <3>2 DEF Dispatch, DispatchPlain, DispatchChannel,
           DispatchConsole, DispatchPause, DispatchShutdown, EventName
    <2>5. CASE c.origin = x /\ Toggles(Reply(c), e)
      <3>1. x \in sessions /\ c.req.ch \in Channels
        BY <1>9, <2>1, <2>3, RequestsAssumption DEF Serving, Call
      <3>2. Enabled(x, e)' <=> TurnsOn(Reply(c))
        <4>1. CASE e = "Console.messageAdded" /\ c.req.op \in {"consoleOn", "consoleOff"}
          <5>1. console' = [console EXCEPT ![x] = (c.req.op = "consoleOn")]
            BY <1>9, <2>5, <3>1, <4>1 DEF Dispatch, DispatchPlain, DispatchChannel,
               DispatchConsole, DispatchPause, DispatchShutdown
          <5> QED
            BY <1>9, <1>a, <2>1, <4>1, <5>1 DEF Enabled, TurnsOn, TypeOK
        <4>2. CASE e = c.req.ch /\ c.req.op \in {"sub", "unsub"}
          <5>1. chan' = [chan EXCEPT ![x] = IF c.req.op = "sub" THEN @ \cup {e} ELSE @ \ {e}]
            BY <1>9, <2>5, <3>1, <4>2 DEF Dispatch, DispatchPlain, DispatchChannel,
               DispatchConsole, DispatchPause, DispatchShutdown
          <5>2. e # "Console.messageAdded"
            BY <1>9, <3>1, <4>2, ChannelsAssumption
          <5> QED
            BY <1>9, <1>a, <2>1, <4>2, <5>1, <5>2 DEF Enabled, TurnsOn, TypeOK
        <4> QED
          BY <1>9, <2>1, <2>5, <4>1, <4>2 DEF Toggles
      <3> QED
        BY <1>9, <2>5, <3>2
    <2>6. CASE ~(c.origin = x /\ Toggles(Reply(c), e))
      <3>1. Enabled(x, e)' <=> Enabled(x, e)
        BY <1>9, <1>a, <2>1, <2>6, ChannelsAssumption DEF Enabled, Toggles, IsReply,
           Reply, Filtered, TypeOK, Call, Dispatch, DispatchPlain, DispatchChannel,
           DispatchConsole, DispatchPause, DispatchShutdown
      <3> QED
        BY <1>9, <1>b, <2>1, <2>3, <2>4, <2>6, <3>1 DEF SubscriptionsTold
    <2> QED
      BY <1>9, <2>5, <2>6
  <1>10. ASSUME NEW c \in drained, SendReply(c) PROVE SubscriptionsTold'
    <2>1. c \in Call /\ Reply(c).call = c /\ Reply(c) \in Message /\ rt = "reply" /\ Front(c)
      BY <1>10, <1>a, MessageFacts DEF SendReply, TypeOK, Reply
    <2>2. Unanswered = {c} /\ Unanswered' = {}
      <3>1. \A d \in Unanswered : d = c
        <4> SUFFICES ASSUME NEW d \in Unanswered PROVE d = c
          OBVIOUS
        <4>1. Front(d) /\ d.at \in Nat /\ c.at \in Nat /\ d \in AllCalls /\ c \in AllCalls /\ d \in drained
          BY <1>10, <1>a, <2>1 DEF CallsApart, Unanswered, TypeOK, Call, AllCalls
        <4>2. d.at = c.at
          BY <1>10, <2>1, <4>1 DEF Front
        <4> QED
          BY <1>10, <1>a, <4>1, <4>2 DEF CallsNumbered
      <3>2. c \in Unanswered
        BY <1>10, <1>a, <2>1 DEF CallsApart, Unanswered
      <3>3. drained' = drained \ {c} /\ executed' = executed
        BY <1>10 DEF SendReply, Advance
      <3> QED
        BY <1>10, <3>1, <3>2, <3>3 DEF Unanswered
    <2>3. UNCHANGED <<delivered, inflight, sessions, alive, chan, console>>
      BY <1>10 DEF SendReply
    <2> DEFINE S == IF c.req.id THEN Reachable(c.origin) ELSE {}
    <2>4. PushTo(S, Reply(c))
      BY <1>10 DEF SendReply
    <2> SUFFICES ASSUME NEW x \in SessionIds, NEW e \in Filtered, Serving(x)', Enabled(x, e)'
                 PROVE  LastOn(Outgoing(x)', e)
      BY <1>10, <2>2 DEF SubscriptionsTold
    <2>5. Serving(x) /\ Enabled(x, e)
      BY <1>10, <1>a, <2>3, <2>4 DEF Serving, Enabled, PushTo, Notified, TypeOK
    <2>6. Outgoing(x)' = IF x \in S THEN Append(Outgoing(x), Reply(c)) ELSE Outgoing(x)
      BY <1>10, <1>a, <2>1, <2>3, <2>4, PushOutgoing
    <2>7. CASE c.origin = x /\ Toggles(Reply(c), e)
      <3>1. TurnsOn(Reply(c))
        BY <1>10, <1>b, <2>2, <2>5, <2>7 DEF SubscriptionsTold
      <3>2. c.req.id
        BY <1>10, <2>1, <2>7 DEF Toggles, TogglesAnswered, Call
      <3>3. x \in S
        BY <1>10, <2>5, <2>7, <3>2 DEF Reachable, Serving
      <3> QED
        BY <1>10, <1>a, <2>1, <2>6, <2>7, <3>1, <3>3, OutgoingType, AppendLastOn
    <2>8. CASE ~(c.origin = x /\ Toggles(Reply(c), e))
      <3>1. LastOn(Outgoing(x), e)
        BY <1>10, <1>b, <2>2, <2>5, <2>8 DEF SubscriptionsTold
      <3>2. x \in S => ~Toggles(Reply(c), e)
        BY <1>10, <2>8 DEF Reachable
      <3> QED
        BY <1>10, <1>a, <2>1, <2>6, <3>1, <3>2, OutgoingType, AppendLastOn
    <2> QED
      BY <1>10, <2>7, <2>8
  <1>11. CASE CountClient \/ AcceptExit \/ AcceptConnection
    BY <1>11, <1>1, <1>a DEF CountClient, AcceptExit, AcceptConnection, Serving,
       Outgoing, Unanswered, Notified, TypeOK
  <1>12. ASSUME NEW s \in SessionIds, AbortPending(s) \/ EraseSession(s) \/
           AlreadyErased(s) \/ UncountClient(s) \/ PublishMask(s) \/ ReceiveLine(s) \/
           ServeHttp(s) \/ EndReading(s) PROVE SubscriptionsTold'
    BY <1>12, <1>1, <1>a DEF AbortPending, EraseSession, AlreadyErased, UncountClient,
       PublishMask, ReceiveLine, ServeHttp, FinishSession, EndReading, Serving, Outgoing,
       Unanswered, Notified, TypeOK
  <1>13. ASSUME NEW s \in SessionIds, NEW req \in Requests, HandleCall(s, req) PROVE
           SubscriptionsTold'
    BY <1>13, <1>1, <1>a DEF HandleCall, Serving, Outgoing, Unanswered, Notified, TypeOK
  <1>14. CASE ApplyMask \/ AttachWait \/ CloseWindow
    BY <1>14, <1>1, <1>a DEF ApplyMask, AttachWait, CloseWindow, Serving, Outgoing,
       Unanswered, Notified, TypeOK
  <1>15. ASSUME NEW w \in Waiters, AttachCheck(w) PROVE SubscriptionsTold'
    BY <1>15, <1>1, <1>a DEF AttachCheck, Serving, Outgoing, Unanswered, Notified, TypeOK
  <1>16. ASSUME NEW c \in inbox, TimePasses(c) PROVE SubscriptionsTold'
    BY <1>16, <1>1, <1>a DEF TimePasses, Serving, Outgoing, Unanswered, Notified, TypeOK
  <1>17. CASE Stop \/ StopHalt \/ StopSnapshot \/ StopKill \/ StopAbort \/ StopReset \/
           JoinAccept \/ JoinSessions
    BY <1>17, <1>1, <1>a DEF Stop, StopHalt, StopSnapshot, StopKill, StopAbort,
       StopReset, JoinAccept, JoinSessions, Serving, Outgoing, Unanswered, Notified,
       TypeOK
  <1>18. CASE UNCHANGED vars
    BY <1>1, <1>18 DEF Serving, Outgoing, Unanswered, Notified, TypeOK
  <1> QED
    BY <1>2, <1>3, <1>4, <1>5, <1>6, <1>7, <1>8, <1>9, <1>10, <1>11, <1>12, <1>13, <1>14,
       <1>15, <1>16, <1>17, <1>18 DEF Next, AcceptStep, ReaderStep, PumpStep, StopStep,
       Environment, Emission

\* No event enters a stream uninvited.
LEMMA SubscribedStep ==
    ASSUME IInv, StreamInv, SubscriptionInv, [Next]_vars
    PROVE  StreamsSubscribed' /\ EventsSubscribed'
  <1> USE DEF vars, serverVars, inboxVars, sessionVars, renderVars, targetVars, obsVars
  <1>a. TypeOK /\ CallsApart /\ CallsNumbered /\ SessionIdsUsed /\ OneInflight
    BY DEF IInv, StreamInv
  <1>b. NewSessionsMute /\ SubscriptionsTold /\ StreamsSubscribed /\ EventsSubscribed
    BY DEF SubscriptionInv
  <1>p. ASSUME NEW S, NEW m \in Message, PushTo(S, m), UNCHANGED <<delivered, inflight>>,
               \A x \in SessionIds \cap S : wpc[x] # "exited" /\ m.kind = "event" /\ m.name \in Filtered =>
                  LastOn(Outgoing(x), m.name)
        PROVE  StreamsSubscribed' /\ EventsSubscribed'
    <2>1. \A x \in SessionIds : Outgoing(x)' = IF x \in S THEN Append(Outgoing(x), m) ELSE Outgoing(x)
      BY <1>a, <1>p, PushOutgoing
    <2>2. \A x \in SessionIds : wpc'[x] # "exited" => wpc[x] # "exited"
      BY <1>p, <1>a DEF PushTo, Notified, TypeOK
    <2>3. \A x \in SessionIds : wpc'[x] # "exited" => SubscribedStream(Outgoing(x)')
      BY <1>a, <1>b, <1>p, <2>1, <2>2, OutgoingType, AppendSubscribed DEF StreamsSubscribed
    <2> QED
      BY <1>b, <1>p, <2>3 DEF StreamsSubscribed, EventsSubscribed
  <1>1. ASSUME \A s \in SessionIds : wpc'[s] # "exited" => wpc[s] # "exited" /\ Outgoing(s)' = Outgoing(s),
               UNCHANGED delivered
        PROVE  StreamsSubscribed' /\ EventsSubscribed'
    BY <1>b, <1>1 DEF StreamsSubscribed, EventsSubscribed
  <1>2. CASE Announce
    <2>0. nextId - 1 \in SessionIds /\ rpc[nextId - 1] = "none"
      BY <1>2, <1>a, MaxSessionsAssumption DEF Announce, SessionIdsUsed, TypeOK,
         SessionIds
    <2>1. wpc[nextId - 1] = "none"
      BY <1>2, <1>a, <2>0 DEF OneInflight
    <2> QED
      BY <1>2, <1>1, <1>a, <2>0, <2>1 DEF Announce, Outgoing, TypeOK
  <1>3. ASSUME NEW s \in SessionIds, HandleBadLine(s) PROVE StreamsSubscribed' /\ EventsSubscribed'
    <2>1. ErrorReply \in Message /\ ErrorReply.kind # "event"
      BY <1>3, MessageFacts DEF ErrorReply
    <2>2. PushTo(Reachable(s), ErrorReply) /\ UNCHANGED <<delivered, inflight>>
      BY <1>3 DEF HandleBadLine
    <2> QED
      BY <1>3, <1>p, <2>1, <2>2
  <1>4. CASE Emission
    <2>1. UNCHANGED <<delivered, inflight>>
      BY <1>4, EmissionFrame
    <2>2. PICK e \in Filtered : Broadcast(e) /\ rt = "idle"
      BY <1>4 DEF Emission, EmitConsole, EmitEvent, Filtered
    <2>3. Event(e) \in Message /\ Event(e).name = e
      BY <1>4, <2>2, MessageFacts DEF Event, Filtered, EventName
    <2>4. Unanswered = {}
      BY <1>4, <1>a, <2>2 DEF Unanswered, CallsApart, Pumping
    <2>5. ASSUME NEW x \in SessionIds \cap {s \in sessions : Allowed(s, e)}, wpc[x] # "exited"
          PROVE  LastOn(Outgoing(x), e)
      <3>1. Serving(x) /\ Enabled(x, e)
        BY <1>4, <2>2, <2>5 DEF Serving, Enabled, Allowed, Filtered
      <3> QED
        BY <1>4, <1>b, <2>2, <2>4, <3>1 DEF SubscriptionsTold
    <2> QED
      BY <1>4, <1>p, <2>1, <2>2, <2>3, <2>5 DEF Broadcast
  <1>5. ASSUME NEW s \in SessionIds, WriterStep(s) PROVE StreamsSubscribed' /\ EventsSubscribed'
    <2>1. \A x \in SessionIds : wpc'[x] # "exited" => wpc[x] # "exited" /\ Outgoing(x)' = Outgoing(x)
      <3>1. \A x \in SessionIds : wpc'[x] # "exited" => wpc[x] # "exited" /\ ~(x = s /\ WriterFail(s))
        BY <1>5, <1>a DEF WriterStep, WriterTop, WriterTake, WriterQuit, WriterDecide,
           WriterBlock, WriterSend, WriterFail, TypeOK
      <3> QED
        BY <1>5, <1>a, <3>1, WriterOutgoing
    <2>2. CASE UNCHANGED delivered
      BY <1>5, <1>1, <2>1, <2>2
    <2>3. CASE WriterSend(s)
      <3>1. /\ delivered[s] \in Seq(Message) /\ inflight[s] \in Seq(Message) /\ outbox[s] \in Seq(Message)
            /\ delivered[s] \o inflight[s] \in Seq(Message)
        BY <1>5, <1>a, ConcatProperties DEF TypeOK
      <3>2. SubscribedStream((delivered[s] \o inflight[s]) \o outbox[s])
        BY <1>5, <1>b, <2>3 DEF StreamsSubscribed, Outgoing, WriterSend
      <3>3. SubscribedStream(delivered[s] \o inflight[s])
        BY <1>5, <3>1, <3>2, PrefixSubscribed
      <3>4. \A x \in SessionIds : delivered'[x] = IF x = s THEN delivered[s] \o inflight[s] ELSE delivered[x]
        BY <1>5, <1>a, <2>3 DEF WriterSend, TypeOK
      <3>5. EventsSubscribed'
        BY <1>5, <1>b, <3>3, <3>4 DEF EventsSubscribed
      <3> QED
        BY <1>5, <1>b, <2>1, <3>5 DEF StreamsSubscribed
    <2> QED
      BY <1>5, <2>2, <2>3 DEF WriterStep, WriterTop, WriterTake, WriterQuit,
         WriterDecide, WriterBlock, WriterFail
  <1>6. ASSUME NEW c \in drained, Dispatch(c) PROVE StreamsSubscribed' /\ EventsSubscribed'
    <2>1. UNCHANGED <<delivered, inflight>>
      BY <1>6 DEF Dispatch
    <2>2. CASE DispatchPause(c)
      <3>1. PICK d \in {"Debugger.paused", "Debugger.resumed"} : Broadcast(d)
        BY <1>6, <2>2 DEF DispatchPause
      <3>2. Event(d) \in Message /\ Event(d).name \notin Filtered
        BY <1>6, <3>1, MessageFacts, ChannelsAssumption DEF Event, EventName, Filtered
      <3> QED
        BY <1>6, <1>p, <2>1, <3>1, <3>2 DEF Broadcast
    <2>3. CASE UNCHANGED <<outbox, wpc>>
      BY <1>6, <1>1, <2>1, <2>3 DEF Outgoing
    <2> QED
      BY <1>6, <2>2, <2>3 DEF Dispatch, DispatchPlain, DispatchChannel, DispatchConsole,
         DispatchShutdown
  <1>7. ASSUME NEW c \in drained, SendReply(c) PROVE StreamsSubscribed' /\ EventsSubscribed'
    <2>1. Reply(c) \in Message /\ Reply(c).kind # "event"
      BY <1>7, <1>a, MessageFacts DEF TypeOK, Reply
    <2>2. UNCHANGED <<delivered, inflight>> /\ PushTo(IF c.req.id THEN Reachable(c.origin) ELSE {}, Reply(c))
      BY <1>7 DEF SendReply
    <2> QED
      BY <1>7, <1>p, <2>1, <2>2
  <1>8. CASE RegisterSession \/ CountClient \/ AcceptExit \/ AcceptConnection
    BY <1>8, <1>1, <1>a DEF RegisterSession, CountClient, AcceptExit, AcceptConnection,
       Outgoing, Notified, TypeOK
  <1>9. ASSUME NEW s \in SessionIds, AbortPending(s) \/ EraseSession(s) \/
           AlreadyErased(s) \/ UncountClient(s) \/ PublishMask(s) \/ ReceiveLine(s) \/
           ServeHttp(s) \/ EndReading(s) PROVE StreamsSubscribed' /\ EventsSubscribed'
    BY <1>9, <1>1, <1>a DEF AbortPending, EraseSession, AlreadyErased, UncountClient,
       PublishMask, ReceiveLine, ServeHttp, FinishSession, EndReading, Outgoing,
       Notified, TypeOK
  <1>10. ASSUME NEW s \in SessionIds, NEW req \in Requests, HandleCall(s, req) PROVE
           StreamsSubscribed' /\ EventsSubscribed'
    BY <1>10, <1>1, <1>a DEF HandleCall, Outgoing, Notified, TypeOK
  <1>11. ASSUME NEW c \in drained, SkipDead(c) PROVE StreamsSubscribed' /\
           EventsSubscribed'
    BY <1>11, <1>1, <1>a DEF SkipDead, Advance, Outgoing, Notified, TypeOK
  <1>12. CASE Pump \/ ApplyMask \/ AttachWait \/ CloseWindow
    BY <1>12, <1>1, <1>a DEF Pump, ApplyMask, AttachWait, CloseWindow, Outgoing,
       Notified, TypeOK
  <1>13. ASSUME NEW w \in Waiters, AttachCheck(w) PROVE StreamsSubscribed' /\
           EventsSubscribed'
    BY <1>13, <1>1, <1>a DEF AttachCheck, Outgoing, Notified, TypeOK
  <1>14. ASSUME NEW c \in inbox, TimePasses(c) PROVE StreamsSubscribed' /\
           EventsSubscribed'
    BY <1>14, <1>1, <1>a DEF TimePasses, Outgoing, Notified, TypeOK
  <1>15. CASE Stop \/ StopHalt \/ StopSnapshot \/ StopKill \/ StopAbort \/ StopReset \/
           JoinAccept \/ JoinSessions
    BY <1>15, <1>1, <1>a DEF Stop, StopHalt, StopSnapshot, StopKill, StopAbort,
       StopReset, JoinAccept, JoinSessions, Outgoing, Notified, TypeOK
  <1>16. CASE UNCHANGED vars
    BY <1>1, <1>16 DEF Outgoing, Notified, TypeOK
  <1> QED
    BY <1>2, <1>3, <1>4, <1>5, <1>6, <1>7, <1>8, <1>9, <1>10, <1>11, <1>12, <1>13, <1>14,
       <1>15, <1>16 DEF Next, AcceptStep, ReaderStep, PumpStep, StopStep, Environment,
       Emission

(* Subscriptions take effect in the order of the stream: for any number of      *)
(* sessions and any requests, as long as the clients ask for an answer to every *)
(* request that changes a subscription, no event of a channel and no console    *)
(* event is delivered to a session unless the latest answer before it turned it *)
(* on (dispatch, broadcast_event, event_allowed_for_session, writer_loop).      *)
THEOREM EventsAreSubscribed == ASSUME TogglesAnswered PROVE Spec => []EventsSubscribed
  <1>1. Init => SubscriptionInv
    <2> SUFFICES ASSUME Init PROVE SubscriptionInv
      OBVIOUS
    <2>1. \A s \in SessionIds : Outgoing(s) = <<>> /\ delivered[s] = <<>>
      BY DEF Init, Outgoing
    <2>2. SubscribedStream(<<>>)
      BY DEF SubscribedStream
    <2>3. NewSessionsMute /\ SubscriptionsTold
      BY DEF Init, NewSessionsMute, SubscriptionsTold, Serving
    <2> QED
      BY <2>1, <2>2, <2>3 DEF SubscriptionInv, StreamsSubscribed, EventsSubscribed
  <1>2. IInv /\ StreamInv /\ SubscriptionInv /\ [Next]_vars => SubscriptionInv'
    BY MuteStep, ToldStep, SubscribedStep DEF SubscriptionInv
  <1>3. SubscriptionInv => EventsSubscribed
    BY DEF SubscriptionInv
  <1> QED
    BY InitIInv, NextIInv, StreamInit, StreamNext, <1>1, <1>2, <1>3, PTL DEF Spec

=============================================================================
