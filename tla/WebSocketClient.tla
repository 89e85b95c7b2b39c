-------------------------- MODULE WebSocketClient --------------------------
(***************************************************************************)
(* One websocket_client (src/net/websocket_client.cpp).  Three threads     *)
(* share it through atomics: the script's thread calls send, close, drain  *)
(* and the destructor; the worker connects and then writes; the reader,    *)
(* started by the worker, receives.  The peer sends frames, closes, sends  *)
(* garbage or drops the connection.                                        *)
(*                                                                         *)
(* The transport is the plain socket.  Bytes are not modelled: a message   *)
(* is a number, sent as Fragments frames; a received frame is one of       *)
(* Frames.  Deadlines are choices: whether a timeout has passed is not     *)
(* known to the model.                                                     *)
(***************************************************************************)
EXTENDS Naturals, Sequences, FiniteSets, SequencesExt

CONSTANTS
    MaxWork,    \* messages sent, pings sent and frames received together (bound)
    Fragments,  \* frames a sent message is split into
    Options     \* what options_ and the handshake may leave: [idle, deflate]

ASSUME WorkAssumption == MaxWork \in Nat
ASSUME FragmentsAssumption == Fragments \in Nat \ {0}
ASSUME OptionsAssumption == Options \subseteq [idle : BOOLEAN, deflate : BOOLEAN]

\* "data" is a whole message, "first" and "cont" an unfinished and a final
\* fragment, "bad" whatever the reader answers with 1002 or 1009.
Frames == {"data", "first", "cont", "ping", "pong", "close", "bad"}
States == {"connecting", "open", "closing", "closed"}
CloseOp == 0

VARIABLES
    opt,        \* idle_timeout_ms > 0, and deflate_->negotiated
    state,      \* state_
    stop,       \* stop_
    sock,       \* sock_: "none", "open" or "closed"
    outQ,       \* out_q_: message numbers and CloseOp
    buffered,   \* buffered_, in messages
    inQ,        \* in_q_, with the events drain_events has taken from its front
    awaiting,   \* awaiting_pong_
    pc,         \* where each thread is
    cur,        \* out_msg `m` of the writer loop, and its next fragment
    closeFrom,  \* `cur` of close(): the state it loaded
    assembling  \* cont_opcode # 0

\* The network.
VARIABLES
    link,       \* "up" or "dropped"
    received    \* frames received (a frame is chosen when it is received)

\* Observer variables.
VARIABLES
    wire,       \* data frames, and close frames of close(), that were sent, in order
    sends,      \* messages accepted by send
    spoilt,     \* messages whose compression failed
    pings       \* pings sent

netVars  == <<link, received>>
cliVars  == <<closeFrom, sends>>
wrkVars  == <<cur, spoilt, pings>>
vars == <<opt, state, stop, sock, outQ, buffered, inQ, awaiting, pc, cliVars,
          wrkVars, assembling, netVars, wire>>

Event(k, t) == [kind |-> k, by |-> t]
Frame(k, m, t) == [kind |-> k, msg |-> m, by |-> t]

More == sends + pings + received < MaxWork

At(t, p) == pc[t] = p
Goto(t, p) == pc' = [pc EXCEPT ![t] = p]

Init ==
    /\ opt \in Options
    /\ state = "connecting" /\ stop = FALSE /\ sock = "none"
    /\ outQ = <<>> /\ buffered = 0 /\ inQ = <<>> /\ awaiting = FALSE
    /\ pc = [script |-> "idle", worker |-> "start", reader |-> "none"]
    /\ cur = [msg |-> CloseOp, part |-> 1] /\ closeFrom = "open" /\ assembling = FALSE
    /\ link = "up" /\ received = 0
    /\ wire = <<>> /\ sends = 0 /\ spoilt = 0 /\ pings = 0

-----------------------------------------------------------------------------
(* Shared by the threads. *)

\* close_socket_now: exchange, so that one thread closes it.
Closed == IF sock = "open" THEN "closed" ELSE sock

\* Mutant: no lock.
Mut_OutMuFree == TRUE

\* The worker holds out_mu_ from its test of the predicate until it waits.
OutMuFree == ~At("worker", "park")

\* Mutant: nobody is notified.
Mut_Woken(p) == p

\* out_cv_.notify_*: wakes the worker only if it waits.
Woken(p) == IF p.worker = "wait" THEN [p EXCEPT !.worker = "test"] ELSE p

Push(e) == inQ' = Append(inQ, e)

\* send_frame under send_mu_.  A dropped connection may still take a frame.
Sent(f, ok) ==
    /\ ok => sock = "open"
    /\ ~ok => sock # "open" \/ link = "dropped"
    /\ wire' = IF ok /\ (f.kind = "data" \/ f.by = "script") THEN Append(wire, f) ELSE wire

-----------------------------------------------------------------------------
(* The script's thread. *)

scriptRest == <<opt, awaiting, wrkVars, assembling, netVars, wire, inQ>>

\* send_text, send_binary: the state is read before the queue is locked.
Send ==
    /\ At("script", "idle") /\ state = "open" /\ More
    /\ sends' = sends + 1 /\ buffered' = buffered + 1
    /\ Goto("script", "sendPush")
    /\ UNCHANGED <<state, stop, sock, outQ, closeFrom, scriptRest>>

SendPush ==
    /\ At("script", "sendPush") /\ OutMuFree
    /\ outQ' = Append(outQ, sends)
    /\ pc' = Woken([pc EXCEPT !.script = "idle"])
    /\ UNCHANGED <<state, stop, sock, buffered, cliVars, scriptRest>>

\* close: load, store, push, then stop the handshake.
CloseLoad ==
    /\ At("script", "idle") /\ state \in {"connecting", "open"}
    /\ closeFrom' = state
    /\ Goto("script", "closeStore")
    /\ UNCHANGED <<state, stop, sock, outQ, buffered, sends, scriptRest>>

CloseStore ==
    /\ At("script", "closeStore")
    /\ state' = "closing"
    /\ Goto("script", "closePush")
    /\ UNCHANGED <<stop, sock, outQ, buffered, cliVars, scriptRest>>

ClosePush ==
    /\ At("script", "closePush") /\ OutMuFree
    /\ outQ' = Append(outQ, CloseOp)
    /\ pc' = Woken([pc EXCEPT !.script = IF closeFrom = "connecting" THEN "closeStop" ELSE "idle"])
    /\ UNCHANGED <<state, stop, sock, buffered, cliVars, scriptRest>>

CloseStop ==
    /\ At("script", "closeStop")
    /\ stop' = TRUE
    /\ Goto("script", "closeSock")
    /\ UNCHANGED <<state, sock, outQ, buffered, cliVars, scriptRest>>

\* Mutant: the socket is left to the worker.
Mut_CloseSock ==
    /\ At("script", "closeSock")
    /\ Goto("script", "idle")
    /\ UNCHANGED <<state, stop, sock, outQ, buffered, cliVars, scriptRest>>

CloseSock ==
    /\ At("script", "closeSock")
    /\ sock' = Closed
    /\ Goto("script", "idle")
    /\ UNCHANGED <<state, stop, outQ, buffered, cliVars, scriptRest>>

\* runtime_pump, from the main loop.
RuntimePump ==
    /\ At("script", "idle") /\ state \in {"open", "closing"} /\ At("worker", "wait")
    /\ pc' = Woken(pc)
    /\ UNCHANGED <<state, stop, sock, outQ, buffered, cliVars, scriptRest>>

\* ~websocket_client: stop, notify under out_mu_, close the socket, join.
Destroy ==
    /\ At("script", "idle")
    /\ stop' = TRUE
    /\ Goto("script", "destroyNotify")
    /\ UNCHANGED <<state, sock, outQ, buffered, cliVars, scriptRest>>

DestroyNotify ==
    /\ At("script", "destroyNotify") /\ OutMuFree
    /\ sock' = Closed
    /\ pc' = Woken([pc EXCEPT !.script = "join"])
    /\ UNCHANGED <<state, stop, outQ, buffered, cliVars, scriptRest>>

DestroyJoin ==
    /\ At("script", "join") /\ At("worker", "done")
    /\ Goto("script", "gone")
    /\ UNCHANGED <<state, stop, sock, outQ, buffered, cliVars, scriptRest>>

ScriptStep ==
    \/ SendPush \/ CloseStore \/ ClosePush \/ CloseStop \/ CloseSock
    \/ DestroyNotify \/ DestroyJoin

-----------------------------------------------------------------------------
(* emit_local_close, on the worker (a failed compression, a missing pong)  *)
(* and on the reader (a frame it rejects): the close frame, the event, the *)
(* state, then stop_, the socket and the notification.                     *)

Emitters == {"worker", "reader"}
emitRest == <<opt, outQ, buffered, awaiting, cliVars, wrkVars, assembling, netVars>>

EmitFrame(t) ==
    /\ At(t, "emitFrame")
    /\ \E ok \in BOOLEAN : Sent(Frame("close", CloseOp, t), ok)
    /\ Goto(t, "emitPush")
    /\ UNCHANGED <<state, stop, sock, inQ, emitRest>>

EmitPush(t) ==
    /\ At(t, "emitPush")
    /\ Push(Event("close", t))
    /\ Goto(t, "emitState")
    /\ UNCHANGED <<state, stop, sock, wire, emitRest>>

EmitState(t) ==
    /\ At(t, "emitState")
    /\ state' = "closed"
    /\ Goto(t, "emitStop")
    /\ UNCHANGED <<stop, sock, inQ, wire, emitRest>>

\* After a failed compression the writer goes on with its queue; after a pong
\* timeout its loop ends (cur is the message being written, or CloseOp).
EmitStop(t) ==
    /\ At(t, "emitStop")
    /\ stop' = TRUE /\ sock' = Closed
    /\ pc' = Woken([pc EXCEPT ![t] = CASE t = "reader" -> "done"
                                       [] t = "worker" /\ cur.msg # CloseOp -> "drain"
                                       [] OTHER -> "teardown"])
    /\ UNCHANGED <<state, inQ, wire, emitRest>>

EmitLocalClose(t) == EmitFrame(t) \/ EmitPush(t) \/ EmitState(t) \/ EmitStop(t)

-----------------------------------------------------------------------------
(* The worker: do_handshake, the opening, the writer loop, the end. *)

handshakeRest == <<opt, state, stop, outQ, buffered, inQ, awaiting, cliVars, wrkVars,
                   assembling, netVars, wire>>

\* The first test of stop_, then the blocking connect, which may fail.
HandshakeStart ==
    /\ At("worker", "start")
    /\ Goto("worker", IF stop THEN "failError" ELSE "connect")
    /\ UNCHANGED <<sock, handshakeRest>>

HandshakeConnect ==
    /\ At("worker", "connect")
    /\ \/ sock' = "open" /\ Goto("worker", "connected")
       \/ sock' = sock /\ Goto("worker", "failError")
    /\ UNCHANGED handshakeRest

\* Mutant: stop_ is not tested after the connection.
Mut_HandshakeCheck ==
    /\ At("worker", "connected")
    /\ Goto("worker", "request")
    /\ UNCHANGED <<sock, handshakeRest>>

\* stop_ is tested again once the socket can be seen by the other threads.
HandshakeCheck ==
    /\ At("worker", "connected")
    /\ sock' = IF stop THEN Closed ELSE sock
    /\ Goto("worker", IF stop THEN "failError" ELSE "request")
    /\ UNCHANGED handshakeRest

HandshakeRequest ==
    /\ At("worker", "request")
    /\ \/ sock = "open" /\ Goto("worker", IF stop THEN "failError" ELSE "headers")
       \/ sock # "open" /\ Goto("worker", "failError")
    /\ UNCHANGED <<sock, handshakeRest>>

\* The answer: the connection fails, the status is not 101, or it is.
HandshakeHeaders ==
    /\ At("worker", "headers")
    /\ \/ Goto("worker", "failError")
       \/ sock = "open" /\ Goto("worker", "openState")
    /\ UNCHANGED <<sock, handshakeRest>>

openRest == <<opt, stop, sock, outQ, buffered, awaiting, cliVars, wrkVars, assembling,
              netVars, wire>>

HandshakeFailed ==
    \/ /\ At("worker", "failError")
       /\ Push(Event("error", "worker"))
       /\ Goto("worker", "failClose")
       /\ UNCHANGED <<state, openRest>>
    \/ /\ At("worker", "failClose")
       /\ Push(Event("close", "worker"))
       /\ Goto("worker", "failState")
       /\ UNCHANGED <<state, openRest>>
    \/ /\ At("worker", "failState")
       /\ state' = "closed"
       /\ Goto("worker", "done")
       /\ UNCHANGED <<inQ, openRest>>

\* Mutant: the reader is started before the open event.
Mut_Opened ==
    /\ At("worker", "openState")
    /\ state' = "open"
    /\ pc' = [pc EXCEPT !.worker = "openEvent", !.reader = "loop"]
    /\ UNCHANGED <<inQ, openRest>>

\* The state is stored whatever close() has made of it meanwhile.
Opened ==
    /\ At("worker", "openState")
    /\ state' = "open"
    /\ Goto("worker", "openEvent")
    /\ UNCHANGED <<inQ, openRest>>

OpenEvent ==
    /\ At("worker", "openEvent")
    /\ Push(Event("open", "worker"))
    /\ pc' = [pc EXCEPT !.worker = "loop", !.reader = "loop"]
    /\ UNCHANGED <<state, openRest>>

writerRest == <<opt, state, inQ, cliVars, assembling, netVars>>

WriterLoop ==
    /\ At("worker", "loop")
    /\ Goto("worker", IF stop THEN "teardown" ELSE "test")
    /\ UNCHANGED <<stop, sock, outQ, buffered, awaiting, wrkVars, wire, writerRest>>

\* The predicate of out_cv_.wait, under out_mu_; then the wait itself.
WriterTest ==
    /\ At("worker", "test")
    /\ Goto("worker", IF stop \/ outQ # <<>> THEN "drain" ELSE "park")
    /\ UNCHANGED <<stop, sock, outQ, buffered, awaiting, wrkVars, wire, writerRest>>

WriterPark ==
    /\ At("worker", "park")
    /\ Goto("worker", "wait")
    /\ UNCHANGED <<stop, sock, outQ, buffered, awaiting, wrkVars, wire, writerRest>>

\* wait_for gives up after 250 ms.
WriterTimeout ==
    /\ At("worker", "wait") /\ opt.idle
    /\ Goto("worker", "drain")
    /\ UNCHANGED <<stop, sock, outQ, buffered, awaiting, wrkVars, wire, writerRest>>

WriterPop ==
    /\ At("worker", "drain")
    /\ \/ /\ outQ = <<>>
          /\ Goto("worker", "checkIdle")
          /\ cur' = [msg |-> CloseOp, part |-> 1] /\ UNCHANGED outQ
       \/ /\ outQ # <<>>
          /\ cur' = [msg |-> Head(outQ), part |-> 1] /\ outQ' = Tail(outQ)
          /\ Goto("worker", IF Head(outQ) = CloseOp THEN "sendClose" ELSE "sendData")
    /\ UNCHANGED <<stop, sock, buffered, awaiting, spoilt, pings, wire, writerRest>>

\* send_message: frame by frame, given up when one cannot be sent.
WriterData ==
    /\ At("worker", "sendData")
    /\ \E ok \in BOOLEAN :
        /\ Sent(Frame("data", cur.msg, "worker"), ok)
        /\ IF ok /\ cur.part < Fragments
             THEN cur' = [cur EXCEPT !.part = @ + 1] /\ UNCHANGED <<pc, buffered>>
             ELSE Goto("worker", "drain") /\ buffered' = buffered - 1 /\ UNCHANGED cur
    /\ UNCHANGED <<stop, sock, outQ, awaiting, spoilt, pings, writerRest>>

\* deflate_message fails: the message stays in buffered_.
WriterSpoilt ==
    /\ At("worker", "sendData") /\ opt.deflate /\ cur.part = 1
    /\ spoilt' = spoilt + 1
    /\ Goto("worker", "emitFrame")
    /\ UNCHANGED <<stop, sock, outQ, buffered, awaiting, cur, pings, wire, writerRest>>

WriterClose ==
    \/ /\ At("worker", "sendClose")
       /\ \E ok \in BOOLEAN : Sent(Frame("close", CloseOp, "script"), ok)
       /\ Goto("worker", "sentClose")
       /\ UNCHANGED <<stop, sock, outQ, buffered, awaiting, wrkVars, writerRest>>
    \/ /\ At("worker", "sentClose")
       /\ stop' = TRUE
       /\ Goto("worker", "drain")
       /\ UNCHANGED <<sock, outQ, buffered, awaiting, wrkVars, wire, writerRest>>

\* check_idle.  Nothing is due, or the pong is overdue, or a ping is due.
CheckIdle ==
    /\ At("worker", "checkIdle")
    /\ \/ Goto("worker", "loop")
       \/ opt.idle /\ awaiting /\ Goto("worker", "emitFrame")
       \/ opt.idle /\ ~awaiting /\ More /\ Goto("worker", "ping")
    /\ UNCHANGED <<stop, sock, outQ, buffered, awaiting, wrkVars, wire, writerRest>>

\* awaiting_pong_ is set once the ping is out: the pong may be faster.
CheckIdlePing ==
    \/ /\ At("worker", "ping")
       /\ \E ok \in BOOLEAN : /\ Sent(Frame("ping", CloseOp, "worker"), ok)
                              /\ Goto("worker", IF ok THEN "pinged" ELSE "pingFailed")
       /\ pings' = pings + 1
       /\ UNCHANGED <<stop, sock, outQ, buffered, awaiting, cur, spoilt, writerRest>>
    \/ /\ At("worker", "pinged")
       /\ awaiting' = TRUE
       /\ Goto("worker", "loop")
       /\ UNCHANGED <<stop, sock, outQ, buffered, wrkVars, wire, writerRest>>
    \/ /\ At("worker", "pingFailed")
       /\ stop' = TRUE /\ sock' = Closed
       /\ Goto("worker", "teardown")
       /\ UNCHANGED <<outQ, buffered, awaiting, wrkVars, wire, writerRest>>

Teardown ==
    \/ /\ At("worker", "teardown")
       /\ sock' = Closed
       /\ Goto("worker", "joinReader")
       /\ UNCHANGED <<state, inQ, stop, outQ, buffered, awaiting, wrkVars, wire, opt, cliVars,
                      assembling, netVars>>
    \/ /\ At("worker", "joinReader") /\ At("reader", "done")
       /\ Goto("worker", IF state # "closed" THEN "finalPush" ELSE "done")
       /\ UNCHANGED <<sock, handshakeRest>>
    \/ /\ At("worker", "finalPush")
       /\ Push(Event("close", "final"))
       /\ Goto("worker", "failState")
       /\ UNCHANGED <<state, openRest>>

WorkerStep ==
    \/ HandshakeStart \/ HandshakeConnect \/ HandshakeCheck \/ HandshakeRequest
    \/ HandshakeHeaders \/ HandshakeFailed \/ Opened \/ OpenEvent
    \/ WriterLoop \/ WriterTest \/ WriterPark \/ WriterTimeout \/ WriterPop \/ WriterData
    \/ WriterSpoilt \/ WriterClose \/ CheckIdle \/ CheckIdlePing \/ Teardown
    \/ EmitLocalClose("worker")


-----------------------------------------------------------------------------
(* The reader and the peer. *)

readerRest == <<opt, outQ, buffered, cliVars, wrkVars, link>>

ReaderLoop ==
    /\ At("reader", "loop")
    /\ Goto("reader", IF stop THEN "done" ELSE "recv")
    /\ UNCHANGED <<state, stop, sock, inQ, awaiting, assembling, received, wire, readerRest>>

\* transport_recv_n fails: the loop is left without a word to anyone.
ReaderBreak ==
    /\ At("reader", "recv")
    /\ sock # "open" \/ link = "dropped"
    /\ Goto("reader", "done")
    /\ UNCHANGED <<state, stop, sock, inQ, awaiting, assembling, received, wire, readerRest>>

\* What a received frame leads to.
Outcome(f) ==
    CASE f = "ping" -> "pong"
      [] f = "pong" -> "loop"
      [] f = "close" -> "closeLoad"
      [] f \in {"data", "first"} /\ ~assembling -> IF f = "data" THEN "message" ELSE "loop"
      [] f = "cont" /\ assembling -> "message"
      [] OTHER -> "emitFrame"

ReaderRecv(f) ==
    /\ At("reader", "recv") /\ sock = "open" /\ More
    /\ received' = received + 1
    /\ awaiting' = (awaiting /\ f # "pong")
    /\ assembling' = (assembling \/ f = "first")
    /\ Goto("reader", Outcome(f))
    /\ UNCHANGED <<state, stop, sock, inQ, wire, readerRest>>

ReaderMessage ==
    /\ At("reader", "message")
    /\ Push(Event("message", "reader"))
    /\ assembling' = FALSE
    /\ Goto("reader", "loop")
    /\ UNCHANGED <<state, stop, sock, awaiting, received, wire, readerRest>>

ReaderPong ==
    /\ At("reader", "pong")
    /\ \E ok \in BOOLEAN : Sent(Frame("pong", CloseOp, "reader"), ok)
    /\ Goto("reader", "loop")
    /\ UNCHANGED <<state, stop, sock, inQ, awaiting, assembling, received, readerRest>>

\* The peer's close frame: echo it unless closing, push, store, stop, notify.
ReaderClose ==
    \/ /\ At("reader", "closeLoad")
       /\ Goto("reader", IF state = "closing" THEN "closePush" ELSE "echo")
       /\ UNCHANGED <<state, stop, sock, inQ, awaiting, assembling, received, wire, readerRest>>
    \/ /\ At("reader", "echo")
       /\ \E ok \in BOOLEAN : Sent(Frame("close", CloseOp, "reader"), ok)
       /\ Goto("reader", "closePush")
       /\ UNCHANGED <<state, stop, sock, inQ, awaiting, assembling, received, readerRest>>
    \/ /\ At("reader", "closePush")
       /\ Push(Event("close", "reader"))
       /\ Goto("reader", "closeState")
       /\ UNCHANGED <<state, stop, sock, awaiting, assembling, received, wire, readerRest>>
    \/ /\ At("reader", "closeState")
       /\ state' = "closed"
       /\ Goto("reader", "closeStop")
       /\ UNCHANGED <<stop, sock, inQ, awaiting, assembling, received, wire, readerRest>>
    \/ /\ At("reader", "closeStop")
       /\ stop' = TRUE
       /\ pc' = Woken([pc EXCEPT !.reader = "done"])
       /\ UNCHANGED <<state, sock, inQ, awaiting, assembling, received, wire, readerRest>>

ReaderStep ==
    \/ ReaderLoop \/ ReaderBreak \/ ReaderMessage \/ ReaderPong \/ ReaderClose
    \/ EmitLocalClose("reader")

PeerDrop ==
    /\ sock = "open" /\ link = "up"
    /\ link' = "dropped"
    /\ UNCHANGED <<opt, state, stop, sock, outQ, buffered, inQ, awaiting, pc, cliVars, wrkVars,
                   assembling, received, wire>>

-----------------------------------------------------------------------------
Next ==
    \/ Send \/ CloseLoad \/ RuntimePump \/ Destroy
    \/ ScriptStep \/ WorkerStep \/ ReaderStep
    \/ \E f \in Frames : ReaderRecv(f)
    \/ PeerDrop

Spec == Init /\ [][Next]_vars

\* Threads run, calls in progress return and blocking system calls end; the
\* script need not call anything, and the peer need not send.  The script is
\* not starved of out_mu_, which the worker holds for a moment at a time.
Fairness == SF_vars(ScriptStep) /\ WF_vars(WorkerStep) /\ WF_vars(ReaderStep)
FairSpec == Spec /\ Fairness

-----------------------------------------------------------------------------
(* Properties. *)

ScriptPoints == {"idle", "sendPush", "closeStore", "closePush", "closeStop", "closeSock",
                 "destroyNotify", "join", "gone"}
EmitPoints == {"emitFrame", "emitPush", "emitState", "emitStop"}
WorkerPoints == EmitPoints \cup
    {"start", "connect", "connected", "request", "headers", "failError", "failClose", "failState",
     "openState", "openEvent", "loop", "test", "park", "wait", "drain", "sendData", "sendClose",
     "sentClose", "checkIdle", "ping", "pinged", "pingFailed", "teardown", "joinReader",
     "finalPush", "done"}
ReaderPoints == EmitPoints \cup
    {"none", "loop", "recv", "message", "pong", "closeLoad", "echo", "closePush", "closeState",
     "closeStop", "done"}

\* Every variable has its type.
TypeOK ==
    /\ opt \in Options /\ stop \in BOOLEAN /\ awaiting \in BOOLEAN
    /\ assembling \in BOOLEAN
    /\ state \in States /\ closeFrom \in {"connecting", "open"}
    /\ sock \in {"none", "open", "closed"} /\ link \in {"up", "dropped"}
    /\ outQ \in Seq(0..MaxWork) /\ received \in 0..MaxWork
    /\ buffered \in 0..MaxWork /\ sends \in 0..MaxWork /\ spoilt \in 0..MaxWork
    /\ pings \in 0..MaxWork
    /\ pc \in [script : ScriptPoints, worker : WorkerPoints, reader : ReaderPoints]
    /\ cur \in [msg : 0..MaxWork, part : 1..Fragments]
    /\ \A e \in Range(inQ) :
          e \in [kind : {"open", "error", "message", "close"}, by : {"worker", "reader", "final"}]
    /\ \A f \in Range(wire) :
          f \in [kind : {"data", "close"}, msg : 0..MaxWork, by : {"worker", "script"}]

\* What the handlers see: a session that opens says so first and once, one
\* that does not open reports an error and then a close, and after a close
\* that the reader announced nothing but another close can follow.  readyState
\* CLOSED, and the end of the worker, are never reached without a close event
\* in the queue or already delivered.
SessionEvents ==
    /\ \A i \in DOMAIN inQ :
        /\ inQ[i].kind \in {"open", "error"} <=> i = 1
        /\ inQ[1].kind = "error" => Len(inQ) <= 2 /\ \A j \in 2..Len(inQ) : inQ[j].kind = "close"
        /\ inQ[i].by = "reader" /\ inQ[i].kind = "close" =>
              \A j \in i + 1 .. Len(inQ) : inQ[j].kind = "close"
    /\ state = "closed" \/ At("worker", "done") => \E e \in Range(inQ) : e.kind = "close"

\* Messages leave in the order they were sent, fragments of one message
\* together, and none follows the close frame of close(): a message that
\* slips into the queue behind it finds the socket closed.
WireOrder ==
    \A i, j \in DOMAIN wire : i < j =>
        /\ wire[i].kind = "data" /\ wire[j].kind = "data" => wire[i].msg <= wire[j].msg
        /\ wire[i].by = "script" => wire[j].kind # "data"

\* bufferedAmount counts the messages between send and the wire, and for ever
\* those whose compression failed.
BufferedExact ==
    buffered = Cardinality({i \in DOMAIN outQ : outQ[i] # CloseOp}) + spoilt
               + (IF At("script", "sendPush") THEN 1 ELSE 0)
               + (IF At("worker", "sendData") THEN 1 ELSE 0)

\* The destructor leaves no socket open, also when it runs while the worker
\* is about to publish the one it has just connected.
SocketReleased == At("script", "gone") => sock # "open"

\* What the connection holds is accounted for, message by message and socket.
ResourcesAccounted == TypeOK /\ BufferedExact /\ SocketReleased

\* The destructor returns, whatever the threads were doing when it was called.
DestructorReturns == At("script", "destroyNotify") ~> At("script", "gone")

\* close() is followed by a close event, whether it hits the handshake, the
\* open session or a session that the reader or the worker is ending.
CloseReported == At("script", "closeStore") ~> \E e \in Range(inQ) : e.kind = "close"


=============================================================================
