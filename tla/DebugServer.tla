---------------------------- MODULE DebugServer ----------------------------
(***************************************************************************)
(* The debug protocol server (src/debug/server.cpp) together with the part *)
(* of the runner that pumps and stops it (fxe_run.cpp, app_run_loop).      *)
(*                                                                         *)
(* Threads: the render thread (pump_tasks, when_client_attached, events,   *)
(* stop), the accept thread, and for every session a reader and a writer.  *)
(* A step is one critical section, one atomic access, or a run of them     *)
(* that no other thread can tell apart.  Session ids are handed out in     *)
(* order; a call is identified by its arrival number in the inbox, and the *)
(* inbox, a FIFO in the code, is the set of its calls, processed in        *)
(* arrival order.  `pending_call::aborted` is set only on calls that have  *)
(* left the inbox and are dropped, so pump_tasks never meets it and it is  *)
(* not a variable.                                                         *)
(***************************************************************************)
EXTENDS Integers, Sequences, FiniteSets

CONSTANTS
    MaxSessions,    \* connections accepted in a behaviour (bound)
    MaxClients,     \* opts.max_clients, after 0 became 8
    Channels,       \* event channels a session may subscribe to
    Requests,       \* what a client may send: [op, ch, id], id = "has an id"
    MaxLines,       \* lines a client sends (bound)
    Waiters,        \* callbacks passed to when_client_attached (bound)
    MaxEvents,      \* events the engine emits on its own (bound)
    StartPaused,    \* opts.start_paused
    Keepalive       \* --debug-keepalive

Ops == {"eval", "shot", "sub", "unsub", "consoleOn", "consoleOff",
        "pause", "resume", "step", "shutdown"}

ASSUME MaxSessionsAssumption == MaxSessions \in Nat
ASSUME MaxClientsAssumption == MaxClients \in Nat \ {0}
ASSUME ChannelsAssumption ==
    Channels \cap {"Console.messageAdded", "Debugger.paused", "Debugger.resumed"} = {}
ASSUME RequestsAssumption == Requests \subseteq [op : Ops, ch : Channels, id : BOOLEAN]
ASSUME BoundsAssumption == MaxLines \in Nat /\ MaxEvents \in Nat
ASSUME FlagsAssumption == StartPaused \in BOOLEAN /\ Keepalive \in BOOLEAN

SessionIds == 1..MaxSessions
Call == [origin : SessionIds, at : Nat, req : Requests]
EventName == Channels \cup {"Console.messageAdded", "Debugger.paused", "Debugger.resumed"}
Reply(c) == [kind |-> "reply", call |-> c]
Event(e) == [kind |-> "event", name |-> e]
ErrorReply == [kind |-> "error"]
Message == [kind : {"reply"}, call : Call] \cup [kind : {"event"}, name : EventName]
           \cup {ErrorReply}

VARIABLES
    running,        \* impl::running
    active,         \* g_active_server points to this server
    globalMask,     \* g_channel_mask
    sessions,       \* keys of sessions_
    allSessions,    \* all_sessions_
    nextId,         \* next_session_id
    liveClients,    \* live_clients
    waiters,        \* client_waiters
    inbox,          \* calls waiting for the render thread
    nextAt,         \* arrival number of the next call
    notYet,         \* calls whose not_before lies in the future
    alive,          \* session::alive; the socket is closed when it turns false
    chan,           \* session::channel_mask
    console,        \* session::console_enabled
    outbox,         \* session::outbox
    paused,         \* impl::paused
    windowOpen,     \* some window is open: app_run_loop goes on
    apc,            \* control point of the accept thread
    rpc, rmask,     \* control point of each reader; mask finish_session computed
    wpc, inflight,  \* control point of each writer; message being sent
    rt, drained,    \* control point of the render thread; calls of this pump
    rtMask, rtWaiter, toStop  \* its locals: mask, callback, sessions to join

\* Observer variables.
VARIABLES
    lines,          \* lines read per session
    events,         \* events emitted by the engine
    executed,       \* calls dispatched
    dropped,        \* calls discarded without being dispatched
    delivered,      \* messages written to each session's socket
    fired           \* how often each waiter was called

serverVars  == <<running, active, globalMask, sessions, allSessions, nextId, liveClients, waiters>>
inboxVars   == <<inbox, nextAt, notYet>>
sessionVars == <<alive, chan, console, outbox>>
renderVars  == <<rt, drained, rtMask, rtWaiter, toStop>>
targetVars  == <<paused, windowOpen>>
obsVars     == <<lines, events, executed, dropped, delivered, fired>>
vars == <<serverVars, inboxVars, sessionVars, targetVars, apc, rpc, rmask, wpc,
          inflight, renderVars, obsVars>>

AcceptPoints == {"accept", "register", "count", "announce", "exited"}
ReaderPoints == {"none", "read", "line", "abort", "erase", "uncount", "publish", "exited"}
WriterPoints == {"none", "top", "locked", "blocking", "waiting", "send", "exited"}
StopPoints   == {"halt", "snapshot", "kill", "abortAll", "reset", "joinAccept",
                 "joinSessions", "stopped"}
RenderPoints == {"idle", "exec", "apply", "reply", "attach"} \cup StopPoints

TypeOK ==
    /\ running \in BOOLEAN
    /\ active \in BOOLEAN
    /\ globalMask \in SUBSET Channels
    /\ sessions \in SUBSET SessionIds
    /\ allSessions \in SUBSET SessionIds
    /\ nextId \in 1..(MaxSessions + 1)
    /\ liveClients \in Nat
    /\ waiters \in SUBSET Waiters
    /\ inbox \in SUBSET Call
    /\ nextAt \in Nat
    /\ notYet \in SUBSET Call
    /\ alive \in [SessionIds -> BOOLEAN]
    /\ chan \in [SessionIds -> SUBSET Channels]
    /\ console \in [SessionIds -> BOOLEAN]
    /\ outbox \in [SessionIds -> Seq(Message)]
    /\ paused \in BOOLEAN
    /\ windowOpen \in BOOLEAN
    /\ apc \in AcceptPoints
    /\ rpc \in [SessionIds -> ReaderPoints]
    /\ rmask \in [SessionIds -> SUBSET Channels]
    /\ wpc \in [SessionIds -> WriterPoints]
    /\ inflight \in [SessionIds -> Seq(Message)]
    /\ rt \in RenderPoints
    /\ drained \in SUBSET Call
    /\ rtMask \in SUBSET Channels
    /\ rtWaiter \in SUBSET Waiters
    /\ toStop \in SUBSET SessionIds
    /\ lines \in [SessionIds -> 0..MaxLines]
    /\ events \in 0..MaxEvents
    /\ executed \in SUBSET Call
    /\ dropped \in SUBSET Call
    /\ delivered \in [SessionIds -> Seq(Message)]
    /\ fired \in [Waiters -> Nat]

\* The server after a successful start().
Init ==
    /\ running = TRUE
    /\ active = TRUE
    /\ globalMask = {}
    /\ sessions = {}
    /\ allSessions = {}
    /\ nextId = 1
    /\ liveClients = 0
    /\ waiters = {}
    /\ inbox = {}
    /\ nextAt = 0
    /\ notYet = {}
    /\ alive = [s \in SessionIds |-> FALSE]
    /\ chan = [s \in SessionIds |-> {}]
    /\ console = [s \in SessionIds |-> FALSE]
    /\ outbox = [s \in SessionIds |-> <<>>]
    /\ paused = StartPaused
    /\ windowOpen = TRUE
    /\ apc = "accept"
    /\ rpc = [s \in SessionIds |-> "none"]
    /\ rmask = [s \in SessionIds |-> {}]
    /\ wpc = [s \in SessionIds |-> "none"]
    /\ inflight = [s \in SessionIds |-> <<>>]
    /\ rt = "idle"
    /\ drained = {}
    /\ rtMask = {}
    /\ rtWaiter = {}
    /\ toStop = {}
    /\ lines = [s \in SessionIds |-> 0]
    /\ events = 0
    /\ executed = {}
    /\ dropped = {}
    /\ delivered = [s \in SessionIds |-> <<>>]
    /\ fired = [w \in Waiters |-> 0]
-----------------------------------------------------------------------------
(* Outboxes.  outbox_mu is held across steps only by a writer about to     *)
(* block in outbox_cv.wait.                                                *)
OutboxFree(S) == \A s \in S : wpc[s] # "blocking"

(* outbox_cv.notify_all for the sessions in S: only a writer that already  *)
(* waits is woken.  Spurious wakeups only re-test the predicate and are    *)
(* left out.                                                               *)
Notified(S) == [s \in SessionIds |->
    IF s \in S /\ wpc[s] = "waiting" THEN "locked" ELSE wpc[s]]

(* The push under outbox_mu of enqueue_outgoing and broadcast_event, and   *)
(* the notify_all that follows it.                                         *)
PushTo(S, m) ==
    /\ OutboxFree(S)
    /\ outbox' = [s \in SessionIds |-> IF s \in S THEN Append(outbox[s], m) ELSE outbox[s]]
    /\ wpc' = Notified(S)

(* event_allowed_for_session: the console and the channels are filtered,   *)
(* other events go to every live session.                                  *)
Allowed(s, e) ==
    /\ alive[s]
    /\ e = "Console.messageAdded" => console[s]
    /\ e \in Channels => e \in chan[s]

(* broadcast_event.  The targets are chosen under mu and served one by one;*)
(* one that dies in between is skipped, as if it had died before, and no   *)
(* other thread changes a subscription, so this is one step.               *)
Broadcast(e) == PushTo({s \in sessions : Allowed(s, e)}, Event(e))

(* enqueue_outgoing: the origin session if it is still registered and alive. *)
Reachable(s) == {s} \cap {x \in sessions : alive[x]}

(* aggregate_channel_mask_locked *)
AggregateMask(S, mask) == UNION {mask[s] : s \in S}
-----------------------------------------------------------------------------
(* accept_loop *)

\* Mutant: the cap is compared with > instead of >=.
Mut_AcceptConnection ==
    /\ apc = "accept"
    /\ running
    /\ nextId <= MaxSessions
    /\ Cardinality(sessions) <= MaxClients
    /\ apc' = "register"
    /\ UNCHANGED <<serverVars, inboxVars, sessionVars, targetVars, rpc, rmask, wpc,
                   inflight, renderVars, obsVars>>

\* accept() returns a connection and the server is not full.  A connection
\* that finds the server full is answered and closed and changes nothing.
AcceptConnection ==
    /\ apc = "accept"
    /\ running
    /\ nextId <= MaxSessions
    /\ Cardinality(sessions) < MaxClients
    /\ apc' = "register"
    /\ UNCHANGED <<serverVars, inboxVars, sessionVars, targetVars, rpc, rmask, wpc,
                   inflight, renderVars, obsVars>>

\* Under mu, without looking at `running` again.
RegisterSession ==
    /\ apc = "register"
    /\ sessions' = sessions \cup {nextId}
    /\ allSessions' = allSessions \cup {nextId}
    /\ alive' = [alive EXCEPT ![nextId] = TRUE]
    /\ nextId' = nextId + 1
    /\ apc' = "count"
    /\ UNCHANGED <<running, active, globalMask, liveClients, waiters, inboxVars, chan,
                   console, outbox, targetVars, rpc, rmask, wpc, inflight, renderVars,
                   obsVars>>

CountClient ==
    /\ apc = "count"
    /\ liveClients' = liveClients + 1
    /\ apc' = "announce"
    /\ UNCHANGED <<running, active, globalMask, sessions, allSessions, nextId, waiters,
                   inboxVars, sessionVars, targetVars, rpc, rmask, wpc, inflight,
                   renderVars, obsVars>>

\* notify_client_attached: every queued callback is called.
NotifyClientAttached ==
    /\ fired' = [w \in Waiters |-> IF w \in waiters THEN fired[w] + 1 ELSE fired[w]]
    /\ waiters' = {}

\* The callbacks are called, then the session's two threads start.
Announce ==
    /\ apc = "announce"
    /\ NotifyClientAttached
    /\ rpc' = [rpc EXCEPT ![nextId - 1] = "read"]
    /\ wpc' = [wpc EXCEPT ![nextId - 1] = "top"]
    /\ apc' = "accept"
    /\ UNCHANGED <<running, active, globalMask, sessions, allSessions, nextId, liveClients,
                   inboxVars, sessionVars, targetVars, rmask, inflight, renderVars,
                   lines, events, executed, dropped, delivered>>

\* The listening socket was closed (external: close() makes accept() fail).
AcceptExit ==
    /\ apc = "accept"
    /\ ~running
    /\ apc' = "exited"
    /\ UNCHANGED <<serverVars, inboxVars, sessionVars, targetVars, rpc, rmask, wpc,
                   inflight, renderVars, obsVars>>
-----------------------------------------------------------------------------
(* session_loop: the read loops, handle_line, finish_session *)

\* recv returns a line while the loop condition holds.
ReceiveLine(s) ==
    /\ rpc[s] = "read"
    /\ running
    /\ alive[s]
    /\ lines[s] < MaxLines
    /\ lines' = [lines EXCEPT ![s] = @ + 1]
    /\ rpc' = [rpc EXCEPT ![s] = "line"]
    /\ UNCHANGED <<serverVars, inboxVars, sessionVars, targetVars, apc, rmask, wpc,
                   inflight, renderVars, events, executed, dropped, delivered, fired>>

\* handle_line on something that is not JSON, not an object, has no method or
\* names an unknown one: the reader answers by itself.
HandleBadLine(s) ==
    /\ rpc[s] = "line"
    /\ PushTo(Reachable(s), ErrorReply)
    /\ rpc' = [rpc EXCEPT ![s] = "read"]
    /\ UNCHANGED <<serverVars, inboxVars, alive, chan, console, targetVars, apc, rmask,
                   inflight, renderVars, obsVars>>

\* handle_line on a valid request: queued for the render thread, and not
\* before its delay has passed when it is a delayed Page.screenshot.
HandleCall(s, req) ==
    /\ rpc[s] = "line"
    /\ LET call == [origin |-> s, at |-> nextAt, req |-> req] IN
        /\ inbox' = inbox \cup {call}
        /\ notYet' = IF req.op = "shot" THEN notYet \cup {call} ELSE notYet
    /\ nextAt' = nextAt + 1
    /\ rpc' = [rpc EXCEPT ![s] = "read"]
    /\ UNCHANGED <<serverVars, sessionVars, targetVars, apc, rmask, wpc, inflight,
                   renderVars, obsVars>>

\* The beginning of finish_session: the session is marked dead, its socket
\* closed and its writer notified, without outbox_mu.
FinishSession(s) ==
    /\ alive' = [alive EXCEPT ![s] = FALSE]
    /\ wpc' = Notified({s})
    /\ rpc' = [rpc EXCEPT ![s] = "abort"]
    /\ UNCHANGED <<serverVars, inboxVars, chan, console, outbox, targetVars, apc, rmask,
                   inflight, renderVars, obsVars>>

\* The connection begins with an HTTP request that is no WebSocket upgrade:
\* handle_http_connection answers it on the socket and the session is over.
\* A completed upgrade only changes the framing of lines.
ServeHttp(s) ==
    /\ rpc[s] = "read"
    /\ lines[s] = 0
    /\ alive[s]
    /\ FinishSession(s)

\* recv fails, the peer is gone, or the loop condition is false.
EndReading(s) ==
    /\ rpc[s] = "read"
    /\ FinishSession(s)

\* Mutant: finish_session does not abort anything.
Mut_AbortPendingNone(s) ==
    /\ rpc[s] = "abort"
    /\ rpc' = [rpc EXCEPT ![s] = "erase"]
    /\ UNCHANGED <<serverVars, inboxVars, sessionVars, targetVars, apc, rmask, wpc,
                   inflight, renderVars, obsVars>>

\* abort_pending_calls(id), under inbox_mu.
AbortPending(s) ==
    /\ rpc[s] = "abort"
    /\ LET mine == {c \in inbox : c.origin = s} IN
        /\ inbox' = inbox \ mine
        /\ dropped' = dropped \cup mine
    /\ rpc' = [rpc EXCEPT ![s] = "erase"]
    /\ UNCHANGED <<serverVars, nextAt, notYet, sessionVars, targetVars, apc, rmask, wpc,
                   inflight, renderVars, lines, events, executed, delivered, fired>>

\* Under mu: leave the map and compute what the others subscribe to.
EraseSession(s) ==
    /\ rpc[s] = "erase"
    /\ s \in sessions
    /\ sessions' = sessions \ {s}
    /\ rmask' = [rmask EXCEPT ![s] = AggregateMask(sessions \ {s}, chan)]
    /\ rpc' = [rpc EXCEPT ![s] = "uncount"]
    /\ UNCHANGED <<running, active, globalMask, allSessions, nextId, liveClients, waiters,
                   inboxVars, sessionVars, targetVars, apc, wpc, inflight, renderVars,
                   obsVars>>

\* stop() has already emptied the map.
AlreadyErased(s) ==
    /\ rpc[s] = "erase"
    /\ s \notin sessions
    /\ rpc' = [rpc EXCEPT ![s] = "exited"]
    /\ UNCHANGED <<serverVars, inboxVars, sessionVars, targetVars, apc, rmask, wpc,
                   inflight, renderVars, obsVars>>

UncountClient(s) ==
    /\ rpc[s] = "uncount"
    /\ liveClients' = liveClients - 1
    /\ rpc' = [rpc EXCEPT ![s] = "publish"]
    /\ UNCHANGED <<running, active, globalMask, sessions, allSessions, nextId, waiters,
                   inboxVars, sessionVars, targetVars, apc, rmask, wpc, inflight,
                   renderVars, obsVars>>

\* update_global_channel_mask outside mu: one step for its four atomic
\* operations, which act on different bits.
PublishMask(s) ==
    /\ rpc[s] = "publish"
    /\ globalMask' = rmask[s]
    /\ rpc' = [rpc EXCEPT ![s] = "exited"]
    /\ UNCHANGED <<running, active, sessions, allSessions, nextId, liveClients, waiters,
                   inboxVars, sessionVars, targetVars, apc, rmask, wpc, inflight,
                   renderVars, obsVars>>
-----------------------------------------------------------------------------
(* writer_loop *)

WriterTop(s) ==
    /\ wpc[s] = "top"
    /\ wpc' = [wpc EXCEPT ![s] = IF running /\ alive[s] THEN "locked" ELSE "exited"]
    /\ UNCHANGED <<serverVars, inboxVars, sessionVars, targetVars, apc, rpc, rmask,
                   inflight, renderVars, obsVars>>

\* The predicate of outbox_cv.wait is true because there is a message.
WriterTake(s) ==
    /\ wpc[s] = "locked"
    /\ outbox[s] # <<>>
    /\ inflight' = [inflight EXCEPT ![s] = <<Head(outbox[s])>>]
    /\ outbox' = [outbox EXCEPT ![s] = Tail(@)]
    /\ wpc' = [wpc EXCEPT ![s] = "send"]
    /\ UNCHANGED <<serverVars, inboxVars, alive, chan, console, targetVars, apc, rpc, rmask,
                   renderVars, obsVars>>

\* The predicate is true because the session or the server is going away.
WriterQuit(s) ==
    /\ wpc[s] = "locked"
    /\ outbox[s] = <<>>
    /\ ~(running /\ alive[s])
    /\ wpc' = [wpc EXCEPT ![s] = "exited"]
    /\ UNCHANGED <<serverVars, inboxVars, sessionVars, targetVars, apc, rpc, rmask,
                   inflight, renderVars, obsVars>>

\* The predicate is false: about to block, outbox_mu still held ...
WriterDecide(s) ==
    /\ wpc[s] = "locked"
    /\ outbox[s] = <<>>
    /\ running
    /\ alive[s]
    /\ wpc' = [wpc EXCEPT ![s] = "blocking"]
    /\ UNCHANGED <<serverVars, inboxVars, sessionVars, targetVars, apc, rpc, rmask,
                   inflight, renderVars, obsVars>>

\* ... and blocked, outbox_mu released.
WriterBlock(s) ==
    /\ wpc[s] = "blocking"
    /\ wpc' = [wpc EXCEPT ![s] = "waiting"]
    /\ UNCHANGED <<serverVars, inboxVars, sessionVars, targetVars, apc, rpc, rmask,
                   inflight, renderVars, obsVars>>

\* The message is written out; the socket is open while the session is alive.
WriterSend(s) ==
    /\ wpc[s] = "send"
    /\ alive[s]
    /\ delivered' = [delivered EXCEPT ![s] = @ \o inflight[s]]
    /\ inflight' = [inflight EXCEPT ![s] = <<>>]
    /\ wpc' = [wpc EXCEPT ![s] = "top"]
    /\ UNCHANGED <<serverVars, inboxVars, sessionVars, targetVars, apc, rpc, rmask,
                   renderVars, lines, events, executed, dropped, fired>>

\* send fails: the writer returns, the session stays as it is.
WriterFail(s) ==
    /\ wpc[s] = "send"
    /\ inflight' = [inflight EXCEPT ![s] = <<>>]
    /\ wpc' = [wpc EXCEPT ![s] = "exited"]
    /\ UNCHANGED <<serverVars, inboxVars, sessionVars, targetVars, apc, rpc, rmask,
                   renderVars, obsVars>>
-----------------------------------------------------------------------------
(* Render thread: pump_tasks *)

\* Mutant: the retained calls are not put back into the inbox.
Mut_Pump ==
    /\ rt = "idle"
    /\ inbox # {}
    /\ LET live == {c \in inbox : alive[c.origin]} IN
        /\ inbox' = {}
        /\ drained' = live \ notYet
        /\ dropped' = dropped \cup (inbox \ drained')
        /\ rt' = IF live \ notYet = {} THEN "idle" ELSE "exec"
    /\ UNCHANGED <<serverVars, nextAt, notYet, sessionVars, targetVars, apc, rpc, rmask, wpc,
                   inflight, rtMask, rtWaiter, toStop, lines, events, executed, delivered,
                   fired>>

\* Under inbox_mu: calls of dead sessions are dropped, delayed ones retained.
Pump ==
    /\ rt = "idle"
    /\ inbox # {}
    /\ LET live == {c \in inbox : alive[c.origin]} IN
        /\ inbox' = live \cap notYet
        /\ drained' = live \ notYet
        /\ dropped' = dropped \cup (inbox \ live)
        /\ rt' = IF live \ notYet = {} THEN "idle" ELSE "exec"
    /\ UNCHANGED <<serverVars, nextAt, notYet, sessionVars, targetVars, apc, rpc, rmask, wpc,
                   inflight, rtMask, rtWaiter, toStop, lines, events, executed, delivered,
                   fired>>

\* A delay runs out.
TimePasses(c) ==
    /\ c \in inbox \cap notYet
    /\ notYet' = notYet \ {c}
    /\ UNCHANGED <<serverVars, inbox, nextAt, sessionVars, targetVars, apc, rpc, rmask, wpc,
                   inflight, renderVars, obsVars>>

\* The drained calls are taken in arrival order.
Front(c) == c \in drained /\ \A d \in drained : c.at <= d.at

\* The loop goes to the next drained call or ends.
Advance(c) ==
    /\ drained' = drained \ {c}
    /\ rt' = IF drained = {c} THEN "idle" ELSE "exec"

\* The session died between the drain and its turn.
SkipDead(c) ==
    /\ rt = "exec"
    /\ Front(c)
    /\ ~alive[c.origin]
    /\ dropped' = dropped \cup {c}
    /\ Advance(c)
    /\ UNCHANGED <<serverVars, inboxVars, sessionVars, targetVars, apc, rpc, rmask, wpc,
                   inflight, rtMask, rtWaiter, toStop, lines, events, executed, delivered,
                   fired>>

\* dispatch() of a method that only computes a result (or throws).
DispatchPlain(c) ==
    /\ c.req.op \in {"eval", "shot"}
    /\ rt' = "reply"
    /\ UNCHANGED <<chan, console, outbox, wpc, rtMask, targetVars>>

\* Window/Fetch/Fs.subscribe and unsubscribe: set_session_channel_enabled up
\* to the end of its critical section.
DispatchChannel(c) ==
    /\ c.req.op \in {"sub", "unsub"}
    /\ IF c.origin \in sessions
       THEN /\ chan' = [chan EXCEPT ![c.origin] =
                   IF c.req.op = "sub" THEN @ \cup {c.req.ch} ELSE @ \ {c.req.ch}]
            /\ rtMask' = AggregateMask(sessions, chan')
            /\ rt' = "apply"
       ELSE /\ rt' = "reply"
            /\ UNCHANGED <<chan, rtMask>>
    /\ UNCHANGED <<console, outbox, wpc, targetVars>>

\* Mutant: Console.disable enables.
Mut_DispatchConsole(c) ==
    /\ c.req.op \in {"consoleOn", "consoleOff"}
    /\ console' = IF c.origin \in sessions THEN [console EXCEPT ![c.origin] = TRUE] ELSE console
    /\ rt' = "reply"
    /\ UNCHANGED <<chan, outbox, wpc, rtMask, targetVars>>

\* Console.enable and Console.disable.
DispatchConsole(c) ==
    /\ c.req.op \in {"consoleOn", "consoleOff"}
    /\ console' = IF c.origin \in sessions
                  THEN [console EXCEPT ![c.origin] = (c.req.op = "consoleOn")]
                  ELSE console
    /\ rt' = "reply"
    /\ UNCHANGED <<chan, outbox, wpc, rtMask, targetVars>>

\* Debugger.pause, resume and step: _internal_set_pause.  step_once is stored
\* and never read; the event goes to every live session.
DispatchPause(c) ==
    /\ c.req.op \in {"pause", "resume", "step"}
    /\ paused' = (c.req.op = "pause")
    /\ Broadcast(IF c.req.op = "pause" THEN "Debugger.paused" ELSE "Debugger.resumed")
    /\ rt' = "reply"
    /\ UNCHANGED <<chan, console, rtMask, windowOpen>>

\* System.shutdown (and Window.close) closes the window.
DispatchShutdown(c) ==
    /\ c.req.op = "shutdown"
    /\ windowOpen' = FALSE
    /\ rt' = "reply"
    /\ UNCHANGED <<chan, console, outbox, wpc, rtMask, paused>>

Dispatch(c) ==
    /\ rt = "exec"
    /\ Front(c)
    /\ alive[c.origin]
    /\ executed' = executed \cup {c}
    /\ \/ DispatchPlain(c)
       \/ DispatchChannel(c)
       \/ DispatchConsole(c)
       \/ DispatchPause(c)
       \/ DispatchShutdown(c)
    /\ UNCHANGED <<serverVars, inboxVars, alive, apc, rpc, rmask, inflight, drained,
                   rtWaiter, toStop, lines, events, dropped, delivered, fired>>

\* The rest of set_session_channel_enabled: update_global_channel_mask
\* outside mu.
ApplyMask ==
    /\ rt = "apply"
    /\ globalMask' = rtMask
    /\ rt' = "reply"
    /\ UNCHANGED <<running, active, sessions, allSessions, nextId, liveClients, waiters,
                   inboxVars, sessionVars, targetVars, apc, rpc, rmask, wpc, inflight,
                   drained, rtMask, rtWaiter, toStop, obsVars>>

\* Mutant: the reply is broadcast.
Mut_SendReply(c) ==
    /\ rt = "reply"
    /\ Front(c)
    /\ PushTo(IF c.req.id THEN {s \in sessions : alive[s]} ELSE {}, Reply(c))
    /\ Advance(c)
    /\ UNCHANGED <<serverVars, inboxVars, alive, chan, console, targetVars, apc, rpc, rmask,
                   inflight, rtMask, rtWaiter, toStop, obsVars>>

\* A call that carries an id is answered, to its origin only.
SendReply(c) ==
    /\ rt = "reply"
    /\ Front(c)
    /\ PushTo(IF c.req.id THEN Reachable(c.origin) ELSE {}, Reply(c))
    /\ Advance(c)
    /\ UNCHANGED <<serverVars, inboxVars, alive, chan, console, targetVars, apc, rpc, rmask,
                   inflight, rtMask, rtWaiter, toStop, obsVars>>
-----------------------------------------------------------------------------
(* Render thread: when_client_attached, events, the end of the frame loop *)

\* The first, unlocked look at live_clients.
AttachCheck(w) ==
    /\ rt = "idle"
    /\ w \notin waiters /\ fired[w] = 0
    /\ IF liveClients # 0
       THEN /\ fired' = [fired EXCEPT ![w] = @ + 1]
            /\ UNCHANGED <<rt, rtWaiter>>
       ELSE /\ rt' = "attach"
            /\ rtWaiter' = {w}
            /\ UNCHANGED fired
    /\ UNCHANGED <<serverVars, inboxVars, sessionVars, targetVars, apc, rpc, rmask, wpc,
                   inflight, drained, rtMask, toStop, lines, events, executed, dropped,
                   delivered>>

\* Mutant: live_clients is not read again under client_waiters_mu.
Mut_AttachWait ==
    /\ rt = "attach"
    /\ waiters' = waiters \cup rtWaiter
    /\ rt' = "idle"
    /\ rtWaiter' = {}
    /\ UNCHANGED <<running, active, globalMask, sessions, allSessions, nextId, liveClients,
                   inboxVars, sessionVars, targetVars, apc, rpc, rmask, wpc, inflight,
                   drained, rtMask, toStop, obsVars>>

\* Under client_waiters_mu: look again, then queue the callback.
AttachWait ==
    /\ rt = "attach"
    /\ IF liveClients # 0
       THEN /\ fired' = [w \in Waiters |-> IF w \in rtWaiter THEN fired[w] + 1 ELSE fired[w]]
            /\ UNCHANGED waiters
       ELSE /\ waiters' = waiters \cup rtWaiter
            /\ UNCHANGED fired
    /\ rt' = "idle"
    /\ rtWaiter' = {}
    /\ UNCHANGED <<running, active, globalMask, sessions, allSessions, nextId, liveClients,
                   inboxVars, sessionVars, targetVars, apc, rpc, rmask, wpc, inflight,
                   drained, rtMask, toStop, lines, events, executed, dropped, delivered>>

\* emit_event_if_attached for channel ch.
EmitEvent(ch) ==
    /\ rt = "idle"
    /\ events < MaxEvents
    /\ ch \in globalMask
    /\ active
    /\ events' = events + 1
    /\ Broadcast(ch)
    /\ UNCHANGED <<serverVars, inboxVars, alive, chan, console, targetVars, apc, rpc, rmask,
                   inflight, renderVars, lines, executed, dropped, delivered, fired>>

\* emit_console, the console sink of the runner.
EmitConsole ==
    /\ rt = "idle"
    /\ events < MaxEvents
    /\ events' = events + 1
    /\ Broadcast("Console.messageAdded")
    /\ UNCHANGED <<serverVars, inboxVars, alive, chan, console, targetVars, apc, rpc, rmask,
                   inflight, renderVars, lines, executed, dropped, delivered, fired>>

\* The user closes the last window.
CloseWindow ==
    /\ rt = "idle"
    /\ windowOpen
    /\ windowOpen' = FALSE
    /\ UNCHANGED <<serverVars, inboxVars, sessionVars, paused, apc, rpc, rmask,
                   wpc, inflight, renderVars, obsVars>>
-----------------------------------------------------------------------------
(* Render thread: stop() and shutdown() *)

\* app_run_loop has ended (no window, not in its pause loop) and so has the
\* keepalive loop of the runner.
MayStop == ~windowOpen /\ ~paused /\ (Keepalive => ~running)

\* stop() detaches the server and clears the channels.
Stop ==
    /\ rt = "idle"
    /\ MayStop
    /\ active' = FALSE
    /\ globalMask' = {}
    /\ rt' = "halt"
    /\ UNCHANGED <<running, sessions, allSessions, nextId, liveClients, waiters, inboxVars,
                   sessionVars, targetVars, apc, rpc, rmask, wpc, inflight, drained, rtMask,
                   rtWaiter, toStop, obsVars>>

\* running.exchange(false); the listening socket is closed.
StopHalt ==
    /\ rt = "halt"
    /\ running' = FALSE
    /\ rt' = "snapshot"
    /\ UNCHANGED <<active, globalMask, sessions, allSessions, nextId, liveClients, waiters,
                   inboxVars, sessionVars, targetVars, apc, rpc, rmask, wpc, inflight,
                   drained, rtMask, rtWaiter, toStop, obsVars>>

\* Under mu: take over every session ever accepted.
StopSnapshot ==
    /\ rt = "snapshot"
    /\ toStop' = allSessions
    /\ sessions' = {}
    /\ allSessions' = {}
    /\ rt' = "kill"
    /\ UNCHANGED <<running, active, globalMask, nextId, liveClients, waiters, inboxVars,
                   sessionVars, targetVars, apc, rpc, rmask, wpc, inflight, drained, rtMask,
                   rtWaiter, obsVars>>

\* Every one of them is marked dead, closed and notified, without outbox_mu.
StopKill ==
    /\ rt = "kill"
    /\ alive' = [s \in SessionIds |-> alive[s] /\ s \notin toStop]
    /\ wpc' = Notified(toStop)
    /\ rt' = "abortAll"
    /\ UNCHANGED <<serverVars, inboxVars, chan, console, outbox, targetVars, apc, rpc, rmask,
                   inflight, drained, rtMask, rtWaiter, toStop, obsVars>>

StopAbort ==
    /\ rt = "abortAll"
    /\ inbox' = {}
    /\ dropped' = dropped \cup inbox
    /\ rt' = "reset"
    /\ UNCHANGED <<serverVars, nextAt, notYet, sessionVars, targetVars, apc, rpc, rmask, wpc,
                   inflight, drained, rtMask, rtWaiter, toStop, lines, events, executed,
                   delivered, fired>>

StopReset ==
    /\ rt = "reset"
    /\ globalMask' = {}
    /\ rt' = "joinAccept"
    /\ UNCHANGED <<running, active, sessions, allSessions, nextId, liveClients, waiters,
                   inboxVars, sessionVars, targetVars, apc, rpc, rmask, wpc, inflight,
                   drained, rtMask, rtWaiter, toStop, obsVars>>

JoinAccept ==
    /\ rt = "joinAccept"
    /\ apc = "exited"
    /\ rt' = "joinSessions"
    /\ UNCHANGED <<serverVars, inboxVars, sessionVars, targetVars, apc, rpc, rmask, wpc,
                   inflight, drained, rtMask, rtWaiter, toStop, obsVars>>

JoinSessions ==
    /\ rt = "joinSessions"
    /\ \A s \in toStop : rpc[s] = "exited" /\ wpc[s] = "exited"
    /\ rt' = "stopped"
    /\ UNCHANGED <<serverVars, inboxVars, sessionVars, targetVars, apc, rpc, rmask, wpc,
                   inflight, drained, rtMask, rtWaiter, toStop, obsVars>>
-----------------------------------------------------------------------------
AcceptStep == RegisterSession \/ CountClient \/ Announce \/ AcceptExit

\* What a reader does without being sent anything.
ReaderStep(s) ==
    \/ HandleBadLine(s)
    \/ \E req \in Requests : HandleCall(s, req)
    \/ AbortPending(s)
    \/ EraseSession(s)
    \/ AlreadyErased(s)
    \/ UncountClient(s)
    \/ PublishMask(s)

WriterStep(s) ==
    \/ WriterTop(s)
    \/ WriterTake(s)
    \/ WriterQuit(s)
    \/ WriterDecide(s)
    \/ WriterBlock(s)
    \/ WriterSend(s)
    \/ WriterFail(s)

PumpStep ==
    \/ Pump
    \/ \E c \in drained : SkipDead(c) \/ Dispatch(c) \/ SendReply(c)
    \/ ApplyMask

StopStep ==
    \/ Stop
    \/ StopHalt
    \/ StopSnapshot
    \/ StopKill
    \/ StopAbort
    \/ StopReset
    \/ JoinAccept
    \/ JoinSessions

\* What the peers, the script and the user may do and need not do.
Environment ==
    \/ AcceptConnection
    \/ \E s \in SessionIds : ReceiveLine(s) \/ ServeHttp(s) \/ EndReading(s)
    \/ \E w \in Waiters : AttachCheck(w)
    \/ \E ch \in Channels : EmitEvent(ch)
    \/ EmitConsole
    \/ CloseWindow

Next ==
    \/ AcceptStep
    \/ \E s \in SessionIds : ReaderStep(s) \/ WriterStep(s)
    \/ PumpStep
    \/ AttachWait
    \/ StopStep
    \/ \E c \in inbox : TimePasses(c)
    \/ Environment

Spec == Init /\ [][Next]_vars

\* A reader whose socket was closed leaves its loop.
LeaveLoop(s) == ~(running /\ alive[s]) /\ EndReading(s)

Fairness ==
    /\ WF_vars(AcceptStep)
    /\ \A s \in SessionIds : /\ WF_vars(ReaderStep(s))
                             /\ WF_vars(LeaveLoop(s))
                             /\ WF_vars(WriterStep(s))
    /\ WF_vars(PumpStep)
    /\ WF_vars(AttachWait)
    /\ WF_vars(StopStep)
    /\ WF_vars(\E c \in inbox : TimePasses(c))

FairSpec == Spec /\ Fairness
-----------------------------------------------------------------------------
(***************************************************************************)
(* Properties that hold.                                                   *)
(***************************************************************************)

(* "Conservative cap on simultaneously attached debug clients": the cap    *)
(* holds although accept_loop tests it and registers the session in two    *)
(* critical sections.                                                      *)
SessionCap == Cardinality(sessions) <= MaxClients

(* Until stop() empties the map, live_clients is the size of the session   *)
(* map up to the additions and removals in progress, so has_clients() is   *)
(* exact when nothing is in progress.                                      *)
LiveCountExact ==
    rt \notin StopPoints \ {"halt", "snapshot"} =>
        liveClients + (IF apc = "count" THEN 1 ELSE 0)
            = Cardinality(sessions) + Cardinality({s \in SessionIds : rpc[s] = "uncount"})

(* No attach callback is lost or called twice: a callback is queued only   *)
(* while no client is attached or the accept thread is about to drain the  *)
(* queue (when_client_attached against notify_client_attached).            *)
WaiterNotLost ==
    /\ waiters # {} => liveClients = 0 \/ apc = "announce"
    /\ \A w \in Waiters : fired[w] <= 1 /\ (w \in waiters \cup rtWaiter => fired[w] = 0)

(* "only that session's pending calls are aborted": a call accepted from   *)
(* any client is waiting, about to run, executed or dropped, exactly one   *)
(* of them; it is dropped only when its own session is dead.               *)
CallsPartitioned ==
    /\ {c.at : c \in inbox \cup drained \cup executed \cup dropped} = 0..(nextAt - 1)
    /\ Cardinality(inbox \cup drained \cup executed \cup dropped) = nextAt
    /\ inbox \cap (drained \cup executed \cup dropped) = {}
    /\ executed \cap dropped = {}
    /\ rt \notin {"apply", "reply"} => drained \cap (executed \cup dropped) = {}
    /\ \A c \in dropped : ~alive[c.origin] \/ rt \in StopPoints

(* The server's books agree at every step, whoever connects, disconnects   *)
(* or stops it in the meantime: types, calls, client count and waiters.    *)
Bookkeeping == TypeOK /\ CallsPartitioned /\ LiveCountExact /\ WaiterNotLost

(* Once finish_session has aborted a session's calls, none of them is left *)
(* in the inbox or enters it again, so a dead session cannot run code on   *)
(* the render thread after the call in progress.                           *)
AbortIsFinal ==
    \A s \in SessionIds : rpc[s] \in {"erase", "uncount", "publish", "exited"} =>
        \A c \in inbox : c.origin # s

(* What a session was sent, is being sent and will be sent. *)
Outgoing(s) == delivered[s] \o inflight[s] \o outbox[s]

IsReply(m) == m.kind = "reply"

(* "Replies are ... routed only to the origin session": every reply in a   *)
(* session's stream answers an executed call of that session that carries  *)
(* an id, no call is answered twice, and replies to calls that were not    *)
(* delayed come in the order of the calls.                                 *)
RepliesRouted ==
    \A s \in SessionIds :
        LET out == Outgoing(s) IN
        /\ \A i \in DOMAIN out : IsReply(out[i]) =>
              /\ out[i].call.origin = s
              /\ out[i].call \in executed
              /\ out[i].call.req.id
        /\ \A i, j \in DOMAIN out : i < j /\ IsReply(out[i]) /\ IsReply(out[j]) =>
              \/ out[i].call.at < out[j].call.at
              \/ out[i].call # out[j].call /\ out[j].call.req.op = "shot"

(* Subscriptions take effect in the order of the stream: an event of a     *)
(* channel, or a console event, reaches a session only while the latest    *)
(* answer the session was given about that channel (or about the console)  *)
(* before the event is the answer to an enabling request (broadcast_event, *)
(* event_allowed_for_session against the dispatch of subscribe and         *)
(* Console.enable).  For requests that carry ids.                          *)
Toggles(m, e) ==
    /\ IsReply(m)
    /\ \/ e = "Console.messageAdded" /\ m.call.req.op \in {"consoleOn", "consoleOff"}
       \/ e = m.call.req.ch /\ m.call.req.op \in {"sub", "unsub"}

TurnsOn(m) == m.call.req.op \in {"sub", "consoleOn"}

Filtered == Channels \cup {"Console.messageAdded"}

SubscribedStream(out) ==
    \A i \in DOMAIN out : out[i].kind = "event" /\ out[i].name \in Filtered =>
        \E j \in 1..(i - 1) :
            /\ Toggles(out[j], out[i].name) /\ TurnsOn(out[j])
            /\ \A k \in (j + 1)..(i - 1) : ~Toggles(out[k], out[i].name)

EventsSubscribed == \A s \in SessionIds : SubscribedStream(delivered[s])

(* Liveness: a call with an id is answered on the wire, unless its session *)
(* ends, its writer has given up on the socket, or the server is stopped   *)
(* first.  Delayed screenshots included.                                   *)
Answered(c) == \E i \in DOMAIN delivered[c.origin] : delivered[c.origin][i] = Reply(c)

CallAnswered ==
    \A s \in SessionIds, n \in 0..1, req \in Requests :
        LET c == [origin |-> s, at |-> n, req |-> req] IN
        (c \in inbox /\ req.id) ~>
            (Answered(c) \/ ~alive[s] \/ wpc[s] = "exited" \/ rt \in StopPoints)
=============================================================================
