--------------------------- MODULE SingleInstance ---------------------------
(***************************************************************************)
(* Launches of one application that race to be its single instance         *)
(* (src/os/single_instance.cpp, the Linux part of src/os/linux/            *)
(* os_linux.cpp, and the App event bridge of src/js/bind_app.cpp).         *)
(*                                                                         *)
(* A process that gets the lock is the primary: its listener thread takes  *)
(* hand-offs from the socket and posts events, its main thread pumps them  *)
(* to the script.  Any other process hands its argv to the socket and is   *)
(* done.  A process may die at any step; the kernel then drops its locks   *)
(* and connections, while the files it made stay.                          *)
(*                                                                         *)
(* A lock file is named by the process that created it: a process creates  *)
(* at most one, and two files may have been at the path one after another. *)
(* An event is named by its sender and the argument of argv it stands for. *)
(***************************************************************************)
EXTENDS Naturals, Sequences, FiniteSets, SequencesExt

CONSTANTS
    Procs, \* the launched processes
    None,
    Opens  \* the open events an argv stands for: "url" and "file" arguments

ASSUME NoneAssumption == None \notin Procs
ASSUME OpensAssumption == Opens \in Seq({"url", "file"})

Kinds == {"second"} \cup {Opens[i] : i \in 1..Len(Opens)}
Maybe == Procs \cup {None}

VARIABLES
    pc,        \* where the main thread of a process is
    guard,     \* holder of the flock on .lock.guard
    path,      \* the file at .lock
    pidIn,     \* the pid written in a lock file
    holder,    \* holder of the flock on a lock file
    fd,        \* the lock file a process has open
    sock,      \* the process that bound the socket at the path
    lst,       \* where the listener thread of a process is
    backlog,   \* connections not accepted yet
    cur,       \* the client whose payload is being read
    sent,      \* processes that wrote a whole payload
    posting,   \* events still to be posted, by the listener and by the main thread
    queue,     \* main-thread dispatches (g_q)
    listening, \* kinds that have a listener in the script
    waiting,   \* `pending` of the bridge
    handled,   \* events a listener was called with (observer)
    arrived,   \* events in the order they were posted (observer)
    dropped    \* events spliced out of `pending` and not delivered (observer)

lockVars == <<guard, path, pidIn, holder, fd>>
sockVars == <<sock, lst, backlog, cur, sent>>
appVars  == <<listening, waiting, handled, dropped>>
postVars == <<posting, queue, arrived>>
vars == <<pc, lockVars, sockVars, appVars, postVars>>

Init ==
    /\ pc = [p \in Procs |-> "start"]
    /\ guard = None /\ path = None /\ sock = None
    /\ pidIn = [f \in Procs |-> None] /\ holder = [f \in Procs |-> None]
    /\ fd = [p \in Procs |-> None]
    /\ lst = [p \in Procs |-> "off"] /\ backlog = [p \in Procs |-> <<>>]
    /\ cur = [p \in Procs |-> None] /\ sent = {}
    /\ posting = [p \in Procs |-> [listener |-> <<>>, main |-> <<>>]]
    /\ queue = [p \in Procs |-> <<>>] /\ arrived = [p \in Procs |-> <<>>]
    /\ listening = [p \in Procs |-> {}]
    /\ waiting = [p \in Procs |-> [k \in Kinds |-> <<>>]]
    /\ handled = [p \in Procs |-> <<>>] /\ dropped = [p \in Procs |-> {}]

Goto(p, l)   == pc' = [pc EXCEPT ![p] = l]
Listen(p, l) == lst' = [lst EXCEPT ![p] = l]

\* Got the lock: request_single_instance_lock returned true.
Primary(p) == pc[p] \in {"primary", "argv", "run"}

-----------------------------------------------------------------------------
(* request_single_instance_lock.                                           *)

\* Mutant: the guard is not needed to go on.
Mut_TakeGuard(p) ==
    /\ pc[p] = "start" /\ Goto(p, "read")
    /\ guard' = IF guard = None THEN p ELSE guard
    /\ UNCHANGED <<path, pidIn, holder, fd, sockVars, appVars, postVars>>

\* flock(guard_fd, LOCK_EX | LOCK_NB): never waits.  The directory or the
\* guard may also fail to open.
TakeGuard(p) ==
    /\ pc[p] = "start"
    /\ \/ guard = None /\ guard' = p /\ Goto(p, "read")
       \/ UNCHANGED guard /\ Goto(p, "forward")
    /\ UNCHANGED <<path, pidIn, holder, fd, sockVars, appVars, postVars>>

\* Mutant: any process whose pid is recorded is taken for gone.
Mut_PidIsGone(q) == TRUE

\* pid_is_gone: no such process.
PidIsGone(q) == pc[q] = "dead"

\* read_lock_pid and pid_is_gone.  The pid of a dead process may be in use
\* again, and then its file is left in place.
ReadPid(p) ==
    /\ pc[p] = "read"
    /\ \/ path # None /\ pidIn[path] # None /\ PidIsGone(pidIn[path]) /\ Goto(p, "unlink")
       \/ Goto(p, "open")
    /\ UNCHANGED <<lockVars, sockVars, appVars, postVars>>

UnlinkLock(p) ==
    /\ pc[p] = "unlink" /\ Goto(p, "open")
    /\ path' = None
    /\ UNCHANGED <<guard, pidIn, holder, fd, sockVars, appVars, postVars>>

\* open(lock_path, O_CREAT)
OpenLock(p) ==
    /\ pc[p] = "open" /\ Goto(p, "flock")
    /\ path' = IF path = None THEN p ELSE path
    /\ fd' = [fd EXCEPT ![p] = path']
    /\ UNCHANGED <<guard, pidIn, holder, sockVars, appVars, postVars>>

\* close(fd) and close(guard_fd), then acquire_or_forward forwards.
GiveUp(p) ==
    /\ Goto(p, "forward")
    /\ guard' = IF guard = p THEN None ELSE guard
    /\ holder' = [f \in Procs |-> IF holder[f] = p THEN None ELSE holder[f]]
    /\ fd' = [fd EXCEPT ![p] = None]
    /\ UNCHANGED <<path, sockVars, appVars, postVars>>

FlockLock(p) ==
    /\ pc[p] = "flock" /\ UNCHANGED pidIn
    /\ \/ /\ holder[fd[p]] = None
          /\ holder' = [holder EXCEPT ![fd[p]] = p]
          /\ Goto(p, "truncate")
          /\ UNCHANGED <<guard, path, fd, sockVars, appVars, postVars>>
       \/ holder[fd[p]] # None /\ GiveUp(p)

\* write_lock_pid: ftruncate, then write, which may fail.
TruncateLock(p) ==
    /\ pc[p] = "truncate" /\ Goto(p, "write_pid")
    /\ pidIn' = [pidIn EXCEPT ![fd[p]] = None]
    /\ UNCHANGED <<guard, path, holder, fd, sockVars, appVars, postVars>>

\* Mutant: the file is left empty.
Mut_WritePid(p) ==
    /\ pc[p] = "write_pid" /\ Goto(p, "release")
    /\ UNCHANGED <<lockVars, sockVars, appVars, postVars>>

WritePid(p) ==
    /\ pc[p] = "write_pid"
    /\ \/ /\ pidIn' = [pidIn EXCEPT ![fd[p]] = p]
          /\ Goto(p, "release")
          /\ UNCHANGED <<guard, path, holder, fd, sockVars, appVars, postVars>>
       \/ UNCHANGED pidIn /\ GiveUp(p)

\* The lock is entered in g_single_instance_locks and the guard given back.
ReleaseGuard(p) ==
    /\ pc[p] = "release" /\ Goto(p, "primary")
    /\ guard' = IF guard = p THEN None ELSE guard
    /\ UNCHANGED <<path, pidIn, holder, fd, sockVars, appVars, postVars>>

-----------------------------------------------------------------------------
(* acquire_or_forward.                                                     *)

\* dispatch_argv_open_events: an event for every argument of q that is a URL or
\* a file.
OpenEvents(q) == [i \in 1..Len(Opens) |-> [from |-> q, kind |-> Opens[i], arg |-> i]]

\* start_single_instance_socket_listener, then dispatch_argv_open_events.
StartListener(p) ==
    /\ pc[p] = "primary" /\ Goto(p, "argv") /\ Listen(p, "unlink")
    /\ posting' = [posting EXCEPT ![p].main = OpenEvents(p)]
    /\ UNCHANGED <<lockVars, sock, backlog, cur, sent, appVars, queue, arrived>>

\* post_main_thread_dispatch, under g_mu
Post(p, who) ==
    /\ posting[p][who] # <<>>
    /\ queue' = [queue EXCEPT ![p] = Append(@, Head(posting[p][who]))]
    /\ arrived' = [arrived EXCEPT ![p] = Append(@, Head(posting[p][who]))]
    /\ posting' = [posting EXCEPT ![p][who] = Tail(@)]

PostOwn(p) ==
    /\ pc[p] = "argv"
    /\ \/ Post(p, "main") /\ UNCHANGED pc
       \/ posting[p].main = <<>> /\ Goto(p, "run") /\ UNCHANGED postVars
    /\ UNCHANGED <<lockVars, sockVars, appVars>>

SomebodyListens == sock # None /\ lst[sock] \in {"accept", "read", "post"}

\* forward_to_primary_socket: connect is refused unless somebody listens.
Connect(p) ==
    /\ pc[p] = "forward"
    /\ \/ /\ SomebodyListens
          /\ backlog' = [backlog EXCEPT ![sock] = Append(@, p)]
          /\ Goto(p, "write")
       \/ ~SomebodyListens /\ Goto(p, "done") /\ UNCHANGED backlog
    /\ UNCHANGED <<lockVars, sock, lst, cur, sent, appVars, postVars>>

\* write_all_socket and close.
WritePayload(p) ==
    /\ pc[p] = "write" /\ Goto(p, "done")
    /\ sent' = sent \cup {p}
    /\ UNCHANGED <<lockVars, sock, lst, backlog, cur, appVars, postVars>>

-----------------------------------------------------------------------------
(* The listener thread.                                                    *)

\* Mutant: a socket left at the path is not removed.
Mut_UnlinkSock(p) ==
    /\ lst[p] = "unlink" /\ Listen(p, "bind")
    /\ UNCHANGED <<pc, lockVars, sock, backlog, cur, sent, appVars, postVars>>

UnlinkSock(p) ==
    /\ lst[p] = "unlink" /\ Listen(p, "bind")
    /\ sock' = None
    /\ UNCHANGED <<pc, lockVars, backlog, cur, sent, appVars, postVars>>

Bind(p) ==
    /\ lst[p] = "bind"
    /\ \/ sock = None /\ sock' = p /\ Listen(p, "listen")
       \/ sock # None /\ UNCHANGED sock /\ Listen(p, "failed")
    /\ UNCHANGED <<pc, lockVars, backlog, cur, sent, appVars, postVars>>

ListenSock(p) ==
    /\ lst[p] = "listen" /\ Listen(p, "accept")
    /\ UNCHANGED <<pc, lockVars, sock, backlog, cur, sent, appVars, postVars>>

Accept(p) ==
    /\ lst[p] = "accept" /\ backlog[p] # <<>> /\ Listen(p, "read")
    /\ cur' = [cur EXCEPT ![p] = Head(backlog[p])]
    /\ backlog' = [backlog EXCEPT ![p] = Tail(@)]
    /\ UNCHANGED <<pc, lockVars, sock, sent, appVars, postVars>>

\* decode_handoff: as many lines as argc says, and nothing after them.
Decodes(q) == q \in sent

\* dispatch_launch: the second-instance event, then the open events of argv.
LaunchEvents(q) == <<[from |-> q, kind |-> "second", arg |-> 0]>> \o OpenEvents(q)

\* Mutant: a payload that does not decode ends the listener.
Mut_ReadClient(p) ==
    /\ lst[p] = "read" /\ pc[cur[p]] \in {"done", "dead"}
    /\ cur' = [cur EXCEPT ![p] = None]
    /\ \/ /\ Decodes(cur[p]) /\ Listen(p, "post")
          /\ posting' = [posting EXCEPT ![p].listener = LaunchEvents(cur[p])]
       \/ ~Decodes(cur[p]) /\ Listen(p, "off") /\ UNCHANGED posting
    /\ UNCHANGED <<pc, lockVars, sock, backlog, sent, appVars, queue, arrived>>

\* handle_single_instance_client: reads until the client closes or dies.
ReadClient(p) ==
    /\ lst[p] = "read" /\ pc[cur[p]] \in {"done", "dead"}
    /\ cur' = [cur EXCEPT ![p] = None]
    /\ \/ /\ Decodes(cur[p]) /\ Listen(p, "post")
          /\ posting' = [posting EXCEPT ![p].listener = LaunchEvents(cur[p])]
       \/ ~Decodes(cur[p]) /\ Listen(p, "accept") /\ UNCHANGED posting
    /\ UNCHANGED <<pc, lockVars, sock, backlog, sent, appVars, queue, arrived>>

PostEvents(p) ==
    /\ lst[p] = "post"
    /\ \/ Post(p, "listener") /\ UNCHANGED lst
       \/ posting[p].listener = <<>> /\ Listen(p, "accept") /\ UNCHANGED postVars
    /\ UNCHANGED <<pc, lockVars, sock, backlog, cur, sent, appVars>>

-----------------------------------------------------------------------------
(* The main thread of the primary: the bridge installed its native         *)
(* callbacks before the script ran.                                        *)

\* pump_main_thread_dispatches, deliver_*, and emit of the bridge.
Pump(p) ==
    /\ pc[p] = "run" /\ queue[p] # <<>>
    /\ queue' = [queue EXCEPT ![p] = Tail(@)]
    /\ LET e == Head(queue[p]) IN
       \/ /\ e.kind \in listening[p]
          /\ handled' = [handled EXCEPT ![p] = Append(@, e)] /\ UNCHANGED waiting
       \/ /\ e.kind \notin listening[p]
          /\ waiting' = [waiting EXCEPT ![p][e.kind] = Append(@, e)] /\ UNCHANGED handled
    /\ UNCHANGED <<pc, lockVars, sockVars, listening, dropped, posting, arrived>>

\* Mutant: the buffered events stay until the next one is emitted.
Mut_On(p, k) ==
    /\ pc[p] = "run" /\ listening' = [listening EXCEPT ![p] = @ \cup {k}]
    /\ UNCHANGED <<pc, lockVars, sockVars, waiting, handled, dropped, postVars>>

\* on: the new listener is called with the buffered events; when it throws,
\* those after the n-th are gone.
On(p, k) ==
    /\ pc[p] = "run"
    /\ listening' = [listening EXCEPT ![p] = @ \cup {k}]
    /\ waiting' = [waiting EXCEPT ![p][k] = <<>>]
    /\ \E n \in 0..Len(waiting[p][k]) :
         /\ n = 0 => waiting[p][k] = <<>>
         /\ handled' = [handled EXCEPT ![p] = @ \o SubSeq(waiting[p][k], 1, n)]
         /\ dropped' = [dropped EXCEPT ![p] = @ \cup
                          ToSet(SubSeq(waiting[p][k], n + 1, Len(waiting[p][k])))]
    /\ UNCHANGED <<pc, lockVars, sockVars, postVars>>

\* The disposer that on returns.
Off(p, k) ==
    /\ pc[p] = "run"
    /\ k \in listening[p] /\ listening' = [listening EXCEPT ![p] = @ \ {k}]
    /\ UNCHANGED <<pc, lockVars, sockVars, waiting, handled, dropped, postVars>>

\* The process ends, at any step before it is done.
Die(p) ==
    /\ pc[p] \notin {"done", "dead"} /\ Goto(p, "dead")
    /\ guard' = IF guard = p THEN None ELSE guard
    /\ holder' = [f \in Procs |-> IF holder[f] = p THEN None ELSE holder[f]]
    /\ fd' = [fd EXCEPT ![p] = None]
    /\ Listen(p, "off")
    /\ backlog' = [backlog EXCEPT ![p] = <<>>] /\ cur' = [cur EXCEPT ![p] = None]
    /\ posting' = [posting EXCEPT ![p] = [listener |-> <<>>, main |-> <<>>]]
    /\ queue' = [queue EXCEPT ![p] = <<>>]
    /\ listening' = [listening EXCEPT ![p] = {}]
    /\ waiting' = [waiting EXCEPT ![p] = [k \in Kinds |-> <<>>]]
    /\ handled' = [handled EXCEPT ![p] = <<>>] /\ arrived' = [arrived EXCEPT ![p] = <<>>]
    /\ dropped' = [dropped EXCEPT ![p] = {}]
    /\ UNCHANGED <<path, pidIn, sock, sent>>

-----------------------------------------------------------------------------

LockStep(p) ==
    \/ TakeGuard(p) \/ ReadPid(p) \/ UnlinkLock(p) \/ OpenLock(p) \/ FlockLock(p)
    \/ TruncateLock(p) \/ WritePid(p) \/ ReleaseGuard(p)
MainStep(p) == StartListener(p) \/ PostOwn(p) \/ Connect(p) \/ WritePayload(p) \/ Pump(p)
ListenerStep(p) ==
    UnlinkSock(p) \/ Bind(p) \/ ListenSock(p) \/ Accept(p) \/ ReadClient(p) \/ PostEvents(p)
ScriptStep(p) == \E k \in Kinds : On(p, k) \/ Off(p, k)

Next == \E p \in Procs : LockStep(p) \/ MainStep(p) \/ ListenerStep(p) \/ ScriptStep(p) \/ Die(p)

Spec == Init /\ [][Next]_vars

\* Both threads of a live process keep running; a script need not listen.
FairSpec == Spec /\ \A p \in Procs : WF_vars(LockStep(p) \/ MainStep(p)) /\ WF_vars(ListenerStep(p))

-----------------------------------------------------------------------------

MainLabels ==
    {"start", "read", "unlink", "open", "flock", "truncate", "write_pid", "release",
     "primary", "argv", "run", "forward", "write", "done", "dead"}
ListenerLabels == {"off", "unlink", "bind", "listen", "accept", "read", "post", "failed"}
Event == [from : Procs, kind : Kinds, arg : 0..Len(Opens)]

\* The type invariant.
TypeOK ==
    /\ pc \in [Procs -> MainLabels] /\ lst \in [Procs -> ListenerLabels]
    /\ {guard, path, sock} \subseteq Maybe
    /\ pidIn \in [Procs -> Maybe] /\ holder \in [Procs -> Maybe] /\ fd \in [Procs -> Maybe]
    /\ \A p \in Procs : Primary(p) \/ pc[p] \in {"flock", "truncate", "write_pid", "release"} => fd[p] # None
    /\ backlog \in [Procs -> Seq(Procs)] /\ cur \in [Procs -> Maybe] /\ sent \subseteq Procs
    /\ posting \in [Procs -> [listener : Seq(Event), main : Seq(Event)]]
    /\ queue \in [Procs -> Seq(Event)] /\ arrived \in [Procs -> Seq(Event)]
    /\ listening \in [Procs -> SUBSET Kinds] /\ waiting \in [Procs -> [Kinds -> Seq(Event)]]
    /\ handled \in [Procs -> Seq(Event)] /\ dropped \in [Procs -> SUBSET Event]

\* Two processes that run at once never both hold the instance: the check of
\* the recorded pid, the unlink and the new file are only safe under the guard.
OnePrimary == \A p, q \in Procs : Primary(p) /\ Primary(q) => p = q

\* The lock file at the path is the one the running primary has locked, and it
\* records its pid: a later launch finds it and does not clean it up.
LockNamesPrimary ==
    \A p \in Procs : Primary(p) => path = fd[p] /\ holder[fd[p]] = p /\ pidIn[fd[p]] = p

\* A hand-off reaches the primary and nobody else: whoever listens at the
\* socket's path is the primary, no other process replaces its socket, and a
\* socket that a dead primary left behind does not keep it from listening.
EndpointOwned ==
    \A p \in Procs :
      /\ lst[p] \in {"listen", "accept", "read", "post"} => Primary(p) /\ sock = p
      /\ lst[p] # "failed"

\* d was posted before e, in the order s of the posts.
Before(s, d, e) == \E i, j \in DOMAIN s : i < j /\ s[i] = d /\ s[j] = e

\* Where the events of kind k are, those the script saw first in front.
Line(p, k) == handled[p] \o waiting[p][k] \o queue[p]

\* The script sees the events of one kind in the order they were posted, each
\* once, whether it listens early or late; those after a listener that threw
\* in `on` are the only ones it misses.  A launch is posted only when its
\* payload was written to its end, whenever its sender dies.
EventsInOrder ==
    /\ TypeOK
    /\ \A p \in Procs :
      /\ IsInjective(arrived[p])
      /\ \A e \in ToSet(arrived[p]) : e.from \in sent \cup {p}
      /\ \A k \in Kinds :
         LET line == Line(p, k) IN
         /\ {e \in ToSet(line) : e.kind = k} = {e \in ToSet(arrived[p]) : e.kind = k} \ dropped[p]
         /\ \A i, j \in DOMAIN line : i < j /\ line[i].kind = k /\ line[j].kind = k =>
               Before(arrived[p], line[i], line[j])

\* A hand-off that was written to the primary comes to the script, or waits for
\* its listener, as long as the primary lives.
HandoffArrives ==
    \A p \in Procs : \A q \in Procs \ {p} :
      (q \in sent /\ (q \in ToSet(backlog[p]) \/ cur[p] = q))
        ~> (pc[p] = "dead" \/ [from |-> q, kind |-> "second", arg |-> 0]
              \in ToSet(handled[p] \o waiting[p]["second"]) \cup dropped[p])
=============================================================================
