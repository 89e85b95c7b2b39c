------------------------- MODULE IsolateCoordinator -------------------------
(***************************************************************************)
(* The isolate coordinator (src/js/isolate_coordinator.cpp): window        *)
(* runtimes that each own a thread and a V8 isolate, the registry that     *)
(* maps a runtime id to its runtime_state, and the task queue of each      *)
(* runtime.  Callers are the threads that create windows (bind_window.cpp);*)
(* each of them posts to and stops only the runtimes it spawned.  One of   *)
(* them, Main, also runs the static destructor at process exit, which      *)
(* stops whatever is still registered.                                     *)
(*                                                                         *)
(* A step of the model is a critical section or an atomic access of the    *)
(* code.  cv.wait(lock, pred) is three steps: pred is evaluated with mu    *)
(* held, the thread is then about to block with mu still held, and blocking*)
(* releases mu.  stop_runtime stores `stopping` without mu, so its store   *)
(* and its notify may fall between the first two.                          *)
(***************************************************************************)
EXTENDS Naturals, Sequences

CONSTANTS
    Runtimes,   \* runtime ids that next_id_ may hand out (bounds the spawns)
    Callers,    \* threads that call the coordinator
    Main,       \* the caller that runs ~isolate_coordinator
    Tasks,      \* tasks; each is posted at most once (bounds the posts)
    None        \* "no runtime" and "no task"

ASSUME MainAssumption == Main \in Callers
ASSUME NoneAssumption == None \notin Runtimes /\ None \notin Tasks

VARIABLES
    registered, \* keys of runtimes_
    queue,      \* runtime_state::queue
    stopping,   \* runtime_state::stopping
    started,    \* runtime_state::started
    initOk,     \* runtime_state::init_ok
    freed,      \* runtimes whose runtime_state has been destroyed
    rpc,        \* control point of each runtime thread
    current,    \* the task a runtime thread is executing: <<>> or <<t>>
    cpc,        \* control point of each caller inside the coordinator
    target,     \* the runtime_state* a caller holds in a local variable
    item,       \* the task a caller passes to post_task
    owned,      \* ids a caller got from spawn_window_runtime and still holds
    exiting,    \* ~isolate_coordinator has begun
    stopIds     \* runtime_ids of stop_all_runtimes still to be stopped

\* Observer variables: what was promised to the callers and what was done.
VARIABLES
    accepted,   \* tasks for which post_task returned (or will return) true
    executed    \* tasks that have run

threadVars == <<queue, stopping, started, initOk, rpc, current>>
callerVars == <<registered, freed, cpc, target, item, owned, exiting, stopIds>>
observers  == <<accepted, executed>>
vars == <<threadVars, callerVars, observers>>

ThreadPoints == {"none", "boot", "check", "blocking", "waiting", "running", "exited"}
CallerPoints == {"idle", "await", "push", "notifyOne", "setStopping", "notifyAll", "join"}

TypeOK ==
    /\ registered \in SUBSET Runtimes
    /\ queue \in [Runtimes -> Seq(Tasks)]
    /\ stopping \in [Runtimes -> BOOLEAN]
    /\ started \in [Runtimes -> BOOLEAN]
    /\ initOk \in [Runtimes -> BOOLEAN]
    /\ freed \in SUBSET Runtimes
    /\ rpc \in [Runtimes -> ThreadPoints]
    /\ current \in [Runtimes -> Seq(Tasks)]
    /\ cpc \in [Callers -> CallerPoints]
    /\ target \in [Callers -> Runtimes \cup {None}]
    /\ item \in [Callers -> Tasks \cup {None}]
    /\ owned \in [Callers -> SUBSET Runtimes]
    /\ exiting \in BOOLEAN
    /\ stopIds \in SUBSET Runtimes
    /\ accepted \in [Runtimes -> Seq(Tasks)]
    /\ executed \in [Runtimes -> Seq(Tasks)]

Init ==
    /\ registered = {}
    /\ queue = [r \in Runtimes |-> <<>>]
    /\ stopping = [r \in Runtimes |-> FALSE]
    /\ started = [r \in Runtimes |-> FALSE]
    /\ initOk = [r \in Runtimes |-> FALSE]
    /\ freed = {}
    /\ rpc = [r \in Runtimes |-> "none"]
    /\ current = [r \in Runtimes |-> <<>>]
    /\ cpc = [c \in Callers |-> "idle"]
    /\ target = [c \in Callers |-> None]
    /\ item = [c \in Callers |-> None]
    /\ owned = [c \in Callers |-> {}]
    /\ exiting = FALSE
    /\ stopIds = {}
    /\ accepted = [r \in Runtimes |-> <<>>]
    /\ executed = [r \in Runtimes |-> <<>>]

-----------------------------------------------------------------------------
(* The mutex runtime_state::mu is held across steps only by a runtime      *)
(* thread that is about to block in cv.wait.                               *)
MuFree(r) == rpc[r] # "blocking"

(* cv.notify_one and cv.notify_all: the runtime thread is the only waiter  *)
(* of its cv once its spawn has returned.  A thread that is not waiting    *)
(* does not see the notification.                                          *)
Woken(r) == [rpc EXCEPT ![r] = IF @ = "waiting" THEN "check" ELSE @]

(* A caller of the coordinator: Main makes no call of its own after exit   *)
(* has begun.                                                              *)
Idle(c) == cpc[c] = "idle" /\ (c = Main => ~exiting)

-----------------------------------------------------------------------------
(* runtime_thread_main *)

\* The isolate comes up: started and init_ok are set under mu, and the
\* notify_all releases the spawner.
BootOk(r) ==
    /\ rpc[r] = "boot"
    /\ started' = [started EXCEPT ![r] = TRUE]
    /\ initOk' = [initOk EXCEPT ![r] = TRUE]
    /\ rpc' = [rpc EXCEPT ![r] = "check"]
    /\ UNCHANGED <<queue, stopping, current, callerVars, observers>>

\* Mutant: the failure path does not set started.
Mut_BootFail(r) ==
    /\ rpc[r] = "boot"
    /\ initOk' = [initOk EXCEPT ![r] = FALSE]
    /\ stopping' = [stopping EXCEPT ![r] = TRUE]
    /\ rpc' = [rpc EXCEPT ![r] = "exited"]
    /\ UNCHANGED <<queue, started, current, callerVars, observers>>

\* The host constructor throws: both catch blocks.
BootFail(r) ==
    /\ rpc[r] = "boot"
    /\ started' = [started EXCEPT ![r] = TRUE]
    /\ initOk' = [initOk EXCEPT ![r] = FALSE]
    /\ stopping' = [stopping EXCEPT ![r] = TRUE]
    /\ rpc' = [rpc EXCEPT ![r] = "exited"]
    /\ UNCHANGED <<queue, current, callerVars, observers>>

\* Mutant: front() is read but the back is popped.
Mut_TakeTask(r) ==
    /\ rpc[r] = "check"
    /\ queue[r] # <<>>
    /\ current' = [current EXCEPT ![r] = <<Head(queue[r])>>]
    /\ queue' = [queue EXCEPT ![r] = SubSeq(@, 1, Len(@) - 1)]
    /\ rpc' = [rpc EXCEPT ![r] = "running"]
    /\ UNCHANGED <<stopping, started, initOk, callerVars, observers>>

\* With mu held and the predicate of cv.wait true: take the front task.
TakeTask(r) ==
    /\ rpc[r] = "check"
    /\ queue[r] # <<>>
    /\ current' = [current EXCEPT ![r] = <<Head(queue[r])>>]
    /\ queue' = [queue EXCEPT ![r] = Tail(@)]
    /\ rpc' = [rpc EXCEPT ![r] = "running"]
    /\ UNCHANGED <<stopping, started, initOk, callerVars, observers>>

\* Mutant: the loop ends on stopping alone.
Mut_ExitLoop(r) ==
    /\ rpc[r] = "check"
    /\ stopping[r]
    /\ rpc' = [rpc EXCEPT ![r] = "exited"]
    /\ UNCHANGED <<queue, stopping, started, initOk, current, callerVars, observers>>

\* With mu held: stopping and nothing queued, leave the loop.
ExitLoop(r) ==
    /\ rpc[r] = "check"
    /\ queue[r] = <<>>
    /\ stopping[r]
    /\ rpc' = [rpc EXCEPT ![r] = "exited"]
    /\ UNCHANGED <<queue, stopping, started, initOk, current, callerVars, observers>>

\* With mu held: the predicate is false, cv.wait is about to block.
DecideToWait(r) ==
    /\ rpc[r] = "check"
    /\ queue[r] = <<>>
    /\ ~stopping[r]
    /\ rpc' = [rpc EXCEPT ![r] = "blocking"]
    /\ UNCHANGED <<queue, stopping, started, initOk, current, callerVars, observers>>

\* cv.wait releases mu and sleeps.
Block(r) ==
    /\ rpc[r] = "blocking"
    /\ rpc' = [rpc EXCEPT ![r] = "waiting"]
    /\ UNCHANGED <<queue, stopping, started, initOk, current, callerVars, observers>>

\* A condition variable may wake with no notification.
SpuriousWake(r) ==
    /\ rpc[r] = "waiting"
    /\ rpc' = [rpc EXCEPT ![r] = "check"]
    /\ UNCHANGED <<queue, stopping, started, initOk, current, callerVars, observers>>

\* task() returns or throws; either way the loop goes on.
RunTask(r) ==
    /\ rpc[r] = "running"
    /\ executed' = [executed EXCEPT ![r] = Append(@, Head(current[r]))]
    /\ current' = [current EXCEPT ![r] = <<>>]
    /\ rpc' = [rpc EXCEPT ![r] = "check"]
    /\ UNCHANGED <<queue, stopping, started, initOk, callerVars, accepted>>

-----------------------------------------------------------------------------
(* spawn_window_runtime *)

\* A fresh id is registered and std::thread starts runtime_thread_main.
Spawn(c, r) ==
    /\ Idle(c)
    /\ rpc[r] = "none" /\ r \notin freed
    /\ registered' = registered \cup {r}
    /\ rpc' = [rpc EXCEPT ![r] = "boot"]
    /\ cpc' = [cpc EXCEPT ![c] = "await"]
    /\ target' = [target EXCEPT ![c] = r]
    /\ UNCHANGED <<queue, stopping, started, initOk, current, freed, item,
                   owned, exiting, stopIds, observers>>

\* std::thread throws: the id is unregistered again and 0 is returned.
SpawnNoThread(c, r) ==
    /\ Idle(c)
    /\ rpc[r] = "none" /\ r \notin freed
    /\ freed' = freed \cup {r}
    /\ UNCHANGED <<threadVars, registered, cpc, target, item, owned, exiting,
                   stopIds, observers>>

\* The spawner sees started && init_ok and returns the id.
SpawnReturn(c) ==
    /\ cpc[c] = "await"
    /\ LET r == target[c] IN
        /\ r \notin freed
        /\ MuFree(r)
        /\ started[r]
        /\ initOk[r]
        /\ owned' = [owned EXCEPT ![c] = @ \cup {r}]
    /\ cpc' = [cpc EXCEPT ![c] = "idle"]
    /\ target' = [target EXCEPT ![c] = None]
    /\ UNCHANGED <<threadVars, registered, freed, item, exiting, stopIds, observers>>

-----------------------------------------------------------------------------
(* stop_runtime *)

\* Under runtimes_mu_: take the state out of the registry, or return false.
Unregister(c, r) ==
    IF r \in registered
    THEN /\ registered' = registered \ {r}
         /\ cpc' = [cpc EXCEPT ![c] = "setStopping"]
         /\ target' = [target EXCEPT ![c] = r]
    ELSE /\ cpc' = [cpc EXCEPT ![c] = "idle"]
         /\ target' = [target EXCEPT ![c] = None]
         /\ UNCHANGED registered

\* Mutant: any caller may stop any registered runtime.
Mut_StopRuntime(c, r) ==
    /\ Idle(c)
    /\ r \in registered
    /\ owned' = [owned EXCEPT ![c] = @ \ {r}]
    /\ Unregister(c, r)
    /\ UNCHANGED <<threadVars, freed, item, exiting, stopIds, observers>>

\* The owner of a window closes it (win_holder::on_finalize).
StopRuntime(c, r) ==
    /\ Idle(c)
    /\ r \in owned[c]
    /\ owned' = [owned EXCEPT ![c] = @ \ {r}]
    /\ Unregister(c, r)
    /\ UNCHANGED <<threadVars, freed, item, exiting, stopIds, observers>>

\* spawn_window_runtime sees that the isolate did not come up.
SpawnFailed(c) ==
    /\ cpc[c] = "await"
    /\ target[c] \notin freed
    /\ MuFree(target[c])
    /\ started[target[c]]
    /\ ~initOk[target[c]]
    /\ Unregister(c, target[c])
    /\ UNCHANGED <<threadVars, freed, item, owned, exiting, stopIds, observers>>

\* stopping.store(true), without mu.
SetStopping(c) ==
    /\ cpc[c] = "setStopping"
    /\ stopping' = [stopping EXCEPT ![target[c]] = TRUE]
    /\ cpc' = [cpc EXCEPT ![c] = "notifyAll"]
    /\ UNCHANGED <<queue, started, initOk, rpc, current, registered, freed, target,
                   item, owned, exiting, stopIds, observers>>

\* cv.notify_all(), without mu.
NotifyAll(c) ==
    /\ cpc[c] = "notifyAll"
    /\ rpc' = Woken(target[c])
    /\ cpc' = [cpc EXCEPT ![c] = "join"]
    /\ UNCHANGED <<queue, stopping, started, initOk, current, registered, freed, target,
                   item, owned, exiting, stopIds, observers>>

\* thread.join() returns and the unique_ptr destroys the state.
Join(c) ==
    /\ cpc[c] = "join"
    /\ rpc[target[c]] = "exited"
    /\ freed' = freed \cup {target[c]}
    /\ cpc' = [cpc EXCEPT ![c] = "idle"]
    /\ target' = [target EXCEPT ![c] = None]
    /\ UNCHANGED <<threadVars, registered, item, owned, exiting, stopIds, observers>>

-----------------------------------------------------------------------------
(* stop_all_runtimes, from the destructor of the static coordinator *)

\* Under runtimes_mu_: snapshot the ids.
StopAllBegin ==
    /\ cpc[Main] = "idle"
    /\ ~exiting
    /\ exiting' = TRUE
    /\ stopIds' = registered
    /\ UNCHANGED <<threadVars, registered, freed, cpc, target, item, owned, observers>>

StopAllNext(r) ==
    /\ cpc[Main] = "idle"
    /\ r \in stopIds
    /\ stopIds' = stopIds \ {r}
    /\ Unregister(Main, r)
    /\ UNCHANGED <<threadVars, freed, item, owned, exiting, observers>>

-----------------------------------------------------------------------------
(* post_task *)

\* Under runtimes_mu_: find the state.  An unknown id returns false.
PostLookup(c, r, t) ==
    /\ Idle(c)
    /\ r \in owned[c]
    /\ r \in registered
    /\ \A s \in Runtimes : \A i \in 1..Len(accepted[s]) : accepted[s][i] # t
    /\ \A d \in Callers : item[d] # t
    /\ cpc' = [cpc EXCEPT ![c] = "push"]
    /\ target' = [target EXCEPT ![c] = r]
    /\ item' = [item EXCEPT ![c] = t]
    /\ UNCHANGED <<threadVars, registered, freed, owned, exiting, stopIds, observers>>

\* Under mu: refused when stopping.
PostRefused(c) ==
    /\ cpc[c] = "push"
    /\ target[c] \notin freed
    /\ MuFree(target[c])
    /\ stopping[target[c]]
    /\ cpc' = [cpc EXCEPT ![c] = "idle"]
    /\ target' = [target EXCEPT ![c] = None]
    /\ item' = [item EXCEPT ![c] = None]
    /\ UNCHANGED <<threadVars, registered, freed, owned, exiting, stopIds, observers>>

\* Mutant: stopping is not tested under mu.
Mut_PostPush(c) ==
    /\ cpc[c] = "push"
    /\ target[c] \notin freed
    /\ MuFree(target[c])
    /\ queue' = [queue EXCEPT ![target[c]] = Append(@, item[c])]
    /\ accepted' = [accepted EXCEPT ![target[c]] = Append(@, item[c])]
    /\ cpc' = [cpc EXCEPT ![c] = "notifyOne"]
    /\ item' = [item EXCEPT ![c] = None]
    /\ UNCHANGED <<stopping, started, initOk, rpc, current, registered, freed, target,
                   owned, exiting, stopIds, executed>>

\* Under mu: queued.
PostPush(c) ==
    /\ cpc[c] = "push"
    /\ target[c] \notin freed
    /\ MuFree(target[c])
    /\ ~stopping[target[c]]
    /\ queue' = [queue EXCEPT ![target[c]] = Append(@, item[c])]
    /\ accepted' = [accepted EXCEPT ![target[c]] = Append(@, item[c])]
    /\ cpc' = [cpc EXCEPT ![c] = "notifyOne"]
    /\ item' = [item EXCEPT ![c] = None]
    /\ UNCHANGED <<stopping, started, initOk, rpc, current, registered, freed, target,
                   owned, exiting, stopIds, executed>>

\* Mutant: no notify after the push.
Mut_PostNotify(c) ==
    /\ cpc[c] = "notifyOne"
    /\ target[c] \notin freed
    /\ cpc' = [cpc EXCEPT ![c] = "idle"]
    /\ target' = [target EXCEPT ![c] = None]
    /\ UNCHANGED <<threadVars, registered, freed, item, owned, exiting, stopIds, observers>>

\* After the unlock: cv.notify_one().
PostNotify(c) ==
    /\ cpc[c] = "notifyOne"
    /\ target[c] \notin freed
    /\ rpc' = Woken(target[c])
    /\ cpc' = [cpc EXCEPT ![c] = "idle"]
    /\ target' = [target EXCEPT ![c] = None]
    /\ UNCHANGED <<queue, stopping, started, initOk, current, registered, freed, item,
                   owned, exiting, stopIds, observers>>

\* The state was destroyed by stop_all_runtimes while the caller held a raw
\* pointer to it.  The access is undefined; the caller gets either answer.
TouchFreed(c) ==
    /\ cpc[c] \in {"await", "push", "notifyOne"}
    /\ target[c] \in freed
    /\ \/ UNCHANGED owned
       \/ /\ cpc[c] = "await"
          /\ owned' = [owned EXCEPT ![c] = @ \cup {target[c]}]
    /\ cpc' = [cpc EXCEPT ![c] = "idle"]
    /\ target' = [target EXCEPT ![c] = None]
    /\ item' = [item EXCEPT ![c] = None]
    /\ UNCHANGED <<threadVars, registered, freed, exiting, stopIds, observers>>

-----------------------------------------------------------------------------
ThreadStep(r) ==
    \/ BootOk(r)
    \/ BootFail(r)
    \/ TakeTask(r)
    \/ ExitLoop(r)
    \/ DecideToWait(r)
    \/ Block(r)
    \/ RunTask(r)

\* A call that has begun goes on by itself ...
CallStep(c) ==
    \/ SpawnReturn(c)
    \/ SpawnFailed(c)
    \/ SetStopping(c)
    \/ NotifyAll(c)
    \/ Join(c)
    \/ PostRefused(c)
    \/ PostPush(c)
    \/ PostNotify(c)
    \/ TouchFreed(c)

\* ... but nothing obliges a caller to make one.
CallBegin(c) ==
    \E r \in Runtimes :
        \/ Spawn(c, r)
        \/ SpawnNoThread(c, r)
        \/ StopRuntime(c, r)
        \/ \E t \in Tasks : PostLookup(c, r, t)

Next ==
    \/ \E r \in Runtimes : ThreadStep(r) \/ SpuriousWake(r) \/ StopAllNext(r)
    \/ \E c \in Callers : CallStep(c) \/ CallBegin(c)
    \/ StopAllBegin

\* Every runtime thread and every call in progress is scheduled by the OS, and
\* a caller that waits for a mutex gets it if it keeps being released (strong
\* fairness of CallStep).  Spurious wakeups may happen and need not.
Fairness ==
    /\ \A r \in Runtimes : WF_vars(ThreadStep(r)) /\ WF_vars(StopAllNext(r))
    /\ \A c \in Callers : SF_vars(CallStep(c))

Spec == Init /\ [][Next]_vars

FairSpec == Spec /\ Fairness
-----------------------------------------------------------------------------
(***************************************************************************)
(* Properties.                                                             *)
(***************************************************************************)

(* No accepted task is lost, duplicated or reordered: what post_task has   *)
(* accepted for a runtime is what its thread has run, then what it is      *)
(* running, then what is queued (post_task, the loop of                    *)
(* runtime_thread_main).                                                   *)
NothingLost ==
    \A r \in Runtimes : accepted[r] = executed[r] \o current[r] \o queue[r]

(* "pending queued tasks drain before the thread exits": a runtime thread  *)
(* that has left its loop has run every task post_task ever accepted, also *)
(* the ones accepted while stop_runtime was racing with the post, and no   *)
(* post can be accepted after that.                                        *)
DrainedBeforeExit ==
    \A r \in Runtimes :
        rpc[r] = "exited" => /\ executed[r] = accepted[r]
                             /\ queue[r] = <<>>
                             /\ stopping[r]

(* While the process is not exiting no caller holds a raw runtime_state*   *)
(* whose state stop_runtime has destroyed (post_task and                   *)
(* spawn_window_runtime use the pointer after releasing runtimes_mu_).     *)
RawPointerLive ==
    ~exiting => \A c \in Callers : cpc[c] # "idle" => target[c] \notin freed

(* Every accepted task is eventually executed, whether or not the runtime  *)
(* is stopped meanwhile: a wakeup may be lost only when the queue is empty.*)
AcceptedRuns ==
    \A r \in Runtimes, n \in 1..2 :
        (Len(accepted[r]) >= n) ~> (Len(executed[r]) >= n)

(* spawn_window_runtime always gets past its wait for `started`, when the  *)
(* isolate comes up and when it does not.                                  *)
SpawnAnswered ==
    \A c \in Callers : (cpc[c] = "await") ~> (cpc[c] # "await")

(* "Stop a runtime cleanly": stop_runtime returns.                         *)
StopReturns ==
    \A c \in Callers : (cpc[c] = "join") ~> (cpc[c] # "join")

\* The runtime threads implement the task-runner specification.
Phase(r) ==
    IF rpc[r] = "exited" THEN "finished"
    ELSE IF stopping[r] THEN "closed" ELSE "open"

Executor == INSTANCE SerialExecutor WITH phase <- [r \in Runtimes |-> Phase(r)]

(* Refinement: every step of the coordinator is a step of SerialExecutor   *)
(* or leaves it unchanged, so accepted tasks run once, in order, before    *)
(* the thread finishes.                                                    *)
ImplementsExecutor == Executor!ExecSpec
=============================================================================
