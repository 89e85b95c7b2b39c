------------------------------- MODULE UvLoop -------------------------------
(***************************************************************************)
(* The process-wide libuv loop (src/runtime/uv_loop.cpp): work posted from *)
(* any thread, pump callbacks, microtask checkpoints, and the shutdown     *)
(* that the static destructor runs.                                        *)
(*                                                                         *)
(* Pumpers are the threads that call pump_nowait: the main thread once per *)
(* frame, and worker threads from pump_until_settled while the module they *)
(* load awaits (v8_host.cpp).  Posters call try_post.  A step is one       *)
(* critical section, one atomic access or one callback.  A callback may    *)
(* post; a callback that pumps again is not modelled.                      *)
(***************************************************************************)
EXTENDS Naturals, Sequences, FiniteSets, SequencesExt

CONSTANTS
    Pumpers,    \* threads that pump the loop
    Main,       \* the pumper that runs ~uv_loop_runtime
    Posters,    \* threads that only post
    Jobs,       \* callbacks to post, each at most once (bound)
    Clients     \* pump callbacks to register, each at most once (bound)

ASSUME MainAssumption == Main \in Pumpers
ASSUME ThreadsAssumption == Pumpers \cap Posters = {}

Threads == Pumpers \cup Posters

VARIABLES
    closed, stopping,   \* closed_, stopping_
    loopReady,          \* loop_ready_
    asyncOpen,          \* async_ is an open handle
    asyncPending,       \* uv_async_send was called and not yet delivered
    work,               \* work_
    errors,             \* errors_: the sites whose callbacks have thrown
    callbacks,          \* callbacks_, in order of registration
    stage,              \* control point of each pumper
    batch,              \* the deque drain_posted_callbacks swapped out
    current,            \* callback a pumper is in: <<>> or <<j>>
    snapshot,           \* the vector run_pump_callbacks copied
    posting,            \* what a thread inside try_post posts: <<>> or <<j>>
    down                \* control point of shutdown()

\* Observer variables.
VARIABLES
    accepted,           \* jobs for which try_post returned true, in order
    executed,           \* jobs that ran to their end, on each pumper
    discarded,          \* jobs that shutdown threw away
    unflushed,          \* pumpers that ran a job after their last checkpoint
    clientsSeen         \* pump callbacks ever registered

flagVars == <<closed, stopping, loopReady, asyncOpen, down>>
cbVars   == <<callbacks, snapshot, clientsSeen>>
jobVars  == <<work, batch, current, posting, accepted, executed, discarded>>
vars == <<flagVars, cbVars, jobVars, asyncPending, errors, stage, unflushed>>

SwapStages == {"swap1", "swap2", "swap3"}
RunStages  == {"run1", "run2", "run3"}
Stages == {"idle", "snap", "clients", "micro1", "uv", "micro2", "halted"} \cup SwapStages \cup RunStages
DownPoints == {"up", "flag", "clear", "walk", "close", "done"}

Sites == {"pump", "posted", "microtask"}

Elements(s) == {s[i] : i \in DOMAIN s}

TypeOK ==
    /\ closed \in BOOLEAN /\ stopping \in BOOLEAN
    /\ loopReady \in BOOLEAN /\ asyncOpen \in BOOLEAN /\ asyncPending \in BOOLEAN
    /\ work \in Seq(Jobs)
    /\ errors \in SUBSET Sites
    /\ callbacks \in Seq(Clients)
    /\ stage \in [Pumpers -> Stages]
    /\ batch \in [Pumpers -> Seq(Jobs)]
    /\ current \in [Pumpers -> {<<>>} \cup {<<j>> : j \in Jobs}]
    /\ snapshot \in [Pumpers -> Seq(Clients)]
    /\ posting \in [Threads -> {<<>>} \cup {<<j>> : j \in Jobs}]
    /\ down \in DownPoints
    /\ accepted \in Seq(Jobs)
    /\ executed \in [Pumpers -> Seq(Jobs)]
    /\ discarded \in SUBSET Jobs
    /\ unflushed \in SUBSET Pumpers
    /\ clientsSeen \in SUBSET Clients

\* The singleton after a successful construction.
Init ==
    /\ closed = FALSE /\ stopping = FALSE
    /\ loopReady = TRUE /\ asyncOpen = TRUE /\ asyncPending = FALSE
    /\ work = <<>>
    /\ errors = {}
    /\ callbacks = <<>>
    /\ stage = [p \in Pumpers |-> "idle"]
    /\ batch = [p \in Pumpers |-> <<>>]
    /\ current = [p \in Pumpers |-> <<>>]
    /\ snapshot = [p \in Pumpers |-> <<>>]
    /\ posting = [t \in Threads |-> <<>>]
    /\ down = "up"
    /\ accepted = <<>>
    /\ executed = [p \in Pumpers |-> <<>>]
    /\ discarded = {}
    /\ unflushed = {}
    /\ clientsSeen = {}
-----------------------------------------------------------------------------
(* try_post and post *)

\* A poster at any time, a pumper from inside a job.
MayPost(t) == posting[t] = <<>> /\ (t \in Pumpers => current[t] # <<>> /\ stage[t] # "halted")

\* init_status_ and loop_ready_ are read without a lock.  loop_ready_ is a
\* plain bool that shutdown writes: a reader may still see true afterwards.
TryPost(t, j) ==
    /\ MayPost(t)
    /\ j \notin Elements(accepted)
    /\ \A u \in Threads : j \notin Elements(posting[u])
    /\ posting' = [posting EXCEPT ![t] = <<j>>]
    /\ UNCHANGED <<flagVars, cbVars, work, batch, current, accepted, executed, discarded,
                   asyncPending, errors, stage, unflushed>>

\* Under work_mu_: refused once shutdown has begun.
TryPostRefused(t) ==
    /\ posting[t] # <<>>
    /\ stopping \/ closed
    /\ posting' = [posting EXCEPT ![t] = <<>>]
    /\ UNCHANGED <<flagVars, cbVars, work, batch, current, accepted, executed, discarded,
                   asyncPending, errors, stage, unflushed>>

\* Mutant: the flags are not tested again under work_mu_.
Mut_TryPostPush(t) ==
    /\ posting[t] # <<>>
    /\ work' = work \o posting[t]
    /\ accepted' = accepted \o posting[t]
    /\ asyncPending' = TRUE
    /\ posting' = [posting EXCEPT ![t] = <<>>]
    /\ UNCHANGED <<flagVars, cbVars, batch, current, executed, discarded, errors, stage,
                   unflushed>>

\* Under work_mu_: queued, and the async handle is signalled.
TryPostPush(t) ==
    /\ posting[t] # <<>>
    /\ ~stopping /\ ~closed
    /\ work' = work \o posting[t]
    /\ accepted' = accepted \o posting[t]
    /\ asyncPending' = TRUE
    /\ posting' = [posting EXCEPT ![t] = <<>>]
    /\ UNCHANGED <<flagVars, cbVars, batch, current, executed, discarded, errors, stage,
                   unflushed>>
-----------------------------------------------------------------------------
(* report_error and drain_errors.  Which of several errors of one site and *)
(* how many is abstracted away.                                            *)

\* A callback called at a site either throws or does not.
ReportAt(site) == errors' \in {errors, errors \cup {site}}

DrainErrors ==
    /\ errors # {}
    /\ errors' = {}
    /\ UNCHANGED <<flagVars, cbVars, jobVars, asyncPending, stage, unflushed>>
-----------------------------------------------------------------------------
(* pump callbacks *)

\* register_pump_callback: refused when the loop is not available().
Register(k) ==
    /\ k \notin clientsSeen
    /\ loopReady /\ ~closed
    /\ callbacks' = Append(callbacks, k)
    /\ clientsSeen' = clientsSeen \cup {k}
    /\ UNCHANGED <<flagVars, snapshot, jobVars, asyncPending, errors, stage, unflushed>>

\* unregister_pump_callback erases the first entry with the id.
Unregister(k) ==
    /\ \E i \in DOMAIN callbacks :
          /\ callbacks[i] = k
          /\ \A n \in 1..(i - 1) : callbacks[n] # k
          /\ callbacks' = RemoveAt(callbacks, i)
    /\ UNCHANGED <<flagVars, snapshot, clientsSeen, jobVars, asyncPending, errors, stage,
                   unflushed>>
-----------------------------------------------------------------------------
(* pump_nowait *)

\* Where a pumper goes when the current stage is done.
After == [snap   |-> "clients", clients |-> "swap1",
          swap1  |-> "run1",    run1    |-> "micro1", micro1 |-> "uv",
          swap2  |-> "run2",    run2    |-> "swap3",
          swap3  |-> "run3",    run3    |-> "micro2", micro2 |-> "idle"]

Advance(p) == stage' = [stage EXCEPT ![p] = After[@]]

\* The guards: a closed loop is not pumped.
PumpBegin(p) ==
    /\ stage[p] = "idle"
    /\ loopReady /\ ~closed /\ ~stopping
    /\ stage' = [stage EXCEPT ![p] = "snap"]
    /\ UNCHANGED <<flagVars, cbVars, jobVars, asyncPending, errors, unflushed>>

\* run_pump_callbacks copies the list under callbacks_mu_ ...
SnapshotClients(p) ==
    /\ stage[p] = "snap"
    /\ snapshot' = [snapshot EXCEPT ![p] = callbacks]
    /\ Advance(p)
    /\ UNCHANGED <<flagVars, callbacks, clientsSeen, jobVars, asyncPending, errors, unflushed>>

\* ... and calls the copies; one that throws is reported.
RunClient(p) ==
    /\ stage[p] = "clients"
    /\ snapshot[p] # <<>>
    /\ snapshot' = [snapshot EXCEPT ![p] = Tail(@)]
    /\ ReportAt("pump")
    /\ UNCHANGED <<flagVars, callbacks, clientsSeen, jobVars, asyncPending, stage, unflushed>>

ClientsDone(p) ==
    /\ stage[p] = "clients"
    /\ snapshot[p] = <<>>
    /\ Advance(p)
    /\ UNCHANGED <<flagVars, cbVars, jobVars, asyncPending, errors, unflushed>>

\* Mutant: the queue is copied instead of swapped.
Mut_DrainSwap(p) ==
    /\ stage[p] \in SwapStages
    /\ batch' = [batch EXCEPT ![p] = work]
    /\ Advance(p)
    /\ UNCHANGED <<flagVars, cbVars, work, current, posting, accepted, executed, discarded,
                   asyncPending, errors, unflushed>>

\* drain_posted_callbacks: the queue is swapped out under work_mu_ ...
DrainSwap(p) ==
    /\ stage[p] \in SwapStages
    /\ batch' = [batch EXCEPT ![p] = work]
    /\ work' = <<>>
    /\ Advance(p)
    /\ UNCHANGED <<flagVars, cbVars, current, posting, accepted, executed, discarded,
                   asyncPending, errors, unflushed>>

\* ... and its callbacks are called in order.
StartJob(p) ==
    /\ stage[p] \in RunStages
    /\ current[p] = <<>>
    /\ batch[p] # <<>>
    /\ current' = [current EXCEPT ![p] = <<Head(batch[p])>>]
    /\ batch' = [batch EXCEPT ![p] = Tail(@)]
    /\ UNCHANGED <<flagVars, cbVars, work, posting, accepted, executed, discarded,
                   asyncPending, errors, stage, unflushed>>

\* Mutant: the exception leaves the loop, the rest of the batch is destroyed.
Mut_EndJob(p) ==
    /\ current[p] # <<>>
    /\ stage[p] # "halted"
    /\ posting[p] = <<>>
    /\ executed' = [executed EXCEPT ![p] = @ \o current[p]]
    /\ current' = [current EXCEPT ![p] = <<>>]
    /\ unflushed' = unflushed \cup {p}
    /\ \/ UNCHANGED <<batch, errors>>
       \/ errors' = errors \cup {"posted"} /\ batch' = [batch EXCEPT ![p] = <<>>]
    /\ UNCHANGED <<flagVars, cbVars, work, posting, accepted, discarded, asyncPending, stage>>

\* The callback returns or throws; the loop goes on with the next one.
EndJob(p) ==
    /\ current[p] # <<>>
    /\ stage[p] # "halted"
    /\ posting[p] = <<>>
    /\ executed' = [executed EXCEPT ![p] = @ \o current[p]]
    /\ current' = [current EXCEPT ![p] = <<>>]
    /\ unflushed' = unflushed \cup {p}
    /\ ReportAt("posted")
    /\ UNCHANGED <<flagVars, cbVars, work, batch, posting, accepted, discarded, asyncPending,
                   stage>>

\* Mutant: no checkpoint after the second drain.
Mut_DrainDone(p) ==
    /\ stage[p] \in RunStages
    /\ current[p] = <<>>
    /\ batch[p] = <<>>
    /\ stage' = [stage EXCEPT ![p] = IF @ = "run3" THEN "idle" ELSE After[@]]
    /\ UNCHANGED <<flagVars, cbVars, jobVars, asyncPending, errors, unflushed>>

DrainDone(p) ==
    /\ stage[p] \in RunStages
    /\ current[p] = <<>>
    /\ batch[p] = <<>>
    /\ Advance(p)
    /\ UNCHANGED <<flagVars, cbVars, jobVars, asyncPending, errors, unflushed>>

\* run_microtask_checkpoint; a checkpoint that throws is reported.
Checkpoint(p) ==
    /\ stage[p] \in {"micro1", "micro2"}
    /\ unflushed' = unflushed \ {p}
    /\ ReportAt("microtask")
    /\ Advance(p)
    /\ UNCHANGED <<flagVars, cbVars, jobVars, asyncPending>>

\* uv_run(NOWAIT): a pending async handle calls async_dispatch, which drains.
UvRun(p) ==
    /\ stage[p] = "uv"
    /\ asyncPending' = FALSE
    /\ stage' = [stage EXCEPT ![p] = IF asyncPending THEN "swap2" ELSE "swap3"]
    /\ UNCHANGED <<flagVars, cbVars, jobVars, errors, unflushed>>
-----------------------------------------------------------------------------
(* shutdown, on the main thread at exit: between pumps, or from inside a   *)
(* callback that calls std::exit, in which case the pump never resumes.    *)

ShutdownBegin ==
    /\ down = "up"
    /\ stage[Main] = "idle" \/ current[Main] # <<>>
    /\ posting[Main] = <<>>
    /\ closed' = TRUE
    /\ down' = "flag"
    /\ stage' = [stage EXCEPT ![Main] = "halted"]
    /\ discarded' = discarded \cup Elements(current[Main] \o batch[Main])
    /\ UNCHANGED <<stopping, loopReady, asyncOpen, cbVars, work, batch, current, posting,
                   accepted, executed, asyncPending, errors, unflushed>>

ShutdownFlag ==
    /\ down = "flag"
    /\ stopping' = TRUE
    /\ down' = "clear"
    /\ UNCHANGED <<closed, loopReady, asyncOpen, cbVars, jobVars, asyncPending, errors, stage,
                   unflushed>>

\* Under work_mu_.
ShutdownClear ==
    /\ down = "clear"
    /\ work' = <<>>
    /\ discarded' = discarded \cup Elements(work)
    /\ down' = "walk"
    /\ UNCHANGED <<closed, stopping, loopReady, asyncOpen, cbVars, batch, current, posting,
                   accepted, executed, asyncPending, errors, stage, unflushed>>

\* uv_walk closes every handle and uv_run(DEFAULT) runs the close callbacks.
ShutdownWalk ==
    /\ down = "walk"
    /\ asyncOpen' = FALSE
    /\ down' = "close"
    /\ UNCHANGED <<closed, stopping, loopReady, cbVars, jobVars, asyncPending, errors, stage,
                   unflushed>>

ShutdownClose ==
    /\ down = "close"
    /\ loopReady' = FALSE
    /\ down' = "done"
    /\ UNCHANGED <<closed, stopping, asyncOpen, cbVars, jobVars, asyncPending, errors, stage,
                   unflushed>>
-----------------------------------------------------------------------------
PumpStep(p) ==
    \/ SnapshotClients(p)
    \/ RunClient(p)
    \/ ClientsDone(p)
    \/ DrainSwap(p)
    \/ StartJob(p)
    \/ EndJob(p)
    \/ DrainDone(p)
    \/ Checkpoint(p)
    \/ UvRun(p)

PostStep(t) == TryPostRefused(t) \/ TryPostPush(t)

ShutdownStep == ShutdownFlag \/ ShutdownClear \/ ShutdownWalk \/ ShutdownClose

Next ==
    \/ \E p \in Pumpers : PumpBegin(p) \/ PumpStep(p)
    \/ \E t \in Threads : PostStep(t) \/ \E j \in Jobs : TryPost(t, j)
    \/ \E k \in Clients : Register(k) \/ Unregister(k)
    \/ DrainErrors
    \/ ShutdownBegin
    \/ ShutdownStep

Spec == Init /\ [][Next]_vars

\* The main loop pumps every frame; a worker pumps when it likes, but a pump
\* that has begun, a call of try_post and a shutdown go on.
Fairness ==
    /\ WF_vars(PumpBegin(Main))
    /\ \A p \in Pumpers : WF_vars(PumpStep(p))
    /\ \A t \in Threads : WF_vars(PostStep(t))
    /\ WF_vars(ShutdownStep)

FairSpec == Spec /\ Fairness
-----------------------------------------------------------------------------
(***************************************************************************)
(* Properties.                                                             *)
(***************************************************************************)

(* Jobs a pumper holds. *)
Held(p) == IF stage[p] = "halted" THEN <<>> ELSE current[p] \o batch[p]

(* Every thread runs callbacks in the order in which try_post accepted     *)
(* them: what it has executed, is executing and has swapped out, followed  *)
(* by what is still queued, is in order of acceptance, although a callback *)
(* may post, every pump drains up to three times and another thread may    *)
(* take a batch in between.                                                *)
PostedFifo ==
    \A p \in Pumpers :
        LET line == executed[p] \o Held(p) \o work IN
        \A i, k \in DOMAIN line : i < k =>
            \E m, n \in DOMAIN accepted : /\ m < n
                                          /\ accepted[m] = line[i]
                                          /\ accepted[n] = line[k]

(* Where a job is. *)
Places(j) ==
    (UNION {{<<"executed", p, i>> : i \in {n \in DOMAIN executed[p] : executed[p][n] = j}}
                : p \in Pumpers})
    \cup {<<"queued", Main, i>> : i \in {n \in DOMAIN work : work[n] = j}}
    \cup (UNION {{<<"held", p, i>> : i \in {n \in DOMAIN Held(p) : Held(p)[n] = j}} : p \in Pumpers})
    \cup {<<"discarded", Main, 0>> : x \in discarded \cap {j}}

(* Every accepted job is in exactly one place: executed, running or        *)
(* swapped out by one pumper, queued, or discarded, and it is discarded    *)
(* only by shutdown (try_post, drain_posted_callbacks, shutdown).          *)
JobsOnce ==
    /\ \A j \in Jobs : Cardinality(Places(j)) = IF j \in Elements(accepted) THEN 1 ELSE 0
    /\ discarded # {} => closed

(* The two together: posted work is run once and in order.                 *)
JobsInOrder == TypeOK /\ JobsOnce /\ PostedFifo

(* After shutdown has cleared work_, nothing is ever queued again and the  *)
(* closed async handle is not signalled: try_post tests the flags under    *)
(* the mutex that the clear takes (try_post against shutdown).             *)
NothingAfterClear == down \in {"walk", "close", "done"} => work = <<>>

(* Every pump that ran callbacks ends with a microtask checkpoint after    *)
(* them, whatever was posted while it ran.                                 *)
MicrotasksFlushed ==
    \A p \in Pumpers : stage[p] = "idle" => p \notin unflushed

(* A job that try_post accepted is executed, or the loop is shut down.     *)
PostedRuns ==
    \A j \in Jobs : (j \in Elements(accepted)) ~> ((\E p \in Pumpers : j \in Elements(executed[p])) \/ closed)
=============================================================================
