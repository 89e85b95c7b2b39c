------------------------------- MODULE Timers -------------------------------
(***************************************************************************)
(* Timers and animation frames of one isolate (src/js/bind_timers.cpp).    *)
(* Everything runs on the isolate's thread; what makes it hard is that     *)
(* callbacks run in the middle of a drain and may schedule, clear, cancel  *)
(* or throw there.  The clock moves between any two steps.                 *)
(*                                                                         *)
(* The priority queue orders nodes by deadline only, so any node with the  *)
(* least deadline may be its top.  Delays are whole ticks; a negative or   *)
(* NaN delay has already become 0.                                         *)
(***************************************************************************)
EXTENDS Naturals, Sequences, FiniteSets, SequencesExt

CONSTANTS
    MaxTimers,  \* timers created (bound)
    MaxRafs,    \* animation frame requests (bound)
    Delays,     \* delays a script asks for
    MaxTime,    \* ticks (bound)
    MayThrow    \* whether callbacks may throw

ASSUME TimersAssumption == MaxTimers \in Nat /\ MaxRafs \in Nat /\ MaxTime \in Nat
ASSUME DelaysAssumption == Delays \subseteq Nat
ASSUME MayThrowAssumption == MayThrow \in BOOLEAN

Ids == 1..MaxTimers
RafIds == 1..MaxRafs

VARIABLES
    now,            \* clock::now()
    nextId,         \* next_id
    active,         \* keys of active
    deadline,       \* timer_entry::deadline
    repeat,         \* timer_entry::repeat
    interval,       \* timer_entry::interval_ms
    heap,           \* heap: nodes [deadline, id]
    pc,             \* where the thread is
    drainNow,       \* `now` of drain_due_timers
    due,            \* `due` of drain_due_timers, what is left of it
    firing,         \* the timer whose callback is running, or 0
    nextRaf,        \* next_raf_id
    rafQueue,       \* raf_queue
    rafCancelled,   \* raf_cancelled
    frame,          \* `current` of drain_animation_frames, what is left of it
    skip            \* `cancelled` of drain_animation_frames

\* Observer variables.
VARIABLES
    cleared,        \* timers passed to clearTimeout or clearInterval
    fresh,          \* timers armed since the current drain began
    stranded,       \* active timers that a throwing callback left behind
    freshRafs,      \* frames requested since the current frame began
    lastRaf         \* the last animation frame callback called

timerVars == <<nextId, active, deadline, repeat, interval, heap>>
drainVars == <<drainNow, due, firing>>
rafVars   == <<nextRaf, rafQueue, rafCancelled, frame, skip, freshRafs, lastRaf>>
obsVars   == <<cleared, fresh, stranded>>
vars == <<now, timerVars, pc, drainVars, rafVars, obsVars>>

Points == {"idle", "collect", "dispatch", "timer", "frame", "raf"}
Node == [deadline : Nat, id : Ids]

TypeOK ==
    /\ now \in 0..MaxTime
    /\ nextId \in 1..(MaxTimers + 1)
    /\ active \in SUBSET Ids
    /\ deadline \in [Ids -> Nat]
    /\ repeat \in [Ids -> BOOLEAN]
    /\ interval \in [Ids -> Nat]
    /\ heap \in SUBSET Node
    /\ pc \in Points
    /\ drainNow \in 0..MaxTime
    /\ due \in Seq(Ids)
    /\ firing \in Ids \cup {0}
    /\ nextRaf \in 1..(MaxRafs + 1)
    /\ rafQueue \in Seq(RafIds)
    /\ rafCancelled \in SUBSET RafIds
    /\ frame \in Seq(RafIds)
    /\ skip \in SUBSET RafIds
    /\ cleared \in SUBSET Ids
    /\ fresh \in SUBSET Ids
    /\ stranded \in SUBSET Ids
    /\ freshRafs \in SUBSET RafIds
    /\ lastRaf \in RafIds \cup {0}

\* A fresh iso_state.
Init ==
    /\ now = 0
    /\ pc = "idle"
    /\ nextId = 1
    /\ active = {}
    /\ deadline = [id \in Ids |-> 0]
    /\ repeat = [id \in Ids |-> FALSE]
    /\ interval = [id \in Ids |-> 0]
    /\ heap = {}
    /\ drainNow = 0
    /\ due = <<>>
    /\ firing = 0
    /\ nextRaf = 1
    /\ rafQueue = <<>>
    /\ rafCancelled = {}
    /\ frame = <<>>
    /\ skip = {}
    /\ cleared = {}
    /\ fresh = {}
    /\ stranded = {}
    /\ freshRafs = {}
    /\ lastRaf = 0
-----------------------------------------------------------------------------
(* What a script may do: between drains (events, onFrame) and from inside  *)
(* a timer or animation frame callback.                                    *)
ScriptRuns == pc \in {"idle", "timer", "raf"}

\* setTimeout, setInterval and, with delay 0, setImmediate.  A deadline past
\* the bounded end of time is not asked for.
Schedule(rep, d) ==
    /\ ScriptRuns
    /\ nextId <= MaxTimers
    /\ now + d <= MaxTime
    /\ LET id == nextId IN
        /\ active' = active \cup {id}
        /\ deadline' = [deadline EXCEPT ![id] = now + d]
        /\ repeat' = [repeat EXCEPT ![id] = rep]
        /\ interval' = [interval EXCEPT ![id] = d]
        /\ heap' = heap \cup {[deadline |-> now + d, id |-> id]}
        /\ fresh' = fresh \cup {id}
    /\ nextId' = nextId + 1
    /\ UNCHANGED <<now, pc, drainVars, rafVars, cleared, stranded>>

\* clearTimeout and clearInterval: the heap node stays behind.
ClearTimer(id) ==
    /\ ScriptRuns
    /\ id < nextId
    /\ active' = active \ {id}
    /\ cleared' = cleared \cup {id}
    /\ UNCHANGED <<now, nextId, deadline, repeat, interval, heap, pc, drainVars, rafVars,
                   fresh, stranded>>

\* requestAnimationFrame
RequestFrame ==
    /\ ScriptRuns
    /\ nextRaf <= MaxRafs
    /\ rafQueue' = Append(rafQueue, nextRaf)
    /\ freshRafs' = freshRafs \cup {nextRaf}
    /\ nextRaf' = nextRaf + 1
    /\ UNCHANGED <<now, timerVars, pc, drainVars, rafCancelled, frame, skip,
                   lastRaf, obsVars>>

\* cancelAnimationFrame: a request still in the queue is erased (ids are
\* never given twice), and the cancellation is recorded either way.
CancelFrame(id) ==
    /\ ScriptRuns
    /\ id < nextRaf
    /\ \/ /\ \A i \in DOMAIN rafQueue : rafQueue[i] # id
          /\ UNCHANGED rafQueue
       \/ \E i \in DOMAIN rafQueue : rafQueue[i] = id /\ rafQueue' = RemoveAt(rafQueue, i)
    /\ rafCancelled' = rafCancelled \cup {id}
    /\ UNCHANGED <<now, timerVars, pc, drainVars, nextRaf, frame, skip, freshRafs,
                   lastRaf, obsVars>>
-----------------------------------------------------------------------------
(* The heap *)

\* Mutant: the comparison of heap_node is the wrong way round.
Mut_Tops(h) == {n \in h : \A m \in h : n.deadline >= m.deadline}

\* The nodes heap.top() may return.
Tops(h) == {n \in h : \A m \in h : n.deadline <= m.deadline}

\* next_timer_deadline_seconds drops the cleared nodes above the first live
\* one; of the nodes that tie with it, either all or none.
NextDeadline ==
    /\ pc = "idle"
    /\ heap # {}
    /\ LET live == {n \in heap : n.id \in active} IN
        \/ heap' = {n \in heap : \E m \in live : m.deadline <= n.deadline}
        \/ heap' = live \cup {n \in heap : \E m \in live : m.deadline < n.deadline}
    /\ UNCHANGED <<now, nextId, active, deadline, repeat, interval, pc, drainVars, rafVars,
                   obsVars>>
-----------------------------------------------------------------------------
(* drain_due_timers *)

DrainBegin ==
    /\ pc = "idle"
    /\ heap # {}
    /\ pc' = "collect"
    /\ drainNow' = now
    /\ due' = <<>>
    /\ fresh' = {}
    /\ UNCHANGED <<now, timerVars, firing, rafVars, cleared, stranded>>

\* The top belongs to a cleared timer.
CollectCleared(n) ==
    /\ pc = "collect"
    /\ n \in Tops(heap)
    /\ n.id \notin active
    /\ heap' = heap \ {n}
    /\ UNCHANGED <<now, nextId, active, deadline, repeat, interval, pc, drainVars, rafVars,
                   obsVars>>

\* The top is due.
CollectDue(n) ==
    /\ pc = "collect"
    /\ n \in Tops(heap)
    /\ n.id \in active
    /\ n.deadline <= drainNow
    /\ heap' = heap \ {n}
    /\ due' = Append(due, n.id)
    /\ UNCHANGED <<now, nextId, active, deadline, repeat, interval, pc, drainNow, firing,
                   rafVars, obsVars>>

\* The heap is empty or its top is not due.
CollectDone ==
    /\ pc = "collect"
    /\ heap = {} \/ \E n \in Tops(heap) : n.id \in active /\ n.deadline > drainNow
    /\ pc' = "dispatch"
    /\ UNCHANGED <<now, timerVars, drainVars, rafVars, obsVars>>

\* Cleared since it was collected.
DispatchSkip ==
    /\ pc = "dispatch"
    /\ due # <<>>
    /\ Head(due) \notin active
    /\ due' = Tail(due)
    /\ UNCHANGED <<now, timerVars, pc, drainNow, firing, rafVars, obsVars>>

\* Mutant: the due timers are called without looking them up again.
Mut_DispatchFire ==
    /\ pc = "dispatch"
    /\ due # <<>>
    /\ firing' = Head(due)
    /\ due' = Tail(due)
    /\ active' = IF repeat[Head(due)] THEN active ELSE active \ {Head(due)}
    /\ pc' = "timer"
    /\ UNCHANGED <<now, nextId, deadline, repeat, interval, heap, drainNow, rafVars, obsVars>>

\* The callback is called; a one-shot timer has left `active` before that.
DispatchFire ==
    /\ pc = "dispatch"
    /\ due # <<>>
    /\ Head(due) \in active
    /\ firing' = Head(due)
    /\ due' = Tail(due)
    /\ active' = IF repeat[Head(due)] THEN active ELSE active \ {Head(due)}
    /\ pc' = "timer"
    /\ UNCHANGED <<now, nextId, deadline, repeat, interval, heap, drainNow, rafVars, obsVars>>

\* Mutant: an interval is not put back.
Mut_TimerReturns ==
    /\ pc = "timer"
    /\ firing' = 0
    /\ pc' = "dispatch"
    /\ UNCHANGED <<now, timerVars, drainNow, due, rafVars, obsVars>>

\* The callback returns; an interval that it has not cleared is re-armed.
TimerReturns ==
    /\ pc = "timer"
    /\ IF repeat[firing] /\ firing \in active
       THEN LET d == now + interval[firing] IN
            /\ deadline' = [deadline EXCEPT ![firing] = d]
            /\ heap' = heap \cup {[deadline |-> d, id |-> firing]}
            /\ fresh' = fresh \cup {firing}
       ELSE UNCHANGED <<deadline, heap, fresh>>
    /\ firing' = 0
    /\ pc' = "dispatch"
    /\ UNCHANGED <<now, nextId, active, repeat, interval, drainNow, due, rafVars, cleared,
                   stranded>>

\* The callback throws: the drain returns at once and its caller goes on.
TimerThrows ==
    /\ MayThrow
    /\ pc = "timer"
    /\ stranded' = stranded \cup (active \cap ({due[i] : i \in DOMAIN due} \cup {firing}))
    /\ due' = <<>>
    /\ firing' = 0
    /\ pc' = "idle"
    /\ UNCHANGED <<now, timerVars, drainNow, rafVars, cleared, fresh>>

\* Mutant: the drain goes on until nothing is due.
Mut_DispatchDone ==
    /\ pc = "dispatch"
    /\ due = <<>>
    /\ IF \E n \in heap : n.deadline <= now
       THEN pc' = "collect" /\ drainNow' = now
       ELSE pc' = "idle" /\ UNCHANGED drainNow
    /\ UNCHANGED <<now, timerVars, due, firing, rafVars, obsVars>>

DispatchDone ==
    /\ pc = "dispatch"
    /\ due = <<>>
    /\ pc' = "idle"
    /\ UNCHANGED <<now, timerVars, drainVars, rafVars, obsVars>>
-----------------------------------------------------------------------------
(* drain_animation_frames *)

\* The queue is swapped out and the cancellations recorded so far are moved
\* into a local.
FrameBegin ==
    /\ pc = "idle"
    /\ rafQueue # <<>>
    /\ frame' = rafQueue
    /\ rafQueue' = <<>>
    /\ skip' = rafCancelled
    /\ rafCancelled' = {}
    /\ freshRafs' = {}
    /\ pc' = "frame"
    /\ UNCHANGED <<now, timerVars, drainVars, nextRaf, lastRaf, obsVars>>

\* The next callback that is not cancelled is called.
FrameFire ==
    /\ pc = "frame"
    /\ \E i \in DOMAIN frame :
          /\ frame[i] \notin skip
          /\ \A k \in 1..(i - 1) : frame[k] \in skip
          /\ lastRaf' = frame[i]
          /\ frame' = SubSeq(frame, i + 1, Len(frame))
    /\ pc' = "raf"
    /\ UNCHANGED <<now, timerVars, drainVars, nextRaf, rafQueue, rafCancelled, skip,
                   freshRafs, obsVars>>

FrameReturns ==
    /\ pc = "raf"
    /\ pc' = "frame"
    /\ UNCHANGED <<now, timerVars, drainVars, rafVars, obsVars>>

\* The rest of the frame's callbacks are destroyed.
FrameThrows ==
    /\ MayThrow
    /\ pc = "raf"
    /\ frame' = <<>>
    /\ skip' = {}
    /\ pc' = "idle"
    /\ UNCHANGED <<now, timerVars, drainVars, nextRaf, rafQueue, rafCancelled,
                   freshRafs, lastRaf, obsVars>>

\* What is left, if anything, is cancelled.
FrameDone ==
    /\ pc = "frame"
    /\ \A i \in DOMAIN frame : frame[i] \in skip
    /\ frame' = <<>>
    /\ skip' = {}
    /\ pc' = "idle"
    /\ UNCHANGED <<now, timerVars, drainVars, nextRaf, rafQueue, rafCancelled,
                   freshRafs, lastRaf, obsVars>>
-----------------------------------------------------------------------------
\* timers_reset_for_isolate: a new state for the next user of the isolate.
Reset ==
    /\ pc = "idle"
    /\ nextId' = 1
    /\ active' = {}
    /\ deadline' = [id \in Ids |-> 0]
    /\ repeat' = [id \in Ids |-> FALSE]
    /\ interval' = [id \in Ids |-> 0]
    /\ heap' = {}
    /\ drainNow' = 0
    /\ due' = <<>>
    /\ firing' = 0
    /\ nextRaf' = 1
    /\ rafQueue' = <<>>
    /\ rafCancelled' = {}
    /\ frame' = <<>>
    /\ skip' = {}
    /\ cleared' = {}
    /\ fresh' = {}
    /\ stranded' = {}
    /\ freshRafs' = {}
    /\ lastRaf' = 0
    /\ UNCHANGED <<now, pc>>

Tick ==
    /\ now < MaxTime
    /\ now' = now + 1
    /\ UNCHANGED <<timerVars, pc, drainVars, rafVars, obsVars>>

DrainStep ==
    \/ \E n \in heap : CollectCleared(n) \/ CollectDue(n)
    \/ CollectDone
    \/ DispatchSkip
    \/ DispatchFire
    \/ TimerReturns
    \/ TimerThrows
    \/ DispatchDone

FrameStep == FrameFire \/ FrameReturns \/ FrameThrows \/ FrameDone

Script ==
    \/ \E rep \in BOOLEAN, d \in Delays : Schedule(rep, d)
    \/ \E id \in Ids : ClearTimer(id)
    \/ RequestFrame
    \/ \E id \in RafIds : CancelFrame(id)

Next ==
    \/ Script
    \/ NextDeadline
    \/ DrainBegin
    \/ DrainStep
    \/ FrameBegin
    \/ FrameStep
    \/ Reset
    \/ Tick

Spec == Init /\ [][Next]_vars

\* Time passes and the frame loop drains both queues once per iteration: it
\* never skips one of them for ever, whatever the other does.
Fairness ==
    /\ WF_vars(Tick)
    /\ SF_vars(DrainBegin) /\ WF_vars(DrainStep)
    /\ SF_vars(FrameBegin) /\ WF_vars(FrameStep)

FairSpec == Spec /\ Fairness
-----------------------------------------------------------------------------
(***************************************************************************)
(* Properties.                                                             *)
(***************************************************************************)

(* Where an active timer waits: heap nodes, places in `due`, its callback. *)
Armed(id) ==
    {<<"heap", n.deadline>> : n \in {m \in heap : m.id = id}}
    \cup {<<"due", i>> : i \in {j \in DOMAIN due : due[j] = id}}
    \cup {<<"firing", 0>> : x \in {firing} \cap {id}}

(* An active timer is armed exactly once, in the heap, among the timers    *)
(* collected by the drain in progress, or as the interval whose callback   *)
(* is running and will be put back; so it neither fires twice for one      *)
(* deadline nor is forgotten.  The one exception is a timer left behind by *)
(* a callback that threw (schedule_impl, drain_due_timers, clear_timer_cb).*)
ArmedOnce ==
    /\ TypeOK
    /\ \A id \in active : Cardinality(Armed(id)) = IF id \in stranded THEN 0 ELSE 1

TimerCalled == pc' = "timer" /\ pc # "timer"
FrameCalled == pc' = "raf" /\ pc # "raf"

(* A callback is called only when its deadline has passed, never before    *)
(* another active timer with an earlier deadline, and never after its      *)
(* timer was cleared, also by an earlier callback of the same drain.       *)
FiresWhenDue ==
    [][TimerCalled =>
        /\ firing' \notin cleared
        /\ deadline[firing'] <= now
        /\ \A id \in active \ (stranded \cup {firing'}) : deadline[firing'] <= deadline[id]]_vars

(* A drain calls only timers armed before it began, and a frame only       *)
(* requests made before it, in their order: zero delays and zero intervals *)
(* cannot keep the loop inside one drain, and "callbacks queued during     *)
(* dispatch are deferred to the next call (FIFO)".                         *)
DeferredToNextDrain ==
    [][/\ TimerCalled => firing' \notin fresh
       /\ FrameCalled => lastRaf' \notin freshRafs /\ lastRaf' > lastRaf]_vars

(* A one-shot timer that nobody clears fires and so leaves `active`,       *)
(* however busy intervals and animation frames keep the loop, unless a     *)
(* callback that threw stranded it.                                        *)
OneShotFires ==
    \A id \in Ids : (id \in active /\ ~repeat[id]) ~> (id \notin active \/ id \in stranded)
=============================================================================
