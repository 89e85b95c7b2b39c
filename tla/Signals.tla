------------------------------- MODULE Signals -------------------------------
(***************************************************************************)
(* The reactive core of fxe-ui (packages/fxe-ui/src/reconciler):           *)
(* signals.ts, the two lanes of scheduler.ts, the step of frame_loop.ts.   *)
(* One thread runs it all, but its functions re-enter each other: a setter *)
(* flushes the queues, a flush runs effects, an effect calls a setter.     *)
(* `stack` holds the calls that are not finished.                          *)
(*                                                                         *)
(* A value is the number of times its signal was set to something new.     *)
(* An effect reads its sources first and may then set a signal or throw.   *)
(* `deps` of a subscriber are the sources that list it in `subs`.          *)
(***************************************************************************)
EXTENDS Naturals, Sequences, FiniteSets, SequencesExt

CONSTANTS
    Cells,     \* signals
    Memos,     \* memos; each reads one signal
    Effects,   \* effects
    Fibers,    \* components that read signals
    MemoReads, \* the signal a memo reads
    Bodies,    \* what an effect may do: [reads, write, throws]
    Views,     \* sets of sources a component may read
    None,
    MaxWrites, \* times a signal is set (bound)
    MaxPending \* transitions under way (bound)

Sources     == Cells \cup Memos
Subscribers == Memos \cup Effects \cup Fibers

ASSUME KindsAssumption ==
    Cells \cap Memos = {} /\ Effects \cap Fibers = {} /\ Memos \cap (Effects \cup Fibers) = {}
ASSUME MemoAssumption == MemoReads \in [Memos -> Cells]
ASSUME BodiesAssumption ==
    Bodies \in [Effects -> SUBSET [reads : SUBSET Sources, write : Cells \cup {None}, throws : BOOLEAN]]

ASSUME ViewsAssumption == Views \subseteq SUBSET Sources

VARIABLES
    ver,         \* value of each signal
    subs,        \* subscribers of each source, in insertion order
    stale,       \* memos with dirty = true
    memoVer,     \* value a memo was computed from
    queued,      \* effects with queued = true
    seen,        \* the <<signal, value>> pairs an effect or a fiber last read (observer)
    syncQ,       \* syncCallbacks: effects, and "idle" for a transition's end
    syncF,       \* syncFibers
    transQ,      \* transitionCallbacks: effects, and fibers for a deferred setState
    transF,      \* transitionFibers
    flushQueued, \* syncFlushQueued
    micro,       \* flushSync calls in the microtask queue
    idle,        \* length of transitionIdleCallbacks
    pending,     \* pendingRef of a useTransition
    stack,       \* calls in progress, outermost first
    mounted,     \* fibers with a handler
    dirtyF,      \* fibers with dirty = true
    missed,      \* effects whose run was skipped because they were running (observer)
    threw        \* where an exception left the scheduler (observer)

graphVars == <<ver, subs, stale, memoVer, queued, seen>>
laneVars  == <<syncQ, syncF, transQ, transF, flushQueued, micro>>
idleVars  == <<idle, pending>>
viewVars  == <<mounted, dirtyF>>
obsVars   == <<missed, threw>>
vars == <<graphVars, laneVars, idleVars, viewVars, obsVars, stack>>

Init ==
    /\ ver = [s \in Cells |-> 0] /\ subs = [k \in Sources |-> <<>>]
    /\ stale = Memos /\ memoVer = [m \in Memos |-> 0]
    /\ queued = {} /\ seen = [x \in Effects \cup Fibers |-> {}]
    /\ syncQ = <<>> /\ syncF = <<>> /\ transQ = <<>> /\ transF = <<>>
    /\ flushQueued = FALSE /\ micro = 0 /\ idle = 0 /\ pending = 0
    /\ stack = <<>> /\ mounted = Fibers /\ dirtyF = Fibers
    /\ missed = {} /\ threw = {}

-----------------------------------------------------------------------------
(* signals.ts                                                              *)

\* Elements of t that q lacks, appended: insertion into a Set.
AddAll(q, t) == FoldLeft(LAMBDA a, x : IF Contains(a, x) THEN a ELSE Append(a, x), q, t)

\* cleanupSubscriber, then the getters of the sources read: trackSource, and
\* runComputation of a memo that is dirty.
Read(x, sources) ==
    LET run == sources \cap stale IN
    /\ subs' = [k \in Sources |->
         SelectSeq(subs[k], LAMBDA y : y # x /\ y \notin run)
           \o SetToSeq({m \in run : MemoReads[m] = k})
           \o (IF k \in sources THEN <<x>> ELSE <<>>)]
    /\ stale' = stale \ run
    /\ memoVer' = [m \in Memos |-> IF m \in run THEN ver[MemoReads[m]] ELSE memoVer[m]]
    /\ seen' = [seen EXCEPT ![x] =
         {<<s, ver[s]>> : s \in sources \cap Cells}
           \cup {<<MemoReads[m], memoVer'[m]>> : m \in sources \cap Memos}]

\* Mutant: a memo that is told of a change does not pass it on.
Mut_Reached(list) == SelectSeq(list, LAMBDA x : x \notin Memos)

\* scheduleSubscriber of every subscriber in the list: a memo that is not
\* dirty yet notifies its own subscribers.
Reached(list) ==
    FoldLeft(LAMBDA t, x : AddAll(t, IF x \notin Memos THEN <<x>>
                                     ELSE IF x \in stale THEN <<>> ELSE subs[x]), <<>>, list)

\* Mutant: `queued` is not set.
Mut_Mark(es) == UNCHANGED queued

Mark(es) == queued' = queued \cup ToSet(es)

NewEffects(list) == SelectSeq(Reached(list), LAMBDA x : x \in Effects /\ x \notin queued)
NewFibers(list)  == SelectSeq(Reached(list), LAMBDA x : x \in Fibers)

\* Mutant: the flush is left to the caller.
Mut_QueueFlush(some) == UNCHANGED micro

\* queueSyncFlush, when there is something to flush.
QueueFlush(some) == micro' = IF some /\ ~flushQueued THEN micro + 1 ELSE micro

\* notifySource of the subscribers in the list, with scheduleWork and
\* scheduleCallback: in the sync lane,
NotifySync(list) ==
    /\ stale' = stale \cup (ToSet(list) \cap Memos)
    /\ Mark(NewEffects(list))
    /\ syncQ' = syncQ \o NewEffects(list) /\ syncF' = AddAll(syncF, NewFibers(list))
    /\ QueueFlush(NewEffects(list) \o NewFibers(list) # <<>>)
    /\ UNCHANGED <<transQ, transF>>

\* and in the transition lane.
NotifyTransition(list) ==
    /\ stale' = stale \cup (ToSet(list) \cap Memos)
    /\ Mark(NewEffects(list))
    /\ transQ' = transQ \o NewEffects(list) /\ transF' = AddAll(transF, NewFibers(list))

CanWrite == FoldFunction(+, 0, ver) < MaxWrites

\* flushSync starts: syncFlushQueued = false.
Flushing(calls, entry) ==
    stack' = Append(calls, [call |-> "flush", entry |-> entry]) /\ flushQueued' = FALSE

\* A setter called by the script in the sync lane.
Set(s) ==
    /\ stack = <<>> /\ CanWrite
    /\ ver' = [ver EXCEPT ![s] = @ + 1]
    /\ NotifySync(subs[s]) /\ Flushing(stack, "script")
    /\ UNCHANGED <<subs, memoVer, seen, idleVars, viewVars, obsVars>>

\* batch of one setter call per signal: subscribers are collected and
\* scheduled when the outermost batch ends.
Batch ==
    /\ stack = <<>> /\ CanWrite
    /\ ver' = [s \in Cells |-> ver[s] + 1]
    /\ NotifySync(FoldLeft(LAMBDA t, s : AddAll(t, subs[s]), <<>>, SetToSeq(Cells)))
    /\ Flushing(stack, "script")
    /\ UNCHANGED <<subs, memoVer, seen, idleVars, viewVars, obsVars>>

Running(e) == \E i \in 1..Len(stack) : stack[i].call = "body" /\ stack[i].effect = e

\* runComputation returns at once.
Skips(e) == Running(e)

\* runCallback of an effect's callback: runComputation up to the setter call.
RunEffect(calls, e, lane) ==
    \/ /\ Skips(e) /\ missed' = missed \cup {e} /\ stack' = calls
       /\ UNCHANGED <<queued, subs, stale, memoVer, seen>>
    \/ /\ ~Skips(e) /\ UNCHANGED missed
       /\ queued' = queued \ {e}
       /\ \E b \in Bodies[e] :
            /\ Read(e, b.reads)
            /\ stack' = Append(calls, [call |-> "body", effect |-> e, lane |-> lane,
                                       write |-> b.write, throws |-> b.throws])

Top == stack[Len(stack)]
Pop == Front(stack)
InCall(c) == stack # <<>> /\ Top.call = c

\* The effect throws: every call on the stack is left.
BodyThrows ==
    /\ InCall("body") /\ Top.throws
    /\ stack' = <<>> /\ threw' = threw \cup {stack[1].entry}
    /\ UNCHANGED <<graphVars, laneVars, idleVars, viewVars, missed>>

\* The effect calls a setter: in the sync lane it flushes before it returns.
BodySets ==
    /\ InCall("body") /\ ~Top.throws /\ Top.write # None /\ CanWrite
    /\ ver' = [ver EXCEPT ![Top.write] = @ + 1]
    /\ LET left == Append(Pop, [Top EXCEPT !.write = None]) IN
       \/ Top.lane = "sync" /\ NotifySync(subs[Top.write]) /\ Flushing(left, "nested")
       \/ /\ Top.lane = "transition" /\ NotifyTransition(subs[Top.write]) /\ stack' = left
          /\ UNCHANGED <<syncQ, syncF, flushQueued, micro>>
    /\ UNCHANGED <<subs, memoVer, seen, idleVars, viewVars, obsVars>>

BodyReturns ==
    /\ InCall("body") /\ ~Top.throws /\ (Top.write = None \/ ~CanWrite)
    /\ stack' = Pop
    /\ UNCHANGED <<graphVars, laneVars, idleVars, viewVars, obsVars>>

-----------------------------------------------------------------------------
(* scheduler.ts                                                            *)

\* The microtask that queueSyncFlush queued.
Microtask ==
    /\ stack = <<>> /\ micro > 0 /\ micro' = micro - 1 /\ Flushing(stack, "micro")
    /\ UNCHANGED <<graphVars, syncQ, syncF, transQ, transF, idleVars, viewVars, obsVars>>

\* flushSync: the next callback.
FlushCallback ==
    /\ InCall("flush") /\ syncQ # <<>> /\ syncQ' = Tail(syncQ)
    /\ \/ Head(syncQ) # "idle" /\ RunEffect(stack, Head(syncQ), "sync") /\ UNCHANGED pending
       \/ /\ Head(syncQ) = "idle" /\ pending' = IF pending = 0 THEN 0 ELSE pending - 1
          /\ UNCHANGED <<stack, queued, subs, stale, memoVer, seen, missed>>
    /\ UNCHANGED <<ver, syncF, transQ, transF, flushQueued, micro, idle, viewVars, threw>>

\* flushSync: the handlers of all fibers; a handler (createFiber) only marks
\* its fiber dirty.
FlushFibers ==
    /\ InCall("flush") /\ syncQ = <<>> /\ syncF # <<>>
    /\ dirtyF' = dirtyF \cup (ToSet(syncF) \cap mounted) /\ syncF' = <<>>
    /\ UNCHANGED <<graphVars, syncQ, transQ, transF, flushQueued, micro, idleVars, mounted, obsVars, stack>>

FlushReturns ==
    /\ InCall("flush") /\ syncQ = <<>> /\ syncF = <<>> /\ stack' = Pop
    /\ UNCHANGED <<graphVars, laneVars, idleVars, viewVars, obsVars>>

\* Mutant: the callbacks are taken out and not scheduled.
Mut_NotifyIdle(n, q, f) ==
    /\ idle' = IF q \o f = <<>> THEN 0 ELSE n
    /\ UNCHANGED <<syncQ, micro, flushQueued>>

\* notifyTransitionIdleIfNeeded with n callbacks waiting and q, f in the lane:
\* with no work left, the callbacks are scheduled in the sync lane.
NotifyIdle(n, q, f) ==
    \/ q \o f # <<>> /\ idle' = n /\ UNCHANGED <<syncQ, micro, flushQueued>>
    \/ /\ q \o f = <<>> /\ idle' = 0
       /\ syncQ' = syncQ \o [i \in 1..n |-> "idle"]
       /\ QueueFlush(n > 0) /\ flushQueued' = (flushQueued \/ n > 0)

\* startTransition: its function runs in the transition lane, where a setter
\* does not flush, and the transition ends when the lane is empty.
StartTransition ==
    /\ stack = <<>> /\ pending < MaxPending /\ pending' = pending + 1
    /\ NotifyIdle(idle + 1, transQ', transF')
    /\ UNCHANGED <<subs, memoVer, seen, syncF, viewVars, obsVars, stack>>

TransitionSet(s) ==
    /\ CanWrite /\ ver' = [ver EXCEPT ![s] = @ + 1]
    /\ NotifyTransition(subs[s]) /\ StartTransition

\* The setter of useState in a transition: the update itself is deferred.
TransitionState(f) ==
    /\ f \in mounted /\ transQ' = Append(transQ, f) /\ UNCHANGED <<ver, stale, queued, transF>>
    /\ StartTransition

\* A frame: tickSchedulerFrame starts.  An exception in it left the frame loop
\* without a next frame.
Tick ==
    /\ stack = <<>> /\ "frame" \notin threw
    /\ transQ # <<>> \/ transF # <<>>
    /\ stack' = <<[call |-> "tick", entry |-> "frame", phase |-> "callbacks"]>>
    /\ UNCHANGED <<graphVars, laneVars, idleVars, viewVars, obsVars>>

\* The next transition callback: an effect, or the setter of useState, which
\* schedules its fiber (scheduleFiberUpdate).
TickCallback ==
    /\ InCall("tick") /\ Top.phase = "callbacks" /\ transQ # <<>>
    /\ transQ' = Tail(transQ)
    /\ LET x == Head(transQ)
           checked == <<[Top EXCEPT !.phase = "check"]>>
       IN \/ x \in Effects /\ RunEffect(checked, x, "transition") /\ UNCHANGED transF
          \/ /\ x \in Fibers /\ transF' = AddAll(transF, <<x>>) /\ stack' = checked
             /\ UNCHANGED <<queued, subs, stale, memoVer, seen, missed>>
    /\ UNCHANGED <<ver, syncQ, syncF, flushQueued, micro, idleVars, viewVars, threw>>

\* After a callback the budget may be used up: the frame ends.
TickCheck ==
    /\ InCall("tick") /\ Top.phase = "check"
    /\ \/ NotifyIdle(idle, transQ, transF) /\ stack' = Pop
       \/ stack' = <<[Top EXCEPT !.phase = "callbacks"]>> /\ UNCHANGED <<idle, syncQ, micro, flushQueued>>
    /\ UNCHANGED <<graphVars, syncF, transQ, transF, pending, viewVars, obsVars>>

\* The fibers of the lane, until the budget is used up, and the end of the frame.
TickFibers ==
    /\ InCall("tick") /\ Top.phase = "callbacks" /\ transQ = <<>> /\ stack' = Pop
    /\ \E n \in 0..Len(transF) :
         /\ n = 0 => transF = <<>>
         /\ dirtyF' = dirtyF \cup (ToSet(SubSeq(transF, 1, n)) \cap mounted)
         /\ transF' = SubSeq(transF, n + 1, Len(transF))
    /\ NotifyIdle(idle, transQ, transF')
    /\ UNCHANGED <<graphVars, syncF, transQ, pending, mounted, obsVars>>

-----------------------------------------------------------------------------
(* Fibers: rendering and unmounting (fiber.ts).                            *)

\* beginFiberSignalTracking, the component's reads, endFiberSignalTracking.
Render(f) ==
    /\ stack = <<>> /\ f \in mounted \cap dirtyF
    /\ \E sources \in Views : Read(f, sources)
    /\ dirtyF' = dirtyF \ {f}
    /\ UNCHANGED <<ver, queued, laneVars, idleVars, mounted, obsVars, stack>>

\* unregisterFiberSignalSubscriptions
Unsubscribe(f) ==
    /\ subs' = [k \in Sources |-> SelectSeq(subs[k], LAMBDA y : y # f)]
    /\ seen' = [seen EXCEPT ![f] = {}]

\* unmountFiber: also unregisterFiberWork.
Unmount(f) ==
    /\ stack = <<>> /\ f \in mounted /\ mounted' = mounted \ {f} /\ dirtyF' = dirtyF \ {f}
    /\ Unsubscribe(f)
    /\ syncF' = SelectSeq(syncF, LAMBDA y : y # f) /\ transF' = SelectSeq(transF, LAMBDA y : y # f)
    /\ UNCHANGED <<ver, stale, memoVer, queued, syncQ, transQ, flushQueued, micro, idleVars, obsVars, stack>>

\* createEffect: runs at once; e has no subscription yet.
CreateEffect(e) ==
    /\ stack = <<>> /\ seen[e] = {} /\ e \notin queued
    /\ \E b \in Bodies[e] :
         /\ Read(e, b.reads)
         /\ stack' = <<[call |-> "body", effect |-> e, lane |-> "sync", entry |-> "script",
                        write |-> b.write, throws |-> b.throws]>>
    /\ UNCHANGED <<ver, queued, laneVars, idleVars, viewVars, obsVars>>

Engine ==
    \/ BodyThrows \/ BodySets \/ BodyReturns \/ Microtask \/ FlushCallback \/ FlushFibers
    \/ FlushReturns \/ Tick \/ TickCallback \/ TickCheck \/ TickFibers

Next ==
    \/ Engine \/ Batch
    \/ \E s \in Cells : Set(s) \/ TransitionSet(s)
    \/ \E f \in Fibers : TransitionState(f) \/ Render(f) \/ Unmount(f)
    \/ \E e \in Effects : CreateEffect(e)

Spec == Init /\ [][Next]_vars

\* Calls go on, microtasks run and frames come; the script need not do more.
FairSpec == Spec /\ WF_vars(Engine)

-----------------------------------------------------------------------------

Unique(q) == \A i, j \in 1..Len(q) : q[i] = q[j] => i = j

\* The type invariant; no effect is entered while it runs.
TypeOK ==
    /\ ver \in [Cells -> Nat] /\ memoVer \in [Memos -> Nat]
    /\ subs \in [Sources -> Seq(Subscribers)] /\ \A k \in Sources : Unique(subs[k])
    /\ stale \subseteq Memos /\ queued \subseteq Effects /\ missed \subseteq Effects
    /\ seen \in [Effects \cup Fibers -> SUBSET (Cells \X Nat)]
    /\ syncQ \in Seq(Effects \cup {"idle"}) /\ transQ \in Seq(Effects \cup Fibers)
    /\ syncF \in Seq(Fibers) /\ transF \in Seq(Fibers) /\ Unique(syncF) /\ Unique(transF)
    /\ flushQueued \in BOOLEAN /\ {micro, idle, pending} \subseteq Nat
    /\ dirtyF \subseteq mounted /\ mounted \subseteq Fibers
    /\ threw \subseteq {"script", "micro", "frame"}
    /\ \A i, j \in 1..Len(stack) : i # j /\ stack[i].call = "body" /\ stack[j].call = "body"
                                   => stack[i].effect # stack[j].effect

Fresh(x) == \A r \in seen[x] : ver[r[1]] = r[2]

\* The flag `queued` of an effect is true exactly while its callback is in one
\* of the queues, once; an effect whose callback came while it was running
\* keeps the flag and is never scheduled again.
QueuedOnce ==
    LET both == syncQ \o transQ IN
    /\ TypeOK
    /\ \A e \in Effects :
      /\ Cardinality({i \in 1..Len(both) : both[i] = e}) <= 1
      /\ e \in queued <=> Contains(both, e) \/ e \in missed

\* When both queues are empty every effect has run with the latest value of
\* what it reads, directly or through a memo, whatever lane or batch the
\* values came by; only an effect told of a change while it ran is left out.
EffectsFresh ==
    stack = <<>> /\ syncQ = <<>> /\ transQ = <<>> => \A e \in Effects \ missed : Fresh(e)

\* A mounted component shows the latest values, or is marked for rendering, or
\* is in a lane; an unmounted one is told of nothing any more.
ViewFresh ==
    /\ \A f \in mounted : Fresh(f) \/ f \in dirtyF \/ Contains(syncF \o transF, f)
    /\ \A f \in Fibers \ mounted : \A k \in Sources : ~Contains(subs[k], f)

\* Neither an effect nor a view is left with an old value.
NothingStale == EffectsFresh /\ ViewFresh

\* Work in the sync lane has a flush on the way, also after an effect threw;
\* only an exception in the flush of a microtask can leave work behind.
SyncWorkServed ==
    stack = <<>> /\ (syncQ # <<>> \/ syncF # <<>>) => micro > 0 \/ "micro" \in threw

\* The transition lane went empty outside of a frame, or in one that threw.
Stranded == idle > 0 /\ transQ = <<>> /\ transF = <<>>

\* useTransition's isPending ends, unless the lane is stranded or an exception
\* stopped the frame loop or the flush.
PendingEnds == pending > 0 ~> (pending = 0 \/ Stranded \/ threw \cap {"micro", "frame"} # {})
=============================================================================
