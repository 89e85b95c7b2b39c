---------------------------- MODULE TimersProofs ----------------------------
(***************************************************************************)
(* Proofs about the timers and animation frames of an isolate: ArmedOnce,  *)
(* FiresWhenDue and DeferredToNextDrain for any number of timers, frames   *)
(* and delays.  The invariant says where an active timer is, in which      *)
(* order the collected ones are, and what a drain may not touch.           *)
(***************************************************************************)
EXTENDS Timers, FiniteSetTheorems, SequenceTheorems, TLAPS

(***************************************************************************)
(* The inductive invariant.                                                *)
(***************************************************************************)

\* Ids are handed out once: everything refers to ids already given.
IdsGiven ==
    /\ \A id \in active : id < nextId
    /\ \A n \in heap : n.id < nextId
    /\ \A i \in DOMAIN due : due[i] < nextId
    /\ \A id \in cleared \cup stranded : id < nextId
    /\ firing < nextId

\* `due` and `firing` are locals of a drain in progress.
DrainPoints ==
    /\ pc \in {"idle", "frame", "raf"} => due = <<>>
    /\ pc = "timer" <=> firing # 0

\* A timer has one heap node at most, which holds its deadline.
HeapNodes ==
    /\ \A n, m \in heap : n.id = m.id => n = m
    /\ \A n \in heap : n.deadline = deadline[n.id]

\* A collected timer has left the heap and is collected once.
DueApart ==
    /\ \A i, k \in DOMAIN due : due[i] = due[k] => i = k
    /\ \A i \in DOMAIN due : due[i] # firing /\ \A n \in heap : n.id # due[i]
    /\ \A n \in heap : n.id # firing

\* A stranded timer is nowhere, every other active timer is somewhere.
Accounted ==
    /\ \A id \in stranded : /\ id # firing
                            /\ \A n \in heap : n.id # id
                            /\ \A i \in DOMAIN due : due[i] # id
    /\ \A id \in active \ stranded :
          id = firing \/ (\E n \in heap : n.id = id) \/ \E i \in DOMAIN due : due[i] = id

\* A cleared timer is not active, nor is a one-shot timer that is firing.
ClearedGone ==
    /\ cleared \cap active = {}
    /\ pc = "timer" /\ firing \in active => repeat[firing]

\* Collected timers are due, in order, and no timer in the heap precedes them.
DueOrder ==
    /\ pc \in {"collect", "dispatch", "timer"} => drainNow <= now
    /\ \A i \in DOMAIN due : deadline[due[i]] <= drainNow
    /\ \A i, k \in DOMAIN due : i < k => deadline[due[i]] <= deadline[due[k]]
    /\ \A i \in DOMAIN due, n \in heap : deadline[due[i]] <= n.deadline

\* A timer armed during a drain is not collected by it.
FreshLater ==
    /\ pc = "collect" => fresh = {}
    /\ \A i \in DOMAIN due : due[i] \notin fresh

\* Animation frames run in the order of their ids.
FrameOrder ==
    /\ lastRaf < nextRaf
    /\ \A i \in DOMAIN rafQueue : lastRaf < rafQueue[i] /\ rafQueue[i] < nextRaf
    /\ \A i, k \in DOMAIN rafQueue : i < k => rafQueue[i] < rafQueue[k]
    /\ \A i \in DOMAIN frame : lastRaf < frame[i] /\ frame[i] < nextRaf /\ frame[i] \notin freshRafs
    /\ \A i, k \in DOMAIN frame : i < k => frame[i] < frame[k]
    /\ \A i \in DOMAIN frame, k \in DOMAIN rafQueue : frame[i] < rafQueue[k]

IInv ==
    /\ TypeOK
    /\ IdsGiven
    /\ DrainPoints
    /\ HeapNodes
    /\ DueApart
    /\ Accounted
    /\ ClearedGone
    /\ DueOrder
    /\ FreshLater
    /\ FrameOrder

-----------------------------------------------------------------------------
(* Sequences. *)

\* What SubSeq keeps of the end of a sequence.
LEMMA SuffixType ==
    ASSUME NEW T, NEW s \in Seq(T), NEW i \in DOMAIN s
    PROVE  LET r == SubSeq(s, i + 1, Len(s)) IN
           /\ r \in Seq(T)
           /\ \A k \in DOMAIN r : k \in Nat /\ k + i \in DOMAIN s /\ r[k] = s[k + i]
  <1> DEFINE r == SubSeq(s, i + 1, Len(s))
  <1>1. i \in 1..Len(s) /\ Len(s) \in Nat /\ DOMAIN s = 1..Len(s)
    BY LenProperties
  <1>2. /\ r \in Seq(T)
        /\ Len(r) = IF i + 1 <= Len(s) THEN Len(s) - (i + 1) + 1 ELSE 0
        /\ \A k \in 1..(Len(s) - (i + 1) + 1) : r[k] = s[(i + 1) + k - 1]
    BY <1>1, SubSeqProperties
  <1>3. DOMAIN r = 1..(Len(s) - i)
    BY <1>1, <1>2, LenProperties
  <1>4. ASSUME NEW k \in DOMAIN r PROVE k \in Nat /\ k + i \in DOMAIN s /\ r[k] = s[k + i]
    <2>1. k \in 1..(Len(s) - i)
      BY <1>3
    <2>2. (i + 1) + k - 1 = k + i /\ k \in 1..(Len(s) - (i + 1) + 1)
      BY <1>1, <2>1
    <2> QED
      BY <1>1, <1>2, <2>1, <2>2
  <1> QED
    BY <1>2, <1>4

\* What RemoveAt keeps.
LEMMA RemovedType ==
    ASSUME NEW T, NEW s \in Seq(T), NEW i \in DOMAIN s
    PROVE  LET r == RemoveAt(s, i) IN
           /\ r \in Seq(T)
           /\ \A k \in DOMAIN r : /\ k \in Nat
                                  /\ (IF k < i THEN k ELSE k + 1) \in DOMAIN s
                                  /\ r[k] = s[IF k < i THEN k ELSE k + 1]
  <1> DEFINE a == SubSeq(s, 1, i - 1)
             b == SubSeq(s, i + 1, Len(s))
             r == RemoveAt(s, i)
  <1>1. i \in 1..Len(s) /\ Len(s) \in Nat /\ DOMAIN s = 1..Len(s)
    BY LenProperties
  <1>2. /\ a \in Seq(T) /\ Len(a) = i - 1
        /\ \A k \in 1..(i - 1) : a[k] = s[k]
    <2>1. /\ a \in Seq(T)
          /\ Len(a) = IF 1 <= i - 1 THEN (i - 1) - 1 + 1 ELSE 0
          /\ \A k \in 1..((i - 1) - 1 + 1) : a[k] = s[1 + k - 1]
      BY <1>1, SubSeqProperties
    <2> QED
      BY <1>1, <2>1
  <1>3. /\ b \in Seq(T) /\ Len(b) = Len(s) - i
        /\ \A k \in 1..(Len(s) - i) : b[k] = s[k + i]
    <2>1. /\ b \in Seq(T)
          /\ Len(b) = IF i + 1 <= Len(s) THEN Len(s) - (i + 1) + 1 ELSE 0
          /\ \A k \in 1..(Len(s) - (i + 1) + 1) : b[k] = s[(i + 1) + k - 1]
      BY <1>1, SubSeqProperties
    <2> QED
      BY <1>1, <2>1
  <1>4. r = a \o b
    BY DEF RemoveAt
  <1> HIDE DEF a, b, r
  <1>5. /\ r \in Seq(T) /\ Len(r) = Len(a) + Len(b)
        /\ \A k \in 1..(Len(a) + Len(b)) : r[k] = IF k <= Len(a) THEN a[k] ELSE b[k - Len(a)]
    BY <1>2, <1>3, <1>4, ConcatProperties
  <1>6. DOMAIN r = 1..(Len(s) - 1)
    BY <1>1, <1>2, <1>3, <1>5, LenProperties
  <1>7. ASSUME NEW k \in DOMAIN r
        PROVE  /\ k \in Nat /\ (IF k < i THEN k ELSE k + 1) \in DOMAIN s
               /\ r[k] = s[IF k < i THEN k ELSE k + 1]
    <2>1. CASE k < i
      BY <1>1, <1>2, <1>3, <1>5, <1>6, <2>1
    <2>2. CASE k >= i
      <3>1. k \in 1..(Len(s) - 1) /\ k - (i - 1) \in 1..(Len(s) - i) /\ (k - (i - 1)) + i = k + 1
        BY <1>1, <1>6, <2>2
      <3>2. r[k] = b[k - (i - 1)]
        BY <1>1, <1>2, <1>3, <1>5, <2>2, <3>1
      <3> QED
        BY <1>1, <1>3, <2>2, <3>1, <3>2
    <2> QED
      BY <1>1, <1>6, <2>1, <2>2
  <1> QED
    BY <1>5, <1>7 DEF r

\* The rest of a sequence.
LEMMA DueTail ==
    ASSUME NEW T, NEW s \in Seq(T), s # <<>>
    PROVE  /\ 1 \in DOMAIN s /\ Head(s) = s[1] /\ Tail(s) \in Seq(T)
           /\ \A i \in DOMAIN Tail(s) : i \in Nat /\ i + 1 \in DOMAIN s /\ Tail(s)[i] = s[i + 1]
           /\ \A i \in DOMAIN s : i \in Nat /\ (i = 1 \/ \E k \in DOMAIN Tail(s) : Tail(s)[k] = s[i])
           /\ \A i \in DOMAIN s : 1 <= i
  <1>1. /\ Len(s) \in Nat /\ DOMAIN s = 1..Len(s) /\ Len(s) # 0
        /\ Head(s) = s[1] /\ Tail(s) \in Seq(T) /\ Len(Tail(s)) = Len(s) - 1
        /\ \A i \in 1..Len(Tail(s)) : Tail(s)[i] = s[i + 1]
    BY HeadTailProperties, LenProperties, EmptySeq
  <1>2. DOMAIN Tail(s) = 1..(Len(s) - 1)
    BY <1>1, LenProperties
  <1>3. \A i \in DOMAIN Tail(s) : i \in Nat /\ i + 1 \in DOMAIN s /\ Tail(s)[i] = s[i + 1]
    BY <1>1, <1>2
  <1>4. ASSUME NEW i \in DOMAIN s, i # 1 PROVE \E k \in DOMAIN Tail(s) : Tail(s)[k] = s[i]
    <2>1. i - 1 \in DOMAIN Tail(s) /\ (i - 1) + 1 = i
      BY <1>1, <1>2, <1>4
    <2> QED
      BY <1>3, <2>1
  <1>5. 1 \in DOMAIN s /\ \A i \in DOMAIN s : i \in Nat /\ 1 <= i
    BY <1>1
  <1> QED
    BY <1>1, <1>3, <1>4, <1>5

\* One more element.
LEMMA DueAppend ==
    ASSUME NEW T, NEW s \in Seq(T), NEW x \in T
    PROVE  /\ Append(s, x) \in Seq(T)
           /\ Len(s) + 1 \in DOMAIN Append(s, x) /\ Append(s, x)[Len(s) + 1] = x
           /\ \A i \in DOMAIN s : i \in DOMAIN Append(s, x) /\ Append(s, x)[i] = s[i] /\ i < Len(s) + 1
           /\ \A i \in DOMAIN Append(s, x) : i \in Nat /\ (i = Len(s) + 1 \/ i \in DOMAIN s)
  <1>1. /\ Len(s) \in Nat /\ DOMAIN s = 1..Len(s) /\ Append(s, x) \in Seq(T)
        /\ Len(Append(s, x)) = Len(s) + 1
        /\ \A i \in 1..Len(s) : Append(s, x)[i] = s[i]
        /\ Append(s, x)[Len(s) + 1] = x
    BY AppendProperties, LenProperties
  <1>2. DOMAIN Append(s, x) = 1..(Len(s) + 1)
    BY <1>1, LenProperties
  <1> QED
    BY <1>1, <1>2

\* The types, in the form the proofs use.
LEMMA Facts ==
    ASSUME IInv
    PROVE  /\ now \in Nat /\ nextId \in Nat /\ heap \subseteq Node /\ due \in Seq(Ids)
           /\ drainNow \in Nat /\ firing \in Ids \cup {0} /\ deadline \in [Ids -> Nat]
           /\ interval \in [Ids -> Nat] /\ active \subseteq Ids
           /\ Ids \subseteq Nat /\ 0 \notin Ids /\ (\A m \in heap : m.id \in Ids /\ m.deadline \in Nat)
           /\ \A i \in DOMAIN due : due[i] \in Ids /\ i \in Nat
  <1>1. /\ now \in Nat /\ nextId \in Nat /\ heap \subseteq Node /\ due \in Seq(Ids) /\ drainNow \in Nat
        /\ firing \in Ids \cup {0} /\ deadline \in [Ids -> Nat] /\ interval \in [Ids -> Nat]
        /\ active \subseteq Ids
    BY TimersAssumption DEF IInv, TypeOK
  <1>2. Ids \subseteq Nat /\ 0 \notin Ids
    BY TimersAssumption DEF Ids
  <1>3. \A m \in heap : m.id \in Ids /\ m.deadline \in Nat
    BY <1>1 DEF Node
  <1>4. \A i \in DOMAIN due : due[i] \in Ids /\ i \in Nat
    BY <1>1, LenProperties
  <1> QED
    BY <1>1, <1>2, <1>3, <1>4

\* Every step keeps the types.
LEMMA TypeStep ==
    ASSUME IInv, [Next]_vars
    PROVE  TypeOK'
  <1> USE DEF vars, timerVars, drainVars, rafVars, obsVars
  <1>a. TypeOK /\ DrainPoints
    BY DEF IInv
  <1>1. ASSUME UNCHANGED vars
        PROVE  TypeOK'
    BY <1>a, <1>1 DEF TypeOK
  <1>2. ASSUME NEW rep \in BOOLEAN, NEW d \in Delays, Schedule(rep, d) PROVE TypeOK'
    <2>1. nextId \in Ids /\ nextId + 1 \in 1..(MaxTimers + 1)
      BY <1>2, <1>a, TimersAssumption DEF TypeOK, Schedule, Ids
    <2>2. d \in Nat /\ now + d \in Nat
      BY <1>2, <1>a, DelaysAssumption, TimersAssumption DEF TypeOK
    <2>3. [deadline |-> now + d, id |-> nextId] \in Node
      BY <1>2, <2>1, <2>2 DEF Node
    <2> QED
      BY <1>2, <1>a, <2>1, <2>2, <2>3 DEF TypeOK, Schedule
  <1>3. ASSUME NEW id \in Ids, ClearTimer(id) PROVE TypeOK'
    BY <1>3, <1>a DEF TypeOK, ClearTimer
  <1>4. CASE RequestFrame
    <2>1. nextRaf \in RafIds /\ nextRaf + 1 \in 1..(MaxRafs + 1)
      BY <1>4, <1>a, TimersAssumption DEF TypeOK, RequestFrame, RafIds
    <2>2. Append(rafQueue, nextRaf) \in Seq(RafIds)
      BY <1>4, <1>a, <2>1, AppendProperties DEF TypeOK
    <2> QED
      BY <1>4, <1>a, <2>1, <2>2 DEF TypeOK, RequestFrame
  <1>5. ASSUME NEW id \in RafIds, CancelFrame(id) PROVE TypeOK'
    <2>1. rafQueue' \in Seq(RafIds)
      BY <1>5, <1>a, RemovedType DEF TypeOK, CancelFrame
    <2> QED
      BY <1>5, <1>a, <2>1 DEF TypeOK, CancelFrame
  <1>6. CASE NextDeadline
    BY <1>6, <1>a DEF TypeOK, NextDeadline
  <1>7. CASE DrainBegin
    BY <1>7, <1>a, EmptySeq DEF TypeOK, DrainBegin, Points
  <1>8. ASSUME NEW n \in heap, CollectCleared(n) PROVE TypeOK'
    BY <1>8, <1>a DEF TypeOK, CollectCleared
  <1>9. ASSUME NEW n \in heap, CollectDue(n) PROVE TypeOK'
    <2>1. n.id \in Ids
      BY <1>9, <1>a DEF TypeOK, Node
    <2>2. Append(due, n.id) \in Seq(Ids)
      BY <1>9, <1>a, <2>1, AppendProperties DEF TypeOK
    <2> QED
      BY <1>9, <1>a, <2>2 DEF TypeOK, CollectDue
  <1>10. CASE CollectDone
    BY <1>10, <1>a DEF TypeOK, CollectDone, Points
  <1>11. CASE DispatchSkip
    <2>1. Head(due) \in Ids /\ Tail(due) \in Seq(Ids)
      BY <1>11, <1>a, HeadTailProperties DEF TypeOK, DispatchSkip
    <2> QED
      BY <1>11, <1>a, <2>1 DEF TypeOK, DispatchSkip, Points
  <1>12. CASE DispatchFire
    <2>1. Head(due) \in Ids /\ Tail(due) \in Seq(Ids)
      BY <1>12, <1>a, HeadTailProperties DEF TypeOK, DispatchFire
    <2> QED
      BY <1>12, <1>a, <2>1 DEF TypeOK, DispatchFire, Points
  <1>13. CASE TimerReturns
    <2>1. firing \in Ids
      BY <1>13, <1>a DEF TypeOK, TimerReturns, DrainPoints
    <2>2. now + interval[firing] \in Nat
      BY <1>13, <1>a, <2>1, TimersAssumption DEF TypeOK
    <2>3. [deadline |-> now + interval[firing], id |-> firing] \in Node
      BY <1>13, <2>1, <2>2 DEF Node
    <2> QED
      BY <1>13, <1>a, <2>1, <2>2, <2>3 DEF TypeOK, TimerReturns, Points
  <1>14. CASE TimerThrows
    <2>1. stranded' \subseteq Ids
      BY <1>14, <1>a DEF TypeOK, TimerThrows
    <2> QED
      BY <1>14, <1>a, <2>1, EmptySeq DEF TypeOK, TimerThrows, Points
  <1>15. CASE DispatchDone
    BY <1>15, <1>a DEF TypeOK, DispatchDone, Points
  <1>16. CASE FrameBegin
    BY <1>16, <1>a, EmptySeq DEF TypeOK, FrameBegin, Points
  <1>17. CASE FrameFire
    <2>1. PICK i \in DOMAIN frame : lastRaf' = frame[i] /\ frame' = SubSeq(frame, i + 1, Len(frame))
      BY <1>17 DEF FrameFire
    <2>2. frame' \in Seq(RafIds) /\ lastRaf' \in RafIds
      BY <1>17, <1>a, <2>1, SuffixType DEF TypeOK
    <2> QED
      BY <1>17, <1>a, <2>2 DEF TypeOK, FrameFire, Points
  <1>18. CASE FrameReturns
    BY <1>18, <1>a DEF TypeOK, FrameReturns, Points
  <1>19. CASE FrameThrows
    BY <1>19, <1>a, EmptySeq DEF TypeOK, FrameThrows, Points
  <1>20. CASE FrameDone
    BY <1>20, <1>a, EmptySeq DEF TypeOK, FrameDone, Points
  <1>21. CASE Reset
    BY <1>21, <1>a, EmptySeq, TimersAssumption DEF TypeOK, Reset, Ids, RafIds
  <1>22. CASE Tick
    BY <1>22, <1>a, TimersAssumption DEF TypeOK, Tick
  <1>23. CASE UNCHANGED vars
    BY <1>1, <1>23
  <1> QED
    BY <1>2, <1>3, <1>4, <1>5, <1>6, <1>7, <1>8, <1>9, <1>10, <1>11, <1>12, <1>13, <1>14,
       <1>15, <1>16, <1>17, <1>18, <1>19, <1>20, <1>21, <1>22, <1>23 DEF Next, Script,
       DrainStep, FrameStep

\* No step mentions an id that schedule_impl has not handed out.
LEMMA IdsStep ==
    ASSUME IInv, [Next]_vars
    PROVE  IdsGiven'
  <1> USE DEF vars, timerVars, drainVars, rafVars, obsVars
  <1>a. /\ now \in Nat /\ nextId \in Nat /\ heap \subseteq Node /\ due \in Seq(Ids) /\ drainNow \in Nat
        /\ firing \in Ids \cup {0} /\ deadline \in [Ids -> Nat] /\ interval \in [Ids -> Nat]
        /\ active \subseteq Ids /\ TypeOK
    BY Facts DEF IInv
  <1>b. /\ Ids \subseteq Nat /\ 0 \notin Ids /\ \A m \in heap : m.id \in Ids /\ m.deadline \in Nat
        /\ \A i \in DOMAIN due : due[i] \in Ids /\ i \in Nat
    BY Facts
  <1>c. IdsGiven /\ DrainPoints /\ HeapNodes /\ DueApart
    BY DEF IInv
  <1>d. Accounted /\ ClearedGone /\ DueOrder /\ FreshLater
    BY DEF IInv
  <1>1. ASSUME UNCHANGED <<active, nextId, heap, due, cleared, stranded, firing>>
        PROVE  IdsGiven'
    BY <1>c, <1>1 DEF IdsGiven
  <1>2. ASSUME NEW rep \in BOOLEAN, NEW d \in Delays, Schedule(rep, d) PROVE IdsGiven'
    <2>1. /\ active' = active \cup {nextId} /\ nextId' = nextId + 1
          /\ heap' = heap \cup {[deadline |-> now + d, id |-> nextId]}
          /\ UNCHANGED <<due, cleared, stranded, firing>>
      BY <1>2 DEF Schedule
    <2>2. \A m \in heap' : m \in heap \/ m.id = nextId
      BY <1>2, <2>1
    <2>3. stranded \cup cleared \subseteq Nat
      BY <1>2, <1>a, <1>b DEF TypeOK
    <2>4. \A x \in Nat : x < nextId => x < nextId + 1
      BY <1>2, <1>a
    <2>5. \A id \in active' : id < nextId'
      BY <1>2, <1>a, <1>b, <1>c, <2>1 DEF IdsGiven
    <2>6. \A m \in heap' : m.id < nextId'
      <3> SUFFICES ASSUME NEW m \in heap' PROVE m.id < nextId + 1
        BY <1>2, <2>1
      <3>1. CASE m \in heap
        BY <1>2, <1>b, <1>c, <2>4, <3>1 DEF IdsGiven
      <3>2. CASE m.id = nextId
        BY <1>2, <1>a, <3>2
      <3> QED
        BY <1>2, <2>2, <3>1, <3>2
    <2>7. /\ \A i \in DOMAIN due : due[i] < nextId + 1
          /\ \A id \in cleared \cup stranded : id < nextId + 1
          /\ firing < nextId + 1
      BY <1>2, <1>a, <1>b, <1>c, <2>3, <2>4 DEF IdsGiven
    <2> QED
      BY <1>2, <2>1, <2>5, <2>6, <2>7 DEF IdsGiven
  <1>3. ASSUME NEW id \in Ids, ClearTimer(id) PROVE IdsGiven'
    BY <1>3, <1>a, <1>b, <1>c DEF IdsGiven, ClearTimer
  <1>4. CASE NextDeadline
    BY <1>4, <1>a, <1>b, <1>c DEF IdsGiven, NextDeadline
  <1>5. CASE DrainBegin
    BY <1>5, <1>a, <1>b, <1>c DEF IdsGiven, DrainBegin
  <1>6. ASSUME NEW n \in heap, CollectCleared(n) PROVE IdsGiven'
    BY <1>6, <1>a, <1>b, <1>c DEF IdsGiven, CollectCleared
  <1>7. CASE TimerThrows
    <2>1. 0 < nextId
      BY <1>7, <1>a DEF TypeOK
    <2> QED
      BY <1>7, <1>c, <2>1 DEF IdsGiven, TimerThrows
  <1>8. ASSUME NEW n \in heap, CollectDue(n) PROVE IdsGiven'
    <2>1. \A i \in DOMAIN due' : due'[i] = n.id \/ \E k \in DOMAIN due : due'[i] = due[k]
      BY <1>8, <1>a, DueAppend DEF CollectDue, TypeOK
    <2> QED
      BY <1>8, <1>c, <2>1 DEF IdsGiven, CollectDue
  <1>9. CASE DispatchSkip
    <2>1. \A i \in DOMAIN due' : \E k \in DOMAIN due : due'[i] = due[k]
      BY <1>9, <1>a, DueTail DEF DispatchSkip
    <2>2. 1 \in DOMAIN due /\ Head(due) = due[1]
      BY <1>9, <1>a, DueTail DEF DispatchSkip
    <2> QED
      BY <1>9, <1>c, <2>1, <2>2 DEF IdsGiven, DispatchSkip
  <1>10. CASE DispatchFire
    <2>1. \A i \in DOMAIN due' : \E k \in DOMAIN due : due'[i] = due[k]
      BY <1>10, <1>a, DueTail DEF DispatchFire
    <2>2. 1 \in DOMAIN due /\ Head(due) = due[1]
      BY <1>10, <1>a, DueTail DEF DispatchFire
    <2> QED
      BY <1>10, <1>c, <2>1, <2>2 DEF IdsGiven, DispatchFire
  <1>11. CASE TimerReturns
    <2>1. \A m \in heap' : m \in heap \/ m.id = firing
      BY <1>11 DEF TimerReturns
    <2>2. 0 < nextId
      BY <1>11, <1>a DEF TypeOK
    <2> QED
      BY <1>11, <1>c, <2>1, <2>2 DEF IdsGiven, TimerReturns
  <1>12. CASE Reset
    BY <1>12, <1>a, <1>b, <1>c DEF IdsGiven, Reset
  <1>13. CASE RequestFrame
    BY <1>13, <1>1 DEF RequestFrame
  <1>14. ASSUME NEW id \in RafIds, CancelFrame(id) PROVE IdsGiven'
    BY <1>14, <1>1 DEF CancelFrame
  <1>15. CASE CollectDone \/ DispatchDone
    BY <1>15, <1>1 DEF CollectDone, DispatchDone
  <1>16. CASE FrameBegin \/ FrameFire \/ FrameReturns \/ FrameThrows \/ FrameDone \/ Tick
    BY <1>16, <1>1 DEF FrameBegin, FrameFire, FrameReturns, FrameThrows, FrameDone, Tick
  <1>17. CASE UNCHANGED vars
    BY <1>1, <1>17
  <1> QED
    BY <1>2, <1>3, <1>4, <1>5, <1>6, <1>7, <1>8, <1>9, <1>10, <1>11, <1>12, <1>13, <1>14,
       <1>15, <1>16, <1>17 DEF Next, Script, DrainStep, FrameStep

\* The locals of a drain are empty outside it.
LEMMA PointsStep ==
    ASSUME IInv, [Next]_vars
    PROVE  DrainPoints'
  <1> USE DEF vars, timerVars, drainVars, rafVars, obsVars
  <1>a. /\ now \in Nat /\ nextId \in Nat /\ heap \subseteq Node /\ due \in Seq(Ids) /\ drainNow \in Nat
        /\ firing \in Ids \cup {0} /\ deadline \in [Ids -> Nat] /\ interval \in [Ids -> Nat]
        /\ active \subseteq Ids /\ TypeOK
    BY Facts DEF IInv
  <1>b. /\ Ids \subseteq Nat /\ 0 \notin Ids /\ \A m \in heap : m.id \in Ids /\ m.deadline \in Nat
        /\ \A i \in DOMAIN due : due[i] \in Ids /\ i \in Nat
    BY Facts
  <1>c. IdsGiven /\ DrainPoints /\ HeapNodes /\ DueApart
    BY DEF IInv
  <1>d. Accounted /\ ClearedGone /\ DueOrder /\ FreshLater
    BY DEF IInv
  <1>1. ASSUME UNCHANGED <<pc, due, firing>>
        PROVE  DrainPoints'
    BY <1>c, <1>1 DEF DrainPoints
  <1>2. CASE NextDeadline
    BY <1>2, <1>c DEF DrainPoints, NextDeadline
  <1>3. CASE DrainBegin
    BY <1>3, <1>c DEF DrainPoints, DrainBegin
  <1>4. ASSUME NEW n \in heap, CollectCleared(n) PROVE DrainPoints'
    BY <1>4, <1>c DEF DrainPoints, CollectCleared
  <1>5. ASSUME NEW n \in heap, CollectDue(n) PROVE DrainPoints'
    BY <1>5, <1>c DEF DrainPoints, CollectDue
  <1>6. CASE CollectDone
    BY <1>6, <1>c DEF DrainPoints, CollectDone
  <1>7. CASE TimerReturns
    BY <1>7, <1>c DEF DrainPoints, TimerReturns
  <1>8. CASE TimerThrows
    BY <1>8, <1>c DEF DrainPoints, TimerThrows
  <1>9. CASE DispatchDone
    BY <1>9, <1>c DEF DrainPoints, DispatchDone
  <1>10. CASE FrameBegin
    BY <1>10, <1>c DEF DrainPoints, FrameBegin
  <1>11. CASE FrameFire
    BY <1>11, <1>c DEF DrainPoints, FrameFire
  <1>12. CASE FrameReturns
    BY <1>12, <1>c DEF DrainPoints, FrameReturns
  <1>13. CASE FrameThrows
    BY <1>13, <1>c DEF DrainPoints, FrameThrows
  <1>14. CASE FrameDone
    BY <1>14, <1>c DEF DrainPoints, FrameDone
  <1>15. CASE Reset
    BY <1>15, <1>c DEF DrainPoints, Reset
  <1>16. CASE DispatchSkip
    BY <1>16, <1>c DEF DrainPoints, DispatchSkip
  <1>17. CASE DispatchFire
    <2>1. Head(due) \in Ids
      BY <1>17, <1>a, HeadTailProperties DEF DispatchFire
    <2> QED
      BY <1>17, <1>b, <1>c, <2>1 DEF DrainPoints, DispatchFire
  <1>18. ASSUME NEW rep \in BOOLEAN, NEW d \in Delays, Schedule(rep, d) PROVE DrainPoints'
    BY <1>18, <1>1 DEF Schedule
  <1>19. ASSUME NEW id \in Ids, ClearTimer(id) PROVE DrainPoints'
    BY <1>19, <1>1 DEF ClearTimer
  <1>20. CASE RequestFrame
    BY <1>20, <1>1 DEF RequestFrame
  <1>21. ASSUME NEW id \in RafIds, CancelFrame(id) PROVE DrainPoints'
    BY <1>21, <1>1 DEF CancelFrame
  <1>22. CASE Tick
    BY <1>22, <1>1 DEF Tick
  <1>23. CASE UNCHANGED vars
    BY <1>1, <1>23
  <1> QED
    BY <1>2, <1>3, <1>4, <1>5, <1>6, <1>7, <1>8, <1>9, <1>10, <1>11, <1>12, <1>13, <1>14,
       <1>15, <1>16, <1>17, <1>18, <1>19, <1>20, <1>21, <1>22, <1>23 DEF Next, Script,
       DrainStep, FrameStep

\* Arming a timer gives it the one node that holds its deadline.
LEMMA HeapStep ==
    ASSUME IInv, [Next]_vars
    PROVE  HeapNodes'
  <1> USE DEF vars, timerVars, drainVars, rafVars, obsVars
  <1>a. /\ now \in Nat /\ nextId \in Nat /\ heap \subseteq Node /\ due \in Seq(Ids) /\ drainNow \in Nat
        /\ firing \in Ids \cup {0} /\ deadline \in [Ids -> Nat] /\ interval \in [Ids -> Nat]
        /\ active \subseteq Ids /\ TypeOK
    BY Facts DEF IInv
  <1>b. /\ Ids \subseteq Nat /\ 0 \notin Ids /\ \A m \in heap : m.id \in Ids /\ m.deadline \in Nat
        /\ \A i \in DOMAIN due : due[i] \in Ids /\ i \in Nat
    BY Facts
  <1>c. IdsGiven /\ DrainPoints /\ HeapNodes /\ DueApart
    BY DEF IInv
  <1>d. Accounted /\ ClearedGone /\ DueOrder /\ FreshLater
    BY DEF IInv
  <1>1. ASSUME UNCHANGED <<heap, deadline>>
        PROVE  HeapNodes'
    BY <1>c, <1>1 DEF HeapNodes
  <1>2. ASSUME NEW rep \in BOOLEAN, NEW d \in Delays, Schedule(rep, d) PROVE HeapNodes'
    <2>1. d \in Nat /\ now + d \in Nat /\ nextId \in Ids
      BY <1>2, <1>a, DelaysAssumption, TimersAssumption DEF TypeOK, Schedule, Ids
    <2>2. /\ heap' = heap \cup {[deadline |-> now + d, id |-> nextId]}
          /\ deadline' = [deadline EXCEPT ![nextId] = now + d]
      BY <1>2 DEF Schedule
    <2>3. \A m \in heap : m.id # nextId /\ deadline'[m.id] = deadline[m.id]
      BY <1>2, <1>a, <1>b, <1>c, <2>2 DEF IdsGiven
    <2>4. deadline'[nextId] = now + d
      BY <1>2, <1>a, <2>1, <2>2
    <2> QED
      BY <1>2, <1>c, <2>2, <2>3, <2>4 DEF HeapNodes
  <1>3. CASE TimerReturns
    <2>1. CASE repeat[firing] /\ firing \in active
      <3> DEFINE d == now + interval[firing]
      <3>1. /\ heap' = heap \cup {[deadline |-> d, id |-> firing]}
            /\ deadline' = [deadline EXCEPT ![firing] = d]
        BY <1>3, <2>1 DEF TimerReturns
      <3>2. \A m \in heap : m.id # firing /\ deadline'[m.id] = deadline[m.id]
        BY <1>3, <1>a, <1>b, <1>c, <3>1 DEF DueApart
      <3>3. deadline'[firing] = d
        BY <1>3, <1>a, <2>1, <3>1
      <3> HIDE DEF d
      <3> QED
        BY <1>3, <1>c, <3>1, <3>2, <3>3 DEF HeapNodes
    <2>2. CASE ~(repeat[firing] /\ firing \in active)
      BY <1>3, <1>1, <2>2 DEF TimerReturns
    <2> QED
      BY <1>3, <2>1, <2>2
  <1>4. CASE NextDeadline
    BY <1>4, <1>c DEF HeapNodes, NextDeadline
  <1>5. ASSUME NEW n \in heap, CollectCleared(n) PROVE HeapNodes'
    BY <1>5, <1>c DEF HeapNodes, CollectCleared
  <1>6. ASSUME NEW n \in heap, CollectDue(n) PROVE HeapNodes'
    BY <1>6, <1>c DEF HeapNodes, CollectDue
  <1>7. CASE Reset
    BY <1>7, <1>c DEF HeapNodes, Reset
  <1>8. ASSUME NEW id \in Ids, ClearTimer(id) PROVE HeapNodes'
    BY <1>8, <1>1 DEF ClearTimer
  <1>9. CASE RequestFrame
    BY <1>9, <1>1 DEF RequestFrame
  <1>10. ASSUME NEW id \in RafIds, CancelFrame(id) PROVE HeapNodes'
    BY <1>10, <1>1 DEF CancelFrame
  <1>11. CASE DrainBegin \/ CollectDone \/ DispatchSkip \/ DispatchFire \/ TimerThrows \/
     DispatchDone
    BY <1>11, <1>1 DEF DrainBegin, CollectDone, DispatchSkip, DispatchFire, TimerThrows,
       DispatchDone
  <1>12. CASE FrameBegin \/ FrameFire \/ FrameReturns \/ FrameThrows \/ FrameDone \/ Tick
    BY <1>12, <1>1 DEF FrameBegin, FrameFire, FrameReturns, FrameThrows, FrameDone, Tick
  <1>13. CASE UNCHANGED vars
    BY <1>1, <1>13
  <1> QED
    BY <1>2, <1>3, <1>4, <1>5, <1>6, <1>7, <1>8, <1>9, <1>10, <1>11, <1>12, <1>13 DEF Next,
       Script, DrainStep, FrameStep

\* Collecting moves a timer out of the heap, firing moves it out of `due`.
LEMMA DueStep ==
    ASSUME IInv, [Next]_vars
    PROVE  DueApart'
  <1> USE DEF vars, timerVars, drainVars, rafVars, obsVars
  <1>a. /\ now \in Nat /\ nextId \in Nat /\ heap \subseteq Node /\ due \in Seq(Ids) /\ drainNow \in Nat
        /\ firing \in Ids \cup {0} /\ deadline \in [Ids -> Nat] /\ interval \in [Ids -> Nat]
        /\ active \subseteq Ids /\ TypeOK
    BY Facts DEF IInv
  <1>b. /\ Ids \subseteq Nat /\ 0 \notin Ids /\ \A m \in heap : m.id \in Ids /\ m.deadline \in Nat
        /\ \A i \in DOMAIN due : due[i] \in Ids /\ i \in Nat
    BY Facts
  <1>c. IdsGiven /\ DrainPoints /\ HeapNodes /\ DueApart
    BY DEF IInv
  <1>d. Accounted /\ ClearedGone /\ DueOrder /\ FreshLater
    BY DEF IInv
  <1>1. ASSUME UNCHANGED <<heap, due, firing>>
        PROVE  DueApart'
    BY <1>c, <1>1 DEF DueApart
  <1>2. ASSUME NEW rep \in BOOLEAN, NEW d \in Delays, Schedule(rep, d) PROVE DueApart'
    <2>1. d \in Nat /\ now + d \in Nat /\ nextId \in Ids
      BY <1>2, <1>a, DelaysAssumption, TimersAssumption DEF TypeOK, Schedule, Ids
    <2>2. /\ heap' = heap \cup {[deadline |-> now + d, id |-> nextId]}
          /\ deadline' = [deadline EXCEPT ![nextId] = now + d] /\ active' = active \cup {nextId}
          /\ fresh' = fresh \cup {nextId}
          /\ UNCHANGED <<now, due, firing, stranded, pc, drainNow, cleared>>
      BY <1>2 DEF Schedule
    <2>3. \A m \in heap' : m \in heap \/ (m.id = nextId /\ m.deadline = now + d)
      BY <1>2, <2>2
    <2>4. /\ nextId # firing /\ \A i \in DOMAIN due : due[i] # nextId
          /\ \A m \in heap : m.id # nextId
      BY <1>2, <1>a, <1>b, <1>c DEF IdsGiven
    <2>5. nextId \notin stranded \cup cleared
      BY <1>2, <1>a, <1>c DEF IdsGiven
    <2>6. /\ \A id \in Ids \ {nextId} : deadline'[id] = deadline[id]
          /\ deadline'[nextId] = now + d
      BY <1>2, <1>a, <2>1, <2>2
    <2>7. \A m \in heap : m \in heap'
      BY <1>2, <2>2
    <2>8. \E m \in heap' : m.id = nextId
      <3>1. [deadline |-> now + d, id |-> nextId] \in heap'
        BY <1>2, <2>2
      <3> QED
        BY <1>2, <3>1
    <2> QED
      BY <1>2, <1>c, <2>2, <2>3, <2>4 DEF DueApart
  <1>3. CASE NextDeadline
    BY <1>3, <1>c DEF DueApart, NextDeadline
  <1>4. ASSUME NEW n \in heap, CollectCleared(n) PROVE DueApart'
    BY <1>4, <1>c DEF DueApart, CollectCleared
  <1>5. CASE DrainBegin
    BY <1>5, <1>c DEF DueApart, DrainBegin
  <1>6. ASSUME NEW n \in heap, CollectDue(n) PROVE DueApart'
    <2>1. /\ heap' = heap \ {n} /\ due' = Append(due, n.id) /\ n.id \in Ids /\ pc = "collect"
          /\ UNCHANGED <<firing, stranded, active, deadline, drainNow, now, pc, fresh>>
      BY <1>6, <1>b DEF CollectDue
    <2>2. /\ Len(due) + 1 \in DOMAIN due' /\ due'[Len(due) + 1] = n.id
          /\ \A i \in DOMAIN due : i \in DOMAIN due' /\ due'[i] = due[i] /\ i < Len(due) + 1
          /\ \A i \in DOMAIN due' : i \in Nat /\ (i = Len(due) + 1 \/ i \in DOMAIN due)
      BY <1>6, <1>a, <2>1, DueAppend
    <2>3. \A i \in DOMAIN due : due[i] # n.id
      BY <1>6, <1>c DEF DueApart
    <2>4. \A m \in heap' : m \in heap /\ m.id # n.id
      BY <1>6, <1>c, <2>1 DEF HeapNodes
    <2>5. n.id # firing
      BY <1>6, <1>c DEF DueApart
    <2>6. \A i, k \in DOMAIN due' : due'[i] = due'[k] => i = k
      BY <1>6, <1>c, <2>2, <2>3 DEF DueApart
    <2> QED
      BY <1>6, <1>c, <2>1, <2>2, <2>3, <2>4, <2>5, <2>6 DEF DueApart
  <1>7. CASE DispatchSkip
    <2>1. /\ 1 \in DOMAIN due /\ Head(due) = due[1]
          /\ \A i \in DOMAIN Tail(due) : i \in Nat /\ i + 1 \in DOMAIN due /\ Tail(due)[i] = due[i + 1]
          /\ \A i \in DOMAIN due : i \in Nat /\ (i = 1 \/ \E k \in DOMAIN Tail(due) : Tail(due)[k] = due[i])
          /\ \A i \in DOMAIN due : 1 <= i
      BY <1>7, <1>a, DueTail DEF DispatchSkip
    <2>2. due' = Tail(due) /\ UNCHANGED <<heap, deadline, stranded, now, drainNow, fresh>>
      BY <1>7 DEF DispatchSkip
    <2>3. \A i, k \in DOMAIN due' : due'[i] = due'[k] => i = k
      BY <1>7, <1>c, <2>1, <2>2 DEF DueApart
    <2> QED
      BY <1>7, <1>c, <2>1, <2>2, <2>3 DEF DueApart, DispatchSkip
  <1>8. CASE DispatchFire
    <2>1. /\ 1 \in DOMAIN due /\ Head(due) = due[1]
          /\ \A i \in DOMAIN Tail(due) : i \in Nat /\ i + 1 \in DOMAIN due /\ Tail(due)[i] = due[i + 1]
          /\ \A i \in DOMAIN due : i \in Nat /\ (i = 1 \/ \E k \in DOMAIN Tail(due) : Tail(due)[k] = due[i])
          /\ \A i \in DOMAIN due : 1 <= i
      BY <1>8, <1>a, DueTail DEF DispatchFire
    <2>2. due' = Tail(due) /\ UNCHANGED <<heap, deadline, stranded, now, drainNow, fresh>>
      BY <1>8 DEF DispatchFire
    <2>3. \A i, k \in DOMAIN due' : due'[i] = due'[k] => i = k
      BY <1>8, <1>c, <2>1, <2>2 DEF DueApart
    <2>4. \A i \in DOMAIN due' : due'[i] # due[1]
      <3> SUFFICES ASSUME NEW i \in DOMAIN due', due'[i] = due[1] PROVE FALSE
        OBVIOUS
      <3>1. i \in Nat /\ i + 1 \in DOMAIN due /\ due[i + 1] = due[1]
        BY <1>8, <2>1, <2>2
      <3>2. i + 1 = 1
        BY <1>8, <1>c, <2>1, <3>1 DEF DueApart
      <3>3. i \in DOMAIN due' /\ i >= 1
        BY <1>8, <1>a, <2>2, HeadTailProperties, LenProperties DEF DispatchFire
      <3> QED
        BY <1>8, <3>1, <3>2, <3>3
    <2>5. firing' = due[1]
      BY <1>8, <2>1 DEF DispatchFire
    <2> QED
      BY <1>8, <1>c, <2>1, <2>2, <2>3, <2>4, <2>5 DEF DueApart
  <1>9. CASE TimerReturns
    <2>1. CASE repeat[firing] /\ firing \in active
      <3> DEFINE d == now + interval[firing]
      <3>1. /\ heap' = heap \cup {[deadline |-> d, id |-> firing]}
            /\ deadline' = [deadline EXCEPT ![firing] = d]
            /\ firing' = 0 /\ pc' = "dispatch" /\ pc = "timer" /\ fresh' = fresh \cup {firing}
            /\ UNCHANGED <<now, active, due, stranded, drainNow, cleared>>
        BY <1>9, <2>1 DEF TimerReturns
      <3>2. \A m \in heap' : m \in heap \/ (m.id = firing /\ m.deadline = d)
        BY <1>9, <3>1
      <3>3. \A m \in heap : m \in heap' /\ m.id # firing
        BY <1>9, <1>c, <3>1 DEF DueApart
      <3>4. d \in Nat /\ d >= now /\ firing \in Ids
        BY <1>9, <1>a, <2>1
      <3>5. \E m \in heap' : m.id = firing
        <4>1. [deadline |-> d, id |-> firing] \in heap'
          BY <1>9, <3>1
        <4> QED
          BY <1>9, <4>1
      <3>6. deadline'[firing] = d /\ \A id \in Ids \ {firing} : deadline'[id] = deadline[id]
        BY <1>9, <1>a, <2>1, <3>1
      <3> HIDE DEF d
      <3> QED
        BY <1>9, <1>b, <1>c, <3>1, <3>2, <3>4 DEF DueApart
    <2>2. CASE ~(repeat[firing] /\ firing \in active)
      BY <1>9, <1>b, <1>c, <2>2 DEF DueApart, TimerReturns
    <2> QED
      BY <1>9, <2>1, <2>2
  <1>10. CASE TimerThrows
    BY <1>10, <1>b, <1>c DEF DueApart, TimerThrows
  <1>11. CASE Reset
    BY <1>11 DEF DueApart, Reset
  <1>12. ASSUME NEW id \in Ids, ClearTimer(id) PROVE DueApart'
    BY <1>12, <1>1 DEF ClearTimer
  <1>13. CASE RequestFrame
    BY <1>13, <1>1 DEF RequestFrame
  <1>14. ASSUME NEW id \in RafIds, CancelFrame(id) PROVE DueApart'
    BY <1>14, <1>1 DEF CancelFrame
  <1>15. CASE CollectDone \/ DispatchDone
    BY <1>15, <1>1 DEF CollectDone, DispatchDone
  <1>16. CASE FrameBegin \/ FrameFire \/ FrameReturns \/ FrameThrows \/ FrameDone \/ Tick
    BY <1>16, <1>1 DEF FrameBegin, FrameFire, FrameReturns, FrameThrows, FrameDone, Tick
  <1>17. CASE UNCHANGED vars
    BY <1>1, <1>17
  <1> QED
    BY <1>2, <1>3, <1>4, <1>5, <1>6, <1>7, <1>8, <1>9, <1>10, <1>11, <1>12, <1>13, <1>14,
       <1>15, <1>16, <1>17 DEF Next, Script, DrainStep, FrameStep

\* No active timer is lost, except by a callback that throws.
LEMMA AccountedStep ==
    ASSUME IInv, [Next]_vars
    PROVE  Accounted'
  <1> USE DEF vars, timerVars, drainVars, rafVars, obsVars
  <1>a. /\ now \in Nat /\ nextId \in Nat /\ heap \subseteq Node /\ due \in Seq(Ids) /\ drainNow \in Nat
        /\ firing \in Ids \cup {0} /\ deadline \in [Ids -> Nat] /\ interval \in [Ids -> Nat]
        /\ active \subseteq Ids /\ TypeOK
    BY Facts DEF IInv
  <1>b. /\ Ids \subseteq Nat /\ 0 \notin Ids /\ \A m \in heap : m.id \in Ids /\ m.deadline \in Nat
        /\ \A i \in DOMAIN due : due[i] \in Ids /\ i \in Nat
    BY Facts
  <1>c. IdsGiven /\ DrainPoints /\ HeapNodes /\ DueApart
    BY DEF IInv
  <1>d. Accounted /\ ClearedGone /\ DueOrder /\ FreshLater
    BY DEF IInv
  <1>e. pc = "timer" /\ firing \in active => repeat[firing]
    BY DEF IInv, ClearedGone
  <1>1. ASSUME UNCHANGED <<active, heap, due, firing, stranded>>
        PROVE  Accounted'
    BY <1>d, <1>1 DEF Accounted
  <1>2. ASSUME NEW rep \in BOOLEAN, NEW d \in Delays, Schedule(rep, d) PROVE Accounted'
    <2>1. d \in Nat /\ now + d \in Nat /\ nextId \in Ids
      BY <1>2, <1>a, DelaysAssumption, TimersAssumption DEF TypeOK, Schedule, Ids
    <2>2. /\ heap' = heap \cup {[deadline |-> now + d, id |-> nextId]}
          /\ deadline' = [deadline EXCEPT ![nextId] = now + d] /\ active' = active \cup {nextId}
          /\ fresh' = fresh \cup {nextId}
          /\ UNCHANGED <<now, due, firing, stranded, pc, drainNow, cleared>>
      BY <1>2 DEF Schedule
    <2>3. \A m \in heap' : m \in heap \/ (m.id = nextId /\ m.deadline = now + d)
      BY <1>2, <2>2
    <2>4. /\ nextId # firing /\ \A i \in DOMAIN due : due[i] # nextId
          /\ \A m \in heap : m.id # nextId
      BY <1>2, <1>a, <1>b, <1>c DEF IdsGiven
    <2>5. nextId \notin stranded \cup cleared
      BY <1>2, <1>a, <1>c DEF IdsGiven
    <2>6. /\ \A id \in Ids \ {nextId} : deadline'[id] = deadline[id]
          /\ deadline'[nextId] = now + d
      BY <1>2, <1>a, <2>1, <2>2
    <2>7. \A m \in heap : m \in heap'
      BY <1>2, <2>2
    <2>8. \E m \in heap' : m.id = nextId
      <3>1. [deadline |-> now + d, id |-> nextId] \in heap'
        BY <1>2, <2>2
      <3> QED
        BY <1>2, <3>1
    <2> QED
      BY <1>2, <1>d, <2>2, <2>3, <2>4, <2>5, <2>7, <2>8 DEF Accounted
  <1>3. ASSUME NEW id \in Ids, ClearTimer(id) PROVE Accounted'
    BY <1>3, <1>d DEF Accounted, ClearTimer
  <1>4. CASE NextDeadline
    <2> DEFINE live == {m \in heap : m.id \in active}
    <2>1. /\ heap' \subseteq heap /\ live \subseteq heap'
          /\ UNCHANGED <<active, due, firing, stranded>>
      <3>1. \A m \in live : m.deadline <= m.deadline
        BY <1>4, <1>b
      <3> QED
        BY <1>4, <3>1 DEF NextDeadline
    <2> QED
      BY <1>4, <1>d, <2>1 DEF Accounted
  <1>5. CASE DrainBegin
    <2>1. due = <<>> /\ due' = <<>> /\ UNCHANGED <<active, heap, firing, stranded>>
      BY <1>5, <1>c DEF DrainPoints, DrainBegin
    <2> QED
      BY <1>5, <1>d, <2>1 DEF Accounted
  <1>6. ASSUME NEW n \in heap, CollectCleared(n) PROVE Accounted'
    <2>1. /\ heap' = heap \ {n} /\ n.id \notin active /\ UNCHANGED <<active, due, firing, stranded>>
      BY <1>6 DEF CollectCleared
    <2> QED
      BY <1>6, <1>d, <2>1 DEF Accounted
  <1>7. ASSUME NEW n \in heap, CollectDue(n) PROVE Accounted'
    <2>1. /\ heap' = heap \ {n} /\ due' = Append(due, n.id) /\ n.id \in Ids /\ pc = "collect"
          /\ UNCHANGED <<firing, stranded, active, deadline, drainNow, now, pc, fresh>>
      BY <1>7, <1>b DEF CollectDue
    <2>2. /\ Len(due) + 1 \in DOMAIN due' /\ due'[Len(due) + 1] = n.id
          /\ \A i \in DOMAIN due : i \in DOMAIN due' /\ due'[i] = due[i] /\ i < Len(due) + 1
          /\ \A i \in DOMAIN due' : i \in Nat /\ (i = Len(due) + 1 \/ i \in DOMAIN due)
      BY <1>7, <1>a, <2>1, DueAppend
    <2>3. n.id \notin stranded /\ \A m \in heap : m \in heap' \/ m = n
      BY <1>7, <1>d, <2>1 DEF Accounted
    <2> QED
      BY <1>7, <1>d, <2>1, <2>2, <2>3 DEF Accounted
  <1>8. CASE DispatchSkip
    <2>1. /\ 1 \in DOMAIN due /\ Head(due) = due[1]
          /\ \A i \in DOMAIN Tail(due) : i \in Nat /\ i + 1 \in DOMAIN due /\ Tail(due)[i] = due[i + 1]
          /\ \A i \in DOMAIN due : i \in Nat /\ (i = 1 \/ \E k \in DOMAIN Tail(due) : Tail(due)[k] = due[i])
          /\ \A i \in DOMAIN due : 1 <= i
      BY <1>8, <1>a, DueTail DEF DispatchSkip
    <2>2. due' = Tail(due) /\ UNCHANGED <<heap, deadline, stranded, now, drainNow, fresh>>
      BY <1>8 DEF DispatchSkip
    <2>3. due[1] \notin active /\ UNCHANGED <<active, firing>>
      BY <1>8, <2>1 DEF DispatchSkip
    <2> QED
      BY <1>8, <1>d, <2>1, <2>2, <2>3 DEF Accounted
  <1>9. CASE DispatchFire
    <2>1. /\ 1 \in DOMAIN due /\ Head(due) = due[1]
          /\ \A i \in DOMAIN Tail(due) : i \in Nat /\ i + 1 \in DOMAIN due /\ Tail(due)[i] = due[i + 1]
          /\ \A i \in DOMAIN due : i \in Nat /\ (i = 1 \/ \E k \in DOMAIN Tail(due) : Tail(due)[k] = due[i])
          /\ \A i \in DOMAIN due : 1 <= i
      BY <1>9, <1>a, DueTail DEF DispatchFire
    <2>2. due' = Tail(due) /\ UNCHANGED <<heap, deadline, stranded, now, drainNow, fresh>>
      BY <1>9 DEF DispatchFire
    <2>3. firing' = due[1] /\ firing = 0 /\ active' \subseteq active
      BY <1>9, <1>c, <2>1 DEF DispatchFire, DrainPoints
    <2>4. due[1] \notin stranded /\ 0 \notin active
      BY <1>9, <1>a, <1>b, <1>d, <2>1 DEF Accounted
    <2>5. \A id \in stranded' : /\ id # firing' /\ \A m \in heap' : m.id # id
                               /\ \A i \in DOMAIN due' : due'[i] # id
      BY <1>9, <1>d, <2>1, <2>2, <2>3, <2>4 DEF Accounted
    <2>6. ASSUME NEW id \in active' \ stranded'
          PROVE  id = firing' \/ (\E m \in heap' : m.id = id) \/ \E i \in DOMAIN due' : due'[i] = id
      <3>1. id \in active \ stranded /\ id # firing
        BY <1>9, <2>2, <2>3, <2>4, <2>6
      <3>2. (\E m \in heap : m.id = id) \/ \E i \in DOMAIN due : due[i] = id
        BY <1>9, <1>d, <3>1 DEF Accounted
      <3> QED
        BY <1>9, <2>1, <2>2, <2>3, <3>2
    <2> QED
      BY <1>9, <2>5, <2>6 DEF Accounted
  <1>10. CASE TimerReturns
    <2>1. CASE repeat[firing] /\ firing \in active
      <3> DEFINE d == now + interval[firing]
      <3>1. /\ heap' = heap \cup {[deadline |-> d, id |-> firing]}
            /\ deadline' = [deadline EXCEPT ![firing] = d]
            /\ firing' = 0 /\ pc' = "dispatch" /\ pc = "timer" /\ fresh' = fresh \cup {firing}
            /\ UNCHANGED <<now, active, due, stranded, drainNow, cleared>>
        BY <1>10, <2>1 DEF TimerReturns
      <3>2. \A m \in heap' : m \in heap \/ (m.id = firing /\ m.deadline = d)
        BY <1>10, <3>1
      <3>3. \A m \in heap : m \in heap' /\ m.id # firing
        BY <1>10, <1>c, <3>1 DEF DueApart
      <3>4. d \in Nat /\ d >= now /\ firing \in Ids
        BY <1>10, <1>a, <2>1
      <3>5. \E m \in heap' : m.id = firing
        <4>1. [deadline |-> d, id |-> firing] \in heap'
          BY <1>10, <3>1
        <4> QED
          BY <1>10, <4>1
      <3>6. deadline'[firing] = d /\ \A id \in Ids \ {firing} : deadline'[id] = deadline[id]
        BY <1>10, <1>a, <2>1, <3>1
      <3>0. 0 \notin stranded /\ firing \notin stranded
        BY <1>10, <1>a, <1>b, <1>d DEF TypeOK, Accounted
      <3> HIDE DEF d
      <3> QED
        BY <1>10, <1>d, <3>0, <3>1, <3>2, <3>3, <3>5 DEF Accounted
    <2>0. 0 \notin stranded
      BY <1>10, <1>a, <1>b DEF TypeOK
    <2>3. firing \notin active \/ repeat[firing]
      BY <1>10, <1>e DEF TimerReturns
    <2>2. CASE ~(repeat[firing] /\ firing \in active)
      BY <1>10, <1>d, <2>0, <2>2, <2>3 DEF Accounted, TimerReturns
    <2> QED
      BY <1>10, <2>1, <2>2
  <1>11. CASE TimerThrows
    <2>1. /\ stranded' = stranded \cup (active \cap ({due[i] : i \in DOMAIN due} \cup {firing}))
          /\ due' = <<>> /\ firing' = 0 /\ UNCHANGED <<active, heap>>
      BY <1>11 DEF TimerThrows
    <2>2. 0 \notin stranded'
      BY <1>11, <1>a, <1>b, <2>1 DEF TypeOK
    <2>3. \A id \in stranded' : \A m \in heap : m.id # id
      BY <1>11, <1>c, <1>d, <2>1 DEF Accounted, DueApart
    <2>4. \A id \in active \ stranded' : \E m \in heap : m.id = id
      BY <1>11, <1>d, <2>1 DEF Accounted
    <2> QED
      BY <1>11, <2>1, <2>2, <2>3, <2>4 DEF Accounted
  <1>12. CASE Reset
    BY <1>12 DEF Accounted, Reset
  <1>13. CASE RequestFrame
    BY <1>13, <1>1 DEF RequestFrame
  <1>14. ASSUME NEW id \in RafIds, CancelFrame(id) PROVE Accounted'
    BY <1>14, <1>1 DEF CancelFrame
  <1>15. CASE CollectDone \/ DispatchDone
    BY <1>15, <1>1 DEF CollectDone, DispatchDone
  <1>16. CASE FrameBegin \/ FrameFire \/ FrameReturns \/ FrameThrows \/ FrameDone \/ Tick
    BY <1>16, <1>1 DEF FrameBegin, FrameFire, FrameReturns, FrameThrows, FrameDone, Tick
  <1>17. CASE UNCHANGED vars
    BY <1>1, <1>17
  <1> QED
    BY <1>2, <1>3, <1>4, <1>5, <1>6, <1>7, <1>8, <1>9, <1>10, <1>11, <1>12, <1>13, <1>14,
       <1>15, <1>16, <1>17 DEF Next, Script, DrainStep, FrameStep

\* clear_timer_cb is final.
LEMMA ClearedStep ==
    ASSUME IInv, [Next]_vars
    PROVE  ClearedGone'
  <1> USE DEF vars, timerVars, drainVars, rafVars, obsVars
  <1>a. /\ now \in Nat /\ nextId \in Nat /\ heap \subseteq Node /\ due \in Seq(Ids) /\ drainNow \in Nat
        /\ firing \in Ids \cup {0} /\ deadline \in [Ids -> Nat] /\ interval \in [Ids -> Nat]
        /\ active \subseteq Ids /\ TypeOK
    BY Facts DEF IInv
  <1>b. /\ Ids \subseteq Nat /\ 0 \notin Ids /\ \A m \in heap : m.id \in Ids /\ m.deadline \in Nat
        /\ \A i \in DOMAIN due : due[i] \in Ids /\ i \in Nat
    BY Facts
  <1>c. IdsGiven /\ DrainPoints /\ HeapNodes /\ DueApart
    BY DEF IInv
  <1>d. Accounted /\ ClearedGone /\ DueOrder /\ FreshLater
    BY DEF IInv
  <1>1. ASSUME UNCHANGED <<active, cleared, pc, firing, repeat>>
        PROVE  ClearedGone'
    BY <1>d, <1>1 DEF ClearedGone
  <1>2. ASSUME NEW rep \in BOOLEAN, NEW d \in Delays, Schedule(rep, d) PROVE ClearedGone'
    <2>1. d \in Nat /\ now + d \in Nat /\ nextId \in Ids
      BY <1>2, <1>a, DelaysAssumption, TimersAssumption DEF TypeOK, Schedule, Ids
    <2>2. /\ heap' = heap \cup {[deadline |-> now + d, id |-> nextId]}
          /\ deadline' = [deadline EXCEPT ![nextId] = now + d] /\ active' = active \cup {nextId}
          /\ fresh' = fresh \cup {nextId}
          /\ UNCHANGED <<now, due, firing, stranded, pc, drainNow, cleared>>
      BY <1>2 DEF Schedule
    <2>3. \A m \in heap' : m \in heap \/ (m.id = nextId /\ m.deadline = now + d)
      BY <1>2, <2>2
    <2>4. /\ nextId # firing /\ \A i \in DOMAIN due : due[i] # nextId
          /\ \A m \in heap : m.id # nextId
      BY <1>2, <1>a, <1>b, <1>c DEF IdsGiven
    <2>5. nextId \notin stranded \cup cleared
      BY <1>2, <1>a, <1>c DEF IdsGiven
    <2>6. /\ \A id \in Ids \ {nextId} : deadline'[id] = deadline[id]
          /\ deadline'[nextId] = now + d
      BY <1>2, <1>a, <2>1, <2>2
    <2>7. \A m \in heap : m \in heap'
      BY <1>2, <2>2
    <2>8. \E m \in heap' : m.id = nextId
      <3>1. [deadline |-> now + d, id |-> nextId] \in heap'
        BY <1>2, <2>2
      <3> QED
        BY <1>2, <3>1
    <2>9. pc # "timer" \/ nextId # firing
      BY <1>2, <2>4
    <2>10. \A id \in Ids \ {nextId} : repeat'[id] = repeat[id]
      BY <1>2, <1>a, <2>1 DEF Schedule, TypeOK
    <2> QED
      BY <1>2, <1>a, <1>d, <2>2, <2>4, <2>5, <2>10 DEF ClearedGone
  <1>3. ASSUME NEW id \in Ids, ClearTimer(id) PROVE ClearedGone'
    BY <1>3, <1>d DEF ClearedGone, ClearTimer
  <1>4. CASE DispatchFire
    BY <1>4, <1>d DEF ClearedGone, DispatchFire
  <1>5. CASE DrainBegin
    BY <1>5, <1>d DEF ClearedGone, DrainBegin
  <1>6. CASE CollectDone
    BY <1>6, <1>d DEF ClearedGone, CollectDone
  <1>7. CASE TimerReturns
    BY <1>7, <1>d DEF ClearedGone, TimerReturns
  <1>8. CASE TimerThrows
    BY <1>8, <1>d DEF ClearedGone, TimerThrows
  <1>9. CASE DispatchDone
    BY <1>9, <1>d DEF ClearedGone, DispatchDone
  <1>10. CASE FrameBegin
    BY <1>10, <1>d DEF ClearedGone, FrameBegin
  <1>11. CASE FrameFire
    BY <1>11, <1>d DEF ClearedGone, FrameFire
  <1>12. CASE FrameReturns
    BY <1>12, <1>d DEF ClearedGone, FrameReturns
  <1>13. CASE FrameThrows
    BY <1>13, <1>d DEF ClearedGone, FrameThrows
  <1>14. CASE FrameDone
    BY <1>14, <1>d DEF ClearedGone, FrameDone
  <1>15. CASE Reset
    BY <1>15, <1>d DEF ClearedGone, Reset
  <1>16. CASE RequestFrame
    BY <1>16, <1>1 DEF RequestFrame
  <1>17. ASSUME NEW id \in RafIds, CancelFrame(id) PROVE ClearedGone'
    BY <1>17, <1>1 DEF CancelFrame
  <1>18. ASSUME NEW n \in heap, CollectCleared(n) \/ CollectDue(n) PROVE ClearedGone'
    BY <1>18, <1>1 DEF CollectCleared, CollectDue
  <1>19. CASE NextDeadline \/ DispatchSkip
    BY <1>19, <1>1 DEF NextDeadline, DispatchSkip
  <1>20. CASE Tick
    BY <1>20, <1>1 DEF Tick
  <1>21. CASE UNCHANGED vars
    BY <1>1, <1>21
  <1> QED
    BY <1>2, <1>3, <1>4, <1>5, <1>6, <1>7, <1>8, <1>9, <1>10, <1>11, <1>12, <1>13, <1>14,
       <1>15, <1>16, <1>17, <1>18, <1>19, <1>20, <1>21 DEF Next, Script, DrainStep,
       FrameStep

\* Collected timers are called in the order of their deadlines.
LEMMA DueOrderStep ==
    ASSUME IInv, [Next]_vars
    PROVE  DueOrder'
  <1> USE DEF vars, timerVars, drainVars, rafVars, obsVars
  <1>a. /\ now \in Nat /\ nextId \in Nat /\ heap \subseteq Node /\ due \in Seq(Ids) /\ drainNow \in Nat
        /\ firing \in Ids \cup {0} /\ deadline \in [Ids -> Nat] /\ interval \in [Ids -> Nat]
        /\ active \subseteq Ids /\ TypeOK
    BY Facts DEF IInv
  <1>b. /\ Ids \subseteq Nat /\ 0 \notin Ids /\ \A m \in heap : m.id \in Ids /\ m.deadline \in Nat
        /\ \A i \in DOMAIN due : due[i] \in Ids /\ i \in Nat
    BY Facts
  <1>c. IdsGiven /\ DrainPoints /\ HeapNodes /\ DueApart
    BY DEF IInv
  <1>d. Accounted /\ ClearedGone /\ DueOrder /\ FreshLater
    BY DEF IInv
  <1>1. ASSUME UNCHANGED <<pc, now, drainNow, due, heap, deadline>>
        PROVE  DueOrder'
    BY <1>d, <1>1 DEF DueOrder
  <1>2. ASSUME NEW rep \in BOOLEAN, NEW d \in Delays, Schedule(rep, d) PROVE DueOrder'
    <2>1. d \in Nat /\ now + d \in Nat /\ nextId \in Ids
      BY <1>2, <1>a, DelaysAssumption, TimersAssumption DEF TypeOK, Schedule, Ids
    <2>2. /\ heap' = heap \cup {[deadline |-> now + d, id |-> nextId]}
          /\ deadline' = [deadline EXCEPT ![nextId] = now + d] /\ active' = active \cup {nextId}
          /\ fresh' = fresh \cup {nextId}
          /\ UNCHANGED <<now, due, firing, stranded, pc, drainNow, cleared>>
      BY <1>2 DEF Schedule
    <2>3. \A m \in heap' : m \in heap \/ (m.id = nextId /\ m.deadline = now + d)
      BY <1>2, <2>2
    <2>4. /\ nextId # firing /\ \A i \in DOMAIN due : due[i] # nextId
          /\ \A m \in heap : m.id # nextId
      BY <1>2, <1>a, <1>b, <1>c DEF IdsGiven
    <2>5. nextId \notin stranded \cup cleared
      BY <1>2, <1>a, <1>c DEF IdsGiven
    <2>6. /\ \A id \in Ids \ {nextId} : deadline'[id] = deadline[id]
          /\ deadline'[nextId] = now + d
      BY <1>2, <1>a, <2>1, <2>2
    <2>7. \A m \in heap : m \in heap'
      BY <1>2, <2>2
    <2>8. \E m \in heap' : m.id = nextId
      <3>1. [deadline |-> now + d, id |-> nextId] \in heap'
        BY <1>2, <2>2
      <3> QED
        BY <1>2, <3>1
    <2>9. \A i \in DOMAIN due : deadline'[due[i]] = deadline[due[i]] /\ deadline[due[i]] \in Nat
      BY <1>2, <1>a, <1>b, <2>4, <2>6
    <2>10. CASE due = <<>>
      BY <1>2, <1>d, <2>2, <2>10 DEF DueOrder
    <2>11. CASE due # <<>>
      <3>1. drainNow <= now
        BY <1>2, <1>a, <1>c, <1>d, <2>11 DEF DueOrder, DrainPoints, TypeOK, Points
      <3>2. \A i \in DOMAIN due : deadline[due[i]] <= drainNow
        BY <1>2, <1>d DEF DueOrder
      <3>3. \A i \in DOMAIN due : deadline[due[i]] <= now + d
        BY <1>2, <1>a, <2>1, <2>9, <3>1, <3>2
      <3>4. \A i \in DOMAIN due, m \in heap' : deadline[due[i]] <= m.deadline
        BY <1>2, <1>d, <2>3, <3>3 DEF DueOrder
      <3> QED
        BY <1>2, <1>d, <2>2, <2>9, <3>4 DEF DueOrder
    <2> QED
      BY <1>2, <2>10, <2>11
  <1>3. CASE NextDeadline
    BY <1>3, <1>d DEF DueOrder, NextDeadline
  <1>4. CASE DrainBegin
    BY <1>4, <1>a, <1>d DEF DueOrder, DrainBegin
  <1>5. ASSUME NEW n \in heap, CollectCleared(n) PROVE DueOrder'
    BY <1>5, <1>d DEF DueOrder, CollectCleared
  <1>6. ASSUME NEW n \in heap, CollectDue(n) PROVE DueOrder'
    <2>1. /\ heap' = heap \ {n} /\ due' = Append(due, n.id) /\ n.id \in Ids /\ pc = "collect"
          /\ UNCHANGED <<firing, stranded, active, deadline, drainNow, now, pc, fresh>>
      BY <1>6, <1>b DEF CollectDue
    <2>2. /\ Len(due) + 1 \in DOMAIN due' /\ due'[Len(due) + 1] = n.id
          /\ \A i \in DOMAIN due : i \in DOMAIN due' /\ due'[i] = due[i] /\ i < Len(due) + 1
          /\ \A i \in DOMAIN due' : i \in Nat /\ (i = Len(due) + 1 \/ i \in DOMAIN due)
      BY <1>6, <1>a, <2>1, DueAppend
    <2>3. n.deadline <= drainNow /\ n.deadline = deadline[n.id] /\ \A m \in heap : n.deadline <= m.deadline
      BY <1>6, <1>c DEF CollectDue, Tops, HeapNodes
    <2>4. \A i \in DOMAIN due : deadline[due[i]] <= n.deadline
      BY <1>6, <1>d DEF DueOrder
    <2>5. \A i \in DOMAIN due' : deadline[due'[i]] <= drainNow
      BY <1>6, <1>d, <2>2, <2>3 DEF DueOrder
    <2>6. \A i, k \in DOMAIN due' : i < k => deadline[due'[i]] <= deadline[due'[k]]
      <3> SUFFICES ASSUME NEW i \in DOMAIN due', NEW k \in DOMAIN due', i < k
                   PROVE  deadline[due'[i]] <= deadline[due'[k]]
        OBVIOUS
      <3>1. i \in DOMAIN due
        <4>1. i # Len(due) + 1
          BY <1>6, <1>a, <2>2, LenProperties
        <4> QED
          BY <1>6, <2>2, <4>1
      <3> QED
        BY <1>6, <1>d, <2>2, <2>3, <2>4, <3>1 DEF DueOrder
    <2>7. \A i \in DOMAIN due', m \in heap' : deadline[due'[i]] <= m.deadline
      BY <1>6, <1>d, <2>1, <2>2, <2>3 DEF DueOrder
    <2> QED
      BY <1>6, <1>d, <2>1, <2>5, <2>6, <2>7 DEF DueOrder
  <1>7. CASE DispatchSkip
    <2>1. /\ 1 \in DOMAIN due /\ Head(due) = due[1]
          /\ \A i \in DOMAIN Tail(due) : i \in Nat /\ i + 1 \in DOMAIN due /\ Tail(due)[i] = due[i + 1]
          /\ \A i \in DOMAIN due : i \in Nat /\ (i = 1 \/ \E k \in DOMAIN Tail(due) : Tail(due)[k] = due[i])
          /\ \A i \in DOMAIN due : 1 <= i
      BY <1>7, <1>a, DueTail DEF DispatchSkip
    <2>2. due' = Tail(due) /\ UNCHANGED <<heap, deadline, stranded, now, drainNow, fresh>>
      BY <1>7 DEF DispatchSkip
    <2>3. \A i, k \in DOMAIN due' : i < k => deadline[due'[i]] <= deadline[due'[k]]
      <3> SUFFICES ASSUME NEW i \in DOMAIN due', NEW k \in DOMAIN due', i < k
                   PROVE  deadline[due'[i]] <= deadline[due'[k]]
        OBVIOUS
      <3>1. /\ i + 1 \in DOMAIN due /\ k + 1 \in DOMAIN due /\ i + 1 < k + 1
            /\ due'[i] = due[i + 1] /\ due'[k] = due[k + 1]
        BY <1>7, <2>1, <2>2
      <3> QED
        BY <1>7, <1>d, <3>1 DEF DueOrder
    <2>4. drainNow <= now
      BY <1>7, <1>d DEF DueOrder, DispatchSkip
    <2> QED
      BY <1>7, <1>d, <2>1, <2>2, <2>3, <2>4 DEF DueOrder
  <1>8. CASE DispatchFire
    <2>1. /\ 1 \in DOMAIN due /\ Head(due) = due[1]
          /\ \A i \in DOMAIN Tail(due) : i \in Nat /\ i + 1 \in DOMAIN due /\ Tail(due)[i] = due[i + 1]
          /\ \A i \in DOMAIN due : i \in Nat /\ (i = 1 \/ \E k \in DOMAIN Tail(due) : Tail(due)[k] = due[i])
          /\ \A i \in DOMAIN due : 1 <= i
      BY <1>8, <1>a, DueTail DEF DispatchFire
    <2>2. due' = Tail(due) /\ UNCHANGED <<heap, deadline, stranded, now, drainNow, fresh>>
      BY <1>8 DEF DispatchFire
    <2>3. \A i, k \in DOMAIN due' : i < k => deadline[due'[i]] <= deadline[due'[k]]
      <3> SUFFICES ASSUME NEW i \in DOMAIN due', NEW k \in DOMAIN due', i < k
                   PROVE  deadline[due'[i]] <= deadline[due'[k]]
        OBVIOUS
      <3>1. /\ i + 1 \in DOMAIN due /\ k + 1 \in DOMAIN due /\ i + 1 < k + 1
            /\ due'[i] = due[i + 1] /\ due'[k] = due[k + 1]
        BY <1>8, <2>1, <2>2
      <3> QED
        BY <1>8, <1>d, <3>1 DEF DueOrder
    <2>4. drainNow <= now
      BY <1>8, <1>d DEF DueOrder, DispatchFire
    <2> QED
      BY <1>8, <1>d, <2>1, <2>2, <2>3, <2>4 DEF DueOrder
  <1>9. CASE TimerReturns
    <2>1. CASE repeat[firing] /\ firing \in active
      <3> DEFINE d == now + interval[firing]
      <3>1. /\ heap' = heap \cup {[deadline |-> d, id |-> firing]}
            /\ deadline' = [deadline EXCEPT ![firing] = d]
            /\ firing' = 0 /\ pc' = "dispatch" /\ pc = "timer" /\ fresh' = fresh \cup {firing}
            /\ UNCHANGED <<now, active, due, stranded, drainNow, cleared>>
        BY <1>9, <2>1 DEF TimerReturns
      <3>2. \A m \in heap' : m \in heap \/ (m.id = firing /\ m.deadline = d)
        BY <1>9, <3>1
      <3>3. \A m \in heap : m \in heap' /\ m.id # firing
        BY <1>9, <1>c, <3>1 DEF DueApart
      <3>4. d \in Nat /\ d >= now /\ firing \in Ids
        BY <1>9, <1>a, <2>1
      <3>5. \E m \in heap' : m.id = firing
        <4>1. [deadline |-> d, id |-> firing] \in heap'
          BY <1>9, <3>1
        <4> QED
          BY <1>9, <4>1
      <3>6. deadline'[firing] = d /\ \A id \in Ids \ {firing} : deadline'[id] = deadline[id]
        BY <1>9, <1>a, <2>1, <3>1
      <3>7. \A i \in DOMAIN due : deadline'[due[i]] = deadline[due[i]] /\ deadline[due[i]] \in Nat
        BY <1>9, <1>a, <1>b, <1>c, <3>6 DEF DueApart
      <3>8. \A i \in DOMAIN due, m \in heap' : deadline[due[i]] <= m.deadline
        <4> SUFFICES ASSUME NEW i \in DOMAIN due, NEW m \in heap', m.deadline = d
                     PROVE  deadline[due[i]] <= d
          BY <1>9, <1>d, <3>2 DEF DueOrder
        <4>1. deadline[due[i]] <= drainNow /\ drainNow <= now
          BY <1>9, <1>d, <3>1 DEF DueOrder
        <4> QED
          BY <1>9, <1>a, <3>4, <3>7, <4>1
      <3> HIDE DEF d
      <3> QED
        BY <1>9, <1>d, <3>1, <3>7, <3>8 DEF DueOrder
    <2>2. CASE ~(repeat[firing] /\ firing \in active)
      BY <1>9, <1>d, <2>2 DEF DueOrder, TimerReturns
    <2> QED
      BY <1>9, <2>1, <2>2
  <1>10. CASE CollectDone
    BY <1>10, <1>d DEF DueOrder, CollectDone
  <1>11. CASE TimerThrows
    BY <1>11, <1>d DEF DueOrder, TimerThrows
  <1>12. CASE DispatchDone
    BY <1>12, <1>d DEF DueOrder, DispatchDone
  <1>13. CASE FrameBegin
    BY <1>13, <1>d DEF DueOrder, FrameBegin
  <1>14. CASE FrameFire
    BY <1>14, <1>d DEF DueOrder, FrameFire
  <1>15. CASE FrameReturns
    BY <1>15, <1>d DEF DueOrder, FrameReturns
  <1>16. CASE FrameThrows
    BY <1>16, <1>d DEF DueOrder, FrameThrows
  <1>17. CASE FrameDone
    BY <1>17, <1>d DEF DueOrder, FrameDone
  <1>18. CASE Reset
    BY <1>18, <1>d DEF DueOrder, Reset
  <1>19. CASE Tick
    <2>1. now <= now' /\ now' \in Nat
      BY <1>19, <1>a DEF Tick
    <2> QED
      BY <1>19, <1>a, <1>d, <2>1 DEF DueOrder, Tick
  <1>20. ASSUME NEW id \in Ids, ClearTimer(id) PROVE DueOrder'
    BY <1>20, <1>1 DEF ClearTimer
  <1>21. CASE RequestFrame
    BY <1>21, <1>1 DEF RequestFrame
  <1>22. ASSUME NEW id \in RafIds, CancelFrame(id) PROVE DueOrder'
    BY <1>22, <1>1 DEF CancelFrame
  <1>23. CASE UNCHANGED vars
    BY <1>1, <1>23
  <1> QED
    BY <1>2, <1>3, <1>4, <1>5, <1>6, <1>7, <1>8, <1>9, <1>10, <1>11, <1>12, <1>13, <1>14,
       <1>15, <1>16, <1>17, <1>18, <1>19, <1>20, <1>21, <1>22, <1>23 DEF Next, Script,
       DrainStep, FrameStep

\* What is armed during a drain is not among what it collected.
LEMMA FreshStep ==
    ASSUME IInv, [Next]_vars
    PROVE  FreshLater'
  <1> USE DEF vars, timerVars, drainVars, rafVars, obsVars
  <1>a. /\ now \in Nat /\ nextId \in Nat /\ heap \subseteq Node /\ due \in Seq(Ids) /\ drainNow \in Nat
        /\ firing \in Ids \cup {0} /\ deadline \in [Ids -> Nat] /\ interval \in [Ids -> Nat]
        /\ active \subseteq Ids /\ TypeOK
    BY Facts DEF IInv
  <1>b. /\ Ids \subseteq Nat /\ 0 \notin Ids /\ \A m \in heap : m.id \in Ids /\ m.deadline \in Nat
        /\ \A i \in DOMAIN due : due[i] \in Ids /\ i \in Nat
    BY Facts
  <1>c. IdsGiven /\ DrainPoints /\ HeapNodes /\ DueApart
    BY DEF IInv
  <1>d. Accounted /\ ClearedGone /\ DueOrder /\ FreshLater
    BY DEF IInv
  <1>1. ASSUME UNCHANGED <<pc, due, fresh>>
        PROVE  FreshLater'
    BY <1>d, <1>1 DEF FreshLater
  <1>2. ASSUME NEW rep \in BOOLEAN, NEW d \in Delays, Schedule(rep, d) PROVE FreshLater'
    <2>1. d \in Nat /\ now + d \in Nat /\ nextId \in Ids
      BY <1>2, <1>a, DelaysAssumption, TimersAssumption DEF TypeOK, Schedule, Ids
    <2>2. /\ heap' = heap \cup {[deadline |-> now + d, id |-> nextId]}
          /\ deadline' = [deadline EXCEPT ![nextId] = now + d] /\ active' = active \cup {nextId}
          /\ fresh' = fresh \cup {nextId}
          /\ UNCHANGED <<now, due, firing, stranded, pc, drainNow, cleared>>
      BY <1>2 DEF Schedule
    <2>3. \A m \in heap' : m \in heap \/ (m.id = nextId /\ m.deadline = now + d)
      BY <1>2, <2>2
    <2>4. /\ nextId # firing /\ \A i \in DOMAIN due : due[i] # nextId
          /\ \A m \in heap : m.id # nextId
      BY <1>2, <1>a, <1>b, <1>c DEF IdsGiven
    <2>5. nextId \notin stranded \cup cleared
      BY <1>2, <1>a, <1>c DEF IdsGiven
    <2>6. /\ \A id \in Ids \ {nextId} : deadline'[id] = deadline[id]
          /\ deadline'[nextId] = now + d
      BY <1>2, <1>a, <2>1, <2>2
    <2>7. \A m \in heap : m \in heap'
      BY <1>2, <2>2
    <2>8. \E m \in heap' : m.id = nextId
      <3>1. [deadline |-> now + d, id |-> nextId] \in heap'
        BY <1>2, <2>2
      <3> QED
        BY <1>2, <3>1
    <2> QED
      BY <1>2, <1>d, <2>2, <2>4 DEF FreshLater, Schedule, ScriptRuns
  <1>3. CASE DrainBegin
    BY <1>3 DEF FreshLater, DrainBegin
  <1>4. ASSUME NEW n \in heap, CollectDue(n) PROVE FreshLater'
    <2>1. /\ heap' = heap \ {n} /\ due' = Append(due, n.id) /\ n.id \in Ids /\ pc = "collect"
          /\ UNCHANGED <<firing, stranded, active, deadline, drainNow, now, pc, fresh>>
      BY <1>4, <1>b DEF CollectDue
    <2>2. /\ Len(due) + 1 \in DOMAIN due' /\ due'[Len(due) + 1] = n.id
          /\ \A i \in DOMAIN due : i \in DOMAIN due' /\ due'[i] = due[i] /\ i < Len(due) + 1
          /\ \A i \in DOMAIN due' : i \in Nat /\ (i = Len(due) + 1 \/ i \in DOMAIN due)
      BY <1>4, <1>a, <2>1, DueAppend
    <2> QED
      BY <1>4, <1>d, <2>1, <2>2 DEF FreshLater
  <1>5. CASE DispatchSkip
    <2>1. /\ 1 \in DOMAIN due /\ Head(due) = due[1]
          /\ \A i \in DOMAIN Tail(due) : i \in Nat /\ i + 1 \in DOMAIN due /\ Tail(due)[i] = due[i + 1]
          /\ \A i \in DOMAIN due : i \in Nat /\ (i = 1 \/ \E k \in DOMAIN Tail(due) : Tail(due)[k] = due[i])
          /\ \A i \in DOMAIN due : 1 <= i
      BY <1>5, <1>a, DueTail DEF DispatchSkip
    <2>2. due' = Tail(due) /\ UNCHANGED <<heap, deadline, stranded, now, drainNow, fresh>>
      BY <1>5 DEF DispatchSkip
    <2> QED
      BY <1>5, <1>d, <2>1, <2>2 DEF FreshLater, DispatchSkip
  <1>6. CASE DispatchFire
    <2>1. /\ 1 \in DOMAIN due /\ Head(due) = due[1]
          /\ \A i \in DOMAIN Tail(due) : i \in Nat /\ i + 1 \in DOMAIN due /\ Tail(due)[i] = due[i + 1]
          /\ \A i \in DOMAIN due : i \in Nat /\ (i = 1 \/ \E k \in DOMAIN Tail(due) : Tail(due)[k] = due[i])
          /\ \A i \in DOMAIN due : 1 <= i
      BY <1>6, <1>a, DueTail DEF DispatchFire
    <2>2. due' = Tail(due) /\ UNCHANGED <<heap, deadline, stranded, now, drainNow, fresh>>
      BY <1>6 DEF DispatchFire
    <2> QED
      BY <1>6, <1>d, <2>1, <2>2 DEF FreshLater, DispatchFire
  <1>7. CASE TimerReturns
    <2>1. CASE repeat[firing] /\ firing \in active
      <3> DEFINE d == now + interval[firing]
      <3>1. /\ heap' = heap \cup {[deadline |-> d, id |-> firing]}
            /\ deadline' = [deadline EXCEPT ![firing] = d]
            /\ firing' = 0 /\ pc' = "dispatch" /\ pc = "timer" /\ fresh' = fresh \cup {firing}
            /\ UNCHANGED <<now, active, due, stranded, drainNow, cleared>>
        BY <1>7, <2>1 DEF TimerReturns
      <3>2. \A m \in heap' : m \in heap \/ (m.id = firing /\ m.deadline = d)
        BY <1>7, <3>1
      <3>3. \A m \in heap : m \in heap' /\ m.id # firing
        BY <1>7, <1>c, <3>1 DEF DueApart
      <3>4. d \in Nat /\ d >= now /\ firing \in Ids
        BY <1>7, <1>a, <2>1
      <3>5. \E m \in heap' : m.id = firing
        <4>1. [deadline |-> d, id |-> firing] \in heap'
          BY <1>7, <3>1
        <4> QED
          BY <1>7, <4>1
      <3>6. deadline'[firing] = d /\ \A id \in Ids \ {firing} : deadline'[id] = deadline[id]
        BY <1>7, <1>a, <2>1, <3>1
      <3> HIDE DEF d
      <3> QED
        BY <1>7, <1>c, <1>d, <3>1 DEF FreshLater, DueApart
    <2>2. CASE ~(repeat[firing] /\ firing \in active)
      BY <1>7, <1>d, <2>2 DEF FreshLater, TimerReturns
    <2> QED
      BY <1>7, <2>1, <2>2
  <1>8. CASE CollectDone
    BY <1>8, <1>d DEF FreshLater, CollectDone
  <1>9. CASE TimerThrows
    BY <1>9, <1>d DEF FreshLater, TimerThrows
  <1>10. CASE DispatchDone
    BY <1>10, <1>d DEF FreshLater, DispatchDone
  <1>11. CASE FrameBegin
    BY <1>11, <1>d DEF FreshLater, FrameBegin
  <1>12. CASE FrameFire
    BY <1>12, <1>d DEF FreshLater, FrameFire
  <1>13. CASE FrameReturns
    BY <1>13, <1>d DEF FreshLater, FrameReturns
  <1>14. CASE FrameThrows
    BY <1>14, <1>d DEF FreshLater, FrameThrows
  <1>15. CASE FrameDone
    BY <1>15, <1>d DEF FreshLater, FrameDone
  <1>16. CASE Reset
    BY <1>16, <1>d DEF FreshLater, Reset
  <1>17. ASSUME NEW id \in Ids, ClearTimer(id) PROVE FreshLater'
    BY <1>17, <1>1 DEF ClearTimer
  <1>18. CASE RequestFrame
    BY <1>18, <1>1 DEF RequestFrame
  <1>19. ASSUME NEW id \in RafIds, CancelFrame(id) PROVE FreshLater'
    BY <1>19, <1>1 DEF CancelFrame
  <1>20. ASSUME NEW n \in heap, CollectCleared(n) PROVE FreshLater'
    BY <1>20, <1>1 DEF CollectCleared
  <1>21. CASE NextDeadline
    BY <1>21, <1>1 DEF NextDeadline
  <1>22. CASE Tick
    BY <1>22, <1>1 DEF Tick
  <1>23. CASE UNCHANGED vars
    BY <1>1, <1>23
  <1> QED
    BY <1>2, <1>3, <1>4, <1>5, <1>6, <1>7, <1>8, <1>9, <1>10, <1>11, <1>12, <1>13, <1>14,
       <1>15, <1>16, <1>17, <1>18, <1>19, <1>20, <1>21, <1>22, <1>23 DEF Next, Script,
       DrainStep, FrameStep

\* Requests stay in the order of their ids through swap and cancellation.
LEMMA FrameOrderStep ==
    ASSUME IInv, [Next]_vars
    PROVE  FrameOrder'
  <1> USE DEF vars, timerVars, drainVars, rafVars, obsVars
  <1>a. /\ nextRaf \in Nat /\ lastRaf \in Nat /\ rafQueue \in Seq(RafIds) /\ frame \in Seq(RafIds)
        /\ RafIds \subseteq Nat /\ TypeOK
    BY TimersAssumption DEF IInv, TypeOK, RafIds
  <1>b. /\ \A i \in DOMAIN rafQueue : rafQueue[i] \in Nat /\ i \in Nat
        /\ \A i \in DOMAIN frame : frame[i] \in Nat /\ i \in Nat
    <2>1. \A i \in DOMAIN rafQueue : rafQueue[i] \in RafIds /\ i \in Nat
      BY <1>a, LenProperties
    <2>2. \A i \in DOMAIN frame : frame[i] \in RafIds /\ i \in Nat
      BY <1>a, LenProperties
    <2> QED
      BY <1>a, <2>1, <2>2
  <1>c. FrameOrder
    BY DEF IInv
  <1>1. ASSUME UNCHANGED <<nextRaf, lastRaf, rafQueue, frame, freshRafs>>
        PROVE  FrameOrder'
    BY <1>c, <1>1 DEF FrameOrder
  <1>2. CASE RequestFrame
    <2>1. /\ rafQueue' = Append(rafQueue, nextRaf) /\ nextRaf' = nextRaf + 1
          /\ freshRafs' = freshRafs \cup {nextRaf} /\ UNCHANGED <<frame, lastRaf>>
          /\ nextRaf \in RafIds
      BY <1>2, <1>a DEF RequestFrame, RafIds, TypeOK
    <2>2. /\ Len(rafQueue) + 1 \in DOMAIN rafQueue' /\ rafQueue'[Len(rafQueue) + 1] = nextRaf
          /\ \A i \in DOMAIN rafQueue : rafQueue'[i] = rafQueue[i] /\ i < Len(rafQueue) + 1
          /\ \A i \in DOMAIN rafQueue' : i \in Nat /\ (i = Len(rafQueue) + 1 \/ i \in DOMAIN rafQueue)
      BY <1>2, <1>a, <2>1, DueAppend
    <2>3. \A x \in Nat : x < nextRaf => x < nextRaf + 1 /\ x # nextRaf
      BY <1>2, <1>a
    <2>4. lastRaf < nextRaf /\ lastRaf < nextRaf + 1 /\ nextRaf < nextRaf + 1
      BY <1>2, <1>a, <1>c DEF FrameOrder
    <2>5. \A i \in DOMAIN rafQueue' : lastRaf < rafQueue'[i] /\ rafQueue'[i] < nextRaf + 1
      BY <1>2, <1>b, <1>c, <2>2, <2>3, <2>4 DEF FrameOrder
    <2>6. \A i, k \in DOMAIN rafQueue' : i < k => rafQueue'[i] < rafQueue'[k]
      <3> SUFFICES ASSUME NEW i \in DOMAIN rafQueue', NEW k \in DOMAIN rafQueue', i < k
                   PROVE  rafQueue'[i] < rafQueue'[k]
        OBVIOUS
      <3>1. i \in DOMAIN rafQueue
        <4>1. Len(rafQueue) \in Nat
          BY <1>2, <1>a, LenProperties
        <4>2. i # Len(rafQueue) + 1
          BY <1>2, <2>2, <4>1
        <4> QED
          BY <1>2, <2>2, <4>2
      <3> QED
        BY <1>2, <1>c, <2>2, <3>1 DEF FrameOrder
    <2>7. \A i \in DOMAIN frame : lastRaf < frame[i] /\ frame[i] < nextRaf + 1 /\ frame[i] \notin freshRafs'
      BY <1>2, <1>b, <1>c, <2>1, <2>3 DEF FrameOrder
    <2>8. \A i \in DOMAIN frame, k \in DOMAIN rafQueue' : frame[i] < rafQueue'[k]
      BY <1>2, <1>c, <2>2 DEF FrameOrder
    <2> QED
      BY <1>2, <1>c, <2>1, <2>4, <2>5, <2>6, <2>7, <2>8 DEF FrameOrder
  <1>3. ASSUME NEW id \in RafIds, CancelFrame(id) PROVE FrameOrder'
    <2>1. UNCHANGED <<nextRaf, frame, lastRaf, freshRafs>>
      BY <1>3 DEF CancelFrame
    <2>2. CASE UNCHANGED rafQueue
      BY <1>3, <1>1, <2>1, <2>2
    <2>3. ASSUME NEW i \in DOMAIN rafQueue, rafQueue' = RemoveAt(rafQueue, i) PROVE FrameOrder'
      <3> DEFINE at(k) == IF k < i THEN k ELSE k + 1
      <3>1. \A k \in DOMAIN rafQueue' : k \in Nat /\ at(k) \in DOMAIN rafQueue /\ rafQueue'[k] = rafQueue[at(k)]
        BY <1>3, <1>a, <2>3, RemovedType
      <3>2. \A k, m \in DOMAIN rafQueue' : k < m => at(k) < at(m)
        BY <1>3, <1>b, <3>1
      <3> HIDE DEF at
      <3> QED
        BY <1>3, <1>c, <2>1, <3>1, <3>2 DEF FrameOrder
    <2> QED
      BY <1>3, <2>2, <2>3 DEF CancelFrame
  <1>4. CASE FrameBegin
    BY <1>4, <1>c DEF FrameOrder, FrameBegin
  <1>5. CASE FrameFire
    <2>1. PICK i \in DOMAIN frame : lastRaf' = frame[i] /\ frame' = SubSeq(frame, i + 1, Len(frame))
      BY <1>5 DEF FrameFire
    <2>2. UNCHANGED <<nextRaf, rafQueue, freshRafs>>
      BY <1>5 DEF FrameFire
    <2>3. \A k \in DOMAIN frame' : k \in Nat /\ k + i \in DOMAIN frame /\ frame'[k] = frame[k + i]
      BY <1>5, <1>a, <2>1, SuffixType
    <2>4. \A k, m \in DOMAIN frame' : k < m => k + i < m + i
      BY <1>5, <1>b, <2>3
    <2>5. \A k \in DOMAIN frame' : i < k + i
      <3> SUFFICES ASSUME NEW k \in DOMAIN frame' PROVE i < k + i
        OBVIOUS
      <3>1. frame' \in Seq(RafIds)
        BY <1>5, <1>a, <2>1, SuffixType
      <3>2. k \in 1..Len(frame') /\ Len(frame') \in Nat
        BY <1>5, <3>1, LenProperties
      <3> QED
        BY <1>5, <1>b, <3>2
    <2> QED
      BY <1>5, <1>c, <2>1, <2>2, <2>3, <2>4, <2>5 DEF FrameOrder
  <1>6. CASE FrameThrows
    BY <1>6, <1>c DEF FrameOrder, FrameThrows
  <1>7. CASE FrameDone
    BY <1>7, <1>c DEF FrameOrder, FrameDone
  <1>8. CASE Reset
    BY <1>8 DEF FrameOrder, Reset
  <1>9. ASSUME NEW rep \in BOOLEAN, NEW d \in Delays, Schedule(rep, d) PROVE FrameOrder'
    BY <1>9, <1>1 DEF Schedule
  <1>10. ASSUME NEW id \in Ids, ClearTimer(id) PROVE FrameOrder'
    BY <1>10, <1>1 DEF ClearTimer
  <1>11. ASSUME NEW n \in heap, CollectCleared(n) \/ CollectDue(n) PROVE FrameOrder'
    BY <1>11, <1>1 DEF CollectCleared, CollectDue
  <1>12. CASE NextDeadline \/ DrainBegin \/ CollectDone \/ DispatchSkip \/ DispatchFire \/
     TimerReturns \/ TimerThrows \/ DispatchDone
    BY <1>12, <1>1 DEF NextDeadline, DrainBegin, CollectDone, DispatchSkip, DispatchFire,
       TimerReturns, TimerThrows, DispatchDone
  <1>13. CASE FrameReturns \/ Tick
    BY <1>13, <1>1 DEF FrameReturns, Tick
  <1>14. CASE UNCHANGED vars
    BY <1>1, <1>14
  <1> QED
    BY <1>2, <1>3, <1>4, <1>5, <1>6, <1>7, <1>8, <1>9, <1>10, <1>11, <1>12, <1>13, <1>14
       DEF Next, Script, DrainStep, FrameStep

-----------------------------------------------------------------------------
(* The theorems. *)

\* A fresh iso_state satisfies the invariant ...
LEMMA InitIInv == Init => IInv
  <1> SUFFICES ASSUME Init PROVE IInv
    OBVIOUS
  <1>1. TypeOK
    BY TimersAssumption, EmptySeq DEF Init, TypeOK, Points, Ids, RafIds
  <1>2. IdsGiven /\ DrainPoints /\ HeapNodes /\ DueApart
    BY DEF Init, IdsGiven, DrainPoints, HeapNodes, DueApart
  <1>3. Accounted /\ ClearedGone /\ DueOrder /\ FreshLater /\ FrameOrder
    BY DEF Init, Accounted, ClearedGone, DueOrder, FreshLater, FrameOrder
  <1> QED
    BY <1>1, <1>2, <1>3 DEF IInv

\* ... every step preserves it ...
LEMMA NextIInv == IInv /\ [Next]_vars => IInv'
  BY TypeStep, IdsStep, PointsStep, HeapStep, DueStep, AccountedStep, ClearedStep, DueOrderStep,
     FreshStep, FrameOrderStep DEF IInv

\* ... and so it always holds.
LEMMA InvariantHolds == Spec => []IInv
  BY InitIInv, NextIInv, PTL DEF Spec

\* An active timer is armed in one place.
LEMMA OneArmed ==
    ASSUME IInv, NEW id \in active
    PROVE  Cardinality(Armed(id)) = IF id \in stranded THEN 0 ELSE 1
  <1>a. HeapNodes /\ DueApart /\ Accounted
    BY DEF IInv
  <1> DEFINE InHeap(x) == \E n \in heap : n.id = id /\ x = <<"heap", n.deadline>>
             InDue(x) == \E i \in DOMAIN due : due[i] = id /\ x = <<"due", i>>
             Runs(x) == firing = id /\ x = <<"firing", 0>>
  <1>1. \A x : x \in Armed(id) <=> InHeap(x) \/ InDue(x) \/ Runs(x)
    <2> DEFINE H == {<<"heap", n.deadline>> : n \in {m \in heap : m.id = id}}
               D == {<<"due", i>> : i \in {j \in DOMAIN due : due[j] = id}}
               R == {<<"firing", 0>> : x \in {firing} \cap {id}}
    <2>1. Armed(id) = H \cup D \cup R
      BY DEF Armed
    <2>2. \A x : x \in H <=> InHeap(x)
      OBVIOUS
    <2>3. \A x : x \in D <=> InDue(x)
      OBVIOUS
    <2>4. \A x : x \in R <=> Runs(x)
      OBVIOUS
    <2> HIDE DEF H, D, R, InHeap, InDue, Runs
    <2> QED
      BY <2>1, <2>2, <2>3, <2>4, Zenon
  <1>2. \A x, y : InHeap(x) /\ InHeap(y) => x = y
    BY <1>a DEF HeapNodes
  <1>3. \A x, y : InDue(x) /\ InDue(y) => x = y
    BY <1>a DEF DueApart
  <1>4. \A x, y : ~(InHeap(x) /\ InDue(y)) /\ ~(InHeap(x) /\ Runs(y)) /\ ~(InDue(x) /\ Runs(y))
    BY <1>a DEF DueApart
  <1>5. \A x, y : Runs(x) /\ Runs(y) => x = y
    OBVIOUS
  <1>6. id \in stranded => \A x : ~InHeap(x) /\ ~InDue(x) /\ ~Runs(x)
    BY <1>a DEF Accounted
  <1>7. id \notin stranded => \E x : InHeap(x) \/ InDue(x) \/ Runs(x)
    <2> SUFFICES ASSUME id \notin stranded PROVE \E x : InHeap(x) \/ InDue(x) \/ Runs(x)
      OBVIOUS
    <2>1. CASE id = firing
      <3>1. Runs(<<"firing", 0>>)
        BY <2>1
      <3> QED
        BY <3>1
    <2>2. ASSUME NEW n \in heap, n.id = id PROVE \E x : InHeap(x)
      BY <2>2
    <2>3. ASSUME NEW i \in DOMAIN due, due[i] = id PROVE \E x : InDue(x)
      BY <2>3
    <2> HIDE DEF InHeap, InDue, Runs
    <2> QED
      BY <1>a, <2>1, <2>2, <2>3 DEF Accounted
  <1> HIDE DEF InHeap, InDue, Runs
  <1>8. \A x, y \in Armed(id) : x = y
    BY <1>1, <1>2, <1>3, <1>4, <1>5, Zenon
  <1>9. CASE id \in stranded
    <2>1. Armed(id) = {}
      BY <1>1, <1>6, <1>9
    <2> QED
      BY <1>9, <2>1, FS_EmptySet
  <1>10. CASE id \notin stranded
    <2>1. PICK x : x \in Armed(id)
      BY <1>1, <1>7, <1>10
    <2>2. Armed(id) = {x}
      BY <1>8, <2>1
    <2> QED
      BY <1>10, <2>2, FS_Singleton
  <1> QED
    BY <1>9, <1>10

\* An active timer is armed exactly once, unless a callback that threw left
\* it behind (schedule_impl, drain_due_timers, clear_timer_cb).
THEOREM TimersAreArmed == Spec => []ArmedOnce
  <1>1. IInv => ArmedOnce
    BY OneArmed DEF IInv, ArmedOnce
  <1> QED
    BY <1>1, InvariantHolds, PTL

\* A step that calls a timer is DispatchFire, and one that calls an animation
\* frame is FrameFire.
LEMMA Calls ==
    ASSUME IInv, [Next]_vars
    PROVE  (TimerCalled => DispatchFire) /\ (FrameCalled => FrameFire)
  <1> USE DEF vars, timerVars, drainVars, rafVars, obsVars, TimerCalled, FrameCalled
  <1>1. ASSUME NEW rep \in BOOLEAN, NEW d \in Delays, Schedule(rep, d) PROVE pc' = pc
    BY <1>1 DEF Schedule
  <1>2. ASSUME NEW id \in Ids, ClearTimer(id) PROVE pc' = pc
    BY <1>2 DEF ClearTimer
  <1>3. ASSUME NEW id \in RafIds, CancelFrame(id) PROVE pc' = pc
    BY <1>3 DEF CancelFrame
  <1>4. ASSUME NEW n \in heap, CollectCleared(n) \/ CollectDue(n) PROVE pc' = pc
    BY <1>4 DEF CollectCleared, CollectDue
  <1>5. CASE RequestFrame \/ NextDeadline \/ DispatchSkip \/ Tick \/ Reset
    BY <1>5 DEF RequestFrame, NextDeadline, DispatchSkip, Tick, Reset
  <1>6. CASE DrainBegin \/ CollectDone \/ TimerReturns \/ TimerThrows \/ DispatchDone
    BY <1>6 DEF DrainBegin, CollectDone, TimerReturns, TimerThrows, DispatchDone
  <1>7. CASE FrameBegin \/ FrameReturns \/ FrameThrows \/ FrameDone
    BY <1>7 DEF FrameBegin, FrameReturns, FrameThrows, FrameDone
  <1>8. CASE DispatchFire
    BY <1>8 DEF DispatchFire
  <1>9. CASE FrameFire
    BY <1>9 DEF FrameFire
  <1>10. CASE UNCHANGED vars
    BY <1>10
  <1> QED
    BY <1>1, <1>2, <1>3, <1>4, <1>5, <1>6, <1>7, <1>8, <1>9, <1>10
       DEF Next, Script, DrainStep, FrameStep

\* A timer is called when its deadline has passed, in the order of the
\* deadlines, and never after it was cleared (drain_due_timers).
THEOREM TimersFireWhenDue == Spec => FiresWhenDue
  <1>1. ASSUME IInv, [Next]_vars, TimerCalled
        PROVE  /\ firing' \notin cleared
               /\ deadline[firing'] <= now
               /\ \A id \in active \ (stranded \cup {firing'}) : deadline[firing'] <= deadline[id]
    <2>1. DispatchFire
      BY <1>1, Calls
    <2>2. due \in Seq(Ids) /\ due # <<>> /\ pc = "dispatch" /\ firing' = Head(due) /\ Head(due) \in active
      BY <1>1, <2>1, Facts DEF DispatchFire
    <2>3. /\ 1 \in DOMAIN due /\ firing' = due[1]
          /\ \A i \in DOMAIN due : i \in Nat /\ 1 <= i
      BY <2>2, DueTail
    <2>4. firing' \notin cleared
      BY <1>1, <2>2 DEF IInv, ClearedGone
    <2>5. deadline[firing'] \in Nat /\ now \in Nat /\ drainNow \in Nat
      BY <1>1, <2>3, Facts
    <2>6. deadline[firing'] <= now
      BY <1>1, <2>2, <2>3, <2>5 DEF IInv, DueOrder
    <2>7. ASSUME NEW id \in active, id \notin stranded, id # firing'
          PROVE  deadline[firing'] <= deadline[id]
      <3>1. firing = 0 /\ id # 0
        BY <1>1, <2>2, Facts DEF IInv, DrainPoints
      <3>2. (\E n \in heap : n.id = id) \/ \E i \in DOMAIN due : due[i] = id
        BY <1>1, <2>7, <3>1 DEF IInv, Accounted
      <3>3. CASE \E n \in heap : n.id = id
        BY <1>1, <2>3, <3>3 DEF IInv, DueOrder, HeapNodes
      <3>4. CASE \E i \in DOMAIN due : due[i] = id
        <4>1. PICK i \in DOMAIN due : due[i] = id
          BY <3>4
        <4>2. 1 < i
          BY <2>3, <2>7, <4>1
        <4> QED
          BY <1>1, <2>3, <4>1, <4>2 DEF IInv, DueOrder
      <3> QED
        BY <3>2, <3>3, <3>4
    <2> QED
      BY <2>4, <2>6, <2>7
  <1>2. IInv /\ [Next]_vars =>
            [TimerCalled =>
                /\ firing' \notin cleared
                /\ deadline[firing'] <= now
                /\ \A id \in active \ (stranded \cup {firing'}) :
                      deadline[firing'] <= deadline[id]]_vars
    BY <1>1
  <1> QED
    BY <1>2, InvariantHolds, PTL DEF Spec, FiresWhenDue

\* Timers and animation frames armed during a drain wait for the next one,
\* and animation frames run in the order of their requests (drain_due_timers,
\* drain_animation_frames).
THEOREM DrainsAreBounded == Spec => DeferredToNextDrain
  <1>1. ASSUME IInv, [Next]_vars, TimerCalled PROVE firing' \notin fresh
    <2>1. DispatchFire
      BY <1>1, Calls
    <2>2. due \in Seq(Ids) /\ due # <<>> /\ firing' = Head(due)
      BY <1>1, <2>1, Facts DEF DispatchFire
    <2>3. 1 \in DOMAIN due /\ firing' = due[1]
      BY <2>2, DueTail
    <2> QED
      BY <1>1, <2>3 DEF IInv, FreshLater
  <1>2. ASSUME IInv, [Next]_vars, FrameCalled
        PROVE  lastRaf' \notin freshRafs /\ lastRaf' > lastRaf
    <2>1. PICK i \in DOMAIN frame : lastRaf' = frame[i]
      BY <1>2, Calls DEF FrameFire
    <2>2. frame[i] \in Nat /\ lastRaf \in Nat
      BY <1>2, TimersAssumption DEF IInv, TypeOK, RafIds
    <2> QED
      BY <1>2, <2>1, <2>2 DEF IInv, FrameOrder
  <1>3. IInv /\ [Next]_vars =>
            [/\ TimerCalled => firing' \notin fresh
             /\ FrameCalled => lastRaf' \notin freshRafs /\ lastRaf' > lastRaf]_vars
    BY <1>1, <1>2
  <1> QED
    BY <1>3, InvariantHolds, PTL DEF Spec, DeferredToNextDrain
====
