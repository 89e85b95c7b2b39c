---------------------------- MODULE UvLoopProofs ----------------------------
(***************************************************************************)
(* Proofs about the libuv loop runtime: JobsInOrder, NothingAfterClear and *)
(* MicrotasksFlushed for any number of pumping and posting threads and of  *)
(* jobs.  Every step is one of five moves of jobs between the queue, the   *)
(* pumpers and the discarded ones; the order and the uniqueness of jobs    *)
(* are proved of the moves.                                                *)
(***************************************************************************)
EXTENDS UvLoop, FiniteSetTheorems, SequenceTheorems, TLAPS
(***************************************************************************)
(* The inductive invariant.                                                *)
(***************************************************************************)

\* shutdown() raises its flags before it clears work_.
FlagsRaised ==
    /\ down # "up" => closed
    /\ down \notin {"up", "flag"} => stopping
    /\ discarded # {} => closed

\* Only shutdown() stops a pumper for good.
HaltedDown == \A p \in Pumpers : stage[p] = "halted" => p = Main /\ down # "up"

\* A pumper holds jobs only while it runs a batch, or was stopped in one.
HoldsInBatch ==
    \A p \in Pumpers : stage[p] \notin RunStages \cup {"halted"} =>
        current[p] = <<>> /\ batch[p] = <<>>

\* A pumper that ran a job has a checkpoint ahead of it.
CheckpointAhead ==
    \A p \in unflushed :
        stage[p] \in RunStages \cup {"micro1", "swap3", "micro2", "halted"}

\* Jobs being posted are new, and accepted jobs were posted once.
PostedOnce ==
    /\ \A t \in Threads : Elements(posting[t]) \cap Elements(accepted) = {}
    /\ \A t, u \in Threads : t # u => Elements(posting[t]) \cap Elements(posting[u]) = {}
    /\ \A m, n \in DOMAIN accepted : accepted[m] = accepted[n] => m = n

\* What a pumper has taken from the queue and was not made to drop.
Taken(p) == executed[p] \o Held(p)

\* Jobs are taken by one pumper, queued or discarded, and none is lost.
JobsApart ==
    /\ \A p, q \in Pumpers : p # q => Elements(Taken(p)) \cap Elements(Taken(q)) = {}
    /\ \A p \in Pumpers : Elements(Taken(p)) \cap (Elements(work) \cup discarded) = {}
    /\ Elements(work) \cap discarded = {}
    /\ Elements(work) \cup discarded \subseteq Elements(accepted)
    /\ \A p \in Pumpers : Elements(Taken(p)) \subseteq Elements(accepted)
    /\ \A j \in Elements(accepted) :
          j \in Elements(work) \cup discarded \/ \E p \in Pumpers : j \in Elements(Taken(p))

\* PostedFifo for one sequence.
InOrder(line, acc) ==
    \A i, k \in DOMAIN line : i < k =>
        \E m, n \in DOMAIN acc : m < n /\ acc[m] = line[i] /\ acc[n] = line[k]

LinesInOrder == \A p \in Pumpers : InOrder(Taken(p) \o work, accepted)

IInv ==
    /\ TypeOK
    /\ FlagsRaised
    /\ HaltedDown
    /\ HoldsInBatch
    /\ CheckpointAhead
    /\ PostedOnce
    /\ JobsApart
    /\ LinesInOrder
    /\ NothingAfterClear

-----------------------------------------------------------------------------
(* Sequences. *)

\* Where a pumper goes.
LEMMA AfterValues ==
    /\ After["snap"] = "clients" /\ After["clients"] = "swap1"
    /\ After["swap1"] = "run1" /\ After["run1"] = "micro1" /\ After["micro1"] = "uv"
    /\ After["swap2"] = "run2" /\ After["run2"] = "swap3"
    /\ After["swap3"] = "run3" /\ After["run3"] = "micro2" /\ After["micro2"] = "idle"
  BY DEF After

\* The elements of a concatenation.
LEMMA ElementsOfConcat ==
    ASSUME NEW T, NEW a \in Seq(T), NEW b \in Seq(T)
    PROVE  Elements(a \o b) = Elements(a) \cup Elements(b)
  <1>1. /\ Len(a) \in Nat /\ Len(b) \in Nat /\ a \o b \in Seq(T) /\ Len(a \o b) = Len(a) + Len(b)
        /\ DOMAIN a = 1..Len(a) /\ DOMAIN b = 1..Len(b) /\ DOMAIN (a \o b) = 1..(Len(a) + Len(b))
    BY ConcatProperties, LenProperties
  <1>2. \A i \in 1..(Len(a) + Len(b)) : (a \o b)[i] = IF i <= Len(a) THEN a[i] ELSE b[i - Len(a)]
    BY ConcatProperties
  <1>3. Elements(a \o b) \subseteq Elements(a) \cup Elements(b)
    <2> SUFFICES ASSUME NEW i \in 1..(Len(a) + Len(b))
                 PROVE  (a \o b)[i] \in Elements(a) \cup Elements(b)
      BY <1>1 DEF Elements
    <2>1. CASE i <= Len(a)
      BY <1>1, <1>2, <2>1 DEF Elements
    <2>2. CASE i > Len(a)
      <3>1. i - Len(a) \in 1..Len(b) /\ (a \o b)[i] = b[i - Len(a)]
        BY <1>1, <1>2, <2>2
      <3> QED
        BY <1>1, <3>1 DEF Elements
    <2> QED
      BY <1>1, <2>1, <2>2
  <1>4. Elements(a) \subseteq Elements(a \o b)
    <2> SUFFICES ASSUME NEW i \in 1..Len(a) PROVE a[i] \in Elements(a \o b)
      BY <1>1 DEF Elements
    <2>1. i \in 1..(Len(a) + Len(b)) /\ (a \o b)[i] = a[i]
      BY <1>1, <1>2
    <2> QED
      BY <1>1, <2>1 DEF Elements
  <1>5. Elements(b) \subseteq Elements(a \o b)
    <2> SUFFICES ASSUME NEW i \in 1..Len(b) PROVE b[i] \in Elements(a \o b)
      BY <1>1 DEF Elements
    <2>1. i + Len(a) \in 1..(Len(a) + Len(b)) /\ (a \o b)[i + Len(a)] = b[i]
      BY <1>1, <1>2
    <2> QED
      BY <1>1, <2>1 DEF Elements
  <1> QED
    BY <1>3, <1>4, <1>5

\* The elements of a sequence over T are in T.
LEMMA ElementsIn ==
    ASSUME NEW T, NEW s \in Seq(T)
    PROVE  Elements(s) \subseteq T
  BY LenProperties, ElementOfSeq DEF Elements

\* Taking the head of a batch leaves what is held as it is.
LEMMA HeadThenTail ==
    ASSUME NEW T, NEW o \in Seq(T), o # <<>>
    PROVE  <<Head(o)>> \o Tail(o) = o
  BY HeadTailProperties, LenProperties, EmptySeq

\* Every step keeps every variable in its type.
LEMMA TypeStep ==
    ASSUME IInv, [Next]_vars
    PROVE  TypeOK'
  <1> USE DEF vars, flagVars, cbVars, jobVars
  <1> USE MainAssumption DEF Stages, SwapStages, RunStages, DownPoints, Sites
  <1>a. TypeOK
    BY DEF IInv
  <1>b. <<>> \in Seq(Jobs) /\ <<>> \in Seq(Clients)
    BY EmptySeq
  <1>c. ASSUME NEW p \in Pumpers, stage[p] \in Stages \ {"idle", "uv", "halted"}, Advance(p)
        PROVE  stage' \in [Pumpers -> Stages]
    <2>1. After[stage[p]] \in Stages
      BY <1>c, AfterValues
    <2> QED
      BY <1>a, <1>c, <2>1 DEF TypeOK, Advance
  <1>d. {<<>>} \cup {<<j>> : j \in Jobs} \subseteq Seq(Jobs)
    <2>1. \A j \in Jobs : <<j>> \in Seq(Jobs)
      OBVIOUS
    <2> QED
      BY <1>b, <2>1, Zenon
  <1>1. ASSUME NEW t \in Threads, NEW j \in Jobs, TryPost(t, j) PROVE TypeOK'
    BY <1>1, <1>a DEF TypeOK, TryPost
  <1>2. ASSUME NEW t \in Threads, TryPostRefused(t) PROVE TypeOK'
    BY <1>2, <1>a DEF TypeOK, TryPostRefused
  <1>3. ASSUME NEW t \in Threads, TryPostPush(t) PROVE TypeOK'
    <2>1. posting[t] \in Seq(Jobs) /\ work \in Seq(Jobs) /\ accepted \in Seq(Jobs)
      BY <1>3, <1>a, <1>d DEF TypeOK
    <2>2. work' \in Seq(Jobs) /\ accepted' \in Seq(Jobs)
      BY <1>3, <2>1, ConcatProperties DEF TryPostPush
    <2>3. posting' \in [Threads -> {<<>>} \cup {<<j>> : j \in Jobs}]
      BY <1>3, <1>a DEF TypeOK, TryPostPush
    <2> QED
      BY <1>3, <1>a, <2>2, <2>3 DEF TypeOK, TryPostPush
  <1>4. CASE DrainErrors
    BY <1>4, <1>a DEF TypeOK, DrainErrors
  <1>5. ASSUME NEW k \in Clients, Register(k) PROVE TypeOK'
    <2>1. callbacks' \in Seq(Clients)
      BY <1>5, <1>a, AppendProperties DEF TypeOK, Register
    <2> QED
      BY <1>5, <1>a, <2>1 DEF TypeOK, Register
  <1>6. ASSUME NEW k \in Clients, Unregister(k) PROVE TypeOK'
    <2>1. PICK i \in DOMAIN callbacks : callbacks' = RemoveAt(callbacks, i)
      BY <1>6 DEF Unregister
    <2>2. callbacks \in Seq(Clients) /\ Len(callbacks) \in Nat /\ DOMAIN callbacks = 1..Len(callbacks)
      BY <1>6, <1>a, LenProperties DEF TypeOK
    <2>3. \A n \in 1..Len(callbacks) : callbacks[n] \in Clients
      BY <1>6, <2>2, ElementOfSeq
    <2>4. /\ SubSeq(callbacks, 1, i - 1) \in Seq(Clients)
          /\ SubSeq(callbacks, i + 1, Len(callbacks)) \in Seq(Clients)
      BY <1>6, <2>2, <2>3, SubSeqProperties
    <2>5. callbacks' \in Seq(Clients)
      BY <1>6, <2>1, <2>4, ConcatProperties DEF RemoveAt
    <2> QED
      BY <1>6, <1>a, <2>5 DEF TypeOK, Unregister
  <1>7. ASSUME NEW p \in Pumpers, PumpBegin(p) PROVE TypeOK'
    BY <1>7, <1>a DEF TypeOK, PumpBegin
  <1>8. ASSUME NEW p \in Pumpers, SnapshotClients(p) PROVE TypeOK'
    <2>1. stage' \in [Pumpers -> Stages]
      BY <1>8, <1>c DEF SnapshotClients
    <2> QED
      BY <1>8, <1>a, <2>1, <1>b DEF TypeOK, SnapshotClients
  <1>9. ASSUME NEW p \in Pumpers, RunClient(p) PROVE TypeOK'
    <2>1. Tail(snapshot[p]) \in Seq(Clients)
      BY <1>9, <1>a, HeadTailProperties DEF TypeOK, RunClient
    <2> QED
      BY <1>9, <1>a, <2>1 DEF TypeOK, RunClient, ReportAt
  <1>10. ASSUME NEW p \in Pumpers, ClientsDone(p) PROVE TypeOK'
    <2>1. stage' \in [Pumpers -> Stages]
      BY <1>10, <1>c DEF ClientsDone
    <2> QED
      BY <1>10, <1>a, <2>1, <1>b DEF TypeOK, ClientsDone
  <1>11. ASSUME NEW p \in Pumpers, DrainSwap(p) PROVE TypeOK'
    <2>1. stage' \in [Pumpers -> Stages]
      BY <1>11, <1>c DEF DrainSwap
    <2> QED
      BY <1>11, <1>a, <2>1, <1>b DEF TypeOK, DrainSwap
  <1>12. ASSUME NEW p \in Pumpers, StartJob(p) PROVE TypeOK'
    <2>1. batch[p] \in Seq(Jobs) /\ batch[p] # <<>>
      BY <1>12, <1>a DEF TypeOK, StartJob
    <2>2. Head(batch[p]) \in Jobs /\ Tail(batch[p]) \in Seq(Jobs)
      BY <1>12, <2>1, HeadTailProperties
    <2>3. batch' \in [Pumpers -> Seq(Jobs)]
      BY <1>12, <1>a, <2>2 DEF TypeOK, StartJob
    <2>4. current' \in [Pumpers -> {<<>>} \cup {<<j>> : j \in Jobs}]
      BY <1>12, <1>a, <2>2 DEF TypeOK, StartJob
    <2> QED
      BY <1>12, <1>a, <2>3, <2>4 DEF TypeOK, StartJob
  <1>13. ASSUME NEW p \in Pumpers, EndJob(p) PROVE TypeOK'
    <2>1. current[p] \in Seq(Jobs) /\ executed[p] \in Seq(Jobs)
      BY <1>13, <1>a, <1>d DEF TypeOK
    <2>2. executed[p] \o current[p] \in Seq(Jobs)
      BY <1>13, <2>1, ConcatProperties
    <2>3. executed' \in [Pumpers -> Seq(Jobs)]
      BY <1>13, <1>a, <2>2 DEF TypeOK, EndJob
    <2>4. current' \in [Pumpers -> {<<>>} \cup {<<j>> : j \in Jobs}]
      BY <1>13, <1>a DEF TypeOK, EndJob
    <2> QED
      BY <1>13, <1>a, <2>3, <2>4 DEF TypeOK, EndJob, ReportAt
  <1>14. ASSUME NEW p \in Pumpers, DrainDone(p) PROVE TypeOK'
    <2>1. stage' \in [Pumpers -> Stages]
      BY <1>14, <1>c DEF DrainDone
    <2> QED
      BY <1>14, <1>a, <2>1, <1>b DEF TypeOK, DrainDone
  <1>15. ASSUME NEW p \in Pumpers, Checkpoint(p) PROVE TypeOK'
    <2>1. stage' \in [Pumpers -> Stages]
      BY <1>15, <1>c DEF Checkpoint
    <2> QED
      BY <1>15, <1>a, <2>1, <1>b DEF TypeOK, Checkpoint, ReportAt
  <1>16. ASSUME NEW p \in Pumpers, UvRun(p) PROVE TypeOK'
    BY <1>16, <1>a DEF TypeOK, UvRun
  <1>17. CASE ShutdownBegin
    <2>1. current[Main] \in Seq(Jobs) /\ batch[Main] \in Seq(Jobs)
      BY <1>17, <1>a, <1>d DEF TypeOK
    <2>2. Elements(current[Main] \o batch[Main]) \subseteq Jobs
      <3>1. current[Main] \o batch[Main] \in Seq(Jobs)
        BY <1>17, <2>1, ConcatProperties
      <3> QED
        BY <1>17, <3>1, ElementsIn
    <2> QED
      BY <1>17, <1>a, <2>2 DEF TypeOK, ShutdownBegin
  <1>18. CASE ShutdownFlag
    BY <1>18, <1>a DEF TypeOK, ShutdownFlag
  <1>19. CASE ShutdownClear
    <2>1. Elements(work) \subseteq Jobs
      BY <1>19, <1>a, ElementsIn DEF TypeOK
    <2> QED
      BY <1>19, <1>a, <1>b, <2>1 DEF TypeOK, ShutdownClear
  <1>20. CASE ShutdownWalk
    BY <1>20, <1>a DEF TypeOK, ShutdownWalk
  <1>21. CASE ShutdownClose
    BY <1>21, <1>a DEF TypeOK, ShutdownClose
  <1>22. CASE UNCHANGED vars
    BY <1>a, <1>22 DEF TypeOK
  <1> QED
    BY <1>1, <1>2, <1>3, <1>4, <1>5, <1>6, <1>7, <1>8, <1>9, <1>10, <1>11, <1>12, <1>13,
       <1>14, <1>15, <1>16, <1>17, <1>18, <1>19, <1>20, <1>21, <1>22 DEF Next, PumpStep,
       PostStep, ShutdownStep

\* try_post is refused from before the clear on.
LEMMA FlagsStep ==
    ASSUME IInv, [Next]_vars
    PROVE  FlagsRaised' /\ NothingAfterClear'
  <1> USE DEF vars, flagVars, cbVars, jobVars
  <1>a. TypeOK /\ FlagsRaised /\ NothingAfterClear
    BY DEF IInv
  <1>1. ASSUME UNCHANGED <<closed, stopping, down, work, discarded>>
        PROVE  FlagsRaised' /\ NothingAfterClear'
    BY <1>a, <1>1 DEF FlagsRaised, NothingAfterClear
  <1>2. ASSUME NEW t \in Threads, TryPostPush(t) PROVE FlagsRaised' /\ NothingAfterClear'
    BY <1>2, <1>a DEF FlagsRaised, NothingAfterClear, TryPostPush, TypeOK, DownPoints
  <1>3. ASSUME NEW p \in Pumpers, DrainSwap(p) PROVE FlagsRaised' /\ NothingAfterClear'
    BY <1>3, <1>a DEF FlagsRaised, NothingAfterClear, DrainSwap
  <1>4. CASE ShutdownBegin
    BY <1>4, <1>a DEF FlagsRaised, NothingAfterClear, ShutdownBegin
  <1>5. CASE ShutdownFlag
    BY <1>5, <1>a DEF FlagsRaised, NothingAfterClear, ShutdownFlag
  <1>6. CASE ShutdownClear
    BY <1>6, <1>a DEF FlagsRaised, NothingAfterClear, ShutdownClear
  <1>7. CASE ShutdownWalk
    BY <1>7, <1>a DEF FlagsRaised, NothingAfterClear, ShutdownWalk
  <1>8. CASE ShutdownClose
    BY <1>8, <1>a DEF FlagsRaised, NothingAfterClear, ShutdownClose
  <1>9. ASSUME NEW t \in Threads, NEW j \in Jobs, TryPost(t, j) PROVE FlagsRaised' /\
     NothingAfterClear'
    BY <1>9, <1>1 DEF TryPost
  <1>10. ASSUME NEW t \in Threads, TryPostRefused(t) PROVE FlagsRaised' /\
     NothingAfterClear'
    BY <1>10, <1>1 DEF TryPostRefused
  <1>11. CASE DrainErrors
    BY <1>11, <1>1 DEF DrainErrors
  <1>12. ASSUME NEW k \in Clients, Register(k) \/ Unregister(k) PROVE FlagsRaised' /\
     NothingAfterClear'
    BY <1>12, <1>1 DEF Register, Unregister
  <1>13. ASSUME NEW p \in Pumpers, PumpBegin(p) \/ SnapshotClients(p) \/ RunClient(p) \/
     ClientsDone(p) \/ StartJob(p) \/ EndJob(p) \/ DrainDone(p) \/ Checkpoint(p) \/
     UvRun(p) PROVE FlagsRaised' /\ NothingAfterClear'
    BY <1>13, <1>1 DEF PumpBegin, SnapshotClients, Advance, RunClient, ReportAt,
       ClientsDone, StartJob, EndJob, DrainDone, Checkpoint, UvRun
  <1>14. CASE UNCHANGED vars
    BY <1>1, <1>14
  <1> QED
    BY <1>2, <1>3, <1>4, <1>5, <1>6, <1>7, <1>8, <1>9, <1>10, <1>11, <1>12, <1>13, <1>14
       DEF Next, PumpStep, PostStep, ShutdownStep

\* A pumper goes through its stages in order.
LEMMA StagesStep ==
    ASSUME IInv, [Next]_vars
    PROVE  HaltedDown' /\ HoldsInBatch' /\ CheckpointAhead'
  <1> USE DEF vars, flagVars, cbVars, jobVars
  <1>a. TypeOK /\ HaltedDown /\ HoldsInBatch /\ CheckpointAhead
    BY DEF IInv
  <1>1. ASSUME UNCHANGED <<stage, current, batch, unflushed, down>>
        PROVE  HaltedDown' /\ HoldsInBatch' /\ CheckpointAhead'
    BY <1>a, <1>1 DEF HaltedDown, HoldsInBatch, CheckpointAhead, TypeOK
  <1>2. ASSUME NEW p \in Pumpers, PumpBegin(p) PROVE HaltedDown' /\ HoldsInBatch' /\ CheckpointAhead'
    BY <1>2, <1>a, AfterValues DEF HaltedDown, HoldsInBatch, CheckpointAhead, TypeOK,
       Stages, SwapStages, RunStages, PumpBegin
  <1>3. ASSUME NEW p \in Pumpers, SnapshotClients(p) PROVE HaltedDown' /\ HoldsInBatch' /\ CheckpointAhead'
    BY <1>3, <1>a, AfterValues DEF HaltedDown, HoldsInBatch, CheckpointAhead, TypeOK,
       Stages, SwapStages, RunStages, SnapshotClients, Advance
  <1>4. ASSUME NEW p \in Pumpers, RunClient(p) PROVE HaltedDown' /\ HoldsInBatch' /\ CheckpointAhead'
    BY <1>4, <1>a, AfterValues DEF HaltedDown, HoldsInBatch, CheckpointAhead, TypeOK,
       Stages, SwapStages, RunStages, RunClient, ReportAt
  <1>5. ASSUME NEW p \in Pumpers, ClientsDone(p) PROVE HaltedDown' /\ HoldsInBatch' /\ CheckpointAhead'
    BY <1>5, <1>a, AfterValues DEF HaltedDown, HoldsInBatch, CheckpointAhead, TypeOK,
       Stages, SwapStages, RunStages, ClientsDone, Advance
  <1>6. ASSUME NEW p \in Pumpers, DrainSwap(p) PROVE HaltedDown' /\ HoldsInBatch' /\ CheckpointAhead'
    BY <1>6, <1>a, AfterValues DEF HaltedDown, HoldsInBatch, CheckpointAhead, TypeOK,
       Stages, SwapStages, RunStages, DrainSwap, Advance
  <1>7. ASSUME NEW p \in Pumpers, StartJob(p) PROVE HaltedDown' /\ HoldsInBatch' /\ CheckpointAhead'
    BY <1>7, <1>a, AfterValues DEF HaltedDown, HoldsInBatch, CheckpointAhead, TypeOK,
       Stages, SwapStages, RunStages, StartJob
  <1>8. ASSUME NEW p \in Pumpers, EndJob(p) PROVE HaltedDown' /\ HoldsInBatch' /\ CheckpointAhead'
    BY <1>8, <1>a, AfterValues DEF HaltedDown, HoldsInBatch, CheckpointAhead, TypeOK,
       Stages, SwapStages, RunStages, EndJob, ReportAt
  <1>9. ASSUME NEW p \in Pumpers, DrainDone(p) PROVE HaltedDown' /\ HoldsInBatch' /\ CheckpointAhead'
    BY <1>9, <1>a, AfterValues DEF HaltedDown, HoldsInBatch, CheckpointAhead, TypeOK,
       Stages, SwapStages, RunStages, DrainDone, Advance
  <1>10. ASSUME NEW p \in Pumpers, Checkpoint(p) PROVE HaltedDown' /\ HoldsInBatch' /\ CheckpointAhead'
    BY <1>10, <1>a, AfterValues DEF HaltedDown, HoldsInBatch, CheckpointAhead, TypeOK,
       Stages, SwapStages, RunStages, Checkpoint, Advance, ReportAt
  <1>11. ASSUME NEW p \in Pumpers, UvRun(p) PROVE HaltedDown' /\ HoldsInBatch' /\ CheckpointAhead'
    BY <1>11, <1>a, AfterValues DEF HaltedDown, HoldsInBatch, CheckpointAhead, TypeOK,
       Stages, SwapStages, RunStages, UvRun
  <1>12. CASE ShutdownBegin
    BY <1>12, <1>a, AfterValues DEF HaltedDown, HoldsInBatch, CheckpointAhead, TypeOK,
       Stages, SwapStages, RunStages, ShutdownBegin
  <1>13. CASE ShutdownFlag
    BY <1>13, <1>a, AfterValues DEF HaltedDown, HoldsInBatch, CheckpointAhead, TypeOK,
       Stages, SwapStages, RunStages, ShutdownFlag
  <1>14. CASE ShutdownClear
    BY <1>14, <1>a, AfterValues DEF HaltedDown, HoldsInBatch, CheckpointAhead, TypeOK,
       Stages, SwapStages, RunStages, ShutdownClear
  <1>15. CASE ShutdownWalk
    BY <1>15, <1>a, AfterValues DEF HaltedDown, HoldsInBatch, CheckpointAhead, TypeOK,
       Stages, SwapStages, RunStages, ShutdownWalk
  <1>16. CASE ShutdownClose
    BY <1>16, <1>a, AfterValues DEF HaltedDown, HoldsInBatch, CheckpointAhead, TypeOK,
       Stages, SwapStages, RunStages, ShutdownClose
  <1>17. ASSUME NEW t \in Threads, NEW j \in Jobs, TryPost(t, j) PROVE HaltedDown' /\
     HoldsInBatch' /\ CheckpointAhead'
    BY <1>17, <1>1 DEF TryPost
  <1>18. ASSUME NEW t \in Threads, TryPostRefused(t) \/ TryPostPush(t) PROVE HaltedDown' /\
     HoldsInBatch' /\ CheckpointAhead'
    BY <1>18, <1>1 DEF TryPostRefused, TryPostPush
  <1>19. CASE DrainErrors
    BY <1>19, <1>1 DEF DrainErrors
  <1>20. ASSUME NEW k \in Clients, Register(k) \/ Unregister(k) PROVE HaltedDown' /\
     HoldsInBatch' /\ CheckpointAhead'
    BY <1>20, <1>1 DEF Register, Unregister
  <1>21. CASE UNCHANGED vars
    BY <1>1, <1>21
  <1> QED
    BY <1>2, <1>3, <1>4, <1>5, <1>6, <1>7, <1>8, <1>9, <1>10, <1>11, <1>12, <1>13, <1>14,
       <1>15, <1>16, <1>17, <1>18, <1>19, <1>20, <1>21 DEF Next, PumpStep, PostStep,
       ShutdownStep

-----------------------------------------------------------------------------
(* How jobs move. *)

\* What a pumper holds and has taken are sequences of jobs.
LEMMA TakenType ==
    ASSUME TypeOK, NEW p \in Pumpers
    PROVE  /\ current[p] \in Seq(Jobs) /\ batch[p] \in Seq(Jobs) /\ executed[p] \in Seq(Jobs)
           /\ current[p] \o batch[p] \in Seq(Jobs)
           /\ Held(p) \in Seq(Jobs)
           /\ Taken(p) \in Seq(Jobs)
  <1>1. \A j \in Jobs : <<j>> \in Seq(Jobs)
    OBVIOUS
  <1>2. current[p] = <<>> \/ \E j \in Jobs : current[p] = <<j>>
    BY DEF TypeOK
  <1>3. current[p] \in Seq(Jobs) /\ batch[p] \in Seq(Jobs) /\ executed[p] \in Seq(Jobs)
    BY <1>1, <1>2, EmptySeq DEF TypeOK
  <1>4. current[p] \o batch[p] \in Seq(Jobs)
    BY <1>3, ConcatProperties
  <1>5. Held(p) \in Seq(Jobs)
    BY <1>4, EmptySeq DEF Held
  <1> QED
    BY <1>3, <1>4, <1>5, ConcatProperties DEF Taken

SameTaken(p) == Taken(p)' = Taken(p)

\* No job moves.
Stay == (\A p \in Pumpers : SameTaken(p)) /\ UNCHANGED <<work, accepted, discarded>>

\* try_post queues a job.
Push ==
    /\ \A p \in Pumpers : SameTaken(p)
    /\ \E t \in Threads, j \in Jobs :
          /\ posting[t] = <<j>>
          /\ work' = work \o <<j>> /\ accepted' = accepted \o <<j>>
    /\ UNCHANGED discarded

\* A drain takes the queue.
Swap(p) ==
    /\ Taken(p)' = Taken(p) \o work
    /\ \A q \in Pumpers \ {p} : SameTaken(q)
    /\ work' = <<>>
    /\ UNCHANGED <<accepted, discarded>>

\* The main thread exits inside a batch and drops it.
Halt ==
    /\ Taken(Main)' = executed[Main]
    /\ \A q \in Pumpers \ {Main} : SameTaken(q)
    /\ discarded' = discarded \cup Elements(Held(Main))
    /\ UNCHANGED <<work, accepted>>

\* shutdown() clears the queue.
Clear ==
    /\ \A p \in Pumpers : SameTaken(p)
    /\ work' = <<>>
    /\ discarded' = discarded \cup Elements(work)
    /\ UNCHANGED accepted

\* Starting and ending a job move it within what the pumper has taken.
LEMMA TakenKept ==
    ASSUME TypeOK, NEW p \in Pumpers, StartJob(p) \/ EndJob(p)
    PROVE  Taken(p)' = Taken(p)
  <1>1. /\ current[p] \in Seq(Jobs) /\ batch[p] \in Seq(Jobs) /\ executed[p] \in Seq(Jobs)
        /\ current[p] \o batch[p] \in Seq(Jobs)
    BY TakenType
  <1>2. stage[p] # "halted" /\ stage'[p] = stage[p]
    BY DEF StartJob, EndJob, RunStages
  <1>3. Taken(p) = executed[p] \o (current[p] \o batch[p])
    BY <1>2 DEF Taken, Held
  <1>4. Taken(p)' = executed'[p] \o (current'[p] \o batch'[p])
    BY <1>2 DEF Taken, Held
  <1>5. CASE StartJob(p)
    <2>1. /\ executed'[p] = executed[p] /\ current[p] = <<>>
          /\ current'[p] = <<Head(batch[p])>> /\ batch'[p] = Tail(batch[p]) /\ batch[p] # <<>>
      BY <1>5 DEF StartJob, TypeOK
    <2>2. current'[p] \o batch'[p] = batch[p]
      BY <1>1, <2>1, HeadThenTail
    <2>3. current[p] \o batch[p] = batch[p]
      BY <1>1, <2>1, ConcatEmptySeq
    <2> QED
      BY <1>3, <1>4, <2>1, <2>2, <2>3
  <1>6. CASE EndJob(p)
    <2>1. /\ executed'[p] = executed[p] \o current[p]
          /\ current'[p] = <<>> /\ batch'[p] = batch[p]
      BY <1>6 DEF EndJob, TypeOK
    <2>2. current'[p] \o batch'[p] = batch[p]
      BY <1>1, <2>1, ConcatEmptySeq
    <2>3. \A a, b, c \in Seq(Jobs) : (a \o b) \o c = a \o (b \o c)
      BY ConcatAssociative
    <2>4. (executed[p] \o current[p]) \o batch[p] = executed[p] \o (current[p] \o batch[p])
      BY <1>1, <2>3, Zenon
    <2> QED
      BY <1>3, <1>4, <2>1, <2>2, <2>4
  <1> QED
    BY <1>5, <1>6

\* Every step is one of these moves.
LEMMA Moves ==
    ASSUME IInv, [Next]_vars
    PROVE  Stay \/ Push \/ (\E q \in Pumpers : Swap(q)) \/ Halt \/ Clear
  <1> USE DEF vars, flagVars, cbVars, jobVars
  <1>a. TypeOK /\ HoldsInBatch
    BY DEF IInv
  <1>b. stage[Main] = "halted" => down # "up"
    BY MainAssumption DEF IInv, HaltedDown
  <1>1. ASSUME UNCHANGED <<work, accepted, discarded, executed, current, batch>>,
               \A q \in Pumpers : (stage'[q] = "halted") = (stage[q] = "halted")
        PROVE  Stay \/ Push \/ (\E q \in Pumpers : Swap(q)) \/ Halt \/ Clear
    BY <1>1 DEF Stay, SameTaken, Taken, Held
  <1>2. ASSUME NEW t \in Threads, TryPostPush(t) PROVE Stay \/ Push \/ (\E q \in Pumpers : Swap(q)) \/ Halt \/ Clear
    <2>1. PICK j \in Jobs : posting[t] = <<j>>
      BY <1>2, <1>a DEF TypeOK, TryPostPush
    <2>2. \A p \in Pumpers : SameTaken(p)
      BY <1>2 DEF SameTaken, Taken, Held, TryPostPush
    <2> QED
      BY <1>2, <2>1, <2>2 DEF Push, TryPostPush
  <1>3. ASSUME NEW p \in Pumpers, StartJob(p) PROVE Stay \/ Push \/ (\E q \in Pumpers : Swap(q)) \/ Halt \/ Clear
    <2>1. SameTaken(p)
      BY <1>3, <1>a, TakenKept DEF SameTaken
    <2>2. \A q \in Pumpers \ {p} : SameTaken(q)
      BY <1>3, <1>a DEF SameTaken, Taken, Held, TypeOK, StartJob
    <2> QED
      BY <1>3, <2>1, <2>2 DEF Stay, StartJob
  <1>4. ASSUME NEW p \in Pumpers, EndJob(p) PROVE Stay \/ Push \/ (\E q \in Pumpers : Swap(q)) \/ Halt \/ Clear
    <2>1. SameTaken(p)
      BY <1>4, <1>a, TakenKept DEF SameTaken
    <2>2. \A q \in Pumpers \ {p} : SameTaken(q)
      BY <1>4, <1>a DEF SameTaken, Taken, Held, TypeOK, EndJob
    <2> QED
      BY <1>4, <2>1, <2>2 DEF Stay, EndJob
  <1>5. ASSUME NEW p \in Pumpers, DrainSwap(p) PROVE Stay \/ Push \/ (\E q \in Pumpers : Swap(q)) \/ Halt \/ Clear
    <2>1. current[p] = <<>> /\ batch[p] = <<>> /\ stage[p] # "halted"
      BY <1>5, <1>a DEF HoldsInBatch, DrainSwap, SwapStages, RunStages
    <2>2. /\ executed'[p] = executed[p] /\ current'[p] = <<>> /\ batch'[p] = work
          /\ stage'[p] # "halted"
      BY <1>5, <1>a, <2>1, AfterValues DEF DrainSwap, Advance, TypeOK, SwapStages
    <2>3. executed[p] \in Seq(Jobs) /\ work \in Seq(Jobs)
      BY <1>5, <1>a DEF TypeOK
    <2>4. Taken(p) = executed[p]
      BY <1>5, <2>1, <2>3, ConcatEmptySeq, EmptySeq DEF Taken, Held
    <2>5. Taken(p)' = executed[p] \o (<<>> \o work)
      BY <1>5, <2>2 DEF Taken, Held
    <2>6. Taken(p)' = Taken(p) \o work
      BY <1>5, <2>3, <2>4, <2>5, ConcatEmptySeq
    <2>7. \A q \in Pumpers \ {p} : SameTaken(q)
      BY <1>5, <1>a DEF SameTaken, Taken, Held, TypeOK, DrainSwap, Advance
    <2>8. Swap(p)
      BY <1>5, <2>6, <2>7 DEF Swap, DrainSwap
    <2> QED
      BY <1>5, <2>8
  <1>6. CASE ShutdownBegin
    <2>1. stage[Main] # "halted" /\ stage'[Main] = "halted"
      BY <1>6, <1>a, <1>b, MainAssumption DEF ShutdownBegin, TypeOK, HaltedDown
    <2>2. Taken(Main)' = executed[Main] \o <<>>
      BY <1>6, <2>1 DEF Taken, Held, ShutdownBegin
    <2>3. Taken(Main)' = executed[Main]
      BY <1>6, <1>a, <2>2, MainAssumption, ConcatEmptySeq DEF TypeOK
    <2>4. \A q \in Pumpers \ {Main} : SameTaken(q)
      BY <1>6, <1>a DEF SameTaken, Taken, Held, TypeOK, ShutdownBegin
    <2> QED
      BY <1>6, <2>1, <2>3, <2>4 DEF Halt, Held, ShutdownBegin
  <1>7. CASE ShutdownClear
    <2>1. \A p \in Pumpers : SameTaken(p)
      BY <1>7 DEF SameTaken, Taken, Held, ShutdownClear
    <2> QED
      BY <1>7, <2>1 DEF Clear, ShutdownClear
  <1>8. ASSUME NEW p \in Pumpers, PumpBegin(p) PROVE Stay \/ Push \/ (\E q \in Pumpers : Swap(q)) \/ Halt \/ Clear
    <2>1. (stage'[p] = "halted") = (stage[p] = "halted")
      BY <1>8, <1>a, AfterValues DEF TypeOK, PumpBegin, RunStages, SwapStages, Stages
    <2>2. \A q \in Pumpers \ {p} : stage'[q] = stage[q]
      BY <1>8, <1>a DEF TypeOK, PumpBegin
    <2>3. UNCHANGED <<work, accepted, discarded, executed, current, batch>>
      BY <1>8 DEF PumpBegin
    <2> QED
      BY <1>8, <1>1, <2>1, <2>2, <2>3
  <1>9. ASSUME NEW p \in Pumpers, SnapshotClients(p) PROVE Stay \/ Push \/ (\E q \in Pumpers : Swap(q)) \/ Halt \/ Clear
    <2>1. (stage'[p] = "halted") = (stage[p] = "halted")
      BY <1>9, <1>a, AfterValues DEF TypeOK, SnapshotClients, RunStages, SwapStages,
         Stages, Advance
    <2>2. \A q \in Pumpers \ {p} : stage'[q] = stage[q]
      BY <1>9, <1>a DEF TypeOK, SnapshotClients, Advance
    <2>3. UNCHANGED <<work, accepted, discarded, executed, current, batch>>
      BY <1>9 DEF SnapshotClients
    <2> QED
      BY <1>9, <1>1, <2>1, <2>2, <2>3
  <1>10. ASSUME NEW p \in Pumpers, RunClient(p) PROVE Stay \/ Push \/ (\E q \in Pumpers : Swap(q)) \/ Halt \/ Clear
    <2>1. (stage'[p] = "halted") = (stage[p] = "halted")
      BY <1>10, <1>a, AfterValues DEF TypeOK, RunClient, RunStages, SwapStages, Stages
    <2>2. \A q \in Pumpers \ {p} : stage'[q] = stage[q]
      BY <1>10, <1>a DEF TypeOK, RunClient
    <2>3. UNCHANGED <<work, accepted, discarded, executed, current, batch>>
      BY <1>10 DEF RunClient
    <2> QED
      BY <1>10, <1>1, <2>1, <2>2, <2>3
  <1>11. ASSUME NEW p \in Pumpers, ClientsDone(p) PROVE Stay \/ Push \/ (\E q \in Pumpers : Swap(q)) \/ Halt \/ Clear
    <2>1. (stage'[p] = "halted") = (stage[p] = "halted")
      BY <1>11, <1>a, AfterValues DEF TypeOK, ClientsDone, RunStages, SwapStages, Stages,
         Advance
    <2>2. \A q \in Pumpers \ {p} : stage'[q] = stage[q]
      BY <1>11, <1>a DEF TypeOK, ClientsDone, Advance
    <2>3. UNCHANGED <<work, accepted, discarded, executed, current, batch>>
      BY <1>11 DEF ClientsDone
    <2> QED
      BY <1>11, <1>1, <2>1, <2>2, <2>3
  <1>12. ASSUME NEW p \in Pumpers, DrainDone(p) PROVE Stay \/ Push \/ (\E q \in Pumpers : Swap(q)) \/ Halt \/ Clear
    <2>1. (stage'[p] = "halted") = (stage[p] = "halted")
      BY <1>12, <1>a, AfterValues DEF TypeOK, DrainDone, RunStages, SwapStages, Stages,
         Advance
    <2>2. \A q \in Pumpers \ {p} : stage'[q] = stage[q]
      BY <1>12, <1>a DEF TypeOK, DrainDone, Advance
    <2>3. UNCHANGED <<work, accepted, discarded, executed, current, batch>>
      BY <1>12 DEF DrainDone
    <2> QED
      BY <1>12, <1>1, <2>1, <2>2, <2>3
  <1>13. ASSUME NEW p \in Pumpers, Checkpoint(p) PROVE Stay \/ Push \/ (\E q \in Pumpers : Swap(q)) \/ Halt \/ Clear
    <2>1. (stage'[p] = "halted") = (stage[p] = "halted")
      BY <1>13, <1>a, AfterValues DEF TypeOK, Checkpoint, RunStages, SwapStages, Stages,
         Advance
    <2>2. \A q \in Pumpers \ {p} : stage'[q] = stage[q]
      BY <1>13, <1>a DEF TypeOK, Checkpoint, Advance
    <2>3. UNCHANGED <<work, accepted, discarded, executed, current, batch>>
      BY <1>13 DEF Checkpoint
    <2> QED
      BY <1>13, <1>1, <2>1, <2>2, <2>3
  <1>14. ASSUME NEW p \in Pumpers, UvRun(p) PROVE Stay \/ Push \/ (\E q \in Pumpers : Swap(q)) \/ Halt \/ Clear
    <2>1. (stage'[p] = "halted") = (stage[p] = "halted")
      BY <1>14, <1>a, AfterValues DEF TypeOK, UvRun, RunStages, SwapStages, Stages
    <2>2. \A q \in Pumpers \ {p} : stage'[q] = stage[q]
      BY <1>14, <1>a DEF TypeOK, UvRun
    <2>3. UNCHANGED <<work, accepted, discarded, executed, current, batch>>
      BY <1>14 DEF UvRun
    <2> QED
      BY <1>14, <1>1, <2>1, <2>2, <2>3
  <1>15. ASSUME NEW t \in Threads, NEW j \in Jobs, TryPost(t, j)
         PROVE  Stay \/ Push \/ (\E q \in Pumpers : Swap(q)) \/ Halt \/ Clear
    BY <1>15, <1>1 DEF TryPost
  <1>16. ASSUME NEW t \in Threads, TryPostRefused(t)
         PROVE  Stay \/ Push \/ (\E q \in Pumpers : Swap(q)) \/ Halt \/ Clear
    BY <1>16, <1>1 DEF TryPostRefused
  <1>17. CASE DrainErrors
    BY <1>17, <1>1 DEF DrainErrors
  <1>18. ASSUME NEW k \in Clients, Register(k) \/ Unregister(k)
         PROVE  Stay \/ Push \/ (\E q \in Pumpers : Swap(q)) \/ Halt \/ Clear
    BY <1>18, <1>1 DEF Register, Unregister
  <1>19. CASE ShutdownFlag \/ ShutdownWalk \/ ShutdownClose
    BY <1>19, <1>1 DEF ShutdownFlag, ShutdownWalk, ShutdownClose
  <1>20. CASE UNCHANGED vars
    BY <1>1, <1>20
  <1> QED
    BY <1>2, <1>3, <1>4, <1>5, <1>6, <1>7, <1>8, <1>9, <1>10, <1>11, <1>12, <1>13, <1>14,
       <1>15, <1>16, <1>17, <1>18, <1>19, <1>20 DEF Next, PumpStep, PostStep, ShutdownStep

\* A job is accepted once.
LEMMA PostedStep ==
    ASSUME IInv, [Next]_vars
    PROVE  PostedOnce'
  <1> USE DEF vars, flagVars, cbVars, jobVars
  <1>a. TypeOK /\ PostedOnce
    BY DEF IInv
  <1>1. ASSUME UNCHANGED <<posting, accepted>>
        PROVE  PostedOnce'
    BY <1>a, <1>1 DEF PostedOnce
  <1>2. ASSUME NEW t \in Threads, NEW j \in Jobs, TryPost(t, j) PROVE PostedOnce'
    <2>1. \A u \in Threads : posting'[u] = IF u = t THEN <<j>> ELSE posting[u]
      BY <1>2, <1>a DEF TypeOK, TryPost
    <2>2. Elements(<<j>>) = {j}
      BY <1>2 DEF Elements
    <2>3. UNCHANGED accepted /\ j \notin Elements(accepted) /\ \A u \in Threads : j \notin Elements(posting[u])
      BY <1>2 DEF TryPost
    <2> QED
      BY <1>2, <1>a, <2>1, <2>2, <2>3 DEF PostedOnce
  <1>3. ASSUME NEW t \in Threads, TryPostRefused(t) PROVE PostedOnce'
    <2>1. posting' = [posting EXCEPT ![t] = <<>>] /\ UNCHANGED accepted
      BY <1>3 DEF TryPostRefused
    <2>2. \A u \in Threads : Elements(posting'[u]) \subseteq Elements(posting[u])
      BY <1>3, <1>a, <2>1 DEF TypeOK, Elements
    <2> QED
      BY <1>3, <1>a, <2>1, <2>2 DEF PostedOnce
  <1>4. ASSUME NEW t \in Threads, TryPostPush(t) PROVE PostedOnce'
    <2>1. PICK j \in Jobs : posting[t] = <<j>>
      BY <1>4, <1>a DEF TypeOK, TryPostPush
    <2>2. \A u \in Threads : posting'[u] = IF u = t THEN <<>> ELSE posting[u]
      BY <1>4, <1>a DEF TypeOK, TryPostPush
    <2>3. Elements(<<j>>) = {j} /\ Elements(<<>>) = {}
      BY <1>4 DEF Elements
    <2>4. accepted \in Seq(Jobs) /\ <<j>> \in Seq(Jobs) /\ accepted' = accepted \o <<j>>
      BY <1>4, <1>a, <2>1 DEF TypeOK, TryPostPush
    <2>5. Elements(accepted') = Elements(accepted) \cup {j}
      <3>1. \A a, b \in Seq(Jobs) : Elements(a \o b) = Elements(a) \cup Elements(b)
        BY <1>4, ElementsOfConcat
      <3> QED
        BY <1>4, <2>3, <2>4, <3>1, Zenon
    <2>6. \A u \in Threads : /\ Elements(posting'[u]) \subseteq Elements(posting[u])
                             /\ j \notin Elements(posting'[u])
      BY <1>4, <1>a, <2>1, <2>2, <2>3 DEF PostedOnce
    <2>7. \A u \in Threads : Elements(posting'[u]) \cap Elements(accepted') = {}
      BY <1>4, <1>a, <2>5, <2>6 DEF PostedOnce
    <2>8. \A u, v \in Threads : u # v => Elements(posting'[u]) \cap Elements(posting'[v]) = {}
      BY <1>4, <1>a, <2>6 DEF PostedOnce
    <2>9. \A m, n \in DOMAIN accepted' : accepted'[m] = accepted'[n] => m = n
      <3>1. j \notin Elements(accepted)
        BY <1>4, <1>a, <2>1, <2>3 DEF PostedOnce
      <3>2. \A m \in 1..Len(accepted) : accepted[m] # j
        BY <1>4, <2>4, <3>1, LenProperties DEF Elements
      <3>3. \A m, n \in 1..Len(accepted) : accepted[m] = accepted[n] => m = n
        BY <1>4, <1>a, <2>4, LenProperties DEF PostedOnce
      <3>4. /\ DOMAIN accepted' = 1..(Len(accepted) + 1) /\ Len(accepted) \in Nat
            /\ \A m \in 1..Len(accepted) : accepted'[m] = accepted[m]
            /\ accepted'[Len(accepted) + 1] = j
        BY <1>4, <2>4, ConcatProperties, LenProperties
      <3> QED
        BY <1>4, <3>2, <3>3, <3>4
    <2> QED
      BY <1>4, <2>7, <2>8, <2>9 DEF PostedOnce
  <1>5. CASE DrainErrors
    BY <1>5, <1>1 DEF DrainErrors
  <1>6. ASSUME NEW k \in Clients, Register(k) \/ Unregister(k) PROVE PostedOnce'
    BY <1>6, <1>1 DEF Register, Unregister
  <1>7. ASSUME NEW p \in Pumpers, PumpBegin(p) \/ SnapshotClients(p) \/ RunClient(p) \/
     ClientsDone(p) \/ DrainSwap(p) \/ StartJob(p) \/ EndJob(p) \/ DrainDone(p) \/
     Checkpoint(p) \/ UvRun(p) PROVE PostedOnce'
    BY <1>7, <1>1 DEF PumpBegin, SnapshotClients, Advance, RunClient, ReportAt,
       ClientsDone, DrainSwap, StartJob, EndJob, DrainDone, Checkpoint, UvRun
  <1>8. CASE ShutdownBegin \/ ShutdownFlag \/ ShutdownClear \/ ShutdownWalk \/
     ShutdownClose
    BY <1>8, <1>1 DEF ShutdownBegin, ShutdownFlag, ShutdownClear, ShutdownWalk,
       ShutdownClose
  <1>9. CASE UNCHANGED vars
    BY <1>1, <1>9
  <1> QED
    BY <1>2, <1>3, <1>4, <1>5, <1>6, <1>7, <1>8, <1>9 DEF Next, PumpStep, PostStep,
       ShutdownStep

\* An ordered line of jobs that were accepted once repeats none.
LEMMA LineOnce ==
    ASSUME NEW line \in Seq(Jobs), accepted \in Seq(Jobs), PostedOnce, InOrder(line, accepted)
    PROVE  \A i, k \in DOMAIN line : line[i] = line[k] => i = k
  <1>1. DOMAIN line = 1..Len(line) /\ Len(line) \in Nat /\ DOMAIN accepted = 1..Len(accepted) /\ Len(accepted) \in Nat
    BY LenProperties
  <1>2. ASSUME NEW i \in DOMAIN line, NEW k \in DOMAIN line, i < k, line[i] = line[k] PROVE FALSE
    <2>1. PICK m, n \in DOMAIN accepted : m < n /\ accepted[m] = line[i] /\ accepted[n] = line[k]
      BY <1>2 DEF InOrder
    <2>2. m = n
      BY <1>2, <2>1 DEF PostedOnce
    <2> QED
      BY <1>1, <2>1, <2>2
  <1>3. \A i, k \in DOMAIN line : i < k \/ k < i \/ i = k
    BY <1>1
  <1> QED
    BY <1>2, <1>3

\* What a pumper has executed and what it holds are different jobs.
LEMMA TakenOnce ==
    ASSUME IInv, NEW p \in Pumpers
    PROVE  /\ \A i, k \in DOMAIN executed[p] : executed[p][i] = executed[p][k] => i = k
           /\ \A i, k \in DOMAIN Held(p) : Held(p)[i] = Held(p)[k] => i = k
           /\ Elements(executed[p]) \cap Elements(Held(p)) = {}
           /\ \A i, k \in DOMAIN work : work[i] = work[k] => i = k
  <1> DEFINE e == executed[p]
             h == Held(p)
             line == (e \o h) \o work
  <1>a. TypeOK /\ PostedOnce /\ accepted \in Seq(Jobs) /\ work \in Seq(Jobs)
    BY DEF IInv, TypeOK
  <1>1. e \in Seq(Jobs) /\ h \in Seq(Jobs)
    BY <1>a, TakenType
  <1>2. e \o h \in Seq(Jobs) /\ Len(e \o h) = Len(e) + Len(h)
    BY <1>1, ConcatProperties
  <1>3. line \in Seq(Jobs) /\ Len(line) = Len(e) + Len(h) + Len(work)
    BY <1>1, <1>2, <1>a, ConcatProperties
  <1>4. InOrder(line, accepted)
    BY DEF IInv, LinesInOrder, Taken
  <1>5. \A i, k \in DOMAIN line : line[i] = line[k] => i = k
    BY <1>3, <1>4, <1>a, LineOnce
  <1> HIDE DEF e, h
  <1>6. /\ Len(e) \in Nat /\ Len(h) \in Nat /\ Len(work) \in Nat
        /\ DOMAIN e = 1..Len(e) /\ DOMAIN h = 1..Len(h) /\ DOMAIN work = 1..Len(work)
        /\ DOMAIN line = 1..(Len(e) + Len(h) + Len(work))
    BY <1>1, <1>3, <1>a, LenProperties
  <1>7. \A i \in 1..(Len(e) + Len(h)) : (e \o h)[i] = IF i <= Len(e) THEN e[i] ELSE h[i - Len(e)]
    BY <1>1, ConcatProperties
  <1>8. \A i \in 1..(Len(e \o h) + Len(work)) :
            line[i] = IF i <= Len(e \o h) THEN (e \o h)[i] ELSE work[i - Len(e \o h)]
    BY <1>2, <1>a, ConcatProperties
  <1>9. \A i \in DOMAIN e : i \in DOMAIN line /\ line[i] = e[i]
    BY <1>2, <1>6, <1>7, <1>8
  <1>10. \A i \in DOMAIN h : i + Len(e) \in DOMAIN line /\ line[i + Len(e)] = h[i] /\ (i + Len(e)) \notin DOMAIN e
    <2> SUFFICES ASSUME NEW i \in 1..Len(h)
                 PROVE  /\ i + Len(e) \in 1..(Len(e) + Len(h) + Len(work))
                        /\ line[i + Len(e)] = h[i]
                        /\ (i + Len(e)) \notin 1..Len(e)
      BY <1>6
    <2>1. i + Len(e) \in 1..(Len(e) + Len(h)) /\ ~(i + Len(e) <= Len(e)) /\ (i + Len(e)) - Len(e) = i
      BY <1>6
    <2>2. (e \o h)[i + Len(e)] = h[i]
      BY <1>7, <2>1
    <2>3. i + Len(e) \in 1..(Len(e \o h) + Len(work)) /\ i + Len(e) <= Len(e \o h)
      BY <1>2, <1>6, <2>1
    <2>4. line[i + Len(e)] = h[i]
      BY <1>8, <2>2, <2>3
    <2> QED
      BY <1>6, <2>1, <2>4
  <1>11. \A i \in DOMAIN work : i + (Len(e) + Len(h)) \in DOMAIN line
                                /\ line[i + (Len(e) + Len(h))] = work[i]
    <2> SUFFICES ASSUME NEW i \in 1..Len(work)
                 PROVE  /\ i + (Len(e) + Len(h)) \in 1..(Len(e) + Len(h) + Len(work))
                        /\ line[i + (Len(e) + Len(h))] = work[i]
      BY <1>6
    <2>1. /\ i + (Len(e) + Len(h)) \in 1..(Len(e) + Len(h) + Len(work))
          /\ ~(i + (Len(e) + Len(h)) <= Len(e) + Len(h))
          /\ (i + (Len(e) + Len(h))) - (Len(e) + Len(h)) = i
      BY <1>6
    <2> QED
      BY <1>2, <1>8, <2>1
  <1> HIDE DEF line
  <1>12. \A i, k \in DOMAIN e : e[i] = e[k] => i = k
    BY <1>5, <1>9
  <1>13. \A i, k \in DOMAIN h : h[i] = h[k] => i = k
    <2> SUFFICES ASSUME NEW i \in DOMAIN h, NEW k \in DOMAIN h, h[i] = h[k] PROVE i = k
      OBVIOUS
    <2>1. i + Len(e) = k + Len(e)
      BY <1>5, <1>10
    <2> QED
      BY <1>6, <2>1
  <1>14. Elements(e) \cap Elements(h) = {}
    BY <1>5, <1>9, <1>10 DEF Elements
  <1>15. \A i, k \in DOMAIN work : work[i] = work[k] => i = k
    <2> SUFFICES ASSUME NEW i \in DOMAIN work, NEW k \in DOMAIN work, work[i] = work[k] PROVE i = k
      OBVIOUS
    <2>1. i + (Len(e) + Len(h)) = k + (Len(e) + Len(h))
      BY <1>5, <1>11
    <2> QED
      BY <1>6, <2>1
  <1> QED
    BY <1>12, <1>13, <1>14, <1>15 DEF e, h

\* A job is in one place after the moves too.
LEMMA ApartStep ==
    ASSUME IInv, [Next]_vars
    PROVE  JobsApart'
  <1>a. TypeOK /\ JobsApart /\ PostedOnce
    BY DEF IInv
  <1>b. /\ work \in Seq(Jobs) /\ accepted \in Seq(Jobs) /\ <<>> \in Seq(Jobs)
        /\ \A p \in Pumpers : Taken(p) \in Seq(Jobs) /\ Held(p) \in Seq(Jobs) /\ executed[p] \in Seq(Jobs)
    BY <1>a, TakenType, EmptySeq DEF TypeOK
  <1>c. \A a, b \in Seq(Jobs) : Elements(a \o b) = Elements(a) \cup Elements(b)
    BY ElementsOfConcat
  <1>d. Elements(<<>>) = {} /\ \A j \in Jobs : <<j>> \in Seq(Jobs) /\ Elements(<<j>>) = {j}
    BY DEF Elements
  <1>1. CASE Stay
    BY <1>a, <1>1 DEF Stay, SameTaken, JobsApart
  <1>2. CASE Push
    <2>1. PICK t \in Threads, j \in Jobs :
              posting[t] = <<j>> /\ work' = work \o <<j>> /\ accepted' = accepted \o <<j>>
      BY <1>2 DEF Push
    <2>2. /\ Elements(work') = Elements(work) \cup {j}
          /\ Elements(accepted') = Elements(accepted) \cup {j}
      <3>1. <<j>> \in Seq(Jobs) /\ Elements(<<j>>) = {j}
        BY <1>d
      <3>2. work \in Seq(Jobs) /\ accepted \in Seq(Jobs)
        BY <1>b
      <3>3. Elements(work \o <<j>>) = Elements(work) \cup Elements(<<j>>)
        BY <1>c, <3>1, <3>2, Zenon
      <3>4. Elements(accepted \o <<j>>) = Elements(accepted) \cup Elements(<<j>>)
        BY <1>c, <3>1, <3>2, Zenon
      <3> QED
        BY <2>1, <3>1, <3>3, <3>4
    <2>3. j \notin Elements(accepted)
      BY <1>a, <1>d, <2>1 DEF PostedOnce
    <2>4. (\A p \in Pumpers : Taken(p)' = Taken(p)) /\ discarded' = discarded
      BY <1>2 DEF Push, SameTaken
    <2> QED
      BY <1>a, <2>2, <2>3, <2>4 DEF JobsApart
  <1>3. ASSUME NEW p \in Pumpers, Swap(p) PROVE JobsApart'
    <2>1. Taken(p)' = Taken(p) \o work
      BY <1>3 DEF Swap
    <2>2. Elements(Taken(p))' = Elements(Taken(p)) \cup Elements(work)
      BY <1>b, <1>c, <2>1
    <2>3. /\ \A q \in Pumpers \ {p} : Taken(q)' = Taken(q)
          /\ Elements(work') = {} /\ discarded' = discarded /\ accepted' = accepted
      BY <1>3, <1>d DEF Swap, SameTaken
    <2> QED
      BY <1>a, <2>2, <2>3 DEF JobsApart
  <1>4. CASE Halt
    <2>1. Elements(Taken(Main)) = Elements(executed[Main]) \cup Elements(Held(Main))
      BY <1>b, <1>c, MainAssumption DEF Taken
    <2>2. /\ Elements(Taken(Main))' = Elements(executed[Main])
          /\ \A q \in Pumpers \ {Main} : Taken(q)' = Taken(q)
          /\ discarded' = discarded \cup Elements(Held(Main))
          /\ work' = work /\ accepted' = accepted
      BY <1>4 DEF Halt, SameTaken
    <2>3. Elements(executed[Main]) \cap Elements(Held(Main)) = {}
      BY <1>a, MainAssumption, TakenOnce DEF IInv
    <2> QED
      BY <1>a, <2>1, <2>2, <2>3, MainAssumption DEF JobsApart
  <1>5. CASE Clear
    BY <1>a, <1>d, <1>5 DEF Clear, SameTaken, JobsApart
  <1> QED
    BY <1>1, <1>2, <1>3, <1>4, <1>5, Moves

\* Dropping a run of jobs from a line keeps it in order.
LEMMA InOrderDrop ==
    ASSUME NEW a \in Seq(Jobs), NEW h \in Seq(Jobs), NEW w \in Seq(Jobs), NEW acc,
           InOrder((a \o h) \o w, acc)
    PROVE  InOrder(a \o w, acc)
  <1> DEFINE at(i) == IF i <= Len(a) THEN i ELSE i + Len(h)
  <1>1. /\ Len(a) \in Nat /\ Len(h) \in Nat /\ Len(w) \in Nat
        /\ Len(a \o h) = Len(a) + Len(h) /\ a \o h \in Seq(Jobs)
        /\ DOMAIN (a \o w) = 1..(Len(a) + Len(w))
    BY ConcatProperties, LenProperties
  <1>2. DOMAIN ((a \o h) \o w) = 1..(Len(a) + Len(h) + Len(w))
    BY <1>1, ConcatProperties, LenProperties
  <1>3. \A i \in 1..(Len(a) + Len(w)) : (a \o w)[i] = IF i <= Len(a) THEN a[i] ELSE w[i - Len(a)]
    BY ConcatProperties
  <1>4. \A i \in 1..(Len(a) + Len(h)) : (a \o h)[i] = IF i <= Len(a) THEN a[i] ELSE h[i - Len(a)]
    BY ConcatProperties
  <1>5. \A i \in 1..(Len(a \o h) + Len(w)) :
            ((a \o h) \o w)[i] = IF i <= Len(a \o h) THEN (a \o h)[i] ELSE w[i - Len(a \o h)]
    BY <1>1, ConcatProperties
  <1>6. ASSUME NEW i \in 1..(Len(a) + Len(w))
        PROVE  at(i) \in 1..(Len(a) + Len(h) + Len(w)) /\ ((a \o h) \o w)[at(i)] = (a \o w)[i]
    <2>1. CASE i <= Len(a)
      BY <1>1, <1>3, <1>4, <1>5, <2>1
    <2>2. CASE i > Len(a)
      <3>1. at(i) \in 1..(Len(a) + Len(h) + Len(w)) /\ ~(at(i) <= Len(a) + Len(h))
        BY <1>1, <2>2
      <3>2. at(i) - (Len(a) + Len(h)) = i - Len(a)
        BY <1>1, <2>2
      <3> QED
        BY <1>1, <1>3, <1>5, <2>2, <3>1, <3>2
    <2> QED
      BY <1>1, <2>1, <2>2
  <1>7. \A i, k \in 1..(Len(a) + Len(w)) : i < k => at(i) < at(k)
    BY <1>1
  <1> HIDE DEF at
  <1> QED
    <2> SUFFICES ASSUME NEW i \in DOMAIN (a \o w), NEW k \in DOMAIN (a \o w), i < k
                 PROVE  \E m, n \in DOMAIN acc :
                            m < n /\ acc[m] = (a \o w)[i] /\ acc[n] = (a \o w)[k]
      BY DEF InOrder
    <2>1. /\ at(i) \in DOMAIN ((a \o h) \o w) /\ ((a \o h) \o w)[at(i)] = (a \o w)[i]
          /\ at(k) \in DOMAIN ((a \o h) \o w) /\ ((a \o h) \o w)[at(k)] = (a \o w)[k]
          /\ at(i) < at(k)
      BY <1>1, <1>2, <1>6, <1>7
    <2>2. \E m, n \in DOMAIN acc :
              m < n /\ acc[m] = ((a \o h) \o w)[at(i)] /\ acc[n] = ((a \o h) \o w)[at(k)]
      BY <2>1, Zenon DEF InOrder
    <2> QED
      BY <2>1, <2>2, Zenon

\* So does posting one more job.
LEMMA InOrderPush ==
    ASSUME NEW line \in Seq(Jobs), NEW acc \in Seq(Jobs), NEW j \in Jobs,
           InOrder(line, acc), Elements(line) \subseteq Elements(acc)
    PROVE  InOrder(line \o <<j>>, acc \o <<j>>)
  <1> DEFINE longer == line \o <<j>>
             accMore == acc \o <<j>>
  <1>1. /\ Len(line) \in Nat /\ Len(acc) \in Nat
        /\ DOMAIN line = 1..Len(line) /\ DOMAIN acc = 1..Len(acc)
    BY LenProperties
  <1>2. /\ DOMAIN longer = 1..(Len(line) + 1)
        /\ \A i \in 1..Len(line) : longer[i] = line[i]
        /\ longer[Len(line) + 1] = j
    BY <1>1, ConcatProperties, LenProperties
  <1>3. /\ DOMAIN accMore = 1..(Len(acc) + 1)
        /\ \A i \in 1..Len(acc) : accMore[i] = acc[i]
        /\ accMore[Len(acc) + 1] = j
    BY <1>1, ConcatProperties, LenProperties
  <1> HIDE DEF longer, accMore
  <1>s. SUFFICES InOrder(longer, accMore)
    BY DEF longer, accMore
  <1> SUFFICES ASSUME NEW i \in DOMAIN longer, NEW k \in DOMAIN longer, i < k
               PROVE  \E m, n \in DOMAIN accMore :
                          /\ m < n
                          /\ accMore[m] = longer[i]
                          /\ accMore[n] = longer[k]
    BY DEF InOrder
  <1>4. i \in 1..Len(line) /\ longer[i] = line[i]
    BY <1>1, <1>2
  <1>5. CASE k <= Len(line)
    <2>1. k \in 1..Len(line)
      BY <1>1, <1>5
    <2>2. PICK m, n \in 1..Len(acc) : m < n /\ acc[m] = line[i] /\ acc[n] = line[k]
      BY <1>1, <1>4, <2>1 DEF InOrder
    <2>3. m \in DOMAIN accMore /\ n \in DOMAIN accMore
      BY <1>1, <1>3
    <2> QED
      BY <1>2, <1>3, <1>4, <2>1, <2>2, <2>3
  <1>6. CASE k = Len(line) + 1
    <2>1. PICK m \in 1..Len(acc) : acc[m] = line[i]
      BY <1>1, <1>4 DEF Elements
    <2>2. m \in DOMAIN accMore /\ Len(acc) + 1 \in DOMAIN accMore /\ m < Len(acc) + 1
      BY <1>1, <1>3
    <2> QED
      BY <1>2, <1>3, <1>4, <1>6, <2>1, <2>2
  <1>7. k <= Len(line) \/ k = Len(line) + 1
    BY <1>1, <1>2
  <1> QED
    BY <1>5, <1>6, <1>7

\* The lines stay in order.
LEMMA LinesStep ==
    ASSUME IInv, [Next]_vars
    PROVE  LinesInOrder'
  <1>a. TypeOK /\ JobsApart /\ LinesInOrder
    BY DEF IInv
  <1>b. /\ work \in Seq(Jobs) /\ accepted \in Seq(Jobs) /\ <<>> \in Seq(Jobs)
        /\ \A p \in Pumpers : Taken(p) \in Seq(Jobs) /\ Held(p) \in Seq(Jobs) /\ executed[p] \in Seq(Jobs)
    BY <1>a, TakenType, EmptySeq DEF TypeOK
  <1>c. \A acc : \A a, h, w \in Seq(Jobs) :
          InOrder((a \o h) \o w, acc) => InOrder(a \o w, acc)
    BY InOrderDrop
  <1>d. \A p \in Pumpers : InOrder(Taken(p) \o work, accepted)
    BY <1>a DEF LinesInOrder
  <1>e. \A s \in Seq(Jobs) : s \o <<>> = s
    BY ConcatEmptySeq
  <1>f. \A p \in Pumpers : Taken(p) \o work \in Seq(Jobs)
    BY <1>b, ConcatProperties
  <1>g. \A p \in Pumpers : InOrder(Taken(p), accepted)
    <2> SUFFICES ASSUME NEW p \in Pumpers PROVE InOrder(Taken(p), accepted)
      OBVIOUS
    <2>1. (Taken(p) \o work) \o <<>> = Taken(p) \o work /\ Taken(p) \o <<>> = Taken(p)
      BY <1>b, <1>e, <1>f
    <2>2. InOrder((Taken(p) \o work) \o <<>>, accepted) => InOrder(Taken(p) \o <<>>, accepted)
      BY <1>b, <1>c, Zenon
    <2> QED
      BY <1>d, <2>1, <2>2
  <1>1. CASE Stay
    BY <1>a, <1>1 DEF Stay, SameTaken, LinesInOrder
  <1>2. CASE Push
    <2>1. PICK t \in Threads, j \in Jobs : work' = work \o <<j>> /\ accepted' = accepted \o <<j>>
      BY <1>2 DEF Push
    <2>2. \A a, b, c \in Seq(Jobs) : (a \o b) \o c = a \o (b \o c)
      BY ConcatAssociative
    <2>3. <<j>> \in Seq(Jobs)
      OBVIOUS
    <2>4. \A p \in Pumpers : Taken(p)' \o work' = (Taken(p) \o work) \o <<j>>
      <3> SUFFICES ASSUME NEW p \in Pumpers PROVE Taken(p)' \o work' = (Taken(p) \o work) \o <<j>>
        OBVIOUS
      <3>1. Taken(p)' = Taken(p)
        BY <1>2 DEF Push, SameTaken
      <3>2. (Taken(p) \o work) \o <<j>> = Taken(p) \o (work \o <<j>>)
        <4>1. Taken(p) \in Seq(Jobs) /\ work \in Seq(Jobs)
          BY <1>b
        <4> QED
          BY <2>2, <2>3, <4>1, Zenon
      <3> QED
        BY <2>1, <3>1, <3>2
    <2>5. \A a, b \in Seq(Jobs) : Elements(a \o b) = Elements(a) \cup Elements(b)
      BY ElementsOfConcat
    <2>6. \A p \in Pumpers : Elements(Taken(p) \o work) \subseteq Elements(accepted)
      BY <1>a, <1>b, <2>5 DEF JobsApart
    <2>7. \A line, acc \in Seq(Jobs) :
              InOrder(line, acc) /\ Elements(line) \subseteq Elements(acc)
                => InOrder(line \o <<j>>, acc \o <<j>>)
      BY InOrderPush
    <2>8. \A p \in Pumpers : InOrder((Taken(p) \o work) \o <<j>>, accepted \o <<j>>)
      BY <1>b, <1>d, <1>f, <2>6, <2>7, Zenon
    <2> QED
      BY <2>1, <2>4, <2>8 DEF LinesInOrder
  <1>3. ASSUME NEW p \in Pumpers, Swap(p) PROVE LinesInOrder'
    <2>1. /\ Taken(p)' = Taken(p) \o work /\ work' = <<>> /\ accepted' = accepted
          /\ \A q \in Pumpers \ {p} : Taken(q)' = Taken(q)
      BY <1>3 DEF Swap, SameTaken
    <2>2. Taken(p)' \o work' = Taken(p) \o work
      BY <1>e, <1>f, <2>1
    <2>3. \A q \in Pumpers \ {p} : Taken(q)' \o work' = Taken(q)
      BY <1>b, <1>e, <2>1
    <2> QED
      BY <1>d, <1>g, <2>1, <2>2, <2>3 DEF LinesInOrder
  <1>4. CASE Halt
    <2>1. /\ Taken(Main)' = executed[Main] /\ work' = work /\ accepted' = accepted
          /\ \A q \in Pumpers \ {Main} : Taken(q)' = Taken(q)
      BY <1>4 DEF Halt, SameTaken
    <2>2. InOrder((executed[Main] \o Held(Main)) \o work, accepted)
      BY <1>d, MainAssumption DEF Taken
    <2>3. InOrder(executed[Main] \o work, accepted)
      BY <1>b, <1>c, <2>2, MainAssumption, Zenon
    <2> QED
      BY <1>d, <2>1, <2>3 DEF LinesInOrder
  <1>5. CASE Clear
    <2>1. /\ work' = <<>> /\ accepted' = accepted /\ \A p \in Pumpers : Taken(p)' = Taken(p)
      BY <1>5 DEF Clear, SameTaken
    <2>2. \A p \in Pumpers : Taken(p)' \o work' = Taken(p)
      BY <1>b, <1>e, <2>1
    <2> QED
      BY <1>g, <2>1, <2>2 DEF LinesInOrder
  <1> QED
    BY <1>1, <1>2, <1>3, <1>4, <1>5, Moves

-----------------------------------------------------------------------------
(* The theorems. *)

\* The singleton's initial state satisfies the invariant ...
LEMMA InitIInv == Init => IInv
  <1> SUFFICES ASSUME Init PROVE IInv
    OBVIOUS
  <1> USE DEF Init
  <1>1. TypeOK
    BY EmptySeq DEF TypeOK, Stages, DownPoints, Sites
  <1>2. \A p \in Pumpers : Taken(p) = <<>> \o (<<>> \o <<>>)
    BY DEF Taken, Held
  <1>3. <<>> \o <<>> = <<>> /\ Elements(<<>>) = {} /\ DOMAIN <<>> = {}
    BY DEF Elements
  <1>4. \A p \in Pumpers : Taken(p) = <<>>
    BY <1>2, <1>3
  <1>5. FlagsRaised /\ HaltedDown /\ HoldsInBatch /\ CheckpointAhead /\ NothingAfterClear
    BY DEF FlagsRaised, HaltedDown, HoldsInBatch, CheckpointAhead, NothingAfterClear
  <1>6. PostedOnce /\ JobsApart
    BY <1>3, <1>4 DEF PostedOnce, JobsApart
  <1>7. LinesInOrder
    BY <1>3, <1>4 DEF LinesInOrder, InOrder
  <1> QED
    BY <1>1, <1>5, <1>6, <1>7 DEF IInv

\* ... every step of every thread preserves it ...
LEMMA NextIInv == IInv /\ [Next]_vars => IInv'
  BY TypeStep, FlagsStep, StagesStep, PostedStep, ApartStep, LinesStep DEF IInv

\* ... and so it always holds.
LEMMA InvariantHolds == Spec => []IInv
  BY InitIInv, NextIInv, PTL DEF Spec

\* A job has at most one place, and an accepted one has one.
LEMMA OnePlace ==
    ASSUME IInv, NEW j \in Jobs
    PROVE  Cardinality(Places(j)) = IF j \in Elements(accepted) THEN 1 ELSE 0
  <1>a. TypeOK /\ JobsApart /\ work \in Seq(Jobs)
    BY DEF IInv, TypeOK
  <1>b. \A p \in Pumpers : Elements(Taken(p)) = Elements(executed[p]) \cup Elements(Held(p))
    <2> SUFFICES ASSUME NEW p \in Pumpers PROVE Elements(Taken(p)) = Elements(executed[p]) \cup Elements(Held(p))
      OBVIOUS
    <2>1. executed[p] \in Seq(Jobs) /\ Held(p) \in Seq(Jobs)
      BY <1>a, TakenType
    <2> QED
      BY <2>1, ElementsOfConcat DEF Taken
  <1> DEFINE Ran(x) == \E p \in Pumpers : \E i \in DOMAIN executed[p] : executed[p][i] = j /\ x = <<"executed", p, i>>
             Queued(x) == \E i \in DOMAIN work : work[i] = j /\ x = <<"queued", Main, i>>
             Holds(x) == \E p \in Pumpers : \E i \in DOMAIN Held(p) : Held(p)[i] = j /\ x = <<"held", p, i>>
             Gone(x) == j \in discarded /\ x = <<"discarded", Main, 0>>
  <1> DEFINE RanSet(p) == {<<"executed", p, i>> : i \in {n \in DOMAIN executed[p] : executed[p][n] = j}}
             HeldSet(p) == {<<"held", p, i>> : i \in {n \in DOMAIN Held(p) : Held(p)[n] = j}}
             QueuedSet == {<<"queued", Main, i>> : i \in {n \in DOMAIN work : work[n] = j}}
             GoneSet == {<<"discarded", Main, 0>> : x \in discarded \cap {j}}
  <1>1. \A x : x \in Places(j) <=> Ran(x) \/ Queued(x) \/ Holds(x) \/ Gone(x)
    <2> DEFINE AllRan == UNION {RanSet(p) : p \in Pumpers}
               AllHeld == UNION {HeldSet(p) : p \in Pumpers}
    <2>1. Places(j) = AllRan \cup QueuedSet \cup AllHeld \cup GoneSet
      BY DEF Places
    <2>2. \A p, x : x \in RanSet(p)
                      <=> \E i \in DOMAIN executed[p] : executed[p][i] = j /\ x = <<"executed", p, i>>
      OBVIOUS
    <2>3. \A p, x : x \in HeldSet(p)
                      <=> \E i \in DOMAIN Held(p) : Held(p)[i] = j /\ x = <<"held", p, i>>
      OBVIOUS
    <2>4. \A x : x \in QueuedSet <=> Queued(x)
      OBVIOUS
    <2>5. \A x : x \in GoneSet <=> Gone(x)
      OBVIOUS
    <2> HIDE DEF RanSet, HeldSet, QueuedSet, GoneSet
    <2>6. \A x : x \in AllRan <=> Ran(x)
      BY <2>2
    <2>7. \A x : x \in AllHeld <=> Holds(x)
      BY <2>3
    <2> HIDE DEF Ran, Queued, Holds, Gone, AllRan, AllHeld
    <2> QED
      BY <2>1, <2>4, <2>5, <2>6, <2>7, Zenon
  <1>2. \A x : Ran(x) => \E p \in Pumpers : j \in Elements(executed[p])
    BY DEF Elements
  <1>3. \A x : Holds(x) => \E p \in Pumpers : j \in Elements(Held(p))
    BY DEF Elements
  <1>4. \A x : Queued(x) => j \in Elements(work)
    BY DEF Elements
  <1>5. \A x : Gone(x) => j \in discarded
    OBVIOUS
  <1>6. \A x, y : Ran(x) /\ Ran(y) => x = y
    <2> SUFFICES ASSUME NEW p \in Pumpers, NEW q \in Pumpers, NEW i \in DOMAIN executed[p],
                        NEW k \in DOMAIN executed[q], executed[p][i] = j, executed[q][k] = j
                 PROVE  p = q /\ i = k
      OBVIOUS
    <2>1. j \in Elements(Taken(p)) /\ j \in Elements(Taken(q))
      BY <1>b DEF Elements
    <2>2. p = q
      BY <1>a, <2>1 DEF JobsApart
    <2> QED
      BY <2>2, TakenOnce
  <1>7. \A x, y : Holds(x) /\ Holds(y) => x = y
    <2> SUFFICES ASSUME NEW p \in Pumpers, NEW q \in Pumpers, NEW i \in DOMAIN Held(p),
                        NEW k \in DOMAIN Held(q), Held(p)[i] = j, Held(q)[k] = j
                 PROVE  p = q /\ i = k
      OBVIOUS
    <2>1. j \in Elements(Taken(p)) /\ j \in Elements(Taken(q))
      BY <1>b DEF Elements
    <2>2. p = q
      BY <1>a, <2>1 DEF JobsApart
    <2> QED
      BY <2>2, TakenOnce
  <1>8. \A x, y : Queued(x) /\ Queued(y) => x = y
    BY TakenOnce, MainAssumption
  <1>9. \A x, y : Gone(x) /\ Gone(y) => x = y
    OBVIOUS
  <1>10. \A x, y : ~(Ran(x) /\ Holds(y))
    <2> SUFFICES ASSUME NEW p \in Pumpers, NEW q \in Pumpers, j \in Elements(executed[p]), j \in Elements(Held(q))
                 PROVE  FALSE
      BY <1>2, <1>3
    <2>1. p = q
      BY <1>a, <1>b DEF JobsApart
    <2> QED
      BY <2>1, TakenOnce
  <1>11. \A x, y : ~(Ran(x) /\ Queued(y)) /\ ~(Ran(x) /\ Gone(y))
    BY <1>a, <1>b, <1>2, <1>4, <1>5 DEF JobsApart
  <1>12. \A x, y : ~(Holds(x) /\ Queued(y)) /\ ~(Holds(x) /\ Gone(y))
    BY <1>a, <1>b, <1>3, <1>4, <1>5 DEF JobsApart
  <1>13. \A x, y : ~(Queued(x) /\ Gone(y))
    BY <1>a, <1>4, <1>5 DEF JobsApart
  <1>14. (\E x : Ran(x)) <=> \E p \in Pumpers : j \in Elements(executed[p])
    BY DEF Elements
  <1>15. (\E x : Holds(x)) <=> \E p \in Pumpers : j \in Elements(Held(p))
    BY DEF Elements
  <1>16. (\E x : Queued(x)) <=> j \in Elements(work)
    BY DEF Elements
  <1>17. (\E x : Gone(x)) <=> j \in discarded
    OBVIOUS
  <1> HIDE DEF Ran, Queued, Holds, Gone
  <1>18. \A x, y \in Places(j) : x = y
    BY <1>1, <1>6, <1>7, <1>8, <1>9, <1>10, <1>11, <1>12, <1>13, Zenon
  <1>19. (\E x : x \in Places(j)) <=> j \in Elements(accepted)
    BY <1>a, <1>b, <1>1, <1>14, <1>15, <1>16, <1>17 DEF JobsApart
  <1>20. CASE j \in Elements(accepted)
    <2>1. PICK x : x \in Places(j)
      BY <1>19, <1>20
    <2>2. Places(j) = {x}
      BY <1>18, <2>1
    <2> QED
      BY <1>20, <2>2, FS_Singleton
  <1>21. CASE j \notin Elements(accepted)
    <2>1. Places(j) = {}
      BY <1>19, <1>21
    <2> QED
      BY <1>21, <2>1, FS_EmptySet
  <1> QED
    BY <1>20, <1>21

\* Work that try_post accepted is in exactly one place, and every pumper runs
\* what it takes in the order of acceptance, whatever callbacks post and
\* however many threads pump (try_post, drain_posted_callbacks, shutdown).
THEOREM PostedWorkInOrder == Spec => []JobsInOrder
  <1>1. IInv => JobsInOrder
    <2> SUFFICES ASSUME IInv PROVE JobsInOrder
      OBVIOUS
    <2>1. JobsOnce
      BY OnePlace DEF JobsOnce, IInv, FlagsRaised
    <2>2. PostedFifo
      BY DEF IInv, LinesInOrder, Taken, InOrder, PostedFifo
    <2> QED
      BY <2>1, <2>2 DEF IInv, JobsInOrder
  <1> QED
    BY <1>1, InvariantHolds, PTL

\* Nothing is queued once shutdown() has cleared the queue, since try_post
\* tests the flags under the mutex the clear takes.
THEOREM ClearedForGood == Spec => []NothingAfterClear
  <1>1. IInv => NothingAfterClear
    BY DEF IInv
  <1> QED
    BY <1>1, InvariantHolds, PTL

\* A pump that ran a callback ends after a microtask checkpoint.
THEOREM CheckpointAfterJobs == Spec => []MicrotasksFlushed
  <1>1. IInv => MicrotasksFlushed
    BY DEF IInv, CheckpointAhead, MicrotasksFlushed, RunStages
  <1> QED
    BY <1>1, InvariantHolds, PTL
====
