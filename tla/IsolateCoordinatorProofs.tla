---------------------- MODULE IsolateCoordinatorProofs ----------------------
(***************************************************************************)
(* Proofs about the isolate coordinator, for any sets of runtimes, callers *)
(* and tasks.  The inductive invariant has three layers: TypeInv (types    *)
(* and what the locals of a call hold), DrainInv (where every accepted     *)
(* task is) and OwnerInv (who may hold a pointer to which runtime_state).  *)
(* Each layer is proved with the ones before it.                           *)
(***************************************************************************)
EXTENDS IsolateCoordinator, TLAPS

\* A caller inside a call holds a runtime, and a task when it is to push one.
CallInv ==
    \A c \in Callers : /\ cpc[c] # "idle" => target[c] \in Runtimes
                       /\ cpc[c] = "push" => item[c] \in Tasks

\* A runtime thread holds a task exactly while it runs it.
CurrentInv ==
    \A r \in Runtimes : /\ rpc[r] = "running" => \E t \in Tasks : current[r] = <<t>>
                        /\ rpc[r] # "running" => current[r] = <<>>

TypeInv == TypeOK /\ CallInv /\ CurrentInv

\* A runtime can be posted to only after its isolate has come up.
Up(r) == rpc[r] \notin {"none", "boot"}

BootInv ==
    /\ \A r \in Runtimes : /\ ~Up(r) => queue[r] = <<>> /\ ~started[r]
                           /\ r \in freed => rpc[r] \in {"none", "exited"}
    /\ \A c \in Callers : /\ \A r \in owned[c] : Up(r)
                          /\ cpc[c] = "await" => rpc[target[c]] # "none"
                          /\ cpc[c] \in {"push", "notifyOne"} => Up(target[c])

ExitInv ==
    \A r \in Runtimes : rpc[r] = "exited" => stopping[r] /\ queue[r] = <<>>

DrainInv == NothingLost /\ BootInv /\ ExitInv

\* Until exit begins every live runtime has one owner: the caller that is
\* spawning it, that holds its id, or that is stopping it.
Holds(c, r) == r \in owned[c] \/ (cpc[c] # "idle" /\ target[c] = r)

OwnerInv ==
    /\ ~exiting => stopIds = {}
    /\ ~exiting => \A c \in Callers :
        /\ \A r \in Runtimes : Holds(c, r) => r \notin freed /\ rpc[r] # "none"
        /\ cpc[c] \in {"await", "setStopping", "notifyAll", "join"} => target[c] \notin owned[c]
        /\ cpc[c] \in {"push", "notifyOne"} => target[c] \in owned[c]
        /\ \A d \in Callers \ {c}, r \in Runtimes : ~(Holds(c, r) /\ Holds(d, r))

-----------------------------------------------------------------------------
(* Sequences *)

\* Appending to the last of three concatenated sequences appends to the whole.
LEMMA AppendToLast ==
    ASSUME NEW S, NEW a \in Seq(S), NEW b \in Seq(S), NEW q \in Seq(S), NEW t \in S
    PROVE  a \o b \o Append(q, t) = Append(a \o b \o q, t)
OBVIOUS

\* Taking the head of the queue into the empty middle keeps the whole.
LEMMA TakeHead ==
    ASSUME NEW S, NEW a \in Seq(S), NEW q \in Seq(S), q # <<>>
    PROVE  a \o <<>> \o q = a \o <<Head(q)>> \o Tail(q)
OBVIOUS

\* Moving the middle element to the end of the first sequence keeps the whole.
LEMMA RetireCurrent ==
    ASSUME NEW S, NEW a \in Seq(S), NEW q \in Seq(S), NEW t \in S
    PROVE  a \o <<t>> \o q = Append(a, Head(<<t>>)) \o <<>> \o q
OBVIOUS
-----------------------------------------------------------------------------
(* Layer 1: types and locals *)

\* The initial states satisfy layer 1.
LEMMA TypeInvInit == Init => TypeInv
<1> SUFFICES ASSUME Init PROVE TypeInv
    OBVIOUS
<1>1. TypeOK
    <2>1. owned \in [Callers -> SUBSET Runtimes] /\ registered \in SUBSET Runtimes
          /\ freed \in SUBSET Runtimes /\ stopIds \in SUBSET Runtimes
        BY DEF Init
    <2>2. rpc \in [Runtimes -> ThreadPoints] /\ cpc \in [Callers -> CallerPoints]
        BY DEF Init, ThreadPoints, CallerPoints
    <2>3. <<>> \in Seq(Tasks)
        OBVIOUS
    <2>4. QED
        BY <2>1, <2>2, <2>3 DEF Init, TypeOK
<1>2. CallInv
    BY DEF Init, CallInv
<1>3. CurrentInv
    BY DEF Init, CurrentInv
<1>4. QED
    BY <1>1, <1>2, <1>3 DEF TypeInv

\* Every step of a thread or a caller keeps layer 1.
LEMMA TypeInvNext == TypeInv /\ [Next]_vars => TypeInv'
<1> SUFFICES ASSUME TypeInv, [Next]_vars PROVE TypeInv'
    OBVIOUS
<1> USE NoneAssumption, MainAssumption
    DEF TypeInv, TypeOK, CallInv, CurrentInv, ThreadPoints, CallerPoints,
        vars, threadVars, callerVars, observers
<1>1. ASSUME NEW r \in Runtimes, BootOk(r) PROVE TypeInv'
    BY <1>1 DEF BootOk
<1>2. ASSUME NEW r \in Runtimes, BootFail(r) PROVE TypeInv'
    BY <1>2 DEF BootFail
<1>3. ASSUME NEW r \in Runtimes, TakeTask(r) PROVE TypeInv'
    BY <1>3 DEF TakeTask
<1>4. ASSUME NEW r \in Runtimes, ExitLoop(r) PROVE TypeInv'
    BY <1>4 DEF ExitLoop
<1>5. ASSUME NEW r \in Runtimes, DecideToWait(r) PROVE TypeInv'
    BY <1>5 DEF DecideToWait
<1>6. ASSUME NEW r \in Runtimes, Block(r) PROVE TypeInv'
    BY <1>6 DEF Block
<1>7. ASSUME NEW r \in Runtimes, RunTask(r) PROVE TypeInv'
    BY <1>7 DEF RunTask
<1>8. ASSUME NEW r \in Runtimes, SpuriousWake(r) PROVE TypeInv'
    BY <1>8 DEF SpuriousWake
<1>9. ASSUME NEW c \in Callers, SpawnReturn(c) PROVE TypeInv'
    BY <1>9 DEF SpawnReturn
<1>10. ASSUME NEW c \in Callers, SpawnFailed(c) PROVE TypeInv'
    BY <1>10 DEF SpawnFailed, Unregister
<1>11. ASSUME NEW c \in Callers, SetStopping(c) PROVE TypeInv'
    BY <1>11 DEF SetStopping
<1>12. ASSUME NEW c \in Callers, NotifyAll(c) PROVE TypeInv'
    BY <1>12 DEF NotifyAll, Woken
<1>13. ASSUME NEW c \in Callers, Join(c) PROVE TypeInv'
    BY <1>13 DEF Join
<1>14. ASSUME NEW c \in Callers, PostRefused(c) PROVE TypeInv'
    BY <1>14 DEF PostRefused
<1>15. ASSUME NEW c \in Callers, PostPush(c) PROVE TypeInv'
    BY <1>15 DEF PostPush
<1>16. ASSUME NEW c \in Callers, PostNotify(c) PROVE TypeInv'
    BY <1>16 DEF PostNotify, Woken
<1>17. ASSUME NEW c \in Callers, TouchFreed(c) PROVE TypeInv'
    <2>1. CASE UNCHANGED owned
        BY <1>17, <2>1 DEF TouchFreed
    <2>2. CASE cpc[c] = "await" /\ owned' = [owned EXCEPT ![c] = @ \cup {target[c]}]
        <3>1. target[c] \in Runtimes
            BY <2>2
        <3>2. owned' \in [Callers -> SUBSET Runtimes]
            BY <2>2, <3>1
        <3>3. QED
            BY <1>17, <3>2 DEF TouchFreed
    <2>3. QED
        BY <1>17, <2>1, <2>2 DEF TouchFreed
<1>18. ASSUME NEW c \in Callers, NEW r \in Runtimes, Spawn(c, r) PROVE TypeInv'
    BY <1>18 DEF Spawn, Idle
<1>19. ASSUME NEW c \in Callers, NEW r \in Runtimes, SpawnNoThread(c, r) PROVE TypeInv'
    BY <1>19 DEF SpawnNoThread, Idle
<1>20. ASSUME NEW c \in Callers, NEW r \in Runtimes, StopRuntime(c, r) PROVE TypeInv'
    <2>1. CASE r \in registered
        <3>1. owned' \in [Callers -> SUBSET Runtimes] /\ registered' \in SUBSET Runtimes
            BY <1>20, <2>1 DEF StopRuntime, Unregister
        <3>2. cpc' \in [Callers -> CallerPoints] /\ target' \in [Callers -> Runtimes \cup {None}]
            <4>1. /\ cpc' = [cpc EXCEPT ![c] = "setStopping"]
                  /\ target' = [target EXCEPT ![c] = r]
                BY <1>20, <2>1 DEF StopRuntime, Unregister
            <4>2. QED
                BY <4>1
        <3>3. CallInv' /\ CurrentInv'
            BY <1>20, <2>1 DEF StopRuntime, Unregister
        <3>4. TypeOK'
            BY <1>20, <3>1, <3>2 DEF StopRuntime
        <3>5. QED
            BY <3>3, <3>4
    <2>2. CASE r \notin registered
        BY <1>20, <2>2 DEF StopRuntime, Unregister
    <2>3. QED
        BY <2>1, <2>2
<1>21. ASSUME NEW c \in Callers, NEW r \in Runtimes, NEW t \in Tasks, PostLookup(c, r, t) PROVE TypeInv'
    BY <1>21 DEF PostLookup, Idle
<1>22. ASSUME StopAllBegin PROVE TypeInv'
    BY <1>22 DEF StopAllBegin
<1>23. ASSUME NEW r \in Runtimes, StopAllNext(r) PROVE TypeInv'
    <2>1. CASE r \in registered
        <3>1. stopIds' \in SUBSET Runtimes /\ registered' \in SUBSET Runtimes
            BY <1>23, <2>1 DEF StopAllNext, Unregister
        <3>2. cpc' \in [Callers -> CallerPoints] /\ target' \in [Callers -> Runtimes \cup {None}]
            <4>1. /\ cpc' = [cpc EXCEPT ![Main] = "setStopping"]
                  /\ target' = [target EXCEPT ![Main] = r]
                BY <1>23, <2>1 DEF StopAllNext, Unregister
            <4>2. QED
                BY <4>1
        <3>3. CallInv' /\ CurrentInv'
            BY <1>23, <2>1 DEF StopAllNext, Unregister
        <3>4. TypeOK'
            BY <1>23, <3>1, <3>2 DEF StopAllNext
        <3>5. QED
            BY <3>3, <3>4
    <2>2. CASE r \notin registered
        BY <1>23, <2>2 DEF StopAllNext, Unregister
    <2>3. QED
        BY <2>1, <2>2
<1>24. CASE UNCHANGED vars
    BY <1>24
<1>25. QED
    BY <1>1, <1>2, <1>3, <1>4, <1>5, <1>6, <1>7, <1>8, <1>9, <1>10, <1>11, <1>12, <1>13, <1>14, <1>15, <1>16, <1>17, <1>18, <1>19, <1>20, <1>21, <1>22, <1>23, <1>24
    DEF Next, ThreadStep, CallStep, CallBegin
-----------------------------------------------------------------------------
(* Layer 2: where the accepted tasks are *)

\* Only taking, running and pushing a task touch the queues.
LEMMA QueueSteps ==
    ASSUME [Next]_vars,
           \A r \in Runtimes : ~TakeTask(r) /\ ~RunTask(r),
           \A c \in Callers : ~PostPush(c)
    PROVE  UNCHANGED <<queue, current, accepted, executed>>
BY DEF Next, ThreadStep, CallStep, CallBegin, BootOk, BootFail, ExitLoop, DecideToWait,
       Block, SpuriousWake, Spawn, SpawnNoThread, SpawnReturn, StopRuntime, SpawnFailed,
       SetStopping, NotifyAll, Join, StopAllBegin, StopAllNext, PostLookup, PostRefused,
       PostNotify, TouchFreed, vars, threadVars, callerVars, observers

\* Every step keeps the order and the number of the accepted tasks.
LEMMA NothingLostNext ==
    TypeInv /\ NothingLost /\ [Next]_vars => NothingLost'
<1> SUFFICES ASSUME TypeInv, NothingLost, [Next]_vars PROVE NothingLost'
    OBVIOUS
<1> USE DEF TypeInv, TypeOK
<1>1. ASSUME NEW r \in Runtimes, TakeTask(r) PROVE NothingLost'
    <2>1. current[r] = <<>>
        BY <1>1 DEF TakeTask, CurrentInv
    <2>2. executed[r] \o current[r] \o queue[r] = executed[r] \o <<Head(queue[r])>> \o Tail(queue[r])
        BY <1>1, <2>1, TakeHead DEF TakeTask
    <2>3. /\ accepted' = accepted /\ executed' = executed
          /\ current' = [current EXCEPT ![r] = <<Head(queue[r])>>]
          /\ queue' = [queue EXCEPT ![r] = Tail(queue[r])]
        BY <1>1 DEF TakeTask, observers
    <2>4. QED
        BY <2>2, <2>3 DEF NothingLost
<1>2. ASSUME NEW r \in Runtimes, RunTask(r) PROVE NothingLost'
    <2>1. PICK t \in Tasks : current[r] = <<t>>
        BY <1>2 DEF RunTask, CurrentInv
    <2>2. executed[r] \o current[r] \o queue[r] = Append(executed[r], Head(current[r])) \o <<>> \o queue[r]
        BY <2>1, RetireCurrent
    <2>3. /\ accepted' = accepted /\ queue' = queue
          /\ executed' = [executed EXCEPT ![r] = Append(executed[r], Head(current[r]))]
          /\ current' = [current EXCEPT ![r] = <<>>]
        BY <1>2 DEF RunTask
    <2>4. QED
        BY <2>2, <2>3 DEF NothingLost
<1>3. ASSUME NEW c \in Callers, PostPush(c) PROVE NothingLost'
    <2> DEFINE r == target[c]
    <2>1. r \in Runtimes /\ item[c] \in Tasks
        BY <1>3 DEF PostPush, CallInv
    <2>2. executed[r] \o current[r] \o Append(queue[r], item[c])
            = Append(executed[r] \o current[r] \o queue[r], item[c])
        BY <2>1, AppendToLast
    <2>3. /\ current' = current /\ executed' = executed
          /\ queue' = [queue EXCEPT ![r] = Append(queue[r], item[c])]
          /\ accepted' = [accepted EXCEPT ![r] = Append(accepted[r], item[c])]
        BY <1>3 DEF PostPush
    <2>4. QED
        BY <2>1, <2>2, <2>3 DEF NothingLost
<1>4. CASE UNCHANGED <<queue, current, accepted, executed>>
    BY <1>4 DEF NothingLost
<1>5. QED
    BY <1>1, <1>2, <1>3, <1>4, QueueSteps

\* Every step keeps what is known of runtimes that are booting or freed.
LEMMA BootInvNext ==
    TypeInv /\ BootInv /\ [Next]_vars => BootInv'
<1> SUFFICES ASSUME TypeInv, BootInv, [Next]_vars PROVE BootInv'
    OBVIOUS
<1> USE MainAssumption, NoneAssumption
    DEF TypeInv, TypeOK, CallInv, BootInv, Up, ThreadPoints, CallerPoints,
        vars, threadVars, callerVars, observers
<1>1. ASSUME NEW r \in Runtimes, BootOk(r) PROVE BootInv'
    BY <1>1 DEF BootOk
<1>2. ASSUME NEW r \in Runtimes, BootFail(r) PROVE BootInv'
    BY <1>2 DEF BootFail
<1>3. ASSUME NEW r \in Runtimes, TakeTask(r) PROVE BootInv'
    BY <1>3 DEF TakeTask
<1>4. ASSUME NEW r \in Runtimes, ExitLoop(r) PROVE BootInv'
    BY <1>4 DEF ExitLoop
<1>5. ASSUME NEW r \in Runtimes, DecideToWait(r) PROVE BootInv'
    BY <1>5 DEF DecideToWait
<1>6. ASSUME NEW r \in Runtimes, Block(r) PROVE BootInv'
    BY <1>6 DEF Block
<1>7. ASSUME NEW r \in Runtimes, RunTask(r) PROVE BootInv'
    BY <1>7 DEF RunTask
<1>8. ASSUME NEW r \in Runtimes, SpuriousWake(r) PROVE BootInv'
    BY <1>8 DEF SpuriousWake
<1>9. ASSUME NEW c \in Callers, SpawnReturn(c) PROVE BootInv'
    BY <1>9 DEF SpawnReturn
<1>10. ASSUME NEW c \in Callers, SpawnFailed(c) PROVE BootInv'
    BY <1>10 DEF SpawnFailed, Unregister
<1>11. ASSUME NEW c \in Callers, SetStopping(c) PROVE BootInv'
    BY <1>11 DEF SetStopping
<1>12. ASSUME NEW c \in Callers, NotifyAll(c) PROVE BootInv'
    BY <1>12 DEF NotifyAll, Woken
<1>13. ASSUME NEW c \in Callers, Join(c) PROVE BootInv'
    BY <1>13 DEF Join
<1>14. ASSUME NEW c \in Callers, PostRefused(c) PROVE BootInv'
    BY <1>14 DEF PostRefused
<1>15. ASSUME NEW c \in Callers, PostPush(c) PROVE BootInv'
    BY <1>15 DEF PostPush
<1>16. ASSUME NEW c \in Callers, PostNotify(c) PROVE BootInv'
    BY <1>16 DEF PostNotify, Woken
<1>17. ASSUME NEW c \in Callers, TouchFreed(c) PROVE BootInv'
    BY <1>17 DEF TouchFreed
<1>18. ASSUME NEW c \in Callers, NEW r \in Runtimes, Spawn(c, r) PROVE BootInv'
    BY <1>18 DEF Spawn, Idle
<1>19. ASSUME NEW c \in Callers, NEW r \in Runtimes, SpawnNoThread(c, r) PROVE BootInv'
    BY <1>19 DEF SpawnNoThread, Idle
<1>20. ASSUME NEW c \in Callers, NEW r \in Runtimes, StopRuntime(c, r) PROVE BootInv'
    BY <1>20 DEF StopRuntime, Unregister, Idle
<1>21. ASSUME NEW c \in Callers, NEW r \in Runtimes, NEW t \in Tasks, PostLookup(c, r, t) PROVE BootInv'
    BY <1>21 DEF PostLookup, Idle
<1>22. ASSUME StopAllBegin PROVE BootInv'
    BY <1>22 DEF StopAllBegin
<1>23. ASSUME NEW r \in Runtimes, StopAllNext(r) PROVE BootInv'
    <2>0. DOMAIN cpc = Callers /\ DOMAIN target = Callers
        OBVIOUS
    <2>1. \/ cpc' = [cpc EXCEPT ![Main] = "setStopping"] /\ target' = [target EXCEPT ![Main] = r]
          \/ cpc' = [cpc EXCEPT ![Main] = "idle"] /\ target' = [target EXCEPT ![Main] = None]
        BY <1>23 DEF StopAllNext, Unregister
    <2>2. UNCHANGED <<rpc, queue, started, freed, owned>>
        BY <1>23 DEF StopAllNext
    <2>3. ASSUME NEW d \in Callers
          PROVE  cpc'[d] \in {"setStopping", "idle"} \/ (cpc'[d] = cpc[d] /\ target'[d] = target[d])
        BY ONLY <2>0, <2>1, d \in Callers
    <2>4. ASSUME NEW q \in Runtimes
          PROVE  /\ ~Up(q)' => queue'[q] = <<>> /\ ~started'[q]
                 /\ q \in freed' => rpc'[q] \in {"none", "exited"}
        BY <2>2
    <2>5. ASSUME NEW d \in Callers
          PROVE  /\ \A q \in owned'[d] : Up(q)'
                 /\ cpc'[d] = "await" => rpc'[target'[d]] # "none"
                 /\ cpc'[d] \in {"push", "notifyOne"} => Up(target[d])'
        <3>1. /\ \A q \in owned[d] : Up(q)
              /\ cpc[d] = "await" => rpc[target[d]] # "none"
              /\ cpc[d] \in {"push", "notifyOne"} => Up(target[d])
            BY Zenon
        <3>2. QED
            BY ONLY <2>2, <2>3, <3>1, d \in Callers DEF Up
    <2>6. QED
        BY ONLY <2>4, <2>5 DEF BootInv
<1>24. CASE UNCHANGED vars
    BY <1>24
<1>25. QED
    BY <1>1, <1>2, <1>3, <1>4, <1>5, <1>6, <1>7, <1>8, <1>9, <1>10, <1>11, <1>12, <1>13, <1>14, <1>15, <1>16, <1>17, <1>18, <1>19, <1>20, <1>21, <1>22, <1>23, <1>24
    DEF Next, ThreadStep, CallStep, CallBegin

\* Every step keeps the queue of an exited runtime empty and closed.
LEMMA ExitInvNext ==
    TypeInv /\ BootInv /\ ExitInv /\ [Next]_vars => ExitInv'
<1> SUFFICES ASSUME TypeInv, BootInv, ExitInv, [Next]_vars PROVE ExitInv'
    OBVIOUS
<1> USE MainAssumption, NoneAssumption
    DEF TypeInv, TypeOK, CallInv, BootInv, ExitInv, Up, ThreadPoints, CallerPoints,
        vars, threadVars, callerVars, observers
<1>1. ASSUME NEW r \in Runtimes, BootOk(r) PROVE ExitInv'
    BY <1>1 DEF BootOk
<1>2. ASSUME NEW r \in Runtimes, BootFail(r) PROVE ExitInv'
    BY <1>2 DEF BootFail
<1>3. ASSUME NEW r \in Runtimes, TakeTask(r) PROVE ExitInv'
    BY <1>3 DEF TakeTask
<1>4. ASSUME NEW r \in Runtimes, ExitLoop(r) PROVE ExitInv'
    BY <1>4 DEF ExitLoop
<1>5. ASSUME NEW r \in Runtimes, DecideToWait(r) PROVE ExitInv'
    BY <1>5 DEF DecideToWait
<1>6. ASSUME NEW r \in Runtimes, Block(r) PROVE ExitInv'
    BY <1>6 DEF Block
<1>7. ASSUME NEW r \in Runtimes, RunTask(r) PROVE ExitInv'
    BY <1>7 DEF RunTask
<1>8. ASSUME NEW r \in Runtimes, SpuriousWake(r) PROVE ExitInv'
    BY <1>8 DEF SpuriousWake
<1>9. ASSUME NEW c \in Callers, SpawnReturn(c) PROVE ExitInv'
    BY <1>9 DEF SpawnReturn
<1>10. ASSUME NEW c \in Callers, SpawnFailed(c) PROVE ExitInv'
    BY <1>10 DEF SpawnFailed, Unregister
<1>11. ASSUME NEW c \in Callers, SetStopping(c) PROVE ExitInv'
    BY <1>11 DEF SetStopping
<1>12. ASSUME NEW c \in Callers, NotifyAll(c) PROVE ExitInv'
    BY <1>12 DEF NotifyAll, Woken
<1>13. ASSUME NEW c \in Callers, Join(c) PROVE ExitInv'
    BY <1>13 DEF Join
<1>14. ASSUME NEW c \in Callers, PostRefused(c) PROVE ExitInv'
    BY <1>14 DEF PostRefused
<1>15. ASSUME NEW c \in Callers, PostPush(c) PROVE ExitInv'
    BY <1>15 DEF PostPush
<1>16. ASSUME NEW c \in Callers, PostNotify(c) PROVE ExitInv'
    BY <1>16 DEF PostNotify, Woken
<1>17. ASSUME NEW c \in Callers, TouchFreed(c) PROVE ExitInv'
    BY <1>17 DEF TouchFreed
<1>18. ASSUME NEW c \in Callers, NEW r \in Runtimes, Spawn(c, r) PROVE ExitInv'
    BY <1>18 DEF Spawn, Idle
<1>19. ASSUME NEW c \in Callers, NEW r \in Runtimes, SpawnNoThread(c, r) PROVE ExitInv'
    BY <1>19 DEF SpawnNoThread, Idle
<1>20. ASSUME NEW c \in Callers, NEW r \in Runtimes, StopRuntime(c, r) PROVE ExitInv'
    BY <1>20 DEF StopRuntime, Unregister, Idle
<1>21. ASSUME NEW c \in Callers, NEW r \in Runtimes, NEW t \in Tasks, PostLookup(c, r, t) PROVE ExitInv'
    BY <1>21 DEF PostLookup, Idle
<1>22. ASSUME StopAllBegin PROVE ExitInv'
    BY <1>22 DEF StopAllBegin
<1>23. ASSUME NEW r \in Runtimes, StopAllNext(r) PROVE ExitInv'
    BY <1>23 DEF StopAllNext, Unregister
<1>24. CASE UNCHANGED vars
    BY <1>24
<1>25. QED
    BY <1>1, <1>2, <1>3, <1>4, <1>5, <1>6, <1>7, <1>8, <1>9, <1>10, <1>11, <1>12, <1>13, <1>14, <1>15, <1>16, <1>17, <1>18, <1>19, <1>20, <1>21, <1>22, <1>23, <1>24
    DEF Next, ThreadStep, CallStep, CallBegin
-----------------------------------------------------------------------------
(* Layer 3: who holds which runtime *)

\* Every step keeps one owner per live runtime until exit begins.
LEMMA OwnerInvNext ==
    TypeInv /\ BootInv /\ OwnerInv /\ [Next]_vars => OwnerInv'
<1> SUFFICES ASSUME TypeInv, BootInv, OwnerInv, [Next]_vars PROVE OwnerInv'
    OBVIOUS
<1> USE MainAssumption, NoneAssumption
    DEF TypeInv, TypeOK, CallInv, BootInv, OwnerInv, Holds, Up, ThreadPoints, CallerPoints,
        vars, threadVars, callerVars, observers
<1>1. ASSUME NEW r \in Runtimes, BootOk(r) PROVE OwnerInv'
    BY <1>1 DEF BootOk
<1>2. ASSUME NEW r \in Runtimes, BootFail(r) PROVE OwnerInv'
    BY <1>2 DEF BootFail
<1>3. ASSUME NEW r \in Runtimes, TakeTask(r) PROVE OwnerInv'
    BY <1>3 DEF TakeTask
<1>4. ASSUME NEW r \in Runtimes, ExitLoop(r) PROVE OwnerInv'
    BY <1>4 DEF ExitLoop
<1>5. ASSUME NEW r \in Runtimes, DecideToWait(r) PROVE OwnerInv'
    BY <1>5 DEF DecideToWait
<1>6. ASSUME NEW r \in Runtimes, Block(r) PROVE OwnerInv'
    BY <1>6 DEF Block
<1>7. ASSUME NEW r \in Runtimes, RunTask(r) PROVE OwnerInv'
    BY <1>7 DEF RunTask
<1>8. ASSUME NEW r \in Runtimes, SpuriousWake(r) PROVE OwnerInv'
    BY <1>8 DEF SpuriousWake
<1>9. ASSUME NEW c \in Callers, SpawnReturn(c) PROVE OwnerInv'
    BY <1>9 DEF SpawnReturn
<1>10. ASSUME NEW c \in Callers, SpawnFailed(c) PROVE OwnerInv'
    <2>1. cpc[c] = "await" /\ UNCHANGED <<threadVars, freed, owned, exiting, stopIds>>
        BY <1>10 DEF SpawnFailed
    <2>2. CASE cpc' = [cpc EXCEPT ![c] = "setStopping"] /\ target' = [target EXCEPT ![c] = target[c]]
        BY <2>1, <2>2
    <2>3. CASE cpc' = [cpc EXCEPT ![c] = "idle"] /\ target' = [target EXCEPT ![c] = None]
        BY <2>1, <2>3
    <2>4. QED
        BY <1>10, <2>2, <2>3 DEF SpawnFailed, Unregister
<1>11. ASSUME NEW c \in Callers, SetStopping(c) PROVE OwnerInv'
    BY <1>11 DEF SetStopping
<1>12. ASSUME NEW c \in Callers, NotifyAll(c) PROVE OwnerInv'
    BY <1>12 DEF NotifyAll, Woken
<1>13. ASSUME NEW c \in Callers, Join(c) PROVE OwnerInv'
    BY <1>13 DEF Join
<1>14. ASSUME NEW c \in Callers, PostRefused(c) PROVE OwnerInv'
    BY <1>14 DEF PostRefused
<1>15. ASSUME NEW c \in Callers, PostPush(c) PROVE OwnerInv'
    BY <1>15 DEF PostPush
<1>16. ASSUME NEW c \in Callers, PostNotify(c) PROVE OwnerInv'
    BY <1>16 DEF PostNotify, Woken
<1>17. ASSUME NEW c \in Callers, TouchFreed(c) PROVE OwnerInv'
    BY <1>17 DEF TouchFreed
<1>18. ASSUME NEW c \in Callers, NEW r \in Runtimes, Spawn(c, r) PROVE OwnerInv'
    BY <1>18 DEF Spawn, Idle
<1>19. ASSUME NEW c \in Callers, NEW r \in Runtimes, SpawnNoThread(c, r) PROVE OwnerInv'
    BY <1>19 DEF SpawnNoThread, Idle
<1>20. ASSUME NEW c \in Callers, NEW r \in Runtimes, StopRuntime(c, r) PROVE OwnerInv'
    BY <1>20 DEF StopRuntime, Unregister, Idle
<1>21. ASSUME NEW c \in Callers, NEW r \in Runtimes, NEW t \in Tasks, PostLookup(c, r, t) PROVE OwnerInv'
    BY <1>21 DEF PostLookup, Idle
<1>22. ASSUME StopAllBegin PROVE OwnerInv'
    BY <1>22 DEF StopAllBegin
<1>23. ASSUME NEW r \in Runtimes, StopAllNext(r) PROVE OwnerInv'
    BY <1>23 DEF StopAllNext, Unregister
<1>24. CASE UNCHANGED vars
    BY <1>24
<1>25. QED
    BY <1>1, <1>2, <1>3, <1>4, <1>5, <1>6, <1>7, <1>8, <1>9, <1>10, <1>11, <1>12, <1>13, <1>14, <1>15, <1>16, <1>17, <1>18, <1>19, <1>20, <1>21, <1>22, <1>23, <1>24
    DEF Next, ThreadStep, CallStep, CallBegin

-----------------------------------------------------------------------------
(* Theorems *)

IInv == TypeInv /\ DrainInv /\ OwnerInv

\* The conjunction of the three layers is an invariant.
LEMMA Invariance == Spec => []IInv
<1>1. Init => IInv
    <2> SUFFICES ASSUME Init PROVE IInv
        OBVIOUS
    <2>1. TypeInv
        BY TypeInvInit
    <2>2. NothingLost
        <3>1. <<>> = (<<>> \o <<>>) \o <<>>
            OBVIOUS
        <3>2. QED
            BY <3>1 DEF Init, NothingLost
    <2>3. BootInv /\ ExitInv
        BY DEF Init, BootInv, ExitInv, Up
    <2>4. OwnerInv
        BY DEF Init, OwnerInv, Holds
    <2>5. QED
        BY <2>1, <2>2, <2>3, <2>4 DEF IInv, DrainInv
<1>2. IInv /\ [Next]_vars => IInv'
    BY TypeInvNext, NothingLostNext, BootInvNext, ExitInvNext, OwnerInvNext DEF IInv, DrainInv
<1>3. QED
    BY <1>1, <1>2, PTL DEF Spec

(* Every variable of the coordinator keeps its type: in particular no call *)
(* pushes an empty std::function and no thread runs one.                   *)
THEOREM TypeCorrect == Spec => []TypeOK
<1>1. IInv => TypeOK
    BY DEF IInv, TypeInv
<1>2. QED
    BY <1>1, Invariance, PTL

(* post_task never loses, duplicates or reorders a task it has accepted,   *)
(* with any number of runtimes, callers and tasks.                         *)
THEOREM NoTaskLost == Spec => []NothingLost
<1>1. IInv => NothingLost
    BY DEF IInv, DrainInv
<1>2. QED
    BY <1>1, Invariance, PTL

(* A runtime thread that has left its loop has run every task post_task    *)
(* accepted for it.                                                        *)
THEOREM Drained == Spec => []DrainedBeforeExit
<1>1. IInv => DrainedBeforeExit
    <2> SUFFICES ASSUME IInv, NEW r \in Runtimes, rpc[r] = "exited"
                 PROVE  executed[r] = accepted[r] /\ queue[r] = <<>> /\ stopping[r]
        BY DEF DrainedBeforeExit
    <2>1. queue[r] = <<>> /\ stopping[r]
        BY DEF IInv, DrainInv, ExitInv
    <2>2. current[r] = <<>> /\ executed[r] \in Seq(Tasks)
        BY DEF IInv, TypeInv, TypeOK, CurrentInv
    <2>3. accepted[r] = executed[r] \o <<>> \o <<>>
        BY <2>1, <2>2 DEF IInv, DrainInv, NothingLost
    <2>4. QED
        BY <2>1, <2>2, <2>3
<1>2. QED
    BY <1>1, Invariance, PTL

(* No caller uses a runtime_state that stop_runtime has destroyed, as long *)
(* as the process is not exiting.                                          *)
THEOREM PointersLive == Spec => []RawPointerLive
<1>1. IInv => RawPointerLive
    BY DEF IInv, OwnerInv, Holds, RawPointerLive, TypeInv, CallInv
<1>2. QED
    BY <1>1, Invariance, PTL
-----------------------------------------------------------------------------
(* The coordinator implements SerialExecutor *)

PhaseMap == [r \in Runtimes |-> Phase(r)]

\* A step that leaves stopping alone and moves no thread to or from "exited"
\* leaves the phases alone.
LEMMA SamePhase ==
    ASSUME TypeOK, TypeOK', stopping' = stopping,
           \A r \in Runtimes : rpc'[r] = "exited" <=> rpc[r] = "exited"
    PROVE  PhaseMap' = PhaseMap
BY DEF PhaseMap, Phase

\* Every step is a step of the task runner or leaves it unchanged.
LEMMA StepSimulation ==
    IInv /\ IInv' /\ [Next]_vars => [Executor!ExecNext]_(Executor!execVars)
<1> SUFFICES ASSUME IInv, IInv', [Next]_vars
             PROVE  Executor!ExecNext \/ UNCHANGED <<accepted, executed, PhaseMap>>
    BY DEF Executor!execVars, PhaseMap
<1>0. TypeOK /\ TypeOK' /\ NothingLost /\ CurrentInv /\ CallInv /\ BootInv /\ ExitInv
    BY DEF IInv, TypeInv, DrainInv
<1> HIDE DEF PhaseMap
<1>1. ASSUME NEW r \in Runtimes, RunTask(r) PROVE Executor!Execute(r)
    <2>1. PICK t \in Tasks : current[r] = <<t>>
        BY <1>0, <1>1 DEF RunTask, CurrentInv
    <2>2. Len(executed[r]) < Len(accepted[r]) /\ accepted[r][Len(executed[r]) + 1] = t
        <3>1. accepted[r] = executed[r] \o <<t>> \o queue[r]
            BY <1>0, <2>1 DEF NothingLost
        <3>2. executed[r] \in Seq(Tasks) /\ queue[r] \in Seq(Tasks)
            BY <1>0 DEF TypeOK
        <3>3. \A a, q \in Seq(Tasks) : LET w == a \o <<t>> \o q IN
                 Len(a) < Len(w) /\ w[Len(a) + 1] = t
            OBVIOUS
        <3>4. QED
            BY <3>1, <3>2, <3>3, Zenon
    <2>3. PhaseMap' = PhaseMap
        BY <1>0, <1>1, SamePhase DEF RunTask, TypeOK
    <2>4. PhaseMap[r] # "finished"
        BY <1>1 DEF RunTask, PhaseMap, Phase
    <2>5. executed' = [executed EXCEPT ![r] = Append(executed[r], t)] /\ accepted' = accepted
        BY <1>1, <2>1 DEF RunTask
    <2>6. QED
        BY <2>2, <2>3, <2>4, <2>5 DEF Executor!Execute, PhaseMap
<1>2. ASSUME NEW c \in Callers, PostPush(c) PROVE Executor!Accept(target[c], item[c])
    <2>1. target[c] \in Runtimes
        BY <1>0, <1>2 DEF PostPush, CallInv
    <2>2. PhaseMap[target[c]] = "open"
        BY <1>0, <1>2, <2>1 DEF PostPush, PhaseMap, Phase, ExitInv
    <2>3. PhaseMap' = PhaseMap
        BY <1>0, <1>2, SamePhase DEF PostPush
    <2>4. QED
        BY <1>2, <2>2, <2>3 DEF PostPush, Executor!Accept, PhaseMap
<1>3. ASSUME NEW r \in Runtimes, BootFail(r) \/ ExitLoop(r) PROVE Executor!Finish(r)
    <2>1. rpc[r] \in {"boot", "check"} /\ queue[r] = <<>>
        BY <1>0, <1>3 DEF BootFail, ExitLoop, BootInv, Up
    <2>2. executed[r] = accepted[r]
        <3>1. current[r] = <<>> /\ executed[r] \in Seq(Tasks)
            BY <1>0, <2>1 DEF CurrentInv, TypeOK
        <3>2. accepted[r] = executed[r] \o <<>> \o <<>>
            BY <1>0, <2>1, <3>1 DEF NothingLost
        <3>3. QED
            BY <3>1, <3>2
    <2>3. PhaseMap[r] # "finished"
        BY <2>1 DEF PhaseMap, Phase
    <2>4. PhaseMap' = [PhaseMap EXCEPT ![r] = "finished"]
        <3>1. rpc' = [rpc EXCEPT ![r] = "exited"] /\ \A x \in Runtimes \ {r} : stopping'[x] = stopping[x]
            BY <1>0, <1>3 DEF BootFail, ExitLoop, TypeOK
        <3>2. QED
            BY <1>0, <3>1 DEF PhaseMap, Phase, TypeOK
    <2>5. UNCHANGED <<accepted, executed>>
        BY <1>3 DEF BootFail, ExitLoop, observers
    <2>6. QED
        BY <2>2, <2>3, <2>4, <2>5 DEF Executor!Finish, PhaseMap
<1>4. ASSUME NEW c \in Callers, SetStopping(c)
      PROVE  Executor!Close(target[c]) \/ UNCHANGED <<accepted, executed, PhaseMap>>
    <2>1. target[c] \in Runtimes
        BY <1>0, <1>4 DEF SetStopping, CallInv
    <2>2. /\ stopping' = [stopping EXCEPT ![target[c]] = TRUE]
          /\ rpc' = rpc /\ accepted' = accepted /\ executed' = executed
        BY <1>4 DEF SetStopping, observers
    <2>3. CASE PhaseMap[target[c]] = "open"
        <3>1. PhaseMap' = [PhaseMap EXCEPT ![target[c]] = "closed"]
            BY <1>0, <2>1, <2>2, <2>3 DEF PhaseMap, Phase, TypeOK
        <3>2. QED
            BY <2>2, <2>3, <3>1 DEF Executor!Close, PhaseMap
    <2>4. CASE PhaseMap[target[c]] # "open"
        <3>1. PhaseMap' = PhaseMap
            BY <1>0, <2>1, <2>2, <2>4 DEF PhaseMap, Phase, TypeOK
        <3>2. QED
            BY <2>2, <3>1
    <2>5. QED
        BY <2>3, <2>4
<1>5. ASSUME \A r \in Runtimes : ~RunTask(r) /\ ~BootFail(r) /\ ~ExitLoop(r),
             \A c \in Callers : ~PostPush(c) /\ ~SetStopping(c)
      PROVE  UNCHANGED <<accepted, executed, PhaseMap>>
    <2>1. UNCHANGED <<accepted, executed, stopping>>
        BY <1>5
        DEF Next, ThreadStep, CallStep, CallBegin, BootOk, TakeTask, DecideToWait, Block,
            SpuriousWake, Spawn, SpawnNoThread, SpawnReturn, StopRuntime, SpawnFailed,
            NotifyAll, Join, StopAllBegin, StopAllNext, PostLookup, PostRefused, PostNotify,
            TouchFreed, vars, threadVars, callerVars, observers
    <2>2. \A r \in Runtimes : rpc'[r] = "exited" <=> rpc[r] = "exited"
        <3>1. \/ rpc' = rpc
              \/ \E r \in Runtimes : rpc' = Woken(r)
              \/ \E r \in Runtimes, to \in {"boot", "check", "running", "blocking", "waiting"} :
                    rpc[r] # "exited" /\ rpc' = [rpc EXCEPT ![r] = to]
            BY <1>0, <1>5
            DEF Next, ThreadStep, CallStep, CallBegin, BootOk, TakeTask, DecideToWait, Block,
                SpuriousWake, Spawn, SpawnNoThread, SpawnReturn, StopRuntime, SpawnFailed,
                NotifyAll, Join, StopAllBegin, StopAllNext, PostLookup, PostRefused, PostNotify,
                TouchFreed, vars, threadVars, CallInv
        <3>2. QED
            BY <1>0, <3>1 DEF Woken, TypeOK
    <2>3. QED
        BY <1>0, <2>1, <2>2, SamePhase
<1>6. QED
    <2>1. CASE \E c \in Callers : PostPush(c)
        BY <1>0, <1>2, <2>1 DEF PostPush, CallInv, Executor!ExecNext
    <2>2. CASE \E c \in Callers : SetStopping(c)
        BY <1>0, <1>4, <2>2 DEF SetStopping, CallInv, Executor!ExecNext
    <2>3. CASE \E r \in Runtimes : RunTask(r) \/ BootFail(r) \/ ExitLoop(r)
        BY <1>1, <1>3, <2>3 DEF Executor!ExecNext
    <2>4. QED
        BY <1>5, <2>1, <2>2, <2>3

(* The coordinator implements the task runner: whatever the interleaving   *)
(* of spawns, posts, stops and exit, each accepted task runs exactly once, *)
(* in order, and before its thread ends.                                   *)
THEOREM Refinement == Spec => ImplementsExecutor
<1>1. Init => Executor!ExecInit
    BY DEF Init, Executor!ExecInit, Phase
<1>2. QED
    BY <1>1, StepSimulation, Invariance, PTL DEF Spec, ImplementsExecutor, Executor!ExecSpec
=============================================================================
