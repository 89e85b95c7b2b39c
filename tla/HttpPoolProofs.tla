--------------------------- MODULE HttpPoolProofs ---------------------------
(***************************************************************************)
(* For every set of origins, all limits and any number of requests: the    *)
(* books of the pool agree, every request is answered once, and no slot    *)
(* stays idle while a request could use it.                                *)
(*                                                                         *)
(* The last one needs to know what a pass of admit_pending has already     *)
(* seen.  The entries behind the first `batch` ones are those it has put   *)
(* back; none of them can start, because a pass only takes slots (ScanInv).*)
(* When the pass ends these are all entries, or the pool is full.          *)
(***************************************************************************)
EXTENDS HttpPool, FiniteSetTheorems, SequenceTheorems, TLAPS

\* Each request has entered the queue at most once.
QueueBound == Len(fifo) < nextId

\* What a pass has put back cannot start.
ScanInv ==
    pc = "admit" =>
        \A i \in batch + 1 .. Len(fifo) : fifo[i] \in pending => ~CanStart(origin[fifo[i]])

IInv == PoolConsistent /\ QueueBound /\ ScanInv /\ NoIdleSlot

-----------------------------------------------------------------------------
(* Facts about queues and counters. *)

\* An entry of the queue is at one of its places.
LEMMA InQueue ==
    ASSUME NEW S, NEW s \in Seq(S), NEW x
    PROVE  x \in Range(s) <=> \E i \in 1..Len(s) : s[i] = x
  BY DEF Range

\* Putting an entry at the back keeps the others and adds it.
LEMMA AppendRange ==
    ASSUME NEW S, NEW s \in Seq(S), NEW e \in S
    PROVE  Range(s) \cup {e} \subseteq Range(Append(s, e))
<1>1. /\ Append(s, e) \in Seq(S) /\ Len(Append(s, e)) = Len(s) + 1 /\ Len(s) \in Nat
      /\ \A i \in 1..Len(s) : Append(s, e)[i] = s[i]
      /\ Append(s, e)[Len(s) + 1] = e
  BY AppendProperties, LenProperties
<1>2. ASSUME NEW x \in Range(s) PROVE x \in Range(Append(s, e))
  <2>1. PICK i \in 1..Len(s) : s[i] = x
    BY InQueue
  <2>2. i \in 1..Len(Append(s, e)) /\ Append(s, e)[i] = x
    BY <1>1, <2>1
  <2> QED
    BY <1>1, <2>2, InQueue
<1>3. e \in Range(Append(s, e))
  <2>1. Len(s) + 1 \in 1..Len(Append(s, e))
    BY <1>1
  <2> QED
    BY <1>1, <2>1, InQueue
<1> QED
  BY <1>2, <1>3

\* Taking the front loses nothing but it.
LEMMA TailRange ==
    ASSUME NEW S, NEW s \in Seq(S), s # <<>>
    PROVE  Range(s) \subseteq Range(Tail(s)) \cup {Head(s)}
<1>1. /\ Tail(s) \in Seq(S) /\ Len(Tail(s)) = Len(s) - 1 /\ Len(s) \in Nat \ {0}
      /\ \A i \in 1..Len(Tail(s)) : Tail(s)[i] = s[i + 1]
  BY HeadTailProperties, EmptySeq
<1>2. ASSUME NEW x \in Range(s), x # Head(s) PROVE x \in Range(Tail(s))
  <2>1. PICK i \in 1..Len(s) : s[i] = x
    BY InQueue
  <2>2. i # 1
    BY <1>2, <2>1
  <2>3. i - 1 \in 1..Len(Tail(s)) /\ Tail(s)[i - 1] = x
    BY <1>1, <2>1, <2>2
  <2> QED
    BY <1>1, <2>3, InQueue
<1> QED
  BY <1>2

\* Sets of requests are finite, so they can be counted.
LEMMA Counting ==
    ASSUME NEW S \in SUBSET Ids, NEW r \in Ids
    PROVE  /\ Cardinality(S) \in Nat
           /\ r \notin S => Cardinality(S \cup {r}) = Cardinality(S) + 1
           /\ r \in S => Cardinality(S \ {r}) = Cardinality(S) - 1 /\ Cardinality(S) > 0
<1>1. IsFiniteSet(Ids)
  BY FS_Interval, RequestsAssumption DEF Ids
<1>2. IsFiniteSet(S)
  BY <1>1, FS_Subset
<1>3. Cardinality(S) \in Nat
  BY <1>2, FS_CardinalityType
<1>4. r \notin S => Cardinality(S \cup {r}) = Cardinality(S) + 1
  BY <1>2, FS_AddElement
<1>5. r \in S => Cardinality(S \ {r}) = Cardinality(S) - 1
  BY <1>2, FS_RemoveElement
<1>6. r \in S => Cardinality(S) # 0
  BY <1>2, FS_EmptySet
<1> QED
  BY <1>3, <1>4, <1>5, <1>6

\* The three counters.
ActiveCounts ==
    /\ activeTotal = Cardinality(active)
    /\ \A o \in Origins : activeByOrigin[o] = Cardinality({r \in active : origin[r] = o})

\* start_request keeps the counters exact and below their limits.
LEMMA StartCounts ==
    ASSUME TypeOK, ActiveCounts, NEW r \in Ids, r \notin active, CanStart(origin[r]),
           active' = active \cup {r},
           activeByOrigin' = [activeByOrigin EXCEPT ![origin[r]] = @ + 1],
           activeTotal' = activeTotal + 1, origin' = origin
    PROVE  /\ ActiveCounts'
           /\ activeTotal' \in 0..MaxActive /\ activeByOrigin' \in [Origins -> 0..MaxPerOrigin]
<1> USE LimitsAssumption DEF TypeOK, ActiveCounts, CanStart
<1>1. activeTotal' \in 0..MaxActive /\ activeByOrigin' \in [Origins -> 0..MaxPerOrigin]
  OBVIOUS
<1>2. activeTotal' = Cardinality(active')
  BY Counting
<1>3. ASSUME NEW o \in Origins
      PROVE  activeByOrigin'[o] = Cardinality({q \in active' : origin'[q] = o})
  <2>1. CASE o = origin[r]
    <3>1. {q \in active' : origin'[q] = o} = {q \in active : origin[q] = o} \cup {r}
      BY <2>1
    <3>2. r \notin {q \in active : origin[q] = o} /\ {q \in active : origin[q] = o} \in SUBSET Ids
      OBVIOUS
    <3>3. Cardinality({q \in active' : origin'[q] = o}) = Cardinality({q \in active : origin[q] = o}) + 1
      BY <3>1, <3>2, Counting, Zenon
    <3>4. activeByOrigin'[o] = activeByOrigin[o] + 1
      BY <2>1
    <3> QED
      BY <3>3, <3>4
  <2>2. CASE o # origin[r]
    <3>1. {q \in active' : origin'[q] = o} = {q \in active : origin[q] = o}
      BY <2>2
    <3> QED
      BY <2>2, <3>1
  <2> QED
    BY <2>1, <2>2
<1> QED
  BY <1>1, <1>2, <1>3

\* release_active gives back what start_request took.
LEMMA ReleaseCounts ==
    ASSUME TypeOK, ActiveCounts, NEW r \in active,
           active' = active \ {r}, ReleaseActive(r), origin' = origin
    PROVE  /\ ActiveCounts'
           /\ activeTotal' \in 0..MaxActive /\ activeByOrigin' \in [Origins -> 0..MaxPerOrigin]
<1> USE LimitsAssumption DEF TypeOK, ActiveCounts, ReleaseActive
<1>1. activeTotal' = Cardinality(active') /\ activeTotal > 0
  BY Counting
<1>2. ASSUME NEW o \in Origins
      PROVE  /\ activeByOrigin'[o] = Cardinality({q \in active' : origin'[q] = o})
             /\ activeByOrigin'[o] \in 0..MaxPerOrigin
  <2>1. CASE o = origin[r]
    <3>1. {q \in active' : origin'[q] = o} = {q \in active : origin[q] = o} \ {r}
      BY <2>1
    <3>2. r \in {q \in active : origin[q] = o} /\ {q \in active : origin[q] = o} \in SUBSET Ids
      BY <2>1
    <3>3. /\ Cardinality({q \in active' : origin'[q] = o}) = Cardinality({q \in active : origin[q] = o}) - 1
          /\ Cardinality({q \in active : origin[q] = o}) > 0
      BY <3>1, <3>2, Counting, Zenon
    <3>4. activeByOrigin'[o] = activeByOrigin[o] - 1 /\ activeByOrigin[o] \in 0..MaxPerOrigin
      BY <2>1
    <3>5. activeByOrigin[o] = Cardinality({q \in active : origin[q] = o})
      OBVIOUS
    <3> HIDE DEF TypeOK, ActiveCounts, ReleaseActive
    <3> QED
      BY <3>3, <3>4, <3>5
  <2>2. CASE o # origin[r]
    <3>1. {q \in active' : origin'[q] = o} = {q \in active : origin[q] = o}
      BY <2>2
    <3> QED
      BY <2>2, <3>1
  <2> QED
    BY <2>1, <2>2
<1>3. activeByOrigin' \in [Origins -> 0..MaxPerOrigin]
  BY <1>2
<1> QED
  BY <1>1, <1>2, <1>3

-----------------------------------------------------------------------------
(* The inductive invariant. *)

\* At the start the pool is empty.
LEMMA InitInv == Init => IInv
<1> SUFFICES ASSUME Init PROVE IInv
  OBVIOUS
<1> USE LimitsAssumption, RequestsAssumption
      DEF Init, Ids
<1>1. TypeOK
  <2>1. fifo \in Seq(1..MaxRequests)
    BY EmptySeq
  <2>2. admitted \in BOOLEAN
    BY Zenon
  <2> QED
    BY <2>1, <2>2 DEF TypeOK
<1>2. CountsExact
  <2>1. \A o \in Origins : {r \in active : origin[r] = o} = {}
    OBVIOUS
  <2> QED
    BY <2>1, FS_EmptySet DEF CountsExact
<1>3. AnsweredOnce
  BY DEF AnsweredOnce, Submitted
<1> QED
  BY <1>1, <1>2, <1>3 DEF IInv, PoolConsistent, FrontExists, QueueBound, ScanInv, NoIdleSlot

\* A request enters the pool.
LEMMA SubmitInv == ASSUME IInv, Submit PROVE IInv'
<1> USE LimitsAssumption, RequestsAssumption DEF IInv, PoolConsistent
<1>0. /\ TypeOK /\ CountsExact /\ AnsweredOnce /\ QueueBound /\ NoIdleSlot
      /\ pc = "rest" /\ pc' = "rest" /\ nextId \in Ids /\ nextId' = nextId + 1
      /\ origin' = origin /\ batch' = batch /\ admitted' = admitted
  BY DEF Submit
<1>1. nextId \notin active /\ nextId \notin pending /\ answered[nextId] = 0
  BY <1>0 DEF AnsweredOnce, Submitted, TypeOK, Ids
<1>2. nextId' \in 1..MaxRequests + 1 /\ Submitted' = Submitted \cup {nextId}
  BY <1>0 DEF Submitted, Ids
<1>3. FrontExists' /\ ScanInv'
  BY <1>0 DEF FrontExists, ScanInv
<1>4. CASE /\ CanStart(origin[nextId]) /\ StartRequest(nextId)
           /\ UNCHANGED <<fifo, pending, pendingTotal>>
  <2>1. CASE answered' = answered /\ active' = active \cup {nextId}
             /\ activeByOrigin' = [activeByOrigin EXCEPT ![origin[nextId]] = @ + 1]
             /\ activeTotal' = activeTotal + 1
    <3>1. /\ ActiveCounts' /\ activeTotal' \in 0..MaxActive
          /\ activeByOrigin' \in [Origins -> 0..MaxPerOrigin]
      BY <1>0, <1>1, <1>4, <2>1, StartCounts DEF CountsExact, ActiveCounts
    <3>2. TypeOK'
      BY <1>0, <1>2, <1>4, <2>1, <3>1 DEF TypeOK
    <3>3. CountsExact'
      BY <1>0, <1>4, <3>1 DEF CountsExact, ActiveCounts
    <3>4. AnsweredOnce'
      <4> SUFFICES ASSUME NEW q \in Ids
                         PROVE  answered'[q] + (IF q \in active' THEN 1 ELSE 0) + (IF q \in pending' THEN 1 ELSE 0)
                                  = IF q \in Submitted' THEN 1 ELSE 0
        BY DEF AnsweredOnce
      <4>1. answered[q] + (IF q \in active THEN 1 ELSE 0) + (IF q \in pending THEN 1 ELSE 0)
             = IF q \in Submitted THEN 1 ELSE 0
        BY <1>0 DEF AnsweredOnce
      <4>2. CASE q = nextId
        BY <1>0, <1>1, <1>2, <1>4, <2>1, <4>2 DEF TypeOK, Answer
      <4>3. CASE q # nextId
        BY <1>0, <1>1, <1>2, <1>4, <2>1, <4>1, <4>3 DEF TypeOK, Answer
      <4> QED
        BY <4>2, <4>3
    <3>5. NoIdleSlot'
      BY <1>0, <1>4, <2>1 DEF NoIdleSlot, CanStart, TypeOK
    <3> QED
      BY <1>0, <1>3, <1>4, <3>2, <3>3, <3>4, <3>5 DEF QueueBound, TypeOK
  <2>2. CASE Answer(nextId) /\ UNCHANGED <<active, activeByOrigin, activeTotal>>
    <3>1. TypeOK'
      BY <1>0, <1>2, <1>4, <2>2 DEF TypeOK, Answer
    <3>2. CountsExact' /\ NoIdleSlot'
      BY <1>0, <1>4, <2>2 DEF CountsExact, NoIdleSlot, CanStart
    <3>3. AnsweredOnce'
      <4> SUFFICES ASSUME NEW q \in Ids
                         PROVE  answered'[q] + (IF q \in active' THEN 1 ELSE 0) + (IF q \in pending' THEN 1 ELSE 0)
                                  = IF q \in Submitted' THEN 1 ELSE 0
        BY DEF AnsweredOnce
      <4>1. answered[q] + (IF q \in active THEN 1 ELSE 0) + (IF q \in pending THEN 1 ELSE 0)
             = IF q \in Submitted THEN 1 ELSE 0
        BY <1>0 DEF AnsweredOnce
      <4>2. CASE q = nextId
        BY <1>0, <1>1, <1>2, <1>4, <2>2, <4>2 DEF TypeOK, Answer
      <4>3. CASE q # nextId
        BY <1>0, <1>1, <1>2, <1>4, <2>2, <4>1, <4>3 DEF TypeOK, Answer
      <4> QED
        BY <4>2, <4>3
    <3> QED
      BY <1>0, <1>3, <1>4, <3>1, <3>2, <3>3 DEF QueueBound, TypeOK
  <2> QED
    BY <1>4, <2>1, <2>2 DEF StartRequest
<1>5. CASE /\ Answer(nextId)
           /\ UNCHANGED <<active, activeByOrigin, activeTotal, fifo, pending, pendingTotal>>
  <2>1. TypeOK'
    BY <1>0, <1>2, <1>5 DEF TypeOK, Answer
  <2>2. CountsExact' /\ NoIdleSlot'
    BY <1>0, <1>5 DEF CountsExact, NoIdleSlot, CanStart
  <2>3. AnsweredOnce'
    <3> SUFFICES ASSUME NEW q \in Ids
                       PROVE  answered'[q] + (IF q \in active' THEN 1 ELSE 0) + (IF q \in pending' THEN 1 ELSE 0)
                                = IF q \in Submitted' THEN 1 ELSE 0
      BY DEF AnsweredOnce
    <3>1. answered[q] + (IF q \in active THEN 1 ELSE 0) + (IF q \in pending THEN 1 ELSE 0)
           = IF q \in Submitted THEN 1 ELSE 0
      BY <1>0 DEF AnsweredOnce
    <3>2. CASE q = nextId
      BY <1>0, <1>1, <1>2, <1>5, <3>2 DEF TypeOK, Answer
    <3>3. CASE q # nextId
      BY <1>0, <1>1, <1>2, <1>5, <3>1, <3>3 DEF TypeOK, Answer
    <3> QED
      BY <3>2, <3>3
  <2> QED
    BY <1>0, <1>3, <1>5, <2>1, <2>2, <2>3 DEF QueueBound, TypeOK
<1>6. CASE /\ ~CanStart(origin[nextId]) /\ pendingTotal < MaxPending
           /\ fifo' = Append(fifo, nextId) /\ pending' = pending \cup {nextId}
           /\ pendingTotal' = pendingTotal + 1
           /\ UNCHANGED <<active, activeByOrigin, activeTotal, answered>>
  <2>1. fifo' \in Seq(Ids) /\ Len(fifo') = Len(fifo) + 1
    BY <1>0, <1>6, AppendProperties DEF TypeOK
  <2>2. TypeOK'
    BY <1>0, <1>2, <1>6, <2>1 DEF TypeOK
  <2>3. pendingTotal' = Cardinality(pending')
    BY <1>0, <1>1, <1>6, Counting DEF CountsExact, TypeOK
  <2>4. pending' \subseteq Range(fifo')
    BY <1>0, <1>6, AppendRange DEF CountsExact, TypeOK
  <2>5. CountsExact'
    BY <1>0, <1>6, <2>3, <2>4 DEF CountsExact
  <2>6. AnsweredOnce'
    <3> SUFFICES ASSUME NEW q \in Ids
                       PROVE  answered'[q] + (IF q \in active' THEN 1 ELSE 0) + (IF q \in pending' THEN 1 ELSE 0)
                                = IF q \in Submitted' THEN 1 ELSE 0
      BY DEF AnsweredOnce
    <3>1. answered[q] + (IF q \in active THEN 1 ELSE 0) + (IF q \in pending THEN 1 ELSE 0)
           = IF q \in Submitted THEN 1 ELSE 0
      BY <1>0 DEF AnsweredOnce
    <3>2. CASE q = nextId
      BY <1>0, <1>1, <1>2, <1>6, <3>2 DEF TypeOK, Answer
    <3>3. CASE q # nextId
      BY <1>0, <1>1, <1>2, <1>6, <3>1, <3>3 DEF TypeOK, Answer
    <3> QED
      BY <3>2, <3>3
  <2>7. NoIdleSlot'
    BY <1>0, <1>6 DEF NoIdleSlot, CanStart
  <2> QED
    BY <1>0, <1>3, <2>1, <2>2, <2>5, <2>6, <2>7 DEF QueueBound, TypeOK
<1> QED
  BY <1>4, <1>5, <1>6 DEF Submit

\* A waiting request is cancelled; its entry stays in the queue.
LEMMA AbortPendingInv == ASSUME IInv, NEW r \in Ids, AbortPending(r) PROVE IInv'
<1> USE LimitsAssumption, RequestsAssumption DEF IInv, PoolConsistent, AbortPending, Answer
<1>1. pendingTotal' = Cardinality(pending') /\ pendingTotal > 0
  BY Counting DEF CountsExact, TypeOK
<1>2. TypeOK'
  BY <1>1 DEF TypeOK
<1>3. CountsExact'
  BY <1>1 DEF CountsExact
<1>4. AnsweredOnce'
  BY DEF AnsweredOnce, TypeOK, Submitted
<1> QED
  BY <1>2, <1>3, <1>4 DEF FrontExists, QueueBound, ScanInv, NoIdleSlot, CanStart

\* A transfer ends and a pass over the whole queue begins.
LEMMA LeaveInv == ASSUME IInv, NEW r \in Ids, Leave(r) PROVE IInv'
<1> USE LimitsAssumption, RequestsAssumption DEF IInv, PoolConsistent, Leave, Answer
<1>1. /\ ActiveCounts' /\ activeTotal' \in 0..MaxActive
      /\ activeByOrigin' \in [Origins -> 0..MaxPerOrigin]
  BY ReleaseCounts DEF CountsExact, ActiveCounts
<1>2. Len(fifo) \in 0..MaxRequests
  BY LenProperties DEF QueueBound, TypeOK
<1>3. TypeOK'
  <2>1. admitted' \in BOOLEAN
    BY Zenon
  <2> QED
    BY <1>1, <1>2, <2>1 DEF TypeOK
<1>4. CountsExact'
  BY <1>1 DEF CountsExact, ActiveCounts
<1>5. AnsweredOnce'
  BY DEF AnsweredOnce, TypeOK, Submitted
<1>6. FrontExists' /\ ScanInv' /\ NoIdleSlot' /\ QueueBound'
  BY <1>2 DEF FrontExists, ScanInv, NoIdleSlot, QueueBound
<1> QED
  BY <1>3, <1>4, <1>5, <1>6

\* One turn of a pass: the front is dropped, put back, or started.
LEMMA AdmitNextInv == ASSUME IInv, AdmitNext PROVE IInv'
<1> USE LimitsAssumption, RequestsAssumption DEF IInv, PoolConsistent
<1> DEFINE r == Head(fifo)
<1>0. /\ TypeOK /\ CountsExact /\ AnsweredOnce /\ FrontExists /\ QueueBound /\ ScanInv
      /\ pc = "admit" /\ pc' = "admit" /\ nextId' = nextId /\ origin' = origin
      /\ batch > 0 /\ batch' = batch - 1
  BY DEF AdmitNext
<1>1. /\ fifo \in Seq(Ids) /\ fifo # <<>> /\ Len(fifo) \in Nat /\ batch \in 1..Len(fifo)
      /\ r \in Ids /\ r = fifo[1]
      /\ Tail(fifo) \in Seq(Ids) /\ Len(Tail(fifo)) = Len(fifo) - 1
      /\ \A i \in 1..Len(Tail(fifo)) : Tail(fifo)[i] = fifo[i + 1]
  <2>1. fifo \in Seq(Ids) /\ batch \in 0..MaxRequests /\ batch <= Len(fifo)
    BY <1>0 DEF TypeOK, FrontExists
  <2>2. Len(fifo) \in Nat /\ fifo # <<>>
    BY <1>0, <2>1, LenProperties, EmptySeq
  <2> QED
    BY <1>0, <2>1, <2>2, HeadTailProperties
<1>2. pending \ {r} \subseteq Range(Tail(fifo))
  BY <1>0, <1>1, TailRange DEF CountsExact
<1>3. NoIdleSlot' /\ batch' \in 0..MaxRequests
  BY <1>0, <1>1 DEF NoIdleSlot, TypeOK
<1> HIDE DEF r
<1>4. CASE r \notin pending \/ ~CanStart(origin[r])
  <2>0. UNCHANGED <<active, activeByOrigin, activeTotal, pending, pendingTotal, admitted, answered>>
    BY <1>4 DEF AdmitNext, r
  <2>1. AnsweredOnce'
    BY <1>0, <2>0 DEF AnsweredOnce, Submitted
  <2>2. CASE r \notin pending
    <3>1. fifo' = Tail(fifo)
      BY <2>2 DEF AdmitNext, Rotated, r
    <3>2. TypeOK'
      BY <1>0, <1>1, <1>3, <2>0, <3>1 DEF TypeOK
    <3>3. CountsExact'
      BY <1>0, <1>2, <2>0, <2>2, <3>1 DEF CountsExact
    <3>4. ScanInv'
      BY <1>0, <1>1, <2>0, <3>1 DEF ScanInv, CanStart
    <3>5. FrontExists' /\ QueueBound'
      BY <1>0, <1>1, <3>1 DEF FrontExists, QueueBound, TypeOK
    <3> QED
      BY <1>3, <2>1, <3>2, <3>3, <3>4, <3>5
  <2>3. CASE r \in pending
    <3>1. fifo' = Append(Tail(fifo), r)
      BY <1>4, <2>3 DEF AdmitNext, Rotated, r
    <3>2. /\ fifo' \in Seq(Ids) /\ Len(fifo') = Len(fifo)
          /\ \A i \in 1..Len(fifo) - 1 : fifo'[i] = fifo[i + 1]
          /\ fifo'[Len(fifo)] = r
      <4>1. /\ Append(Tail(fifo), r) \in Seq(Ids)
            /\ Len(Append(Tail(fifo), r)) = Len(Tail(fifo)) + 1
            /\ \A i \in 1..Len(Tail(fifo)) : Append(Tail(fifo), r)[i] = Tail(fifo)[i]
            /\ Append(Tail(fifo), r)[Len(Tail(fifo)) + 1] = r
        BY <1>1, AppendProperties
      <4> QED
        BY <1>1, <3>1, <4>1
    <3>3. TypeOK'
      BY <1>0, <1>3, <2>0, <3>2 DEF TypeOK
    <3>4. pending' \subseteq Range(fifo')
      BY <1>1, <1>2, <2>0, <3>1, AppendRange
    <3>5. CountsExact'
      BY <1>0, <2>0, <3>4 DEF CountsExact
    <3>6. ScanInv'
      <4> SUFFICES ASSUME NEW i \in batch .. Len(fifo), fifo'[i] \in pending
                   PROVE  ~CanStart(origin[fifo'[i]])
        BY <1>0, <1>1, <2>0, <3>2 DEF ScanInv, CanStart
      <4>1. CASE i = Len(fifo)
        BY <1>4, <2>3, <3>2, <4>1
      <4>2. CASE i # Len(fifo)
        <5>0. Len(fifo) \in Nat /\ batch \in 1..Len(fifo)
          BY <1>1
        <5>1. i + 1 \in batch + 1 .. Len(fifo) /\ i \in 1..Len(fifo) - 1
          BY ONLY <5>0, <4>2, i \in batch .. Len(fifo)
        <5>2. fifo'[i] = fifo[i + 1]
          BY <3>2, <5>1
        <5> QED
          BY <1>0, <5>1, <5>2 DEF ScanInv
      <4> QED
        BY <4>1, <4>2
    <3>7. FrontExists' /\ QueueBound'
      BY <1>0, <1>1, <3>2 DEF FrontExists, QueueBound, TypeOK
    <3> QED
      BY <1>3, <2>1, <3>3, <3>5, <3>6, <3>7
  <2> QED
    BY <2>2, <2>3
<1>5. CASE r \in pending /\ CanStart(origin[r])
  <2>0. /\ fifo' = Tail(fifo) /\ pending' = pending \ {r} /\ pendingTotal' = pendingTotal - 1
        /\ StartRequest(r) /\ admitted' = TRUE
    BY <1>5 DEF AdmitNext, Rotated, r
  <2>1. r \notin active /\ answered[r] = 0 /\ r \in Submitted
    BY <1>0, <1>1, <1>5 DEF AnsweredOnce, TypeOK
  <2>2. pendingTotal' = Cardinality(pending') /\ pendingTotal' \in 0..MaxPending
    <3>1. Cardinality(pending \ {r}) = Cardinality(pending) - 1 /\ Cardinality(pending) > 0
      BY <1>0, <1>1, <1>5, Counting DEF TypeOK
    <3> QED
      BY <1>0, <2>0, <3>1 DEF CountsExact, TypeOK
  <2>3. admitted' \in BOOLEAN
    BY <2>0, Zenon
  <2>4. FrontExists' /\ QueueBound'
    BY <1>0, <1>1, <2>0 DEF FrontExists, QueueBound, TypeOK
  <2>5. Submitted' = Submitted
    BY <1>0 DEF Submitted
  <2>6. CASE answered' = answered /\ active' = active \cup {r}
             /\ activeByOrigin' = [activeByOrigin EXCEPT ![origin[r]] = @ + 1]
             /\ activeTotal' = activeTotal + 1
    <3>1. /\ ActiveCounts' /\ activeTotal' \in 0..MaxActive
          /\ activeByOrigin' \in [Origins -> 0..MaxPerOrigin]
      BY <1>0, <1>1, <1>5, <2>1, <2>6, StartCounts DEF CountsExact, ActiveCounts
    <3>2. TypeOK'
      BY <1>0, <1>1, <1>3, <2>0, <2>2, <2>3, <2>6, <3>1 DEF TypeOK
    <3>3. CountsExact'
      BY <1>2, <2>0, <2>2, <3>1 DEF CountsExact, ActiveCounts
    <3>4. AnsweredOnce'
      <4> SUFFICES ASSUME NEW q \in Ids
                   PROVE  answered'[q] + (IF q \in active' THEN 1 ELSE 0) + (IF q \in pending' THEN 1 ELSE 0)
                            = IF q \in Submitted THEN 1 ELSE 0
        BY <2>5 DEF AnsweredOnce
      <4>1. CASE q = r
        BY <1>0, <1>1, <2>0, <2>1, <2>6, <4>1 DEF TypeOK, Answer
      <4>2. CASE q # r
        BY <1>0, <2>0, <2>6, <4>2 DEF AnsweredOnce, TypeOK, Answer
      <4> QED
        BY <4>1, <4>2
    <3>5. ScanInv'
      <4> SUFFICES ASSUME NEW i \in batch .. Len(fifo) - 1, Tail(fifo)[i] \in pending
                   PROVE  ~(/\ activeTotal' < MaxActive
                            /\ activeByOrigin'[origin[Tail(fifo)[i]]] < MaxPerOrigin)
        BY <1>0, <1>1, <2>0 DEF ScanInv, CanStart
      <4>1. i + 1 \in batch + 1 .. Len(fifo) /\ Tail(fifo)[i] = fifo[i + 1] /\ fifo[i + 1] \in Ids
        BY <1>1
      <4>2. ~CanStart(origin[fifo[i + 1]])
        BY <1>0, <4>1 DEF ScanInv
      <4> QED
        BY <1>0, <2>6, <4>1, <4>2 DEF CanStart, TypeOK
    <3> QED
      BY <1>3, <2>4, <3>2, <3>3, <3>4, <3>5
  <2>7. CASE Answer(r) /\ UNCHANGED <<active, activeByOrigin, activeTotal>>
    <3>2. TypeOK'
      BY <1>0, <1>1, <1>3, <2>0, <2>2, <2>3, <2>7 DEF TypeOK, Answer
    <3>3. CountsExact'
      BY <1>0, <1>2, <2>0, <2>2, <2>7 DEF CountsExact
    <3>4. AnsweredOnce'
      <4> SUFFICES ASSUME NEW q \in Ids
                   PROVE  answered'[q] + (IF q \in active' THEN 1 ELSE 0) + (IF q \in pending' THEN 1 ELSE 0)
                            = IF q \in Submitted THEN 1 ELSE 0
        BY <2>5 DEF AnsweredOnce
      <4>1. CASE q = r
        BY <1>0, <1>1, <2>0, <2>1, <2>7, <4>1 DEF TypeOK, Answer
      <4>2. CASE q # r
        BY <1>0, <2>0, <2>7, <4>2 DEF AnsweredOnce, TypeOK, Answer
      <4> QED
        BY <4>1, <4>2
    <3>5. ScanInv'
      BY <1>0, <1>1, <2>0, <2>7 DEF ScanInv, CanStart, TypeOK
    <3> QED
      BY <1>3, <2>4, <3>2, <3>3, <3>4, <3>5
  <2> QED
    BY <2>0, <2>6, <2>7 DEF StartRequest
<1> QED
  BY <1>4, <1>5

\* The end of a pass: the pool is full, or every entry was looked at.
LEMMA AdmitAgainInv == ASSUME IInv, AdmitAgain PROVE IInv'
<1> USE LimitsAssumption, RequestsAssumption DEF IInv, PoolConsistent, AdmitAgain
<1>1. Len(fifo) \in 0..MaxRequests
  BY LenProperties DEF QueueBound, TypeOK
<1>2. TypeOK'
  <2>1. admitted' \in BOOLEAN
    BY Zenon
  <2>2. batch' \in 0..MaxRequests /\ pc' \in {"rest", "admit"}
    BY <1>1
  <2> QED
    BY <2>1, <2>2 DEF TypeOK
<1>3. CountsExact' /\ AnsweredOnce'
  BY DEF CountsExact, AnsweredOnce, Submitted
<1>4. FrontExists' /\ QueueBound' /\ ScanInv'
  BY <1>1 DEF FrontExists, QueueBound, ScanInv
<1>5. NoIdleSlot'
  <2> SUFFICES ASSUME NEW q \in pending PROVE ~CanStart(origin[q])
    BY DEF NoIdleSlot, CanStart
  <2>1. CASE activeTotal >= MaxActive
    BY <2>1 DEF CanStart, TypeOK
  <2>2. CASE batch = 0
    <3>1. PICK i \in 1..Len(fifo) : fifo[i] = q
      BY InQueue DEF CountsExact, TypeOK
    <3> QED
      BY <2>2, <3>1 DEF ScanInv
  <2> QED
    BY <2>1, <2>2 DEF TypeOK
<1> QED
  BY <1>2, <1>3, <1>4, <1>5

\* Every step preserves the invariant.
LEMMA NextInv == IInv /\ [Next]_vars => IInv'
<1> SUFFICES ASSUME IInv, [Next]_vars PROVE IInv'
  OBVIOUS
<1>1. CASE Next
  BY <1>1, SubmitInv, AbortPendingInv, LeaveInv, AdmitNextInv, AdmitAgainInv
     DEF Next, AbortActive, Finish
<1>2. CASE UNCHANGED vars
  BY <1>2 DEF vars, IInv, PoolConsistent, TypeOK, CountsExact, AnsweredOnce, Submitted,
              FrontExists, QueueBound, ScanInv, NoIdleSlot, CanStart
<1> QED
  BY <1>1, <1>2

\* The inductive invariant holds throughout.
LEMMA Inductive == Spec => []IInv
  BY InitInv, NextInv, PTL DEF Spec

\* However requests fail, are cancelled or complete, the counters that gate
\* admission are exact, no limit is exceeded, no callback is called twice and
\* admit_pending never reads past the end of the queue.
THEOREM PoolIsConsistent == Spec => []PoolConsistent
<1>1. IInv => PoolConsistent
  BY DEF IInv
<1> QED
  BY <1>1, Inductive, PTL

\* Between two calls no request waits that has a slot free in its origin and in
\* the pool: admit_pending after every end of a transfer is enough.
THEOREM SlotsAreUsed == Spec => []NoIdleSlot
<1>1. IInv => NoIdleSlot
  BY DEF IInv
<1> QED
  BY <1>1, Inductive, PTL
=============================================================================
