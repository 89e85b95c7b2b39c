------------------------------ MODULE HttpPool ------------------------------
(***************************************************************************)
(* The request pool of http_client (src/net/http_client.cpp, libcurl       *)
(* branch).  One thread submits, aborts and polls; a request is active, or *)
(* waits in pending_fifo while its origin or the pool is full.  A          *)
(* completion callback only settles a promise (src/js/bind_fetch.cpp), so  *)
(* it does not call back into the pool.                                    *)
(*                                                                         *)
(* Requests are numbered in the order of submit.  A transfer ends when     *)
(* libcurl says so; every transfer has a timeout.                          *)
(***************************************************************************)
EXTENDS Naturals, Sequences, FiniteSets, SequencesExt

CONSTANTS
    Origins,      \* normalized origin keys
    MaxActive,    \* kMaxActiveTotal (64 in the code)
    MaxPerOrigin, \* kMaxActivePerOrigin (6 in the code)
    MaxPending,   \* kMaxPendingTotal (256 in the code)
    MaxRequests   \* requests submitted (bound)

ASSUME LimitsAssumption == {MaxActive, MaxPerOrigin, MaxPending} \subseteq Nat \ {0}
ASSUME RequestsAssumption == MaxRequests \in Nat

Ids == 1..MaxRequests

VARIABLES
    nextId,        \* next_id
    origin,        \* origin of each submitted request
    active,        \* keys of by_id
    activeByOrigin,\* active_by_origin
    activeTotal,   \* active_total
    fifo,          \* pending_fifo
    pending,       \* keys of pending_by_id
    pendingTotal,  \* pending_total
    pc,            \* "rest" or "admit"
    batch,         \* `batch` of admit_pending, what is left of it
    admitted,      \* admitted_any
    answered       \* how often the callback of each request was called (observer)

vars == <<nextId, origin, active, activeByOrigin, activeTotal, fifo, pending, pendingTotal,
          pc, batch, admitted, answered>>

Init ==
    /\ nextId = 1 /\ origin \in [Ids -> Origins]
    /\ active = {} /\ activeByOrigin = [o \in Origins |-> 0] /\ activeTotal = 0
    /\ fifo = <<>> /\ pending = {} /\ pendingTotal = 0
    /\ pc = "rest" /\ batch = 0 /\ admitted = FALSE
    /\ answered = [r \in Ids |-> 0]

-----------------------------------------------------------------------------

\* can_start
CanStart(o) == activeTotal < MaxActive /\ activeByOrigin[o] < MaxPerOrigin

Answer(r) == answered' = [answered EXCEPT ![r] = @ + 1]

\* start_request: libcurl may refuse the handle, which answers the request.
StartRequest(r) ==
    \/ /\ active' = active \cup {r}
       /\ activeByOrigin' = [activeByOrigin EXCEPT ![origin[r]] = @ + 1]
       /\ activeTotal' = activeTotal + 1
       /\ UNCHANGED answered
    \/ Answer(r) /\ UNCHANGED <<active, activeByOrigin, activeTotal>>

\* release_active
ReleaseActive(r) ==
    /\ activeByOrigin' = [activeByOrigin EXCEPT ![origin[r]] = @ - 1]
    /\ activeTotal' = activeTotal - 1

\* submit: started, refused because the queue is full, or queued.
Submit ==
    /\ pc = "rest" /\ nextId \in Ids
    /\ nextId' = nextId + 1
    /\ \/ CanStart(origin[nextId]) /\ StartRequest(nextId) /\ UNCHANGED <<fifo, pending, pendingTotal>>
       \/ /\ ~CanStart(origin[nextId]) /\ pendingTotal >= MaxPending
          /\ Answer(nextId)
          /\ UNCHANGED <<active, activeByOrigin, activeTotal, fifo, pending, pendingTotal>>
       \/ /\ ~CanStart(origin[nextId]) /\ pendingTotal < MaxPending
          /\ fifo' = Append(fifo, nextId) /\ pending' = pending \cup {nextId}
          /\ pendingTotal' = pendingTotal + 1
          /\ UNCHANGED <<active, activeByOrigin, activeTotal, answered>>
    /\ UNCHANGED <<origin, pc, batch, admitted>>

\* Mutant: the cancelled request stays in pending_by_id.
Mut_AbortPending(r) ==
    /\ pc = "rest" /\ r \in pending
    /\ pendingTotal' = pendingTotal - 1
    /\ Answer(r)
    /\ UNCHANGED <<nextId, origin, active, activeByOrigin, activeTotal, fifo, pending, pc, batch, admitted>>

\* abort of a request that waits: its entry in the queue stays behind, settled.
AbortPending(r) ==
    /\ pc = "rest" /\ r \in pending
    /\ pending' = pending \ {r} /\ pendingTotal' = pendingTotal - 1
    /\ Answer(r)
    /\ UNCHANGED <<nextId, origin, active, activeByOrigin, activeTotal, fifo, pc, batch, admitted>>

\* Mutant: the slot is not given to anybody.
Mut_Leave(r) ==
    /\ pc = "rest" /\ r \in active
    /\ active' = active \ {r}
    /\ ReleaseActive(r)
    /\ Answer(r)
    /\ UNCHANGED <<nextId, origin, fifo, pending, pendingTotal, pc, batch, admitted>>

\* The end of a transfer, by abort or by finish_active from poll: out of the
\* maps, released, answered, and then somebody else is admitted.
Leave(r) ==
    /\ pc = "rest" /\ r \in active
    /\ active' = active \ {r}
    /\ ReleaseActive(r)
    /\ Answer(r)
    /\ pc' = "admit" /\ batch' = Len(fifo) /\ admitted' = FALSE
    /\ UNCHANGED <<nextId, origin, fifo, pending, pendingTotal>>

AbortActive(r) == Leave(r)
Finish(r) == Leave(r)

\* Mutant: a request that cannot start yet is dropped.
Mut_Rotated(r) == Tail(fifo)

\* A waiting request of a full origin goes to the back of the queue.
Rotated(r) == IF r \in pending /\ ~CanStart(origin[r]) THEN Append(Tail(fifo), r) ELSE Tail(fifo)

\* One turn of the inner loop of admit_pending: the entry of a cancelled
\* request is dropped, a request of a full origin put back, another started.
AdmitNext ==
    /\ pc = "admit" /\ batch > 0 /\ activeTotal < MaxActive
    /\ batch' = batch - 1
    /\ LET r == Head(fifo) IN
        /\ fifo' = Rotated(r)
        /\ \/ /\ r \notin pending \/ ~CanStart(origin[r])
              /\ UNCHANGED <<active, activeByOrigin, activeTotal, pending, pendingTotal, admitted,
                             answered>>
           \/ /\ r \in pending /\ CanStart(origin[r])
              /\ pending' = pending \ {r} /\ pendingTotal' = pendingTotal - 1
              /\ StartRequest(r)
              /\ admitted' = TRUE
    /\ UNCHANGED <<nextId, origin, pc>>

\* The outer loop: again if somebody was admitted and there is room and work.
AdmitAgain ==
    /\ pc = "admit" /\ ~(batch > 0 /\ activeTotal < MaxActive)
    /\ LET again == admitted /\ activeTotal < MaxActive /\ fifo # <<>>
       IN /\ pc' = IF again THEN "admit" ELSE "rest"
          /\ batch' = IF again THEN Len(fifo) ELSE 0
    /\ admitted' = FALSE
    /\ UNCHANGED <<nextId, origin, active, activeByOrigin, activeTotal, fifo, pending, pendingTotal,
                   answered>>

Next ==
    \/ Submit
    \/ \E r \in Ids : AbortPending(r) \/ AbortActive(r) \/ Finish(r)
    \/ AdmitNext \/ AdmitAgain

Spec == Init /\ [][Next]_vars

\* The loops run to their end, and every transfer is over some day: libcurl
\* gives up after the request's timeout, and poll is a pump callback.
FairSpec == Spec /\ WF_vars(AdmitNext \/ AdmitAgain) /\ \A r \in Ids : WF_vars(Finish(r))

-----------------------------------------------------------------------------
(* Properties. *)

Submitted == 1..nextId - 1

\* Every variable has its type.
TypeOK ==
    /\ nextId \in 1..MaxRequests + 1 /\ origin \in [Ids -> Origins]
    /\ active \subseteq Ids /\ pending \subseteq Ids
    /\ activeByOrigin \in [Origins -> 0..MaxPerOrigin]
    /\ activeTotal \in 0..MaxActive /\ pendingTotal \in 0..MaxPending
    /\ fifo \in Seq(Ids) /\ pc \in {"rest", "admit"} /\ batch \in 0..MaxRequests
    /\ admitted \in BOOLEAN /\ answered \in [Ids -> Nat]

\* The counters that gate admission are those of the maps, whatever order of
\* failures, cancellations and completions led here.
CountsExact ==
    /\ activeTotal = Cardinality(active)
    /\ \A o \in Origins : activeByOrigin[o] = Cardinality({r \in active : origin[r] = o})
    /\ pendingTotal = Cardinality(pending)
    /\ pending \subseteq Range(fifo)

\* A request is waiting, active or answered, never two of them, and its
\* callback is called once: a late completion of a cancelled request, or the
\* entry it left in the queue, does not answer it again.
AnsweredOnce ==
    \A r \in Ids : answered[r] + (IF r \in active THEN 1 ELSE 0) + (IF r \in pending THEN 1 ELSE 0)
                     = IF r \in Submitted THEN 1 ELSE 0

\* At rest nobody waits who could run.
NoIdleSlot == pc = "rest" => \A r \in pending : ~CanStart(origin[r])

\* The queue holds an entry for every turn that is left of the inner loop.
FrontExists == pc = "admit" => batch <= Len(fifo)

\* The books of the pool agree, whatever order of failures, cancellations and
\* completions led here: counters, answers and the turns of the inner loop.
PoolConsistent == TypeOK /\ CountsExact /\ AnsweredOnce /\ FrontExists

\* A request that waits is answered: the rotation starves nobody.
EveryRequestAnswered == \A r \in Ids : r \in pending ~> answered[r] = 1

=============================================================================
