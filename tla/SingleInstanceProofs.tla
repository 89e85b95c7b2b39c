------------------------ MODULE SingleInstanceProofs ------------------------
(***************************************************************************)
(* For every set of processes, any of which may die at any step: at most   *)
(* one primary, whose lock file stays in place, and which alone owns the   *)
(* socket; and its script sees the events of a kind in the order of their  *)
(* posts, each once.                                                       *)
(*                                                                         *)
(* The argument: everything between taking the guard and giving it back is *)
(* exclusive (GuardInv), so what a process has read of the lock file still *)
(* holds when it acts on it (StepInv); a primary's own pid is in the file  *)
(* at the path, so the clean-up, which wants a dead pid, is never of its   *)
(* file (LockNamesPrimary).  The listener runs only in a primary.          *)
(*                                                                         *)
(* For the events: a client connects once and is read once, so a post is   *)
(* always of a new event (SendersInv, PostsInv); the listeners, the buffer *)
(* and the queue then stay one line in the order of the posts (InLine).    *)
(***************************************************************************)
EXTENDS SingleInstance, TLAPS

Inside == {"read", "unlink", "open", "flock", "truncate", "write_pid", "release"}

\* The variables the argument is about have their types.
LockTypes ==
    /\ pc \in [Procs -> MainLabels] /\ lst \in [Procs -> ListenerLabels]
    /\ guard \in Maybe /\ path \in Maybe /\ sock \in Maybe
    /\ pidIn \in [Procs -> Maybe] /\ holder \in [Procs -> Maybe] /\ fd \in [Procs -> Maybe]

\* A process between flock and close of the guard holds it.
GuardInv == \A p \in Procs : pc[p] \in Inside => guard = p

\* What a process inside the guard knows of the lock file.
StepInv ==
    \A p \in Procs :
      /\ pc[p] = "unlink" => path \in Procs /\ pidIn[path] \in Procs /\ pc[pidIn[path]] = "dead"
      /\ pc[p] \in {"flock", "truncate", "write_pid", "release"} => path \in Procs /\ fd[p] = path
      /\ pc[p] \in {"truncate", "write_pid", "release"} => holder[path] = p
      /\ pc[p] = "release" => pidIn[path] = p
      /\ Primary(p) => path \in Procs

\* The listener thread runs only in a primary, and binds at a free path.
ListenerInv ==
    \A p \in Procs :
      /\ lst[p] # "off" => Primary(p)
      /\ lst[p] = "bind" => sock = None

IInv == LockTypes /\ GuardInv /\ StepInv /\ LockNamesPrimary /\ ListenerInv /\ EndpointOwned

\* At the start nobody holds anything.
LEMMA InitInv == Init => IInv
<1> SUFFICES ASSUME Init PROVE IInv
  OBVIOUS
<1>1. /\ pc = [p \in Procs |-> "start"] /\ lst = [p \in Procs |-> "off"]
      /\ guard = None /\ path = None /\ sock = None
      /\ pidIn = [f \in Procs |-> None] /\ holder = [f \in Procs |-> None]
      /\ fd = [p \in Procs |-> None]
  BY DEF Init
<1>2. LockTypes
  BY <1>1 DEF LockTypes, Maybe, MainLabels, ListenerLabels
<1>3. \A p \in Procs : pc[p] = "start" /\ lst[p] = "off"
  BY <1>1
<1> QED
  BY <1>2, <1>3 DEF IInv, GuardInv, StepInv, LockNamesPrimary, ListenerInv, EndpointOwned, Primary, Inside

\* At most one primary: the file both have locked is the one at the path.
LEMMA OnlyOne == IInv => OnePrimary
  BY DEF IInv, OnePrimary, LockNamesPrimary

\* The steps of request_single_instance_lock.
LEMMA LockStepInv == ASSUME NEW p \in Procs, IInv, LockStep(p) PROVE IInv'
<1> USE NoneAssumption DEF IInv, LockTypes, GuardInv, StepInv, LockNamesPrimary, ListenerInv,
          EndpointOwned, Primary, Inside, Maybe, Goto, Listen, MainLabels, ListenerLabels,
          lockVars, sockVars
<1>1. CASE TakeGuard(p)
  BY <1>1 DEF TakeGuard
<1>2. CASE ReadPid(p)
  BY <1>2 DEF ReadPid, PidIsGone
<1>3. CASE UnlinkLock(p)
  BY <1>3 DEF UnlinkLock
<1>4. CASE OpenLock(p)
  BY <1>4 DEF OpenLock
<1>5. CASE FlockLock(p)
  BY <1>5 DEF FlockLock, GiveUp
<1>6. CASE TruncateLock(p)
  BY <1>6 DEF TruncateLock
<1>7. CASE WritePid(p)
  BY <1>7 DEF WritePid, GiveUp
<1>8. CASE ReleaseGuard(p)
  BY <1>8 DEF ReleaseGuard
<1> QED
  BY <1>1, <1>2, <1>3, <1>4, <1>5, <1>6, <1>7, <1>8 DEF LockStep

\* The other steps of a main thread: none touches the lock.
LEMMA MainStepInv == ASSUME NEW p \in Procs, IInv, MainStep(p) PROVE IInv'
<1> USE NoneAssumption DEF IInv, LockTypes, GuardInv, StepInv, LockNamesPrimary, ListenerInv,
          EndpointOwned, Primary, Inside, Maybe, Goto, Listen, MainLabels, ListenerLabels,
          lockVars, sockVars
<1>1. CASE StartListener(p)
  BY <1>1 DEF StartListener
<1>2. CASE PostOwn(p)
  BY <1>2 DEF PostOwn
<1>3. CASE Connect(p)
  BY <1>3 DEF Connect
<1>4. CASE WritePayload(p)
  BY <1>4 DEF WritePayload
<1>5. CASE Pump(p)
  BY <1>5 DEF Pump
<1> QED
  BY <1>1, <1>2, <1>3, <1>4, <1>5 DEF MainStep

\* The listener thread: only one process has one, so it meets no other at the socket.
LEMMA ListenerStepInv == ASSUME NEW p \in Procs, IInv, ListenerStep(p) PROVE IInv'
<1> USE NoneAssumption DEF IInv, LockTypes, GuardInv, StepInv, LockNamesPrimary, ListenerInv,
          EndpointOwned, Primary, Inside, Maybe, Goto, Listen, MainLabels, ListenerLabels,
          lockVars, sockVars
<1>1. CASE UnlinkSock(p)
  BY <1>1 DEF UnlinkSock
<1>2. CASE Bind(p)
  BY <1>2 DEF Bind
<1>3. CASE ListenSock(p)
  BY <1>3 DEF ListenSock
<1>4. CASE Accept(p)
  BY <1>4 DEF Accept
<1>5. CASE ReadClient(p)
  BY <1>5 DEF ReadClient
<1>6. CASE PostEvents(p)
  BY <1>6 DEF PostEvents
<1> QED
  BY <1>1, <1>2, <1>3, <1>4, <1>5, <1>6 DEF ListenerStep

\* A death gives back what the process held; the script touches none of it.
LEMMA OtherInv == ASSUME NEW p \in Procs, IInv, ScriptStep(p) \/ Die(p) PROVE IInv'
<1> USE NoneAssumption DEF IInv, LockTypes, GuardInv, StepInv, LockNamesPrimary, ListenerInv,
          EndpointOwned, Primary, Inside, Maybe, Goto, Listen, MainLabels, ListenerLabels,
          lockVars, sockVars
<1>1. CASE Die(p)
  BY <1>1 DEF Die
<1>2. ASSUME NEW k \in Kinds, On(p, k) PROVE IInv'
  BY <1>2 DEF On
<1>3. ASSUME NEW k \in Kinds, Off(p, k) PROVE IInv'
  BY <1>3 DEF Off
<1> QED
  BY <1>1, <1>2, <1>3 DEF ScriptStep

\* Every step of every process preserves the invariant.
LEMMA NextInv == IInv /\ [Next]_vars => IInv'
<1> SUFFICES ASSUME IInv, [Next]_vars PROVE IInv'
  OBVIOUS
<1>1. CASE Next
  BY <1>1, LockStepInv, MainStepInv, ListenerStepInv, OtherInv DEF Next
<1>2. CASE UNCHANGED vars
  BY <1>2 DEF vars, lockVars, sockVars, IInv, LockTypes, GuardInv, StepInv, LockNamesPrimary,
              ListenerInv, EndpointOwned, Primary
<1> QED
  BY <1>1, <1>2

\* The inductive invariant holds throughout.
LEMMA Inductive == Spec => []IInv
  BY InitInv, NextInv, PTL DEF Spec

\* However many launches race and wherever they die, two processes never hold
\* the single instance at the same time.
THEOREM SingleInstanceSafe == Spec => []OnePrimary
  BY Inductive, OnlyOne, PTL

\* The lock file of a running primary is never cleaned up or replaced.
THEOREM LockFileStays == Spec => []LockNamesPrimary
<1>1. IInv => LockNamesPrimary
  BY DEF IInv
<1> QED
  BY <1>1, Inductive, PTL

\* The socket at the path is the running primary's, whatever earlier primaries
\* left there: hand-offs go to it and to nobody else.
THEOREM EndpointIsPrimarys == Spec => []EndpointOwned
<1>1. IInv => EndpointOwned
  BY DEF IInv
<1> QED
  BY <1>1, Inductive, PTL

-----------------------------------------------------------------------------
(* The events: what is on its way to the script, as sequences.             *)

\* The events of kind k in s are in the order of the posts arr.
OrderedIn(s, arr, k) ==
    \A i, j \in DOMAIN s : i < j /\ s[i].kind = k /\ s[j].kind = k => Before(arr, s[i], s[j])

\* Those in s were posted before those in t.
CrossIn(s, t, arr, k) ==
    \A i \in DOMAIN s : \A j \in DOMAIN t :
      s[i].kind = k /\ t[j].kind = k => Before(arr, s[i], t[j])

\* The events of kind k go through the queue q and the buffer w to the
\* listeners h in the order of the posts arr; drop is what on threw away.
InLine(h, w, q, arr, drop, k) ==
    /\ OrderedIn(h, arr, k) /\ OrderedIn(w, arr, k) /\ OrderedIn(q, arr, k)
    /\ CrossIn(h, w, arr, k) /\ CrossIn(h, q, arr, k) /\ CrossIn(w, q, arr, k)
    /\ \A i \in DOMAIN w : w[i].kind = k
    /\ drop \subseteq ToSet(arr)
    /\ \A e \in Event : e.kind = k =>
         (e \in ToSet(h) \cup ToSet(w) \cup ToSet(q) <=> e \in ToSet(arr) /\ e \notin drop)

\* What Append adds to a sequence.
LEMMA AppendFacts ==
  ASSUME NEW S, NEW s \in Seq(S), NEW e \in S
  PROVE  /\ Append(s, e) \in Seq(S) /\ DOMAIN Append(s, e) = 1..(Len(s) + 1)
         /\ \A i \in 1..Len(s) : Append(s, e)[i] = s[i]
         /\ Append(s, e)[Len(s) + 1] = e
         /\ DOMAIN s = 1..Len(s) /\ Len(s) \in Nat
         /\ ToSet(Append(s, e)) = ToSet(s) \cup {e}
<1>1. /\ Append(s, e) \in Seq(S) /\ DOMAIN Append(s, e) = 1..(Len(s) + 1)
      /\ \A i \in 1..Len(s) : Append(s, e)[i] = s[i]
      /\ Append(s, e)[Len(s) + 1] = e
      /\ DOMAIN s = 1..Len(s) /\ Len(s) \in Nat
  OBVIOUS
<1>2. ToSet(Append(s, e)) \subseteq ToSet(s) \cup {e}
  BY <1>1 DEF ToSet
<1>3. ToSet(s) \cup {e} \subseteq ToSet(Append(s, e))
  BY <1>1 DEF ToSet
<1> QED
  BY <1>1, <1>2, <1>3

\* A position of the longer sequence: one of the shorter, or the last.
LEMMA LastOrBefore ==
  ASSUME NEW s \in Seq(Event), NEW i \in 1..(Len(s) + 1)
  PROVE  i \in 1..Len(s) \/ i = Len(s) + 1
<1>1. Len(s) \in Nat
  OBVIOUS
<1> QED
  BY <1>1

\* What Head takes from a sequence.
LEMMA TailFacts ==
  ASSUME NEW S, NEW s \in Seq(S), s # <<>>
  PROVE  /\ Head(s) = s[1] /\ Head(s) \in S /\ 1 \in DOMAIN s
         /\ Tail(s) \in Seq(S) /\ DOMAIN Tail(s) = 1..(Len(s) - 1)
         /\ \A i \in 1..(Len(s) - 1) : Tail(s)[i] = s[i + 1] /\ i + 1 \in DOMAIN s /\ i + 1 > 1
         /\ DOMAIN s = 1..Len(s) /\ Len(s) \in Nat
         /\ ToSet(s) = {Head(s)} \cup ToSet(Tail(s))
<1>1. /\ Head(s) = s[1] /\ Head(s) \in S /\ 1 \in DOMAIN s
      /\ Tail(s) \in Seq(S) /\ DOMAIN Tail(s) = 1..(Len(s) - 1)
      /\ \A i \in 1..(Len(s) - 1) : Tail(s)[i] = s[i + 1] /\ i + 1 \in DOMAIN s /\ i + 1 > 1
      /\ DOMAIN s = 1..Len(s) /\ Len(s) \in Nat
  OBVIOUS
<1>2. ToSet(s) \subseteq {Head(s)} \cup ToSet(Tail(s))
  <2> SUFFICES ASSUME NEW i \in 1..Len(s), i # 1 PROVE s[i] \in ToSet(Tail(s))
    BY <1>1 DEF ToSet
  <2>1. i - 1 \in 1..(Len(s) - 1) /\ Tail(s)[i - 1] = s[i]
    BY <1>1
  <2> QED
    BY <2>1, <1>1 DEF ToSet
<1>3. {Head(s)} \cup ToSet(Tail(s)) \subseteq ToSet(s)
  BY <1>1 DEF ToSet
<1> QED
  BY <1>1, <1>2, <1>3

\* A post keeps the order of the earlier ones and comes after all of them.
LEMMA BeforeAppend ==
  ASSUME NEW arr \in Seq(Event), NEW e \in Event
  PROVE  /\ \A x, y : Before(arr, x, y) => Before(Append(arr, e), x, y)
         /\ \A x \in ToSet(arr) : Before(Append(arr, e), x, e)
<1>1. /\ DOMAIN Append(arr, e) = 1..(Len(arr) + 1)
      /\ \A i \in 1..Len(arr) : Append(arr, e)[i] = arr[i]
      /\ Append(arr, e)[Len(arr) + 1] = e
      /\ DOMAIN arr = 1..Len(arr) /\ Len(arr) \in Nat
  BY AppendFacts
<1> QED
  BY <1>1 DEF Before, ToSet

\* Two events are not each before the other.
LEMMA BeforeIrreflexive ==
  ASSUME NEW arr \in Seq(Event), IsInjective(arr), NEW x PROVE ~Before(arr, x, x)
<1>1. DOMAIN arr = 1..Len(arr) /\ Len(arr) \in Nat
  OBVIOUS
<1> QED
  BY <1>1 DEF Before, IsInjective

\* What is behind the head of a queue is in order.
LEMMA OrderedTail ==
  ASSUME NEW q \in Seq(Event), q # <<>>, NEW arr, NEW k, OrderedIn(q, arr, k)
  PROVE  OrderedIn(Tail(q), arr, k)
<1> SUFFICES ASSUME NEW i \in DOMAIN Tail(q), NEW j \in DOMAIN Tail(q), i < j,
                    Tail(q)[i].kind = k, Tail(q)[j].kind = k
             PROVE Before(arr, Tail(q)[i], Tail(q)[j])
  BY DEF OrderedIn
<1>1. /\ DOMAIN Tail(q) = 1..(Len(q) - 1) /\ Len(q) \in Nat
      /\ \A n \in 1..(Len(q) - 1) : Tail(q)[n] = q[n + 1] /\ n + 1 \in DOMAIN q
  BY TailFacts
<1>2. /\ i + 1 \in DOMAIN q /\ j + 1 \in DOMAIN q /\ i + 1 < j + 1
      /\ Tail(q)[i] = q[i + 1] /\ Tail(q)[j] = q[j + 1]
  BY <1>1
<1> QED
  BY <1>2 DEF OrderedIn

\* post_main_thread_dispatch of an event that was not posted before.
LEMMA LinePost ==
  ASSUME NEW h \in Seq(Event), NEW w \in Seq(Event), NEW q \in Seq(Event), NEW arr \in Seq(Event),
         NEW drop \in SUBSET Event, NEW k, InLine(h, w, q, arr, drop, k),
         NEW e \in Event, e \notin ToSet(arr)
  PROVE  InLine(h, w, Append(q, e), Append(arr, e), drop, k)
<1> DEFINE ar == Append(arr, e)
           qe == Append(q, e)
<1>1. /\ \A x, y : Before(arr, x, y) => Before(ar, x, y)
      /\ \A x \in ToSet(arr) : Before(ar, x, e)
  BY BeforeAppend
<1>2. /\ DOMAIN qe = 1..(Len(q) + 1) /\ \A i \in 1..Len(q) : qe[i] = q[i]
      /\ qe[Len(q) + 1] = e /\ DOMAIN q = 1..Len(q) /\ Len(q) \in Nat
      /\ ToSet(qe) = ToSet(q) \cup {e} /\ ToSet(ar) = ToSet(arr) \cup {e}
  BY AppendFacts
<1>3. \A s \in {h, w, q} : \A i \in DOMAIN s : s[i].kind = k => s[i] \in ToSet(arr) /\ Before(ar, s[i], e)
  <2> SUFFICES ASSUME NEW s \in {h, w, q}, NEW i \in DOMAIN s, s[i].kind = k
               PROVE s[i] \in ToSet(arr)
    BY <1>1
  <2>1. s[i] \in Event /\ s[i] \in ToSet(h) \cup ToSet(w) \cup ToSet(q)
    BY DEF ToSet
  <2> QED
    BY <2>1 DEF InLine
<1>4. OrderedIn(h, ar, k) /\ OrderedIn(w, ar, k) /\ CrossIn(h, w, ar, k)
  BY <1>1 DEF InLine, OrderedIn, CrossIn
<1> HIDE DEF ar, qe
<1>5. OrderedIn(qe, ar, k)
  <2> SUFFICES ASSUME NEW i \in 1..(Len(q) + 1), NEW j \in 1..(Len(q) + 1), i < j,
                      qe[i].kind = k, qe[j].kind = k
               PROVE Before(ar, qe[i], qe[j])
    BY <1>2 DEF OrderedIn
  <2>1. i \in 1..Len(q) /\ qe[i] = q[i] /\ i \in DOMAIN q
    BY <1>2
  <2>2. CASE j \in 1..Len(q)
    BY <2>1, <2>2, <1>1, <1>2 DEF InLine, OrderedIn
  <2>3. CASE j = Len(q) + 1
    BY <2>1, <2>3, <1>2, <1>3
  <2>4. j \in 1..Len(q) \/ j = Len(q) + 1
    BY LastOrBefore
  <2> QED
    BY <2>2, <2>3, <2>4
<1>6. ASSUME NEW s \in {h, w}, CrossIn(s, q, arr, k) PROVE CrossIn(s, qe, ar, k)
  <2> SUFFICES ASSUME NEW i \in DOMAIN s, NEW j \in 1..(Len(q) + 1),
                      s[i].kind = k, qe[j].kind = k
               PROVE Before(ar, s[i], qe[j])
    BY <1>2 DEF CrossIn
  <2>2. CASE j \in 1..Len(q)
    BY <1>6, <2>2, <1>1, <1>2 DEF CrossIn
  <2>3. CASE j = Len(q) + 1
    BY <2>3, <1>2, <1>3
  <2>4. j \in 1..Len(q) \/ j = Len(q) + 1
    BY LastOrBefore
  <2> QED
    BY <2>2, <2>3, <2>4
<1>7. \A x \in Event : x.kind = k =>
         (x \in ToSet(h) \cup ToSet(w) \cup ToSet(qe) <=> x \in ToSet(ar) /\ x \notin drop)
  BY <1>2 DEF InLine
<1>8. CrossIn(h, qe, ar, k) /\ CrossIn(w, qe, ar, k)
  BY <1>6 DEF InLine
<1> QED
  BY <1>2, <1>4, <1>5, <1>7, <1>8 DEF InLine, ar, qe

\* The head of the queue goes to a listener: nothing of its kind is buffered.
LEMMA LineDeliver ==
  ASSUME NEW h \in Seq(Event), NEW w \in Seq(Event), NEW q \in Seq(Event), NEW arr \in Seq(Event),
         NEW drop \in SUBSET Event, NEW k, InLine(h, w, q, arr, drop, k),
         q # <<>>, Head(q).kind = k => w = <<>>
  PROVE  InLine(Append(h, Head(q)), w, Tail(q), arr, drop, k)
<1> DEFINE e == Head(q)
           he == Append(h, e)
           t == Tail(q)
<1>1. /\ e = q[1] /\ e \in Event /\ 1 \in DOMAIN q
      /\ t \in Seq(Event) /\ DOMAIN t = 1..(Len(q) - 1)
      /\ \A i \in 1..(Len(q) - 1) : t[i] = q[i + 1] /\ i + 1 \in DOMAIN q /\ i + 1 > 1
      /\ DOMAIN q = 1..Len(q) /\ Len(q) \in Nat
      /\ ToSet(q) = {e} \cup ToSet(t)
  BY TailFacts
<1>2. /\ DOMAIN he = 1..(Len(h) + 1) /\ \A i \in 1..Len(h) : he[i] = h[i]
      /\ he[Len(h) + 1] = e /\ DOMAIN h = 1..Len(h) /\ Len(h) \in Nat
      /\ ToSet(he) = ToSet(h) \cup {e}
  BY <1>1, AppendFacts
<1> HIDE DEF e, he, t
<1>3. OrderedIn(t, arr, k)
  BY <1>1, OrderedTail DEF InLine, t
<1>4. OrderedIn(he, arr, k)
  <2> SUFFICES ASSUME NEW i \in 1..(Len(h) + 1), NEW j \in 1..(Len(h) + 1), i < j,
                      he[i].kind = k, he[j].kind = k
               PROVE Before(arr, he[i], he[j])
    BY <1>2 DEF OrderedIn
  <2>1. i \in 1..Len(h) /\ he[i] = h[i] /\ i \in DOMAIN h
    BY <1>2
  <2>2. CASE j \in 1..Len(h)
    BY <2>1, <2>2, <1>2 DEF InLine, OrderedIn
  <2>3. CASE j = Len(h) + 1
    BY <2>1, <2>3, <1>1, <1>2 DEF InLine, CrossIn
  <2>4. j \in 1..Len(h) \/ j = Len(h) + 1
    BY LastOrBefore
  <2> QED
    BY <2>2, <2>3, <2>4
<1>5. CrossIn(he, t, arr, k)
  <2> SUFFICES ASSUME NEW i \in 1..(Len(h) + 1), NEW j \in 1..(Len(q) - 1),
                      he[i].kind = k, t[j].kind = k
               PROVE Before(arr, he[i], t[j])
    BY <1>1, <1>2 DEF CrossIn
  <2>1. t[j] = q[j + 1] /\ j + 1 \in DOMAIN q /\ j + 1 > 1
    BY <1>1
  <2>2. CASE i \in 1..Len(h)
    BY <2>1, <2>2, <1>2 DEF InLine, CrossIn
  <2>3. CASE i = Len(h) + 1
    BY <2>1, <2>3, <1>1, <1>2 DEF InLine, OrderedIn
  <2>4. i \in 1..Len(h) \/ i = Len(h) + 1
    BY LastOrBefore
  <2> QED
    BY <2>2, <2>3, <2>4
<1>6. CrossIn(w, t, arr, k)
  BY <1>1 DEF InLine, CrossIn
<1>7. CrossIn(he, w, arr, k)
  <2> SUFFICES ASSUME NEW i \in 1..(Len(h) + 1), NEW j \in DOMAIN w,
                      he[i].kind = k, w[j].kind = k
               PROVE Before(arr, he[i], w[j])
    BY <1>1, <1>2 DEF CrossIn
  <2>2. CASE i \in 1..Len(h)
    BY <2>2, <1>2 DEF InLine, CrossIn
  <2>3. CASE i = Len(h) + 1
    BY <2>3, <1>1, <1>2 DEF e
  <2>4. i \in 1..Len(h) \/ i = Len(h) + 1
    BY LastOrBefore
  <2> QED
    BY <2>2, <2>3, <2>4
<1>8. \A x \in Event : x.kind = k =>
         (x \in ToSet(he) \cup ToSet(w) \cup ToSet(t) <=> x \in ToSet(arr) /\ x \notin drop)
  BY <1>1, <1>2 DEF InLine
<1> QED
  BY <1>3, <1>4, <1>5, <1>6, <1>7, <1>8 DEF InLine, e, he, t

\* The head of the queue is buffered, behind what was buffered before it.
LEMMA LineWait ==
  ASSUME NEW h \in Seq(Event), NEW w \in Seq(Event), NEW q \in Seq(Event), NEW arr \in Seq(Event),
         NEW drop \in SUBSET Event, NEW k, InLine(h, w, q, arr, drop, k),
         q # <<>>, Head(q).kind = k
  PROVE  InLine(h, Append(w, Head(q)), Tail(q), arr, drop, k)
<1> DEFINE e == Head(q)
           we == Append(w, e)
           t == Tail(q)
<1>1. /\ e = q[1] /\ e \in Event /\ 1 \in DOMAIN q
      /\ t \in Seq(Event) /\ DOMAIN t = 1..(Len(q) - 1)
      /\ \A i \in 1..(Len(q) - 1) : t[i] = q[i + 1] /\ i + 1 \in DOMAIN q /\ i + 1 > 1
      /\ DOMAIN q = 1..Len(q) /\ Len(q) \in Nat
      /\ ToSet(q) = {e} \cup ToSet(t)
  BY TailFacts
<1>2. /\ DOMAIN we = 1..(Len(w) + 1) /\ \A i \in 1..Len(w) : we[i] = w[i]
      /\ we[Len(w) + 1] = e /\ DOMAIN w = 1..Len(w) /\ Len(w) \in Nat
      /\ ToSet(we) = ToSet(w) \cup {e}
  BY <1>1, AppendFacts
<1>3. OrderedIn(t, arr, k) /\ e.kind = k
  BY OrderedTail DEF InLine
<1> HIDE DEF e, we, t
<1>4. OrderedIn(we, arr, k)
  <2> SUFFICES ASSUME NEW i \in 1..(Len(w) + 1), NEW j \in 1..(Len(w) + 1), i < j,
                      we[i].kind = k, we[j].kind = k
               PROVE Before(arr, we[i], we[j])
    BY <1>2 DEF OrderedIn
  <2>1. i \in 1..Len(w) /\ we[i] = w[i] /\ i \in DOMAIN w
    BY <1>2
  <2>2. CASE j \in 1..Len(w)
    BY <2>1, <2>2, <1>2 DEF InLine, OrderedIn
  <2>3. CASE j = Len(w) + 1
    BY <2>1, <2>3, <1>1, <1>2 DEF InLine, CrossIn
  <2>4. j \in 1..Len(w) \/ j = Len(w) + 1
    BY LastOrBefore
  <2> QED
    BY <2>2, <2>3, <2>4
<1>5. CrossIn(we, t, arr, k)
  <2> SUFFICES ASSUME NEW i \in 1..(Len(w) + 1), NEW j \in 1..(Len(q) - 1),
                      we[i].kind = k, t[j].kind = k
               PROVE Before(arr, we[i], t[j])
    BY <1>1, <1>2 DEF CrossIn
  <2>1. t[j] = q[j + 1] /\ j + 1 \in DOMAIN q /\ j + 1 > 1
    BY <1>1
  <2>2. CASE i \in 1..Len(w)
    BY <2>1, <2>2, <1>2 DEF InLine, CrossIn
  <2>3. CASE i = Len(w) + 1
    BY <2>1, <2>3, <1>1, <1>2 DEF InLine, OrderedIn
  <2>4. i \in 1..Len(w) \/ i = Len(w) + 1
    BY LastOrBefore
  <2> QED
    BY <2>2, <2>3, <2>4
<1>6. CrossIn(h, t, arr, k)
  BY <1>1 DEF InLine, CrossIn
<1>7. CrossIn(h, we, arr, k)
  <2> SUFFICES ASSUME NEW i \in DOMAIN h, NEW j \in 1..(Len(w) + 1),
                      h[i].kind = k, we[j].kind = k
               PROVE Before(arr, h[i], we[j])
    BY <1>1, <1>2 DEF CrossIn
  <2>2. CASE j \in 1..Len(w)
    BY <2>2, <1>2 DEF InLine, CrossIn
  <2>3. CASE j = Len(w) + 1
    BY <2>3, <1>1, <1>2 DEF InLine, CrossIn
  <2>4. j \in 1..Len(w) \/ j = Len(w) + 1
    BY LastOrBefore
  <2> QED
    BY <2>2, <2>3, <2>4
<1>8. \A x \in Event : x.kind = k =>
         (x \in ToSet(h) \cup ToSet(we) \cup ToSet(t) <=> x \in ToSet(arr) /\ x \notin drop)
  BY <1>1, <1>2 DEF InLine
<1>9. \A i \in DOMAIN we : we[i].kind = k
  BY <1>2, <1>3 DEF InLine
<1> QED
  BY <1>3, <1>4, <1>5, <1>6, <1>7, <1>8, <1>9 DEF InLine, e, we, t

\* An event of another kind leaves the queue.
LEMMA LineOther ==
  ASSUME NEW h \in Seq(Event), NEW w \in Seq(Event), NEW q \in Seq(Event), NEW arr \in Seq(Event),
         NEW drop \in SUBSET Event, NEW k, InLine(h, w, q, arr, drop, k),
         q # <<>>, Head(q).kind # k
  PROVE  InLine(h, w, Tail(q), arr, drop, k)
<1> DEFINE t == Tail(q)
<1>1. /\ t \in Seq(Event) /\ DOMAIN t = 1..(Len(q) - 1)
      /\ \A i \in 1..(Len(q) - 1) : t[i] = q[i + 1] /\ i + 1 \in DOMAIN q
      /\ ToSet(q) = {Head(q)} \cup ToSet(t)
  BY TailFacts
<1>2. OrderedIn(t, arr, k)
  BY OrderedTail DEF InLine
<1> HIDE DEF t
<1>3. CrossIn(h, t, arr, k) /\ CrossIn(w, t, arr, k)
  BY <1>1 DEF InLine, CrossIn
<1>4. \A x \in Event : x.kind = k =>
         (x \in ToSet(h) \cup ToSet(w) \cup ToSet(t) <=> x \in ToSet(arr) /\ x \notin drop)
  BY <1>1 DEF InLine
<1> QED
  BY <1>2, <1>3, <1>4 DEF InLine, t

\* Where the elements of a concatenation come from.
LEMMA ConcatFacts ==
  ASSUME NEW S, NEW s \in Seq(S), NEW t \in Seq(S)
  PROVE  /\ s \o t \in Seq(S) /\ DOMAIN (s \o t) = 1..(Len(s) + Len(t))
         /\ \A i \in 1..Len(s) : (s \o t)[i] = s[i] /\ i \in DOMAIN s
         /\ \A i \in (Len(s) + 1)..(Len(s) + Len(t)) :
              (s \o t)[i] = t[i - Len(s)] /\ i - Len(s) \in DOMAIN t
         /\ Len(s) \in Nat /\ Len(t) \in Nat
         /\ ToSet(s \o t) = ToSet(s) \cup ToSet(t)
<1>1. /\ s \o t \in Seq(S) /\ DOMAIN (s \o t) = 1..(Len(s) + Len(t))
      /\ \A i \in 1..Len(s) : (s \o t)[i] = s[i] /\ i \in DOMAIN s
      /\ \A i \in (Len(s) + 1)..(Len(s) + Len(t)) :
           (s \o t)[i] = t[i - Len(s)] /\ i - Len(s) \in DOMAIN t
      /\ DOMAIN s = 1..Len(s) /\ DOMAIN t = 1..Len(t) /\ Len(s) \in Nat /\ Len(t) \in Nat
  OBVIOUS
<1>2. ToSet(s \o t) \subseteq ToSet(s) \cup ToSet(t)
  <2> SUFFICES ASSUME NEW i \in 1..(Len(s) + Len(t))
               PROVE (s \o t)[i] \in ToSet(s) \cup ToSet(t)
    BY <1>1 DEF ToSet
  <2>1. CASE i \in 1..Len(s)
    BY <1>1, <2>1 DEF ToSet
  <2>2. CASE i \in (Len(s) + 1)..(Len(s) + Len(t))
    BY <1>1, <2>2 DEF ToSet
  <2> QED
    BY <1>1, <2>1, <2>2
<1>3. ToSet(s) \subseteq ToSet(s \o t)
  BY <1>1 DEF ToSet
<1>4. ToSet(t) \subseteq ToSet(s \o t)
  <2> SUFFICES ASSUME NEW j \in 1..Len(t) PROVE t[j] \in ToSet(s \o t)
    BY <1>1 DEF ToSet
  <2>1. Len(s) + j \in (Len(s) + 1)..(Len(s) + Len(t)) /\ (Len(s) + j) - Len(s) = j
    BY <1>1
  <2>2. (s \o t)[Len(s) + j] = t[j] /\ Len(s) + j \in DOMAIN (s \o t)
    BY <1>1, <2>1
  <2> QED
    BY <2>2 DEF ToSet
<1> QED
  BY <1>1, <1>2, <1>3, <1>4

\* Two parts that are in order, one after the other, are in order together.
LEMMA OrderedConcat ==
  ASSUME NEW s \in Seq(Event), NEW t \in Seq(Event), NEW arr, NEW k,
         OrderedIn(s, arr, k), OrderedIn(t, arr, k), CrossIn(s, t, arr, k)
  PROVE  OrderedIn(s \o t, arr, k)
<1>1. /\ DOMAIN (s \o t) = 1..(Len(s) + Len(t))
      /\ \A i \in 1..Len(s) : (s \o t)[i] = s[i] /\ i \in DOMAIN s
      /\ \A i \in (Len(s) + 1)..(Len(s) + Len(t)) :
           (s \o t)[i] = t[i - Len(s)] /\ i - Len(s) \in DOMAIN t
      /\ Len(s) \in Nat /\ Len(t) \in Nat
  BY ConcatFacts
<1> DEFINE c == s \o t
<1> HIDE DEF c
<1> SUFFICES ASSUME NEW i \in 1..(Len(s) + Len(t)), NEW j \in 1..(Len(s) + Len(t)), i < j,
                    c[i].kind = k, c[j].kind = k
             PROVE Before(arr, c[i], c[j])
  BY <1>1 DEF OrderedIn, c
<1>2. CASE j \in 1..Len(s)
  <2>1. i \in 1..Len(s)
    BY <1>2, <1>1
  <2> QED
    BY <1>1, <1>2, <2>1 DEF OrderedIn, c
<1>3. CASE i \in 1..Len(s) /\ j \in (Len(s) + 1)..(Len(s) + Len(t))
  BY <1>1, <1>3 DEF CrossIn, c
<1>4. CASE i \in (Len(s) + 1)..(Len(s) + Len(t)) /\ j \in (Len(s) + 1)..(Len(s) + Len(t))
  <2>1. /\ i - Len(s) \in DOMAIN t /\ j - Len(s) \in DOMAIN t /\ i - Len(s) < j - Len(s)
        /\ c[i] = t[i - Len(s)] /\ c[j] = t[j - Len(s)]
    BY <1>1, <1>4 DEF c
  <2> QED
    BY <2>1 DEF OrderedIn
<1> QED
  BY <1>1, <1>2, <1>3, <1>4

\* What comes before or after both parts comes before or after the whole.
LEMMA CrossConcat ==
  ASSUME NEW s \in Seq(Event), NEW t \in Seq(Event), NEW u \in Seq(Event), NEW arr, NEW k
  PROVE  /\ CrossIn(s, u, arr, k) /\ CrossIn(t, u, arr, k) => CrossIn(s \o t, u, arr, k)
         /\ CrossIn(u, s, arr, k) /\ CrossIn(u, t, arr, k) => CrossIn(u, s \o t, arr, k)
<1> DEFINE c == s \o t
<1>1. /\ DOMAIN c = 1..(Len(s) + Len(t))
      /\ \A i \in 1..Len(s) : c[i] = s[i] /\ i \in DOMAIN s
      /\ \A i \in (Len(s) + 1)..(Len(s) + Len(t)) : c[i] = t[i - Len(s)] /\ i - Len(s) \in DOMAIN t
      /\ Len(s) \in Nat /\ Len(t) \in Nat
  BY ConcatFacts
<1>2. \A i \in DOMAIN c : i \in 1..Len(s) \/ i \in (Len(s) + 1)..(Len(s) + Len(t))
  BY <1>1
<1>3. \A i \in DOMAIN c : (\E j \in DOMAIN s : c[i] = s[j]) \/ (\E j \in DOMAIN t : c[i] = t[j])
  BY <1>1, <1>2
<1> HIDE DEF c
<1>4. CrossIn(s, u, arr, k) /\ CrossIn(t, u, arr, k) => CrossIn(c, u, arr, k)
  BY <1>3 DEF CrossIn
<1>5. CrossIn(u, s, arr, k) /\ CrossIn(u, t, arr, k) => CrossIn(u, c, arr, k)
  BY <1>3 DEF CrossIn
<1> QED
  BY <1>4, <1>5 DEF c

\* v is the front of the buffer w, and D holds the events behind it.
Halves(w, v, D) ==
    /\ v \in Seq(Event) /\ ToSet(w) = ToSet(v) \cup D
    /\ \E n \in Nat :
         /\ DOMAIN v = 1..n /\ \A i \in 1..n : v[i] = w[i] /\ i \in DOMAIN w
         /\ \A x \in D : \E j \in DOMAIN w : j > n /\ x = w[j]

\* What the listener was called with, and the rest.
LEMMA HalvesFacts ==
  ASSUME NEW w \in Seq(Event), NEW n \in 0..Len(w)
  PROVE  Halves(w, SubSeq(w, 1, n), ToSet(SubSeq(w, n + 1, Len(w))))
<1> DEFINE v == SubSeq(w, 1, n)
           u == SubSeq(w, n + 1, Len(w))
<1>1. Len(w) \in Nat /\ n \in Nat /\ n <= Len(w) /\ DOMAIN w = 1..Len(w)
  OBVIOUS
<1>2. v \in Seq(Event) /\ DOMAIN v = 1..n /\ \A i \in 1..n : v[i] = w[i] /\ i \in DOMAIN w
  BY <1>1
<1>3. DOMAIN u = 1..(Len(w) - n) /\ \A i \in 1..(Len(w) - n) : u[i] = w[n + i] /\ n + i \in DOMAIN w
  BY <1>1
<1> HIDE DEF v, u
<1>4. ASSUME NEW x \in ToSet(u) PROVE \E j \in DOMAIN w : j > n /\ x = w[j]
  <2>1. PICK i \in 1..(Len(w) - n) : x = u[i]
    BY <1>3 DEF ToSet
  <2>2. n + i \in DOMAIN w /\ n + i > n /\ x = w[n + i]
    BY <2>1, <1>1, <1>3
  <2> QED
    BY <2>2
<1>5. ToSet(v) \subseteq ToSet(w)
  BY <1>2 DEF ToSet
<1>6. ToSet(u) \subseteq ToSet(w)
  BY <1>4 DEF ToSet
<1>7. ASSUME NEW j \in DOMAIN w PROVE w[j] \in ToSet(v) \cup ToSet(u)
  <2>1. CASE j <= n
    BY <2>1, <1>1, <1>2 DEF ToSet
  <2>2. CASE j > n
    <3>1. j - n \in 1..(Len(w) - n) /\ n + (j - n) = j
      BY <2>2, <1>1
    <3>2. u[j - n] = w[j] /\ j - n \in DOMAIN u
      BY <3>1, <1>3
    <3> QED
      BY <3>2 DEF ToSet
  <2> QED
    BY <2>1, <2>2, <1>1
<1>8. ToSet(w) \subseteq ToSet(v) \cup ToSet(u)
  BY <1>7 DEF ToSet
<1>9. ToSet(w) = ToSet(v) \cup ToSet(u)
  BY <1>5, <1>6, <1>8
<1>10. Halves(w, v, ToSet(u))
  BY <1>1, <1>2, <1>4, <1>9 DEF Halves
<1> QED
  BY <1>10 DEF v, u

\* on: the buffer goes to the new listener; behind a throw it is dropped.
LEMMA LineOn ==
  ASSUME NEW h \in Seq(Event), NEW w \in Seq(Event), NEW q \in Seq(Event), NEW arr \in Seq(Event),
         NEW drop \in SUBSET Event, NEW k, InLine(h, w, q, arr, drop, k), IsInjective(arr),
         NEW v, NEW D, Halves(w, v, D)
  PROVE  /\ InLine(h \o v, <<>>, q, arr, drop \cup D, k)
         /\ D \subseteq ToSet(arr)
<1> DEFINE hv == h \o v
<1>0. PICK n \in Nat :
        /\ DOMAIN v = 1..n /\ \A i \in 1..n : v[i] = w[i] /\ i \in DOMAIN w
        /\ \A x \in D : \E j \in DOMAIN w : j > n /\ x = w[j]
  BY DEF Halves
<1>1. v \in Seq(Event) /\ ToSet(w) = ToSet(v) \cup D
  BY DEF Halves
<1>2. OrderedIn(v, arr, k) /\ CrossIn(h, v, arr, k) /\ CrossIn(v, q, arr, k)
  BY <1>0, <1>1 DEF InLine, OrderedIn, CrossIn
<1>3. OrderedIn(hv, arr, k) /\ CrossIn(hv, q, arr, k)
  BY <1>1, <1>2, OrderedConcat, CrossConcat DEF InLine
<1>4. ToSet(hv) = ToSet(h) \cup ToSet(v)
  BY <1>1, ConcatFacts
<1> HIDE DEF hv
<1>5. OrderedIn(<<>>, arr, k) /\ CrossIn(hv, <<>>, arr, k) /\ CrossIn(<<>>, q, arr, k)
      /\ ToSet(<<>>) = {} /\ \A i \in DOMAIN <<>> : <<>>[i].kind = k
  BY DEF OrderedIn, CrossIn, ToSet
<1>6. \A e \in ToSet(w) : e \in Event /\ e.kind = k
  BY DEF InLine, ToSet
<1>7. D \subseteq ToSet(arr)
  BY <1>6, <1>1 DEF InLine
<1>8. ASSUME NEW x \in D PROVE x \notin ToSet(h) /\ x \notin ToSet(v) /\ x \notin ToSet(q)
  <2>1. PICK j \in DOMAIN w : j > n /\ x = w[j]
    BY <1>0
  <2>2. x.kind = k /\ ~Before(arr, x, x)
    BY <1>1, <1>6, BeforeIrreflexive
  <2>3. x \notin ToSet(h)
    BY <2>1, <2>2 DEF InLine, CrossIn, ToSet
  <2>4. x \notin ToSet(q)
    BY <2>1, <2>2 DEF InLine, CrossIn, ToSet
  <2>5. ASSUME NEW i \in 1..n, x = v[i] PROVE FALSE
    <3>1. x = w[i] /\ i \in DOMAIN w /\ i < j
      BY <1>0, <1>1, <2>1, <2>5
    <3> QED
      BY <3>1, <2>1, <2>2 DEF InLine, OrderedIn
  <2>6. x \notin ToSet(v)
    BY <2>5, <1>0 DEF ToSet
  <2> QED
    BY <2>3, <2>4, <2>6
<1>9. \A e \in Event : e.kind = k =>
        (e \in ToSet(hv) \cup {} \cup ToSet(q) <=> e \in ToSet(arr) /\ e \notin drop \cup D)
  BY <1>1, <1>4, <1>8 DEF InLine
<1>10. drop \cup D \subseteq ToSet(arr)
  BY <1>7 DEF InLine
<1>11. InLine(hv, <<>>, q, arr, drop \cup D, k)
  BY <1>3, <1>5, <1>9, <1>10 DEF InLine
<1> QED
  BY <1>7, <1>11 DEF hv

\* on of another kind k: nothing of kind j moves.
LEMMA LineOnOther ==
  ASSUME NEW h \in Seq(Event), NEW w \in Seq(Event), NEW q \in Seq(Event), NEW arr \in Seq(Event),
         NEW drop \in SUBSET Event, NEW j, InLine(h, w, q, arr, drop, j),
         NEW v \in Seq(Event), NEW D \in SUBSET ToSet(arr), NEW k, k # j,
         \A e \in ToSet(v) \cup D : e.kind = k
  PROVE  InLine(h \o v, w, q, arr, drop \cup D, j)
<1> DEFINE hv == h \o v
<1>1. \A i \in DOMAIN v : v[i].kind # j
  BY DEF ToSet
<1>2. OrderedIn(v, arr, j) /\ \A t \in {v, w, q} : CrossIn(h, v, arr, j) /\ CrossIn(v, t, arr, j)
  BY <1>1 DEF OrderedIn, CrossIn
<1>3. OrderedIn(hv, arr, j) /\ CrossIn(hv, q, arr, j) /\ CrossIn(hv, w, arr, j)
  BY <1>2, OrderedConcat, CrossConcat DEF InLine
<1>4. ToSet(hv) = ToSet(h) \cup ToSet(v)
  BY ConcatFacts
<1> HIDE DEF hv
<1>5. \A e \in Event : e.kind = j =>
        (e \in ToSet(hv) \cup ToSet(w) \cup ToSet(q) <=> e \in ToSet(arr) /\ e \notin drop \cup D)
  BY <1>4 DEF InLine
<1> QED
  BY <1>3, <1>5 DEF InLine, hv

\* Nothing was posted.
LEMMA LineEmpty == ASSUME NEW k PROVE InLine(<<>>, <<>>, <<>>, <<>>, {}, k)
<1>1. DOMAIN <<>> = {}
  OBVIOUS
<1> QED
  BY <1>1 DEF InLine, OrderedIn, CrossIn, ToSet

\* What the line shows of a kind: each event that was posted and not dropped,
\* in the order of the posts.
LEMMA LineWhole ==
  ASSUME NEW h \in Seq(Event), NEW w \in Seq(Event), NEW q \in Seq(Event), NEW arr \in Seq(Event),
         NEW drop \in SUBSET Event, NEW k, InLine(h, w, q, arr, drop, k)
  PROVE  /\ {e \in ToSet(h \o w \o q) : e.kind = k} = {e \in ToSet(arr) : e.kind = k} \ drop
         /\ OrderedIn(h \o w \o q, arr, k)
<1> DEFINE hw == h \o w
<1>1. hw \in Seq(Event) /\ ToSet(hw) = ToSet(h) \cup ToSet(w)
  BY ConcatFacts
<1>2. OrderedIn(hw, arr, k) /\ CrossIn(hw, q, arr, k)
  BY OrderedConcat, CrossConcat DEF InLine
<1> HIDE DEF hw
<1>3. ToSet(hw \o q) = ToSet(h) \cup ToSet(w) \cup ToSet(q)
  BY <1>1, ConcatFacts
<1>4. OrderedIn(hw \o q, arr, k)
  BY <1>1, <1>2, OrderedConcat DEF InLine
<1>5. ToSet(h) \cup ToSet(w) \cup ToSet(q) \subseteq Event /\ ToSet(arr) \subseteq Event
  BY DEF ToSet
<1>6. {e \in ToSet(hw \o q) : e.kind = k} = {e \in ToSet(arr) : e.kind = k} \ drop
  BY <1>3, <1>5 DEF InLine
<1> QED
  BY <1>4, <1>6 DEF hw

-----------------------------------------------------------------------------
(* The events: who posts which.                                            *)

\* The variables of the events have their types.
FeedTypes ==
    /\ backlog \in [Procs -> Seq(Procs)] /\ cur \in [Procs -> Maybe] /\ sent \in SUBSET Procs
    /\ posting \in [Procs -> [listener : Seq(Event), main : Seq(Event)]]
    /\ queue \in [Procs -> Seq(Event)] /\ arrived \in [Procs -> Seq(Event)]
    /\ listening \in [Procs -> SUBSET Kinds] /\ waiting \in [Procs -> [Kinds -> Seq(Event)]]
    /\ handled \in [Procs -> Seq(Event)] /\ dropped \in [Procs -> SUBSET Event]

\* The clients a listener has not read to their end.
Clients(p) == ToSet(backlog[p]) \cup ({cur[p]} \ {None})

\* What a thread holds goes with where it is.
ThreadsInv ==
    \A p \in Procs :
      /\ lst[p] # "off" => pc[p] \in {"argv", "run"}
      /\ pc[p] \notin {"argv", "run"} => arrived[p] = <<>>
      /\ posting[p].main # <<>> => pc[p] = "argv"
      /\ posting[p].listener # <<>> => lst[p] = "post"
      /\ cur[p] # None <=> lst[p] = "read"
      /\ backlog[p] # <<>> => lst[p] \in {"accept", "read", "post"}

\* A client connects once and is past its own attempt to be the primary;
\* nothing of it was posted before its payload was read.
SendersInv ==
    /\ \A q \in sent : pc[q] = "done"
    /\ \A p \in Procs :
      /\ IsInjective(backlog[p]) /\ cur[p] \notin ToSet(backlog[p])
      /\ \A q \in Clients(p) :
           /\ pc[q] \in {"write", "done", "dead"}
           /\ \A e \in ToSet(arrived[p]) \cup ToSet(posting[p].listener) : e.from # q

\* What a thread has still to post was not posted: the main thread posts its
\* own events, the listener those of clients that wrote their payload.
PostsInv ==
    \A p \in Procs :
      /\ IsInjective(arrived[p]) /\ IsInjective(posting[p].main) /\ IsInjective(posting[p].listener)
      /\ \A e \in ToSet(posting[p].main) : e.from = p /\ e \notin ToSet(arrived[p])
      /\ \A e \in ToSet(posting[p].listener) : e.from \in sent /\ e \notin ToSet(arrived[p])
      /\ \A e \in ToSet(arrived[p]) : e.from \in sent \cup {p}

\* Every kind is in line, and nothing is buffered for a listener that is there.
LineInv ==
    \A p \in Procs : \A k \in Kinds :
      /\ InLine(handled[p], waiting[p][k], queue[p], arrived[p], dropped[p], k)
      /\ k \in listening[p] => waiting[p][k] = <<>>

FeedInv == FeedTypes /\ ThreadsInv /\ SendersInv /\ PostsInv /\ LineInv

\* A sequence without repetition, one element longer or one shorter.
LEMMA InjectiveFacts ==
  ASSUME NEW S, NEW s \in Seq(S), IsInjective(s)
  PROVE  /\ \A e \in S : e \notin ToSet(s) => IsInjective(Append(s, e))
         /\ s # <<>> => IsInjective(Tail(s)) /\ Head(s) \notin ToSet(Tail(s))
<1>1. ASSUME NEW e \in S, e \notin ToSet(s) PROVE IsInjective(Append(s, e))
  <2> DEFINE a == Append(s, e)
  <2>1. /\ DOMAIN a = 1..(Len(s) + 1) /\ \A i \in 1..Len(s) : a[i] = s[i]
        /\ a[Len(s) + 1] = e /\ DOMAIN s = 1..Len(s) /\ Len(s) \in Nat
    BY AppendFacts
  <2>2. \A i \in 1..Len(s) : s[i] # e
    BY <1>1, <2>1 DEF ToSet
  <2> HIDE DEF a
  <2>3. IsInjective(a)
    BY <2>1, <2>2 DEF IsInjective
  <2> QED
    BY <2>3 DEF a
<1>2. ASSUME s # <<>> PROVE IsInjective(Tail(s)) /\ Head(s) \notin ToSet(Tail(s))
  <2> DEFINE t == Tail(s)
  <2>1. /\ Head(s) = s[1] /\ 1 \in DOMAIN s /\ DOMAIN t = 1..(Len(s) - 1) /\ Len(s) \in Nat
        /\ \A i \in 1..(Len(s) - 1) : t[i] = s[i + 1] /\ i + 1 \in DOMAIN s /\ i + 1 > 1
    BY <1>2, TailFacts
  <2> HIDE DEF t
  <2>2. ASSUME NEW i \in DOMAIN t, NEW j \in DOMAIN t, t[i] = t[j] PROVE i = j
    <3>1. i + 1 = j + 1
      BY <2>1, <2>2 DEF IsInjective
    <3> QED
      BY <2>1, <3>1
  <2>3. Head(s) \notin ToSet(t)
    BY <2>1 DEF IsInjective, ToSet
  <2> QED
    BY <2>2, <2>3 DEF IsInjective, t
<1> QED
  BY <1>1, <1>2

\* At the start nothing is posted.
LEMMA FeedInit == Init => FeedInv
<1> SUFFICES ASSUME Init PROVE FeedInv
  OBVIOUS
<1>1. FeedTypes
  BY DEF Init, FeedTypes, Maybe
<1>2. \A p \in Procs :
        /\ pc[p] = "start" /\ lst[p] = "off" /\ cur[p] = None /\ backlog[p] = <<>>
        /\ posting[p].main = <<>> /\ posting[p].listener = <<>>
        /\ queue[p] = <<>> /\ arrived[p] = <<>> /\ handled[p] = <<>>
        /\ listening[p] = {} /\ dropped[p] = {} /\ \A k \in Kinds : waiting[p][k] = <<>>
  BY DEF Init
<1>3. sent = {}
  BY DEF Init
<1>4. ToSet(<<>>) = {} /\ IsInjective(<<>>)
  BY DEF ToSet, IsInjective
<1>5. ThreadsInv
  BY <1>2 DEF ThreadsInv
<1>6. SendersInv
  BY <1>2, <1>3, <1>4 DEF SendersInv, Clients
<1>7. PostsInv
  BY <1>2, <1>4 DEF PostsInv
<1>8. LineInv
  BY <1>2, LineEmpty DEF LineInv
<1> QED
  BY <1>1, <1>5, <1>6, <1>7, <1>8 DEF FeedInv

\* The events one argv stands for: each once, all of one sender.
LEMMA LaunchFacts ==
  ASSUME NEW q \in Procs
  PROVE  /\ OpenEvents(q) \in Seq(Event) /\ IsInjective(OpenEvents(q))
         /\ \A e \in ToSet(OpenEvents(q)) : e.from = q /\ e.arg > 0
         /\ LaunchEvents(q) \in Seq(Event) /\ IsInjective(LaunchEvents(q))
         /\ \A e \in ToSet(LaunchEvents(q)) : e.from = q
<1> DEFINE n == Len(Opens)
           o == OpenEvents(q)
           f == [from |-> q, kind |-> "second", arg |-> 0]
           l == <<f>> \o o
<1>1. n \in Nat /\ \A i \in 1..n : Opens[i] \in Kinds
  BY OpensAssumption DEF Kinds
<1>2. DOMAIN o = 1..n /\ \A i \in 1..n : o[i] = [from |-> q, kind |-> Opens[i], arg |-> i]
  BY DEF OpenEvents
<1>3. \A i \in 1..n : o[i] \in Event /\ o[i].from = q /\ o[i].arg = i
  BY <1>1, <1>2 DEF Event
<1>4. o \in Seq(Event) /\ Len(o) = n
  <2>1. o = [i \in 1..n |-> o[i]]
    BY <1>2 DEF OpenEvents
  <2>2. o \in [1..n -> Event]
    BY <1>2, <1>3, <2>1
  <2> QED
    BY <1>1, <1>2, <2>2
<1>5. f \in Event /\ f.from = q /\ f.arg = 0
  BY <1>1 DEF Event, Kinds
<1> HIDE DEF o, f
<1>6. IsInjective(o)
  BY <1>2, <1>3 DEF IsInjective
<1>7. \A e \in ToSet(o) : e.from = q /\ e.arg > 0
  BY <1>1, <1>2, <1>3 DEF ToSet
<1>8. /\ l \in Seq(Event) /\ DOMAIN l = 1..(1 + n) /\ l[1] = f
      /\ \A i \in 2..(1 + n) : l[i] = o[i - 1] /\ i - 1 \in 1..n
  BY <1>1, <1>4, <1>5
<1> HIDE DEF l, n
<1>9. \A i \in DOMAIN l : l[i].arg = i - 1 /\ l[i].from = q
  BY <1>1, <1>3, <1>5, <1>8
<1>10. IsInjective(l)
  <2> SUFFICES ASSUME NEW i \in DOMAIN l, NEW j \in DOMAIN l, l[i] = l[j] PROVE i = j
    BY DEF IsInjective
  <2>1. i - 1 = j - 1
    BY <1>9
  <2> QED
    BY <2>1, <1>1, <1>8
<1>11. \A e \in ToSet(l) : e.from = q
  BY <1>9 DEF ToSet
<1>12. l = LaunchEvents(q)
  BY DEF l, f, o, LaunchEvents
<1> QED
  BY <1>4, <1>6, <1>7, <1>8, <1>10, <1>11, <1>12 DEF o

\* A step of a main thread outside the phases that matter to the events.
LEMMA FeedMain ==
  ASSUME NEW p \in Procs, IInv, FeedInv, NEW l, l \notin {"argv", "run"},
         pc[p] \notin {"argv", "run", "write", "done", "dead"}, Goto(p, l),
         UNCHANGED <<lst, backlog, cur, sent, appVars, postVars>>
  PROVE  FeedInv'
<1>0. pc \in [Procs -> MainLabels]
  BY DEF IInv, LockTypes
<1>1. pc'[p] = l /\ \A q \in Procs : q # p => pc'[q] = pc[q]
  BY <1>0 DEF Goto
<1> USE DEF FeedInv, appVars, postVars
<1>2. FeedTypes'
  BY DEF FeedTypes
<1>3. ThreadsInv'
  BY <1>1 DEF ThreadsInv
<1>4. SendersInv'
  <2>1. \A x \in Procs : Clients(x)' = Clients(x) /\ Clients(x) \subseteq Procs
    BY DEF Clients, FeedTypes, Maybe, ToSet
  <2>2. \A x \in Procs : p \notin Clients(x)
    BY DEF SendersInv
  <2>3. \A q \in sent : q \in Procs /\ q # p
    BY DEF SendersInv, FeedTypes
  <2> QED
    BY <1>1, <2>1, <2>2, <2>3 DEF SendersInv
<1>5. PostsInv'
  BY DEF PostsInv
<1>6. LineInv'
  BY DEF LineInv
<1> QED
  BY <1>2, <1>3, <1>4, <1>5, <1>6

\* A step of a listener thread that neither takes a client nor posts.
LEMMA FeedListener ==
  ASSUME NEW p \in Procs, IInv, FeedInv, NEW l, l \notin {"off", "read"}, lst[p] \notin {"off", "read"},
         lst[p] \in {"accept", "post"} => l = "accept", posting[p].listener = <<>>, Listen(p, l),
         UNCHANGED <<pc, backlog, cur, sent, appVars, postVars>>
  PROVE  FeedInv'
<1>0. lst \in [Procs -> ListenerLabels]
  BY DEF IInv, LockTypes
<1>1. lst'[p] = l /\ \A q \in Procs : q # p => lst'[q] = lst[q]
  BY <1>0 DEF Listen
<1> USE DEF FeedInv, appVars, postVars
<1>2. FeedTypes'
  BY DEF FeedTypes
<1>3. ThreadsInv'
  BY <1>1 DEF ThreadsInv
<1>4. SendersInv'
  BY DEF SendersInv, Clients
<1>5. PostsInv'
  BY DEF PostsInv
<1>6. LineInv'
  BY DEF LineInv
<1> QED
  BY <1>2, <1>3, <1>4, <1>5, <1>6

\* request_single_instance_lock touches no event.
LEMMA FeedLock == ASSUME NEW p \in Procs, IInv, FeedInv, LockStep(p) PROVE FeedInv'
<1>1. PICK l \in {"read", "unlink", "open", "flock", "truncate", "write_pid", "release", "primary", "forward"} :
        Goto(p, l)
  BY DEF LockStep, TakeGuard, ReadPid, UnlinkLock, OpenLock, FlockLock, TruncateLock, WritePid,
         ReleaseGuard, GiveUp
<1>2. pc[p] \notin {"argv", "run", "write", "done", "dead"}
  BY DEF LockStep, TakeGuard, ReadPid, UnlinkLock, OpenLock, FlockLock, TruncateLock, WritePid,
         ReleaseGuard
<1>3. UNCHANGED <<sockVars, appVars, postVars>>
  BY DEF LockStep, TakeGuard, ReadPid, UnlinkLock, OpenLock, FlockLock, TruncateLock, WritePid,
         ReleaseGuard, GiveUp
<1> QED
  BY <1>1, <1>2, <1>3, FeedMain DEF sockVars

\* The listener thread starts, with nothing to post yet; the main thread has
\* its own argv to post.
LEMMA FeedStart == ASSUME NEW p \in Procs, IInv, FeedInv, StartListener(p) PROVE FeedInv'
<1>0. pc \in [Procs -> MainLabels] /\ lst \in [Procs -> ListenerLabels]
  BY DEF IInv, LockTypes
<1>1. /\ pc[p] = "primary" /\ pc' = [pc EXCEPT ![p] = "argv"] /\ lst' = [lst EXCEPT ![p] = "unlink"]
      /\ posting' = [posting EXCEPT ![p].main = OpenEvents(p)]
      /\ UNCHANGED <<backlog, cur, sent, queue, arrived, listening, waiting, handled, dropped>>
  BY DEF StartListener, Goto, Listen, appVars
<1>2. /\ pc'[p] = "argv" /\ lst'[p] = "unlink"
      /\ \A q \in Procs : q # p => pc'[q] = pc[q] /\ lst'[q] = lst[q]
  BY <1>0, <1>1
<1>3. /\ posting'[p].main = OpenEvents(p) /\ posting'[p].listener = posting[p].listener
      /\ \A q \in Procs : q # p => posting'[q] = posting[q]
  BY <1>1 DEF FeedInv, FeedTypes
<1>4. OpenEvents(p) \in Seq(Event) /\ IsInjective(OpenEvents(p))
      /\ \A e \in ToSet(OpenEvents(p)) : e.from = p
  BY LaunchFacts
<1>5. /\ lst[p] = "off" /\ cur[p] = None /\ backlog[p] = <<>>
      /\ posting[p].listener = <<>> /\ arrived[p] = <<>>
  BY <1>1 DEF FeedInv, ThreadsInv
<1> USE DEF FeedInv
<1>6. FeedTypes'
  BY <1>1, <1>4 DEF FeedTypes
<1>7. ThreadsInv'
  BY <1>1, <1>2, <1>3, <1>5 DEF ThreadsInv
<1>8. SendersInv'
  <2>1. \A x \in Procs : Clients(x)' = Clients(x) /\ Clients(x) \subseteq Procs
    BY <1>1 DEF Clients, FeedTypes, Maybe, ToSet
  <2>2. \A x \in Procs : p \notin Clients(x)
    BY <1>1 DEF SendersInv
  <2>3. \A q \in sent : q \in Procs /\ q # p
    BY <1>1 DEF SendersInv, FeedTypes
  <2>4. \A x \in Procs : posting'[x].listener = posting[x].listener
    BY <1>3
  <2> QED
    BY <1>1, <1>2, <2>1, <2>2, <2>3, <2>4 DEF SendersInv
<1>9. PostsInv'
  <2>1. ToSet(arrived[p]) = {}
    BY <1>5 DEF ToSet
  <2> QED
    BY <1>1, <1>3, <1>4, <2>1 DEF PostsInv
<1>10. LineInv'
  BY <1>1 DEF LineInv
<1> QED
  BY <1>6, <1>7, <1>8, <1>9, <1>10

\* forward_to_primary_socket: a new client, of which nothing was posted.
LEMMA FeedConnect == ASSUME NEW p \in Procs, IInv, FeedInv, Connect(p) PROVE FeedInv'
<1>0. pc \in [Procs -> MainLabels] /\ lst \in [Procs -> ListenerLabels] /\ sock \in Maybe
  BY DEF IInv, LockTypes
<1>1. CASE ~SomebodyListens
  <2>1. Goto(p, "done") /\ pc[p] = "forward" /\ UNCHANGED <<lst, backlog, cur, sent, appVars, postVars>>
    BY <1>1 DEF Connect
  <2> QED
    BY <2>1, FeedMain
<1>2. CASE SomebodyListens
  <2>1. /\ pc[p] = "forward" /\ pc' = [pc EXCEPT ![p] = "write"]
        /\ backlog' = [backlog EXCEPT ![sock] = Append(@, p)]
        /\ UNCHANGED <<lst, cur, sent, posting, queue, arrived, listening, waiting, handled, dropped>>
    BY <1>2 DEF Connect, Goto, appVars, postVars
  <2>2. sock \in Procs /\ lst[sock] \in {"accept", "read", "post"} /\ sock # p
    BY <1>0, <1>2, <2>1 DEF SomebodyListens, Maybe, FeedInv, ThreadsInv
  <2>3. pc'[p] = "write" /\ \A q \in Procs : q # p => pc'[q] = pc[q]
    BY <1>0, <2>1
  <2>4. /\ backlog'[sock] = Append(backlog[sock], p) /\ backlog[sock] \in Seq(Procs)
        /\ \A x \in Procs : x # sock => backlog'[x] = backlog[x]
    BY <2>1, <2>2 DEF FeedInv, FeedTypes
  <2>5. Append(backlog[sock], p) \in Seq(Procs) /\ ToSet(Append(backlog[sock], p)) = ToSet(backlog[sock]) \cup {p}
    BY <2>4, AppendFacts
  <2>6. \A x \in Procs : p \notin Clients(x) /\ Clients(x) \subseteq Procs
    <3>1. \A x \in Procs : p \notin Clients(x)
      BY <2>1 DEF FeedInv, SendersInv
    <3>2. \A x \in Procs : Clients(x) \subseteq Procs
      BY DEF FeedInv, FeedTypes, Clients, Maybe, ToSet
    <3> QED
      BY <3>1, <3>2
  <2>7. \A q \in sent : q \in Procs /\ q # p
    BY <2>1 DEF FeedInv, FeedTypes, SendersInv
  <2>8. \A x \in Procs : Clients(x)' \subseteq Clients(x) \cup {p} /\ (x # sock => Clients(x)' = Clients(x))
    BY <2>1, <2>4, <2>5 DEF Clients
  <2> USE DEF FeedInv
  <2>9. FeedTypes'
    BY <2>1, <2>2, <2>4, <2>5 DEF FeedTypes
  <2>10. ThreadsInv'
    BY <2>1, <2>2, <2>3, <2>4 DEF ThreadsInv
  <2>11. SendersInv'
    <3>1. \A q \in sent' : pc'[q] = "done"
      BY <2>1, <2>3, <2>7 DEF SendersInv
    <3>2. ASSUME NEW x \in Procs
          PROVE  IsInjective(backlog[x])' /\ (cur[x] \notin ToSet(backlog[x]))'
      <4>1. IsInjective(Append(backlog[sock], p))
        BY <2>2, <2>4, <2>6, InjectiveFacts DEF SendersInv, Clients
      <4>2. cur[sock] # p
        BY <2>2, <2>6, NoneAssumption DEF Clients
      <4>3. CASE x = sock
        BY <4>1, <4>2, <4>3, <2>1, <2>4, <2>5 DEF SendersInv
      <4>4. CASE x # sock
        BY <4>4, <2>1, <2>4 DEF SendersInv
      <4> QED
        BY <4>3, <4>4
    <3>3. ASSUME NEW x \in Procs, NEW q \in Clients(x)'
          PROVE  /\ pc'[q] \in {"write", "done", "dead"}
                 /\ \A e \in ToSet(arrived[x]) \cup ToSet(posting[x].listener) : e.from # q
      <4>1. CASE q = p
        <5>1. x = sock
          BY <4>1, <2>6, <2>8, <3>3
        <5>2. \A e \in ToSet(arrived[x]) \cup ToSet(posting[x].listener) : e.from # p
          BY <5>1, <2>2, <2>7 DEF PostsInv
        <5> QED
          BY <4>1, <5>2, <2>3
      <4>2. CASE q # p
        BY <4>2, <2>3, <2>6, <2>8, <3>3 DEF SendersInv
      <4> QED
        BY <4>1, <4>2
    <3> QED
      BY <3>1, <3>2, <3>3, <2>1 DEF SendersInv
  <2>12. PostsInv'
    BY <2>1 DEF PostsInv
  <2>13. LineInv'
    BY <2>1 DEF LineInv
  <2> QED
    BY <2>9, <2>10, <2>11, <2>12, <2>13
<1> QED
  BY <1>1, <1>2

\* write_all_socket: the client is done.
LEMMA FeedPayload == ASSUME NEW p \in Procs, IInv, FeedInv, WritePayload(p) PROVE FeedInv'
<1>0. pc \in [Procs -> MainLabels]
  BY DEF IInv, LockTypes
<1>1. /\ pc[p] = "write" /\ pc' = [pc EXCEPT ![p] = "done"] /\ sent' = sent \cup {p}
      /\ UNCHANGED <<lst, backlog, cur, posting, queue, arrived, listening, waiting, handled, dropped>>
  BY DEF WritePayload, Goto, appVars, postVars
<1>2. pc'[p] = "done" /\ \A q \in Procs : q # p => pc'[q] = pc[q]
  BY <1>0, <1>1
<1> USE DEF FeedInv
<1>3. FeedTypes'
  BY <1>1 DEF FeedTypes
<1>4. ThreadsInv'
  BY <1>1, <1>2 DEF ThreadsInv
<1>5. SendersInv'
  <2>1. \A x \in Procs : Clients(x)' = Clients(x) /\ Clients(x) \subseteq Procs
    BY <1>1 DEF Clients, FeedTypes, Maybe, ToSet
  <2>2. \A q \in sent' : pc'[q] = "done"
    BY <1>1, <1>2 DEF SendersInv, FeedTypes
  <2> QED
    BY <1>1, <1>2, <2>1, <2>2 DEF SendersInv
<1>6. PostsInv'
  BY <1>1 DEF PostsInv
<1>7. LineInv'
  BY <1>1 DEF LineInv
<1> QED
  BY <1>3, <1>4, <1>5, <1>6, <1>7

\* accept: the first connection of the backlog is the one that is read.
LEMMA FeedAccept == ASSUME NEW p \in Procs, IInv, FeedInv, Accept(p) PROVE FeedInv'
<1>0. lst \in [Procs -> ListenerLabels]
  BY DEF IInv, LockTypes
<1>1. /\ lst[p] = "accept" /\ backlog[p] # <<>> /\ lst' = [lst EXCEPT ![p] = "read"]
      /\ cur' = [cur EXCEPT ![p] = Head(backlog[p])]
      /\ backlog' = [backlog EXCEPT ![p] = Tail(@)]
      /\ UNCHANGED <<pc, sent, posting, queue, arrived, listening, waiting, handled, dropped>>
  BY DEF Accept, Listen, appVars, postVars
<1>2. /\ lst'[p] = "read" /\ cur'[p] = Head(backlog[p]) /\ backlog'[p] = Tail(backlog[p])
      /\ \A x \in Procs : x # p => lst'[x] = lst[x] /\ cur'[x] = cur[x] /\ backlog'[x] = backlog[x]
  BY <1>0, <1>1 DEF FeedInv, FeedTypes
<1>3. /\ Head(backlog[p]) \in Procs /\ Tail(backlog[p]) \in Seq(Procs)
      /\ ToSet(backlog[p]) = {Head(backlog[p])} \cup ToSet(Tail(backlog[p]))
      /\ IsInjective(Tail(backlog[p])) /\ Head(backlog[p]) \notin ToSet(Tail(backlog[p]))
  BY <1>1, TailFacts, InjectiveFacts DEF FeedInv, FeedTypes, SendersInv
<1>4. \A x \in Procs : Clients(x)' \subseteq Clients(x)
  BY <1>2, <1>3 DEF Clients
<1> USE DEF FeedInv
<1>5. FeedTypes'
  BY <1>1, <1>3 DEF FeedTypes, Maybe
<1>6. ThreadsInv'
  BY <1>1, <1>2, <1>3, NoneAssumption DEF ThreadsInv
<1>7. SendersInv'
  BY <1>1, <1>2, <1>3, <1>4 DEF SendersInv
<1>8. PostsInv'
  BY <1>1 DEF PostsInv
<1>9. LineInv'
  BY <1>1 DEF LineInv
<1> QED
  BY <1>5, <1>6, <1>7, <1>8, <1>9

\* handle_single_instance_client: the launch of the client is to be posted, for
\* the first time, when its payload was written.
LEMMA FeedRead == ASSUME NEW p \in Procs, IInv, FeedInv, ReadClient(p) PROVE FeedInv'
<1>0. lst \in [Procs -> ListenerLabels]
  BY DEF IInv, LockTypes
<1> DEFINE q == cur[p]
<1>1. /\ lst[p] = "read" /\ cur' = [cur EXCEPT ![p] = None]
      /\ UNCHANGED <<pc, backlog, sent, queue, arrived, listening, waiting, handled, dropped>>
  BY DEF ReadClient, appVars
<1>2. q \in Procs /\ q \in Clients(p) /\ posting[p].listener = <<>> /\ q \notin ToSet(backlog[p])
  BY <1>1 DEF FeedInv, FeedTypes, ThreadsInv, SendersInv, Clients, Maybe
<1>3. cur'[p] = None /\ \A x \in Procs : x # p => cur'[x] = cur[x]
  BY <1>1 DEF FeedInv, FeedTypes
<1>4. ToSet(backlog[p]) \subseteq Procs /\ None \notin ToSet(backlog[p])
  <2>1. backlog[p] \in Seq(Procs)
    BY DEF FeedInv, FeedTypes
  <2>2. ToSet(backlog[p]) \subseteq Procs
    BY <2>1 DEF ToSet
  <2> QED
    BY <2>2, NoneAssumption
<1>5. Clients(p)' = ToSet(backlog[p]) /\ \A x \in Procs : Clients(x)' \subseteq Clients(x)
  BY <1>1, <1>3 DEF Clients
<1>6. LineInv'
  BY <1>1 DEF FeedInv, LineInv
<1>7. CASE Decodes(q)
  <2>1. lst' = [lst EXCEPT ![p] = "post"] /\ posting' = [posting EXCEPT ![p].listener = LaunchEvents(q)]
        /\ q \in sent
    BY <1>7 DEF ReadClient, Listen, Decodes
  <2>2. lst'[p] = "post" /\ \A x \in Procs : x # p => lst'[x] = lst[x]
    BY <1>0, <2>1
  <2>3. /\ posting'[p].listener = LaunchEvents(q) /\ posting'[p].main = posting[p].main
        /\ \A x \in Procs : x # p => posting'[x] = posting[x]
    BY <2>1 DEF FeedInv, FeedTypes
  <2>4. /\ LaunchEvents(q) \in Seq(Event) /\ IsInjective(LaunchEvents(q))
        /\ \A e \in ToSet(LaunchEvents(q)) : e.from = q
    BY <1>2, LaunchFacts
  <2> HIDE DEF q
  <2>5. FeedTypes'
    BY <1>1, <2>1, <2>4 DEF FeedInv, FeedTypes, Maybe
  <2>6. ThreadsInv'
    BY <1>1, <1>3, <2>2, <2>3 DEF FeedInv, ThreadsInv
  <2>7. SendersInv'
    <3>1. \A x \in Procs : IsInjective(backlog[x])' /\ (cur[x] \notin ToSet(backlog[x]))'
      BY <1>1, <1>3, <1>4 DEF FeedInv, SendersInv
    <3>2. ASSUME NEW x \in Procs, NEW c \in Clients(x)'
          PROVE  /\ pc[c] \in {"write", "done", "dead"}
                 /\ \A e \in ToSet(arrived[x]) \cup ToSet(posting'[x].listener) : e.from # c
      <4>1. c \in Clients(x)
        BY <1>5, <3>2
      <4>2. x = p => c # q
        BY <1>2, <1>5, <3>2
      <4> QED
        BY <4>1, <4>2, <2>3, <2>4 DEF FeedInv, SendersInv
    <3> QED
      BY <3>1, <3>2, <1>1 DEF FeedInv, SendersInv
  <2>8. PostsInv'
    <3>1. \A e \in ToSet(arrived[p]) : e.from # q
      BY <1>2 DEF FeedInv, SendersInv
    <3> QED
      BY <1>1, <2>1, <2>3, <2>4, <3>1 DEF FeedInv, PostsInv
  <2> QED
    BY <1>6, <2>5, <2>6, <2>7, <2>8 DEF FeedInv
<1>8. CASE ~Decodes(q)
  <2>1. lst' = [lst EXCEPT ![p] = "accept"] /\ UNCHANGED posting
    BY <1>8 DEF ReadClient, Listen
  <2>2. lst'[p] = "accept" /\ \A x \in Procs : x # p => lst'[x] = lst[x]
    BY <1>0, <2>1
  <2>5. FeedTypes'
    BY <1>1, <2>1 DEF FeedInv, FeedTypes, Maybe
  <2>6. ThreadsInv'
    BY <1>1, <1>2, <1>3, <2>1, <2>2 DEF FeedInv, ThreadsInv
  <2>7. SendersInv'
    BY <1>1, <1>3, <1>4, <1>5, <2>1 DEF FeedInv, SendersInv
  <2>8. PostsInv'
    BY <1>1, <2>1 DEF FeedInv, PostsInv
  <2> QED
    BY <1>6, <2>5, <2>6, <2>7, <2>8 DEF FeedInv
<1> QED
  BY <1>7, <1>8

\* What a post does: the event is new, and goes to the end of the queue.
LEMMA FeedPosted ==
  ASSUME NEW p \in Procs, FeedInv, NEW e \in Event, e \notin ToSet(arrived[p]), e.from \in sent \cup {p},
         queue' = [queue EXCEPT ![p] = Append(@, e)], arrived' = [arrived EXCEPT ![p] = Append(@, e)],
         UNCHANGED <<sent, listening, waiting, handled, dropped>>
  PROVE  /\ LineInv' /\ arrived'[p] = Append(arrived[p], e)
         /\ queue' \in [Procs -> Seq(Event)] /\ arrived' \in [Procs -> Seq(Event)]
         /\ ToSet(arrived'[p]) = ToSet(arrived[p]) \cup {e} /\ IsInjective(arrived'[p])
         /\ \A x \in Procs : x # p => arrived'[x] = arrived[x]
<1>1. /\ arrived'[p] = Append(arrived[p], e) /\ queue'[p] = Append(queue[p], e)
      /\ \A x \in Procs : x # p => arrived'[x] = arrived[x] /\ queue'[x] = queue[x]
      /\ arrived[p] \in Seq(Event) /\ queue[p] \in Seq(Event)
      /\ queue' \in [Procs -> Seq(Event)] /\ arrived' \in [Procs -> Seq(Event)]
  BY DEF FeedInv, FeedTypes
<1>2. ToSet(Append(arrived[p], e)) = ToSet(arrived[p]) \cup {e} /\ IsInjective(Append(arrived[p], e))
  BY <1>1, AppendFacts, InjectiveFacts DEF FeedInv, PostsInv
<1>3. LineInv'
  <2> SUFFICES ASSUME NEW x \in Procs, NEW k \in Kinds
               PROVE  /\ InLine(handled[x], waiting[x][k], queue'[x], arrived'[x], dropped[x], k)
                      /\ k \in listening[x] => waiting[x][k] = <<>>
    BY DEF LineInv
  <2>1. /\ InLine(handled[x], waiting[x][k], queue[x], arrived[x], dropped[x], k)
        /\ k \in listening[x] => waiting[x][k] = <<>>
    BY DEF FeedInv, LineInv
  <2>2. CASE x = p
    <3>1. /\ handled[p] \in Seq(Event) /\ waiting[p][k] \in Seq(Event)
          /\ dropped[p] \in SUBSET Event
      BY DEF FeedInv, FeedTypes
    <3> QED
      BY <1>1, <2>1, <2>2, <3>1, LinePost
  <2>3. CASE x # p
    BY <1>1, <2>1, <2>3
  <2> QED
    BY <2>2, <2>3
<1> QED
  BY <1>1, <1>2, <1>3

\* The main thread posts its own argv, then runs the script.
LEMMA FeedPostOwn == ASSUME NEW p \in Procs, IInv, FeedInv, PostOwn(p) PROVE FeedInv'
<1>0. pc \in [Procs -> MainLabels]
  BY DEF IInv, LockTypes
<1>1. /\ pc[p] = "argv" /\ p \notin sent
      /\ UNCHANGED <<lst, backlog, cur, sent, listening, waiting, handled, dropped>>
  BY DEF PostOwn, sockVars, appVars, FeedInv, SendersInv
<1>2. CASE Post(p, "main") /\ UNCHANGED pc
  <2> DEFINE m == posting[p].main
             e == Head(m)
  <2>1. /\ m # <<>> /\ queue' = [queue EXCEPT ![p] = Append(@, e)]
        /\ arrived' = [arrived EXCEPT ![p] = Append(@, e)]
        /\ posting' = [posting EXCEPT ![p].main = Tail(@)] /\ m \in Seq(Event)
    BY <1>2 DEF Post, FeedInv, FeedTypes
  <2>2. /\ posting'[p].main = Tail(m) /\ posting'[p].listener = posting[p].listener
        /\ \A x \in Procs : x # p => posting'[x] = posting[x]
    BY <2>1 DEF FeedInv, FeedTypes
  <2>3. /\ e \in Event /\ Tail(m) \in Seq(Event) /\ ToSet(m) = {e} \cup ToSet(Tail(m))
        /\ IsInjective(Tail(m)) /\ e \notin ToSet(Tail(m))
    BY <2>1, TailFacts, InjectiveFacts DEF FeedInv, PostsInv
  <2>4. e.from = p /\ e \notin ToSet(arrived[p])
    BY <2>3 DEF FeedInv, PostsInv
  <2> HIDE DEF m, e
  <2>5. /\ LineInv' /\ arrived'[p] = Append(arrived[p], e)
        /\ queue' \in [Procs -> Seq(Event)] /\ arrived' \in [Procs -> Seq(Event)]
        /\ ToSet(arrived'[p]) = ToSet(arrived[p]) \cup {e} /\ IsInjective(arrived'[p])
        /\ \A x \in Procs : x # p => arrived'[x] = arrived[x]
    BY <1>1, <2>1, <2>3, <2>4, FeedPosted
  <2>6. FeedTypes'
    <3>1. [posting[p] EXCEPT !.main = Tail(@)] \in [listener : Seq(Event), main : Seq(Event)]
      BY <2>3 DEF FeedInv, FeedTypes, m
    <3>2. posting' \in [Procs -> [listener : Seq(Event), main : Seq(Event)]]
      BY <2>1, <3>1 DEF FeedInv, FeedTypes
    <3> QED
      BY <1>1, <2>5, <3>2 DEF FeedInv, FeedTypes
  <2>7. ThreadsInv'
    BY <1>1, <1>2, <2>2, <2>5 DEF FeedInv, ThreadsInv
  <2>8. SendersInv'
    <3>1. \A x \in Procs : Clients(x)' = Clients(x)
      BY <1>1 DEF Clients
    <3>2. p \notin Clients(p)
      BY <1>1 DEF FeedInv, SendersInv
    <3>3. \A x \in Procs : posting'[x].listener = posting[x].listener
      BY <2>2
    <3>4. ASSUME NEW x \in Procs, NEW c \in Clients(x), NEW d \in ToSet(arrived'[x])
          PROVE  d.from # c
      <4>1. d \in ToSet(arrived[x]) \/ (x = p /\ d = e)
        BY <2>5
      <4> QED
        BY <4>1, <2>4, <3>2 DEF FeedInv, SendersInv
    <3> QED
      BY <1>1, <1>2, <3>1, <3>3, <3>4 DEF FeedInv, SendersInv
  <2>9. PostsInv'
    <3>1. \A x \in Procs : x # p => arrived'[x] = arrived[x] /\ posting'[x] = posting[x]
      BY <2>2, <2>5
    <3>2. /\ \A d \in ToSet(Tail(m)) : d.from = p /\ d \notin ToSet(arrived'[p])
          /\ \A d \in ToSet(posting[p].listener) : d.from \in sent /\ d \notin ToSet(arrived'[p])
          /\ \A d \in ToSet(arrived'[p]) : d.from \in sent \cup {p}
      BY <1>1, <2>3, <2>4, <2>5 DEF FeedInv, PostsInv, m
    <3> QED
      BY <1>1, <2>2, <2>3, <2>5, <3>1, <3>2 DEF FeedInv, PostsInv
  <2> QED
    BY <2>5, <2>6, <2>7, <2>8, <2>9 DEF FeedInv
<1>3. CASE posting[p].main = <<>> /\ Goto(p, "run") /\ UNCHANGED postVars
  <2>1. pc'[p] = "run" /\ \A q \in Procs : q # p => pc'[q] = pc[q]
    BY <1>0, <1>3 DEF Goto
  <2>2. UNCHANGED <<posting, queue, arrived>>
    BY <1>3 DEF postVars
  <2>3. FeedTypes' /\ PostsInv' /\ LineInv'
    BY <1>1, <2>2 DEF FeedInv, FeedTypes, PostsInv, LineInv
  <2>4. ThreadsInv'
    BY <1>1, <1>3, <2>1, <2>2 DEF FeedInv, ThreadsInv
  <2>5. SendersInv'
    <3>1. \A x \in Procs : Clients(x)' = Clients(x) /\ Clients(x) \subseteq Procs
      BY <1>1 DEF Clients, FeedInv, FeedTypes, Maybe, ToSet
    <3>2. \A x \in Procs : p \notin Clients(x)
      BY <1>1 DEF FeedInv, SendersInv
    <3>3. \A q \in sent : pc'[q] = "done"
      BY <1>1, <2>1 DEF FeedInv, FeedTypes, SendersInv
    <3> QED
      BY <1>1, <2>1, <2>2, <3>1, <3>2, <3>3 DEF FeedInv, SendersInv
  <2> QED
    BY <2>3, <2>4, <2>5 DEF FeedInv
<1> QED
  BY <1>2, <1>3 DEF PostOwn

\* The listener posts the launch it read, then accepts the next client.
LEMMA FeedPostEvents == ASSUME NEW p \in Procs, IInv, FeedInv, PostEvents(p) PROVE FeedInv'
<1>1. lst[p] = "post" /\ UNCHANGED <<pc, backlog, cur, sent, appVars>>
  BY DEF PostEvents
<1>2. CASE Post(p, "listener") /\ UNCHANGED lst
  <2> DEFINE m == posting[p].listener
             e == Head(m)
  <2>1. /\ m # <<>> /\ queue' = [queue EXCEPT ![p] = Append(@, e)]
        /\ arrived' = [arrived EXCEPT ![p] = Append(@, e)]
        /\ posting' = [posting EXCEPT ![p].listener = Tail(@)] /\ m \in Seq(Event)
    BY <1>2 DEF Post, FeedInv, FeedTypes
  <2>2. /\ posting'[p].listener = Tail(m) /\ posting'[p].main = posting[p].main
        /\ \A x \in Procs : x # p => posting'[x] = posting[x]
    BY <2>1 DEF FeedInv, FeedTypes
  <2>3. /\ e \in Event /\ Tail(m) \in Seq(Event) /\ ToSet(m) = {e} \cup ToSet(Tail(m))
        /\ IsInjective(Tail(m)) /\ e \notin ToSet(Tail(m))
    BY <2>1, TailFacts, InjectiveFacts DEF FeedInv, PostsInv
  <2>4. e.from \in sent /\ e \notin ToSet(arrived[p])
    BY <2>3 DEF FeedInv, PostsInv
  <2>10. p \notin sent /\ pc[p] \in {"argv", "run"}
    BY <1>1 DEF FeedInv, ThreadsInv, SendersInv
  <2> HIDE DEF m, e
  <2>5. /\ LineInv' /\ arrived'[p] = Append(arrived[p], e)
        /\ queue' \in [Procs -> Seq(Event)] /\ arrived' \in [Procs -> Seq(Event)]
        /\ ToSet(arrived'[p]) = ToSet(arrived[p]) \cup {e} /\ IsInjective(arrived'[p])
        /\ \A x \in Procs : x # p => arrived'[x] = arrived[x]
    BY <1>1, <2>1, <2>3, <2>4, FeedPosted DEF appVars
  <2>6. FeedTypes'
    <3>1. [posting[p] EXCEPT !.listener = Tail(@)] \in [listener : Seq(Event), main : Seq(Event)]
      BY <2>3 DEF FeedInv, FeedTypes, m
    <3>2. posting' \in [Procs -> [listener : Seq(Event), main : Seq(Event)]]
      BY <2>1, <3>1 DEF FeedInv, FeedTypes
    <3> QED
      BY <1>1, <2>5, <3>2 DEF FeedInv, FeedTypes, appVars
  <2>7. ThreadsInv'
    BY <1>1, <1>2, <2>2, <2>5, <2>10 DEF FeedInv, ThreadsInv
  <2>8. SendersInv'
    <3>1. \A x \in Procs : Clients(x)' = Clients(x)
      BY <1>1 DEF Clients
    <3>2. ToSet(arrived'[p]) \cup ToSet(posting'[p].listener) = ToSet(arrived[p]) \cup ToSet(posting[p].listener)
      BY <2>2, <2>3, <2>5 DEF m
    <3>3. \A x \in Procs : ToSet(arrived'[x]) \cup ToSet(posting'[x].listener)
                             = ToSet(arrived[x]) \cup ToSet(posting[x].listener)
      BY <2>2, <2>5, <3>2
    <3> QED
      BY <1>1, <3>1, <3>3 DEF FeedInv, SendersInv
  <2>9. PostsInv'
    <3>1. \A x \in Procs : x # p => arrived'[x] = arrived[x] /\ posting'[x] = posting[x]
      BY <2>2, <2>5
    <3>2. /\ \A d \in ToSet(Tail(m)) : d.from \in sent /\ d \notin ToSet(arrived'[p])
          /\ \A d \in ToSet(posting[p].main) : d.from = p /\ d \notin ToSet(arrived'[p])
          /\ \A d \in ToSet(arrived'[p]) : d.from \in sent \cup {p}
      BY <1>1, <2>3, <2>4, <2>5, <2>10 DEF FeedInv, PostsInv, m
    <3> QED
      BY <1>1, <2>2, <2>3, <2>5, <3>1, <3>2 DEF FeedInv, PostsInv
  <2> QED
    BY <2>5, <2>6, <2>7, <2>8, <2>9 DEF FeedInv
<1>3. CASE posting[p].listener = <<>> /\ Listen(p, "accept") /\ UNCHANGED postVars
  BY <1>1, <1>3, FeedListener
<1> QED
  BY <1>2, <1>3 DEF PostEvents

\* A step of the script's thread: only the line of its process moves.
LEMMA FeedScript ==
  ASSUME NEW p \in Procs, FeedInv,
         UNCHANGED <<pc, lst, backlog, cur, sent, posting, arrived>>,
         FeedTypes',
         \A x \in Procs : x # p =>
           /\ handled'[x] = handled[x] /\ waiting'[x] = waiting[x] /\ queue'[x] = queue[x]
           /\ dropped'[x] = dropped[x] /\ listening'[x] = listening[x],
         \A k \in Kinds :
           /\ InLine(handled'[p], waiting'[p][k], queue'[p], arrived[p], dropped'[p], k)
           /\ k \in listening'[p] => waiting'[p][k] = <<>>
  PROVE  FeedInv'
<1>1. ThreadsInv' /\ PostsInv'
  BY DEF FeedInv, ThreadsInv, PostsInv
<1>2. SendersInv'
  BY DEF FeedInv, SendersInv, Clients
<1>3. LineInv'
  BY DEF FeedInv, LineInv
<1> QED
  BY <1>1, <1>2, <1>3 DEF FeedInv

\* The types of what a process keeps for its script.
LEMMA ScriptTypes ==
  ASSUME NEW p \in Procs, FeedInv
  PROVE  /\ handled[p] \in Seq(Event) /\ queue[p] \in Seq(Event) /\ arrived[p] \in Seq(Event)
         /\ waiting[p] \in [Kinds -> Seq(Event)] /\ \A k \in Kinds : waiting[p][k] \in Seq(Event)
         /\ dropped[p] \in SUBSET Event /\ listening[p] \in SUBSET Kinds
  BY DEF FeedInv, FeedTypes

\* emit: the head of the queue is delivered or buffered.
LEMMA FeedPump == ASSUME NEW p \in Procs, FeedInv, Pump(p) PROVE FeedInv'
<1> DEFINE e == Head(queue[p])
<1>1. /\ queue[p] # <<>> /\ queue' = [queue EXCEPT ![p] = Tail(@)]
      /\ UNCHANGED <<pc, lst, backlog, cur, sent, posting, arrived, listening, dropped>>
  BY DEF Pump, sockVars
<1>2. /\ handled[p] \in Seq(Event) /\ queue[p] \in Seq(Event) /\ arrived[p] \in Seq(Event)
      /\ waiting[p] \in [Kinds -> Seq(Event)] /\ \A k \in Kinds : waiting[p][k] \in Seq(Event)
      /\ dropped[p] \in SUBSET Event
  BY ScriptTypes
<1>3. e \in Event /\ e.kind \in Kinds /\ Tail(queue[p]) \in Seq(Event)
  <2>1. e \in Event /\ Tail(queue[p]) \in Seq(Event)
    BY <1>1, <1>2, TailFacts
  <2>2. \A d \in Event : d.kind \in Kinds
    BY DEF Event
  <2> QED
    BY <2>1, <2>2
<1>4. /\ queue'[p] = Tail(queue[p]) /\ \A x \in Procs : x # p => queue'[x] = queue[x]
      /\ queue' \in [Procs -> Seq(Event)]
  BY <1>1, <1>3 DEF FeedInv, FeedTypes
<1>5. \A k \in Kinds :
        /\ InLine(handled[p], waiting[p][k], queue[p], arrived[p], dropped[p], k)
        /\ k \in listening[p] => waiting[p][k] = <<>>
  BY DEF FeedInv, LineInv
<1>6. CASE e.kind \in listening[p]
  <2>1. handled' = [handled EXCEPT ![p] = Append(@, e)] /\ UNCHANGED waiting
    BY <1>6 DEF Pump
  <2>2. /\ handled'[p] = Append(handled[p], e) /\ \A x \in Procs : x # p => handled'[x] = handled[x]
        /\ handled' \in [Procs -> Seq(Event)]
    BY <1>3, <2>1 DEF FeedInv, FeedTypes
  <2>3. FeedTypes'
    BY <1>1, <1>4, <2>1, <2>2 DEF FeedInv, FeedTypes
  <2>4. ASSUME NEW k \in Kinds
        PROVE  InLine(handled'[p], waiting'[p][k], queue'[p], arrived[p], dropped'[p], k)
    <3>1. Head(queue[p]).kind = k => waiting[p][k] = <<>>
      BY <1>5, <1>6
    <3>2. InLine(Append(handled[p], Head(queue[p])), waiting[p][k], Tail(queue[p]), arrived[p], dropped[p], k)
      BY <1>1, <1>2, <1>5, <3>1, LineDeliver
    <3> QED
      BY <1>1, <1>4, <2>1, <2>2, <3>2
  <2> HIDE DEF e
  <2> QED
    BY <1>1, <1>4, <1>5, <2>1, <2>2, <2>3, <2>4, FeedScript
<1>7. CASE e.kind \notin listening[p]
  <2>1. waiting' = [waiting EXCEPT ![p][e.kind] = Append(@, e)] /\ UNCHANGED handled
    BY <1>7 DEF Pump
  <2>2. /\ waiting'[p] = [waiting[p] EXCEPT ![e.kind] = Append(@, e)]
        /\ \A x \in Procs : x # p => waiting'[x] = waiting[x]
    BY <2>1 DEF FeedInv, FeedTypes
  <2>3. /\ waiting'[p][e.kind] = Append(waiting[p][e.kind], e)
        /\ \A k \in Kinds : k # e.kind => waiting'[p][k] = waiting[p][k]
    BY <1>2, <1>3, <2>2
  <2>4. FeedTypes'
    <3>1. Append(waiting[p][e.kind], e) \in Seq(Event)
      BY <1>2, <1>3, AppendFacts
    <3>2. [waiting[p] EXCEPT ![e.kind] = Append(@, e)] \in [Kinds -> Seq(Event)]
      BY <1>2, <3>1
    <3>3. waiting' \in [Procs -> [Kinds -> Seq(Event)]]
      BY <2>1, <3>2 DEF FeedInv, FeedTypes
    <3> QED
      BY <1>1, <1>4, <2>1, <3>3 DEF FeedInv, FeedTypes
  <2>5. ASSUME NEW k \in Kinds
        PROVE  /\ InLine(handled'[p], waiting'[p][k], queue'[p], arrived[p], dropped'[p], k)
               /\ k \in listening'[p] => waiting'[p][k] = <<>>
    <3>1. CASE e.kind = k
      <4>1. InLine(handled[p], Append(waiting[p][k], Head(queue[p])), Tail(queue[p]), arrived[p], dropped[p], k)
        BY <1>1, <1>2, <1>5, <3>1, LineWait
      <4> QED
        BY <1>1, <1>4, <1>7, <2>1, <2>3, <3>1, <4>1
    <3>2. CASE e.kind # k
      <4>1. InLine(handled[p], waiting[p][k], Tail(queue[p]), arrived[p], dropped[p], k)
        BY <1>1, <1>2, <1>5, <3>2, LineOther
      <4> QED
        BY <1>1, <1>4, <1>5, <2>1, <2>3, <3>2, <4>1
    <3> QED
      BY <3>1, <3>2
  <2> HIDE DEF e
  <2> QED
    BY <1>1, <1>4, <2>1, <2>2, <2>4, <2>5, FeedScript
<1> QED
  BY <1>6, <1>7

\* on: the buffered events go to the new listener.
LEMMA FeedOn == ASSUME NEW p \in Procs, FeedInv, NEW k \in Kinds, On(p, k) PROVE FeedInv'
<1> DEFINE w == waiting[p][k]
<1>1. /\ listening' = [listening EXCEPT ![p] = @ \cup {k}] /\ waiting' = [waiting EXCEPT ![p][k] = <<>>]
      /\ UNCHANGED <<pc, lst, backlog, cur, sent, posting, queue, arrived>>
  BY DEF On, sockVars, postVars
<1>2. /\ handled[p] \in Seq(Event) /\ queue[p] \in Seq(Event) /\ arrived[p] \in Seq(Event)
      /\ waiting[p] \in [Kinds -> Seq(Event)] /\ \A j \in Kinds : waiting[p][j] \in Seq(Event)
      /\ dropped[p] \in SUBSET Event /\ IsInjective(arrived[p])
  BY ScriptTypes DEF FeedInv, PostsInv
<1>3. PICK n \in 0..Len(w) :
        /\ handled' = [handled EXCEPT ![p] = @ \o SubSeq(w, 1, n)]
        /\ dropped' = [dropped EXCEPT ![p] = @ \cup ToSet(SubSeq(w, n + 1, Len(w)))]
  BY DEF On
<1> DEFINE v == SubSeq(w, 1, n)
           D == ToSet(SubSeq(w, n + 1, Len(w)))
<1>4. \A j \in Kinds :
        /\ InLine(handled[p], waiting[p][j], queue[p], arrived[p], dropped[p], j)
        /\ j \in listening[p] => waiting[p][j] = <<>>
  BY DEF FeedInv, LineInv
<1>5. /\ InLine(handled[p] \o v, <<>>, queue[p], arrived[p], dropped[p] \cup D, k)
      /\ D \subseteq ToSet(arrived[p]) /\ \A e \in ToSet(w) : e.kind = k
  <2>1. w \in Seq(Event) /\ InLine(handled[p], w, queue[p], arrived[p], dropped[p], k)
    BY <1>2, <1>4
  <2>2. Halves(w, v, D)
    BY <1>2, HalvesFacts
  <2>3. /\ handled[p] \in Seq(Event) /\ queue[p] \in Seq(Event) /\ arrived[p] \in Seq(Event)
        /\ dropped[p] \in SUBSET Event /\ IsInjective(arrived[p])
    BY <1>2
  <2> HIDE DEF w, v, D
  <2>4. InLine(handled[p] \o v, <<>>, queue[p], arrived[p], dropped[p] \cup D, k)
    BY <2>1, <2>2, <2>3, LineOn
  <2>5. D \subseteq ToSet(arrived[p])
    BY <2>1, <2>2, <2>3, LineOn
  <2>6. \A e \in ToSet(w) : e.kind = k
    BY <2>1 DEF InLine, ToSet
  <2> QED
    BY <2>4, <2>5, <2>6
<1>6. v \in Seq(Event) /\ ToSet(w) = ToSet(v) \cup D
  BY <1>2, HalvesFacts DEF Halves
<1>7. handled[p] \o v \in Seq(Event) /\ D \subseteq Event
  <2>1. ToSet(arrived[p]) \subseteq Event
    BY <1>2 DEF ToSet
  <2> QED
    BY <1>2, <1>5, <1>6, <2>1, ConcatFacts
<1> HIDE DEF v, D, w
<1>8. /\ handled'[p] = handled[p] \o v /\ dropped'[p] = dropped[p] \cup D
      /\ \A x \in Procs : x # p => handled'[x] = handled[x] /\ dropped'[x] = dropped[x]
      /\ handled' \in [Procs -> Seq(Event)] /\ dropped' \in [Procs -> SUBSET Event]
  BY <1>2, <1>3, <1>7 DEF FeedInv, FeedTypes, v, D
<1>9. /\ waiting'[p] = [waiting[p] EXCEPT ![k] = <<>>] /\ listening'[p] = listening[p] \cup {k}
      /\ \A x \in Procs : x # p => waiting'[x] = waiting[x] /\ listening'[x] = listening[x]
      /\ listening' \in [Procs -> SUBSET Kinds]
  BY <1>1 DEF FeedInv, FeedTypes
<1>10. waiting'[p][k] = <<>> /\ \A j \in Kinds : j # k => waiting'[p][j] = waiting[p][j]
  BY <1>2, <1>9
<1>11. FeedTypes'
  <2>1. [waiting[p] EXCEPT ![k] = <<>>] \in [Kinds -> Seq(Event)]
    BY <1>2
  <2>2. waiting' \in [Procs -> [Kinds -> Seq(Event)]]
    BY <1>1, <2>1 DEF FeedInv, FeedTypes
  <2> QED
    BY <1>1, <1>8, <1>9, <2>2 DEF FeedInv, FeedTypes
<1>12. ASSUME NEW j \in Kinds
       PROVE  /\ InLine(handled'[p], waiting'[p][j], queue'[p], arrived[p], dropped'[p], j)
              /\ j \in listening'[p] => waiting'[p][j] = <<>>
  <2>1. CASE j = k
    BY <1>1, <1>5, <1>8, <1>10, <2>1
  <2>2. CASE j # k
    <3>1. InLine(handled[p] \o v, waiting[p][j], queue[p], arrived[p], dropped[p] \cup D, j)
      BY <1>2, <1>4, <1>5, <1>6, <2>2, LineOnOther
    <3> QED
      BY <1>1, <1>4, <1>8, <1>9, <1>10, <2>2, <3>1
  <2> QED
    BY <2>1, <2>2
<1> QED
  BY <1>1, <1>8, <1>9, <1>11, <1>12, FeedScript

\* The disposer.
LEMMA FeedOff == ASSUME NEW p \in Procs, FeedInv, NEW k \in Kinds, Off(p, k) PROVE FeedInv'
<1>1. /\ listening' = [listening EXCEPT ![p] = @ \ {k}]
      /\ UNCHANGED <<pc, lst, backlog, cur, sent, posting, arrived, queue, waiting, handled, dropped>>
  BY DEF Off, sockVars, postVars
<1>2. /\ listening'[p] = listening[p] \ {k} /\ \A x \in Procs : x # p => listening'[x] = listening[x]
      /\ listening' \in [Procs -> SUBSET Kinds]
  BY <1>1 DEF FeedInv, FeedTypes
<1>3. FeedTypes'
  BY <1>1, <1>2 DEF FeedInv, FeedTypes
<1>4. \A j \in Kinds :
        /\ InLine(handled'[p], waiting'[p][j], queue'[p], arrived[p], dropped'[p], j)
        /\ j \in listening'[p] => waiting'[p][j] = <<>>
  BY <1>1, <1>2 DEF FeedInv, LineInv
<1> QED
  BY <1>1, <1>2, <1>3, <1>4, FeedScript

\* A death takes the listener and all that it had with it.
LEMMA FeedDie == ASSUME NEW p \in Procs, IInv, FeedInv, Die(p) PROVE FeedInv'
<1>0. pc \in [Procs -> MainLabels] /\ lst \in [Procs -> ListenerLabels]
  BY DEF IInv, LockTypes
<1>1. /\ pc[p] \notin {"done", "dead"} /\ pc' = [pc EXCEPT ![p] = "dead"] /\ lst' = [lst EXCEPT ![p] = "off"]
      /\ UNCHANGED sent
  BY DEF Die, Goto, Listen
<1>2. /\ backlog' = [backlog EXCEPT ![p] = <<>>] /\ cur' = [cur EXCEPT ![p] = None]
      /\ posting' = [posting EXCEPT ![p] = [listener |-> <<>>, main |-> <<>>]]
      /\ queue' = [queue EXCEPT ![p] = <<>>] /\ listening' = [listening EXCEPT ![p] = {}]
      /\ waiting' = [waiting EXCEPT ![p] = [k \in Kinds |-> <<>>]]
      /\ handled' = [handled EXCEPT ![p] = <<>>] /\ arrived' = [arrived EXCEPT ![p] = <<>>]
      /\ dropped' = [dropped EXCEPT ![p] = {}]
  BY DEF Die
<1>3. FeedTypes'
  BY <1>1, <1>2 DEF FeedInv, FeedTypes, Maybe
<1>4. /\ pc'[p] = "dead" /\ lst'[p] = "off" /\ backlog'[p] = <<>> /\ cur'[p] = None
      /\ posting'[p].listener = <<>> /\ posting'[p].main = <<>> /\ queue'[p] = <<>>
      /\ listening'[p] = {} /\ handled'[p] = <<>> /\ arrived'[p] = <<>> /\ dropped'[p] = {}
      /\ \A k \in Kinds : waiting'[p][k] = <<>>
  BY <1>0, <1>1, <1>2 DEF FeedInv, FeedTypes
<1>5. \A x \in Procs : x # p =>
        /\ pc'[x] = pc[x] /\ lst'[x] = lst[x] /\ backlog'[x] = backlog[x] /\ cur'[x] = cur[x]
        /\ posting'[x] = posting[x] /\ queue'[x] = queue[x] /\ listening'[x] = listening[x]
        /\ handled'[x] = handled[x] /\ arrived'[x] = arrived[x] /\ dropped'[x] = dropped[x]
        /\ waiting'[x] = waiting[x]
  BY <1>0, <1>1, <1>2 DEF FeedInv, FeedTypes
<1>6. ToSet(<<>>) = {} /\ IsInjective(<<>>)
  BY DEF ToSet, IsInjective
<1>7. ThreadsInv'
  BY <1>4, <1>5 DEF FeedInv, ThreadsInv
<1>8. SendersInv'
  <2>1. \A q \in sent : q \in Procs /\ q # p
    BY <1>1 DEF FeedInv, FeedTypes, SendersInv
  <2>2. Clients(p)' = {} /\ \A x \in Procs : x # p => Clients(x)' = Clients(x)
    BY <1>4, <1>5, <1>6 DEF Clients
  <2>3. \A x \in Procs : Clients(x) \subseteq Procs
    BY DEF Clients, FeedInv, FeedTypes, Maybe, ToSet
  <2>4. ASSUME NEW x \in Procs, NEW q \in Clients(x)'
        PROVE  /\ pc'[q] \in {"write", "done", "dead"}
               /\ \A e \in ToSet(arrived'[x]) \cup ToSet(posting'[x].listener) : e.from # q
    <3>1. x # p /\ q \in Clients(x) /\ q \in Procs
      BY <2>2, <2>3, <2>4
    <3> QED
      BY <1>4, <1>5, <3>1 DEF FeedInv, SendersInv
  <2>5. \A x \in Procs : IsInjective(backlog'[x]) /\ cur'[x] \notin ToSet(backlog'[x])
    BY <1>4, <1>5, <1>6 DEF FeedInv, SendersInv
  <2>6. \A q \in sent' : pc'[q] = "done"
    BY <1>1, <1>5, <2>1 DEF FeedInv, SendersInv
  <2> QED
    BY <2>4, <2>5, <2>6 DEF SendersInv
<1>9. PostsInv'
  <2> SUFFICES ASSUME NEW x \in Procs
      PROVE /\ IsInjective(arrived'[x]) /\ IsInjective(posting'[x].main) /\ IsInjective(posting'[x].listener)
            /\ \A e \in ToSet(posting'[x].main) : e.from = x /\ e \notin ToSet(arrived'[x])
            /\ \A e \in ToSet(posting'[x].listener) : e.from \in sent /\ e \notin ToSet(arrived'[x])
            /\ \A e \in ToSet(arrived'[x]) : e.from \in sent \cup {x}
    BY <1>1 DEF PostsInv
  <2>1. CASE x = p
    BY <1>4, <1>6, <2>1
  <2>2. CASE x # p
    BY <1>5, <2>2 DEF FeedInv, PostsInv
  <2> QED
    BY <2>1, <2>2
<1>10. LineInv'
  <2> SUFFICES ASSUME NEW x \in Procs, NEW k \in Kinds
      PROVE /\ InLine(handled'[x], waiting'[x][k], queue'[x], arrived'[x], dropped'[x], k)
            /\ k \in listening'[x] => waiting'[x][k] = <<>>
    BY DEF LineInv
  <2>1. CASE x = p
    BY <1>4, <2>1, LineEmpty
  <2>2. CASE x # p
    BY <1>5, <2>2 DEF FeedInv, LineInv
  <2> QED
    BY <2>1, <2>2
<1> QED
  BY <1>3, <1>7, <1>8, <1>9, <1>10 DEF FeedInv

\* Every step of every process keeps the events in line.
LEMMA FeedNext == IInv /\ FeedInv /\ [Next]_vars => FeedInv'
<1> SUFFICES ASSUME IInv, FeedInv, [Next]_vars PROVE FeedInv'
  OBVIOUS
<1>1. ASSUME NEW p \in Procs, LockStep(p) PROVE FeedInv'
  BY <1>1, FeedLock
<1>2. ASSUME NEW p \in Procs, MainStep(p) PROVE FeedInv'
  BY <1>2, FeedStart, FeedPostOwn, FeedConnect, FeedPayload, FeedPump DEF MainStep
<1>3. ASSUME NEW p \in Procs, ListenerStep(p) PROVE FeedInv'
  <2>1. ASSUME UnlinkSock(p) \/ Bind(p) \/ ListenSock(p) PROVE FeedInv'
    <3>1. PICK l \in {"bind", "listen", "failed", "accept"} : Listen(p, l)
      BY <2>1 DEF UnlinkSock, Bind, ListenSock
    <3>2. lst[p] \in {"unlink", "bind", "listen"} /\ UNCHANGED <<pc, backlog, cur, sent, appVars, postVars>>
      BY <2>1 DEF UnlinkSock, Bind, ListenSock
    <3>3. posting[p].listener = <<>>
      BY <3>2 DEF FeedInv, ThreadsInv
    <3> QED
      BY <3>1, <3>2, <3>3, FeedListener
  <2> QED
    BY <1>3, <2>1, FeedAccept, FeedRead, FeedPostEvents DEF ListenerStep
<1>4. ASSUME NEW p \in Procs, ScriptStep(p) PROVE FeedInv'
  BY <1>4, FeedOn, FeedOff DEF ScriptStep
<1>5. ASSUME NEW p \in Procs, Die(p) PROVE FeedInv'
  BY <1>5, FeedDie
<1>6. CASE UNCHANGED vars
  <2>1. UNCHANGED <<pc, lst, backlog, cur, sent, posting, arrived, queue, listening, waiting, handled, dropped>>
    BY <1>6 DEF vars, sockVars, appVars, postVars
  <2> QED
    BY <2>1 DEF FeedInv, FeedTypes, ThreadsInv, SendersInv, Clients, PostsInv, LineInv
<1> QED
  BY <1>1, <1>2, <1>3, <1>4, <1>5, <1>6 DEF Next

\* The two invariants together give the type invariant and the order.
LEMMA FeedOrder == IInv /\ FeedInv => EventsInOrder
<1> SUFFICES ASSUME IInv, FeedInv PROVE EventsInOrder
  OBVIOUS
<1>1. \A p \in Procs : Primary(p) \/ pc[p] \in {"flock", "truncate", "write_pid", "release"} => fd[p] # None
  BY NoneAssumption DEF IInv, StepInv, LockNamesPrimary
<1>2. TypeOK
  BY <1>1 DEF TypeOK, IInv, LockTypes, FeedInv, FeedTypes
<1>3. ASSUME NEW p \in Procs, NEW k \in Kinds
      PROVE  /\ {e \in ToSet(Line(p, k)) : e.kind = k} = {e \in ToSet(arrived[p]) : e.kind = k} \ dropped[p]
             /\ OrderedIn(Line(p, k), arrived[p], k)
  <2>1. /\ handled[p] \in Seq(Event) /\ queue[p] \in Seq(Event) /\ arrived[p] \in Seq(Event)
        /\ waiting[p][k] \in Seq(Event) /\ dropped[p] \in SUBSET Event
    BY ScriptTypes
  <2>2. InLine(handled[p], waiting[p][k], queue[p], arrived[p], dropped[p], k)
    BY DEF FeedInv, LineInv
  <2> QED
    BY <2>1, <2>2, LineWhole DEF Line
<1>4. \A p \in Procs : IsInjective(arrived[p]) /\ \A e \in ToSet(arrived[p]) : e.from \in sent \cup {p}
  BY DEF FeedInv, PostsInv
<1> QED
  BY <1>2, <1>3, <1>4 DEF EventsInOrder, OrderedIn

\* However many launches hand their argv over, whoever dies, and whenever the
\* script starts or stops listening: it sees the events of a kind in the order
\* they were posted, each at most once, and misses none but those behind a
\* listener that threw in `on`; a launch is posted only after its payload was
\* written to the end.
THEOREM EventsKeepOrder == Spec => []EventsInOrder
<1>1. Init => IInv /\ FeedInv
  BY InitInv, FeedInit
<1>2. IInv /\ FeedInv /\ [Next]_vars => (IInv /\ FeedInv)'
  BY NextInv, FeedNext
<1> QED
  BY <1>1, <1>2, FeedOrder, PTL DEF Spec

=============================================================================
