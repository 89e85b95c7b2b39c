---------------------------- MODULE UpdaterProofs ----------------------------
(***************************************************************************)
(* Proofs about the updater's files: HistoryUsable and UnreadyNotForgotten *)
(* for any versions, any cap of at least two and any number of operations, *)
(* crashes and failed file operations.  The invariant carries the facts    *)
(* about the history being written from the step that computes it to the   *)
(* steps that write it, prune by it and clear the first-launch flag.       *)
(***************************************************************************)
EXTENDS Updater, FiniteSetTheorems, FunctionTheorems, SequenceTheorems, TLAPS

-----------------------------------------------------------------------------
(* The inductive invariant. *)

NoneTwice(h) == \A i, k \in DOMAIN h : h[i] = h[k] => i = k

\* The types, with duplicates left out of the history in another form.
Types ==
    /\ dir \subseteq Versions /\ payload \subseteq dir /\ partial \subseteq dir
    /\ mark \in [Versions -> [Marks -> Content]]
    /\ history \in Seq(Versions) /\ Len(history) <= HistoryCap
    /\ next \in Seq(Versions) /\ Len(next) <= HistoryCap
    /\ flag \in {"none", "torn"} \cup Versions
    /\ pc \in Points /\ caller \in {"script", "apply", "boot"}
    /\ ver \in Versions \cup {None} /\ rolledFrom \in Versions \cup {None}
    /\ swap \in Versions \cup {None} /\ bootHead \in Versions \cup {None}
    /\ ops \in 0..MaxOps /\ crashes \in 0..MaxCrashes

NamesOnce == NoneTwice(history) /\ NoneTwice(next)

\* From the computation of `next` to the end of prune_old_updates.
Writing == {"rbMark", "rbMarker", "rbMarked", "histTrunc", "histWrite", "prune"}

\* The history about to be written names versions that have directories.
NextHasDirs == pc \in Writing => Range(next) \subseteq dir

\* The version an operation is about.
Target ==
    /\ pc \in {"stRemove", "stRename", "stMark", "stMarked"} => ver \in dir
    /\ pc \notin {"down", "running", "exiting", "clearFlag"} => ver \in Versions
    /\ pc = "rbMark" => Len(history) >= 2

\* Directories are removed, and the flag cleared, by what history.txt says.
Written == pc \in {"prune", "clearFlag", "exiting"} => history = next

\* A rollback at startup puts another version in front of the first one.
BootSwaps ==
    pc \in {"clearFlag", "exiting"} \/ (pc \in Writing /\ caller = "boot") =>
        Len(next) >= 2 /\ next[2] = bootHead /\ next[1] # bootHead

IInv ==
    /\ Types
    /\ NamesOnce
    /\ HistoryHasDirs
    /\ NextHasDirs
    /\ Target
    /\ Written
    /\ BootSwaps

-----------------------------------------------------------------------------
(* Histories. *)

\* What RemoveAt keeps.
LEMMA RemovedType ==
    ASSUME NEW T, NEW s \in Seq(T), NEW i \in DOMAIN s
    PROVE  LET r == RemoveAt(s, i) IN
           /\ r \in Seq(T)
           /\ \A k \in DOMAIN r : /\ k \in Nat
                                  /\ (IF k < i THEN k ELSE k + 1) \in DOMAIN s
                                  /\ r[k] = s[IF k < i THEN k ELSE k + 1]
  <1> DEFINE a == SubSeq(s, 1, i - 1)
             b == SubSeq(s, i + 1, Len(s))
             r == RemoveAt(s, i)
  <1>1. i \in 1..Len(s) /\ Len(s) \in Nat /\ DOMAIN s = 1..Len(s)
    BY LenProperties
  <1>2. /\ a \in Seq(T) /\ Len(a) = i - 1
        /\ \A k \in 1..(i - 1) : a[k] = s[k]
    <2>1. /\ a \in Seq(T)
          /\ Len(a) = IF 1 <= i - 1 THEN (i - 1) - 1 + 1 ELSE 0
          /\ \A k \in 1..((i - 1) - 1 + 1) : a[k] = s[1 + k - 1]
      BY <1>1, SubSeqProperties
    <2> QED
      BY <1>1, <2>1
  <1>3. /\ b \in Seq(T) /\ Len(b) = Len(s) - i
        /\ \A k \in 1..(Len(s) - i) : b[k] = s[k + i]
    <2>1. /\ b \in Seq(T)
          /\ Len(b) = IF i + 1 <= Len(s) THEN Len(s) - (i + 1) + 1 ELSE 0
          /\ \A k \in 1..(Len(s) - (i + 1) + 1) : b[k] = s[(i + 1) + k - 1]
      BY <1>1, SubSeqProperties
    <2> QED
      BY <1>1, <2>1
  <1>4. r = a \o b
    BY DEF RemoveAt
  <1> HIDE DEF a, b, r
  <1>5. /\ r \in Seq(T) /\ Len(r) = Len(a) + Len(b)
        /\ \A k \in 1..(Len(a) + Len(b)) : r[k] = IF k <= Len(a) THEN a[k] ELSE b[k - Len(a)]
    BY <1>2, <1>3, <1>4, ConcatProperties
  <1>6. DOMAIN r = 1..(Len(s) - 1)
    BY <1>1, <1>2, <1>3, <1>5, LenProperties
  <1>7. ASSUME NEW k \in DOMAIN r
        PROVE  /\ k \in Nat /\ (IF k < i THEN k ELSE k + 1) \in DOMAIN s
               /\ r[k] = s[IF k < i THEN k ELSE k + 1]
    <2>1. CASE k < i
      BY <1>1, <1>2, <1>3, <1>5, <1>6, <2>1
    <2>2. CASE k >= i
      <3>1. k \in 1..(Len(s) - 1) /\ k - (i - 1) \in 1..(Len(s) - i) /\ (k - (i - 1)) + i = k + 1
        BY <1>1, <1>6, <2>2
      <3>2. r[k] = b[k - (i - 1)]
        BY <1>1, <1>2, <1>3, <1>5, <2>2, <3>1
      <3> QED
        BY <1>1, <1>3, <2>2, <3>1, <3>2
    <2> QED
      BY <1>1, <1>6, <2>1, <2>2
  <1> QED
    BY <1>5, <1>7 DEF r

\* Cutting keeps a beginning, of two versions at least.
LEMMA CutFacts ==
    ASSUME NEW s \in Seq(Versions)
    PROVE  /\ Cut(s) \in Seq(Versions) /\ Len(Cut(s)) <= HistoryCap
           /\ \A i \in DOMAIN Cut(s) : i \in DOMAIN s /\ Cut(s)[i] = s[i]
           /\ Len(s) >= 2 => Len(Cut(s)) >= 2
  <1>1. Len(s) \in Nat /\ HistoryCap \in Nat /\ HistoryCap >= 2 /\ DOMAIN s = 1..Len(s)
    BY CapAssumption, LenProperties
  <1>2. CASE Len(s) <= HistoryCap
    BY <1>1, <1>2 DEF Cut
  <1>3. CASE ~(Len(s) <= HistoryCap)
    <2> DEFINE t == SubSeq(s, 1, HistoryCap)
    <2>1. /\ t \in Seq(Versions)
          /\ Len(t) = IF 1 <= HistoryCap THEN HistoryCap - 1 + 1 ELSE 0
          /\ \A i \in 1..(HistoryCap - 1 + 1) : t[i] = s[1 + i - 1]
      BY <1>1, <1>3, SubSeqProperties
    <2>2. Len(t) = HistoryCap /\ DOMAIN t = 1..HistoryCap
      BY <1>1, <2>1, LenProperties
    <2>3. \A i \in 1..HistoryCap : i \in 1..Len(s) /\ t[i] = s[i]
      BY <1>1, <1>3, <2>1
    <2>4. Cut(s) = t
      BY <1>3 DEF Cut
    <2> HIDE DEF t
    <2> QED
      BY <1>1, <2>1, <2>2, <2>3, <2>4
  <1> QED
    BY <1>2, <1>3

\* The other versions.
LEMMA WithoutFacts ==
    ASSUME history \in Seq(Versions), NoneTwice(history), NEW v \in Versions
    PROVE  /\ Without(v) \in Seq(Versions) /\ NoneTwice(Without(v))
           /\ \A k \in DOMAIN Without(v) : Without(v)[k] # v /\ Without(v)[k] \in Range(history)
  <1> DEFINE at == {i \in DOMAIN history : history[i] = v}
  <1>1. CASE at = {}
    <2>1. Without(v) = history
      BY <1>1 DEF Without
    <2>2. \A k \in DOMAIN history : history[k] # v
      BY <1>1
    <2> QED
      BY <2>1, <2>2 DEF Range
  <1>2. CASE at # {}
    <2> DEFINE i == CHOOSE i \in at : TRUE
               r == RemoveAt(history, i)
               pos(k) == IF k < i THEN k ELSE k + 1
    <2>1. i \in at
      BY <1>2
    <2>2. i \in DOMAIN history /\ history[i] = v
      BY <2>1
    <2>3. Without(v) = r
      BY <1>2 DEF Without
    <2> HIDE DEF i, at
    <2>4. i \in Nat
      BY <2>2, LenProperties
    <2>5. /\ r \in Seq(Versions)
          /\ \A k \in DOMAIN r : k \in Nat /\ pos(k) \in DOMAIN history /\ r[k] = history[pos(k)]
      BY <2>2, RemovedType
    <2>6. \A k, m \in DOMAIN r : pos(k) = pos(m) => k = m
      BY <2>4, <2>5
    <2>7. \A k \in DOMAIN r : pos(k) # i
      BY <2>4, <2>5
    <2> HIDE DEF r, pos
    <2>8. NoneTwice(r)
      BY <2>5, <2>6 DEF NoneTwice
    <2>9. \A k \in DOMAIN r : r[k] # v
      BY <2>2, <2>5, <2>7 DEF NoneTwice
    <2>10. \A k \in DOMAIN r : r[k] \in Range(history)
      BY <2>5 DEF Range
    <2> QED
      BY <2>3, <2>5, <2>8, <2>9, <2>10
  <1> QED
    BY <1>1, <1>2

\* What record_installed_version writes.
LEMMA InstalledFacts ==
    ASSUME history \in Seq(Versions), NoneTwice(history), NEW v \in Versions
    PROVE  /\ Installed(v) \in Seq(Versions) /\ Len(Installed(v)) <= HistoryCap
           /\ NoneTwice(Installed(v)) /\ Range(Installed(v)) \subseteq {v} \cup Range(history)
  <1> DEFINE w == Without(v)
             s == <<v>> \o w
  <1>1. /\ w \in Seq(Versions) /\ NoneTwice(w)
        /\ \A k \in DOMAIN w : w[k] # v /\ w[k] \in Range(history)
    BY WithoutFacts
  <1>2. Installed(v) = Cut(s)
    BY DEF Installed
  <1> HIDE DEF w
  <1>3. <<v>> \in Seq(Versions) /\ Len(<<v>>) = 1 /\ <<v>>[1] = v
    OBVIOUS
  <1>4. /\ s \in Seq(Versions) /\ Len(s) = 1 + Len(w) /\ Len(w) \in Nat /\ DOMAIN w = 1..Len(w)
        /\ \A k \in 1..(1 + Len(w)) : s[k] = IF k <= 1 THEN <<v>>[k] ELSE w[k - 1]
    BY <1>1, <1>3, ConcatProperties, LenProperties
  <1>5. DOMAIN s = 1..(1 + Len(w))
    BY <1>4, LenProperties
  <1>6. \A k \in DOMAIN s : k = 1 \/ (k - 1 \in DOMAIN w /\ s[k] = w[k - 1])
    BY <1>4, <1>5
  <1>7. s[1] = v
    BY <1>3, <1>4
  <1>8. \A k \in DOMAIN s : k \in Nat
    BY <1>5
  <1> HIDE DEF s
  <1>9. ASSUME NEW i \in DOMAIN s, NEW k \in DOMAIN s, s[i] = s[k] PROVE i = k
    <2>1. CASE i = 1 \/ k = 1
      BY <1>1, <1>6, <1>7, <1>9, <2>1
    <2>2. CASE i # 1 /\ k # 1
      <3>1. i - 1 = k - 1
        BY <1>1, <1>6, <1>9, <2>2 DEF NoneTwice
      <3> QED
        BY <1>8, <3>1
    <2> QED
      BY <2>1, <2>2
  <1>10. \A k \in DOMAIN s : s[k] \in {v} \cup Range(history)
    BY <1>1, <1>6, <1>7
  <1>11. /\ Cut(s) \in Seq(Versions) /\ Len(Cut(s)) <= HistoryCap
         /\ \A i \in DOMAIN Cut(s) : i \in DOMAIN s /\ Cut(s)[i] = s[i]
    BY <1>4, CutFacts
  <1>12. NoneTwice(Cut(s))
    BY <1>9, <1>11 DEF NoneTwice
  <1>13. Range(Cut(s)) \subseteq {v} \cup Range(history)
    BY <1>10, <1>11 DEF Range
  <1> QED
    BY <1>2, <1>11, <1>12, <1>13

\* What rollback writes.
LEMMA RolledBackFacts ==
    ASSUME history \in Seq(Versions), NoneTwice(history), Len(history) >= 2
    PROVE  /\ RolledBack \in Seq(Versions) /\ Len(RolledBack) <= HistoryCap
           /\ NoneTwice(RolledBack) /\ Range(RolledBack) \subseteq Range(history)
           /\ Len(RolledBack) >= 2 /\ RolledBack[1] = history[2] /\ RolledBack[2] = history[1]
           /\ history[1] \in Versions /\ history[2] \in Versions /\ history[1] # history[2]
  <1> DEFINE f == <<history[2], history[1]>>
             t == SubSeq(history, 3, Len(history))
             s == f \o t
             pos(k) == IF k = 1 THEN 2 ELSE IF k = 2 THEN 1 ELSE k
  <1>1. /\ Len(history) \in Nat /\ DOMAIN history = 1..Len(history)
        /\ 1 \in DOMAIN history /\ 2 \in DOMAIN history
    BY LenProperties
  <1>2. history[1] \in Versions /\ history[2] \in Versions /\ history[1] # history[2]
    BY <1>1 DEF NoneTwice
  <1>3. f \in Seq(Versions) /\ Len(f) = 2 /\ f[1] = history[2] /\ f[2] = history[1]
    BY <1>2
  <1>4. /\ t \in Seq(Versions) /\ Len(t) = Len(history) - 2
        /\ \A k \in 1..(Len(history) - 2) : t[k] = history[k + 2]
    <2>1. /\ t \in Seq(Versions)
          /\ Len(t) = IF 3 <= Len(history) THEN Len(history) - 3 + 1 ELSE 0
          /\ \A k \in 1..(Len(history) - 3 + 1) : t[k] = history[3 + k - 1]
      BY <1>1, SubSeqProperties
    <2> QED
      BY <1>1, <2>1
  <1> HIDE DEF f, t
  <1>5. /\ s \in Seq(Versions) /\ Len(s) = Len(f) + Len(t)
        /\ \A k \in 1..(Len(f) + Len(t)) : s[k] = IF k <= Len(f) THEN f[k] ELSE t[k - Len(f)]
    <2>1. \A a, b \in Seq(Versions) :
              /\ a \o b \in Seq(Versions) /\ Len(a \o b) = Len(a) + Len(b)
              /\ \A k \in 1..(Len(a) + Len(b)) :
                    (a \o b)[k] = IF k <= Len(a) THEN a[k] ELSE b[k - Len(a)]
      BY ConcatProperties
    <2>2. f \in Seq(Versions) /\ t \in Seq(Versions)
      BY <1>3, <1>4
    <2> QED
      BY <2>1, <2>2, Zenon
  <1>10. RolledBack = Cut(s)
    BY DEF RolledBack, f, t
  <1> HIDE DEF s
  <1>6. Len(s) = Len(history) /\ DOMAIN s = 1..Len(history)
    BY <1>1, <1>3, <1>4, <1>5, LenProperties
  <1>7. ASSUME NEW k \in DOMAIN s PROVE pos(k) \in DOMAIN history /\ s[k] = history[pos(k)] /\ k \in Nat
    <2>1. CASE k = 1 \/ k = 2
      BY <1>1, <1>3, <1>4, <1>5, <1>6, <2>1
    <2>2. CASE k # 1 /\ k # 2
      <3>1. k \in 1..Len(history) /\ ~(k <= 2) /\ k - 2 \in 1..(Len(history) - 2) /\ (k - 2) + 2 = k
        BY <1>1, <1>6, <2>2
      <3>2. s[k] = t[k - 2]
        BY <1>1, <1>3, <1>4, <1>5, <3>1
      <3>3. t[k - 2] = history[k]
        BY <1>4, <3>1
      <3> QED
        BY <1>1, <2>2, <3>1, <3>2, <3>3
    <2> QED
      BY <2>1, <2>2
  <1>8. \A k, m \in DOMAIN s : pos(k) = pos(m) => k = m
    BY <1>7
  <1>9. pos(1) = 2 /\ pos(2) = 1
    OBVIOUS
  <1> HIDE DEF pos
  <1>11. /\ Cut(s) \in Seq(Versions) /\ Len(Cut(s)) <= HistoryCap /\ Len(Cut(s)) >= 2
         /\ \A i \in DOMAIN Cut(s) : i \in DOMAIN s /\ Cut(s)[i] = s[i]
    BY <1>5, <1>6, CutFacts
  <1>12. 1 \in DOMAIN Cut(s) /\ 2 \in DOMAIN Cut(s)
    BY <1>11, LenProperties
  <1>13. NoneTwice(Cut(s))
    BY <1>7, <1>8, <1>11 DEF NoneTwice
  <1>14. Range(Cut(s)) \subseteq Range(history)
    BY <1>7, <1>11 DEF Range
  <1>15. Cut(s)[1] = history[2] /\ Cut(s)[2] = history[1]
    BY <1>7, <1>9, <1>11, <1>12
  <1> QED
    BY <1>2, <1>10, <1>11, <1>13, <1>14, <1>15

\* A history that names no version twice names as many as it is long.
LEMMA DistinctLength ==
    ASSUME NEW h \in Seq(Versions), NoneTwice(h)
    PROVE  Cardinality(Range(h)) = Len(h)
  <1>1. Len(h) \in Nat /\ DOMAIN h = 1..Len(h)
    BY LenProperties
  <1>2. h \in Bijection(1..Len(h), Range(h))
    <2>1. h \in [1..Len(h) -> Range(h)]
      BY <1>1 DEF Range
    <2>2. \A a, b \in 1..Len(h) : h[a] = h[b] => a = b
      BY <1>1 DEF NoneTwice
    <2>3. \A y \in Range(h) : \E x \in 1..Len(h) : h[x] = y
      BY <1>1 DEF Range
    <2> QED
      BY <2>1, <2>2, <2>3 DEF Bijection, Injection, Surjection, IsInjective
  <1>3. ExistsBijection(1..Len(h), Range(h))
    BY <1>2 DEF ExistsBijection
  <1>4. IsFiniteSet(1..Len(h)) /\ Cardinality(1..Len(h)) = Len(h)
    BY <1>1, FS_Interval
  <1> QED
    BY <1>3, <1>4, FS_Bijection

-----------------------------------------------------------------------------
(* One lemma for each part of the invariant. *)

\* Writing, renaming and removing a marker keeps the type of the markers.
LEMMA MarkType ==
    ASSUME Types
    PROVE  /\ mark \in [Versions -> [Marks -> Content]] /\ NoMarks \in [Marks -> Content]
           /\ \A v \in Versions, m \in Marks : mark[v][m] \in Content
           /\ \A v, c : c \in Content =>
                 /\ [mark EXCEPT ![v].staged = c] \in [Versions -> [Marks -> Content]]
                 /\ [mark EXCEPT ![v].pending = c] \in [Versions -> [Marks -> Content]]
           /\ \A v, c, d : c \in Content /\ d \in Content =>
                 /\ [mark EXCEPT ![v].pending = c, ![v].staged = d]
                       \in [Versions -> [Marks -> Content]]
                 /\ [mark EXCEPT ![v].rolledback = c, ![v].pending = d]
                       \in [Versions -> [Marks -> Content]]
           /\ \A v : [mark EXCEPT ![v] = NoMarks] \in [Versions -> [Marks -> Content]]
  BY DEF Types, Marks, Content, NoMarks

\* Every step keeps the types.
LEMMA TypeStep ==
    ASSUME IInv, [Next]_vars
    PROVE  Types'
  <1> USE DEF vars, files, proc, Step
  <1>a. Types /\ NamesOnce /\ HistoryHasDirs /\ NextHasDirs
    BY DEF IInv
  <1>b. Target /\ Written /\ BootSwaps
    BY DEF IInv
  <1>1. ASSUME UNCHANGED vars
        PROVE  Types'
    BY <1>a, <1>1 DEF Types
  <1>2. ASSUME NEW v \in Versions, StageBegin(v) PROVE Types'
    BY <1>2, <1>a, BoundsAssumption DEF Types, Points, StageBegin
  <1>3. ASSUME NEW v \in Versions, ApplyBegin(v) PROVE Types'
    <2>1. Installed(v) \in Seq(Versions) /\ Len(Installed(v)) <= HistoryCap
      BY <1>3, <1>a, InstalledFacts DEF Types, NamesOnce
    <2>2. mark' \in [Versions -> [Marks -> Content]]
      <3>1. mark[v].staged \in Content /\ "none" \in Content
        BY <1>3, <1>a, MarkType DEF Marks, Content
      <3> QED
        BY <1>3, <1>a, <3>1, MarkType DEF ApplyBegin
    <2>3. ops' \in 0..MaxOps
      BY <1>3, <1>a, BoundsAssumption DEF Types, ApplyBegin
    <2> QED
      BY <1>3, <1>a, <2>1, <2>2, <2>3 DEF Types, Points, ApplyBegin
  <1>4. CASE StageRemove
    BY <1>4, <1>a, <1>b DEF Types, Points, Target, StageRemove
  <1>5. CASE StageRename
    BY <1>5, <1>a, <1>b DEF Types, Points, Target, StageRename
  <1>6. CASE StageMark
    <2>1. "torn" \in Content /\ "full" \in Content
      BY <1>6 DEF Content
    <2>2. \A c \in Content : [mark EXCEPT ![ver].staged = c] \in [Versions -> [Marks -> Content]]
      BY <1>6, <1>a, MarkType
    <2>3. mark' = [mark EXCEPT ![ver].staged = "torn"] \/ mark' = [mark EXCEPT ![ver].staged = "full"]
      BY <1>6 DEF StageMark
    <2>4. mark' \in [Versions -> [Marks -> Content]]
      BY <1>6, <2>1, <2>2, <2>3
    <2> QED
      BY <1>6, <1>a, <2>4 DEF Types, Points, StageMark
  <1>7. CASE RollbackMarker
    <2>1. "torn" \in Content /\ "full" \in Content
      BY <1>7 DEF Content
    <2>2. \A c \in Content : [mark EXCEPT ![ver].pending = c] \in [Versions -> [Marks -> Content]]
      BY <1>7, <1>a, MarkType
    <2>3. mark' = [mark EXCEPT ![ver].pending = "torn"] \/ mark' = [mark EXCEPT ![ver].pending = "full"]
      BY <1>7 DEF RollbackMarker
    <2>4. mark' \in [Versions -> [Marks -> Content]]
      BY <1>7, <2>1, <2>2, <2>3
    <2> QED
      BY <1>7, <1>a, <2>4 DEF Types, Points, RollbackMarker
  <1>8. CASE WriteHistory
    <2>1. <<>> \in Seq(Versions) /\ Len(<<>>) <= HistoryCap
      BY <1>8, EmptySeq, CapAssumption
    <2> QED
      BY <1>8, <1>a, <2>1 DEF Types, Points, WriteHistory
  <1>9. CASE Prune
    <2>1. mark' \in [Versions -> [Marks -> Content]]
      <3>1. mark \in [Versions -> [Marks -> Content]]
            /\ \A v : [mark EXCEPT ![v] = NoMarks] \in [Versions -> [Marks -> Content]]
        BY <1>9, <1>a, MarkType
      <3>2. mark' = mark \/ \E v \in dir : mark' = [mark EXCEPT ![v] = NoMarks]
        BY <1>9 DEF Prune
      <3> QED
        BY <1>9, <3>1, <3>2, Zenon
    <2>2. dir' \subseteq Versions /\ payload' \subseteq dir' /\ partial' \subseteq dir'
      BY <1>9, <1>a DEF Prune, Types
    <2>3. pc' \in Points /\ UNCHANGED <<history, flag, caller, ver, next, rolledFrom, swap, ops, crashes, bootHead>>
      BY <1>9 DEF Prune, Points
    <2> QED
      BY <1>9, <1>a, <2>1, <2>2, <2>3 DEF Types
  <1>10. CASE ApplyFlag
    BY <1>10, <1>a, <1>b DEF Types, Points, Target, ApplyFlag
  <1>11. CASE ApplySwap
    BY <1>11, <1>a, <1>b DEF Types, Points, Target, ApplySwap
  <1>12. CASE Rollback
    <2>1. Len(history) >= 2 => RolledBack \in Seq(Versions) /\ Len(RolledBack) <= HistoryCap /\ history[2] \in Versions
      BY <1>12, <1>a, RolledBackFacts DEF Types, NamesOnce
    <2>2. ops' \in 0..MaxOps
      BY <1>12, <1>a, BoundsAssumption DEF Types, Rollback
    <2> QED
      BY <1>12, <1>a, <2>1, <2>2 DEF Types, Points, Rollback, RollbackBegin, CanRollBack
  <1>13. CASE Boot
    <2>1. Len(history) >= 2 => RolledBack \in Seq(Versions) /\ Len(RolledBack) <= HistoryCap /\ history[2] \in Versions
      BY <1>13, <1>a, RolledBackFacts DEF Types, NamesOnce
    <2>2. HeadOf(history) \in Versions \cup {None}
      BY <1>13, <1>a, HeadTailProperties DEF Types, HeadOf
    <2>3. rolledFrom' \in Versions \cup {None} /\ bootHead' \in Versions \cup {None}
      BY <1>13, <1>a, <2>2 DEF Types, Boot
    <2>4. /\ next' \in Seq(Versions) /\ Len(next') <= HistoryCap /\ ver' \in Versions \cup {None}
          /\ pc' \in Points /\ caller' \in {"script", "apply", "boot"}
      BY <1>13, <1>a, <2>1 DEF Types, Points, Boot, RollbackBegin, CanRollBack
    <2>5. UNCHANGED <<files, swap, ops, crashes>>
      BY <1>13 DEF Boot
    <2> QED
      BY <1>13, <1>a, <2>3, <2>4, <2>5 DEF Types
  <1>14. CASE RollbackMark
    <2>1. mark' \in [Versions -> [Marks -> Content]]
      <3>1. history[1] \in Versions
        BY <1>14, <1>a, <1>b, LenProperties DEF Types, Target, RollbackMark
      <3>2. mark[history[1]].pending \in Content /\ "none" \in Content
        BY <1>14, <1>a, <3>1, MarkType DEF Marks, Content
      <3> QED
        BY <1>14, <1>a, <3>2, MarkType DEF RollbackMark
    <2> QED
      BY <1>14, <1>a, <2>1 DEF Types, Points, RollbackMark
  <1>15. CASE BootClear
    BY <1>15, <1>a, <1>b DEF Types, Points, Target, BootClear
  <1>16. CASE Exit
    BY <1>16, <1>a, <1>b DEF Types, Points, Target, Exit
  <1>17. CASE MarkReady
    BY <1>17, <1>a, <1>b DEF Types, Points, Target, MarkReady
  <1>18. CASE SwapMove
    BY <1>18, <1>a, <1>b DEF Types, Points, Target, SwapMove
  <1>19. CASE Crash
    BY <1>19, <1>a, <1>b, BoundsAssumption DEF Types, Points, Target, Crash
  <1>20. CASE UNCHANGED vars
    BY <1>1, <1>20
  <1> QED
    BY <1>2, <1>3, <1>4, <1>5, <1>6, <1>7, <1>8, <1>9, <1>10, <1>11, <1>12, <1>13, <1>14,
       <1>15, <1>16, <1>17, <1>18, <1>19, <1>20 DEF Next

\* The history that is written names no version twice.
LEMMA NamesStep ==
    ASSUME IInv, [Next]_vars
    PROVE  NamesOnce'
  <1> USE DEF vars, files, proc, Step
  <1>a. Types /\ NamesOnce /\ HistoryHasDirs /\ NextHasDirs
    BY DEF IInv
  <1>b. Target /\ Written /\ BootSwaps
    BY DEF IInv
  <1>1. ASSUME UNCHANGED <<history, next>>
        PROVE  NamesOnce'
    BY <1>a, <1>1 DEF NamesOnce
  <1>2. ASSUME NEW v \in Versions, ApplyBegin(v) PROVE NamesOnce'
    <2>1. NoneTwice(Installed(v))
      BY <1>2, <1>a, InstalledFacts DEF Types, NamesOnce
    <2> QED
      BY <1>2, <1>a, <2>1 DEF NamesOnce, ApplyBegin
  <1>3. CASE Rollback
    <2>1. Len(history) >= 2 => NoneTwice(RolledBack)
      BY <1>3, <1>a, RolledBackFacts DEF Types, NamesOnce
    <2> QED
      BY <1>3, <1>a, <2>1 DEF NamesOnce, Rollback, RollbackBegin, CanRollBack
  <1>4. CASE Boot
    <2>1. Len(history) >= 2 => NoneTwice(RolledBack)
      BY <1>4, <1>a, RolledBackFacts DEF Types, NamesOnce
    <2> QED
      BY <1>4, <1>a, <2>1 DEF NamesOnce, Boot, RollbackBegin, CanRollBack
  <1>5. CASE WriteHistory
    <2>1. NoneTwice(<<>>)
      BY <1>5 DEF NoneTwice
    <2> QED
      BY <1>5, <1>a, <2>1 DEF NamesOnce, WriteHistory
  <1>6. ASSUME NEW v \in Versions, StageBegin(v) PROVE NamesOnce'
    BY <1>6, <1>1 DEF StageBegin
  <1>7. CASE StageRemove \/ StageRename \/ StageMark \/ Prune \/ ApplyFlag \/ ApplySwap
    BY <1>7, <1>1 DEF StageRemove, StageRename, StageMark, Prune, ApplyFlag, ApplySwap
  <1>8. CASE RollbackMark \/ RollbackMarker \/ BootClear \/ Exit \/ MarkReady \/ SwapMove
     \/ Crash
    BY <1>8, <1>1 DEF RollbackMark, RollbackMarker, BootClear, Exit, MarkReady, SwapMove,
       Crash
  <1>9. CASE UNCHANGED vars
    BY <1>1, <1>9
  <1> QED
    BY <1>2, <1>3, <1>4, <1>5, <1>6, <1>7, <1>8, <1>9 DEF Next

\* prune_old_updates removes no directory that the history names.
LEMMA DirsStep ==
    ASSUME IInv, [Next]_vars
    PROVE  HistoryHasDirs' /\ NextHasDirs'
  <1> USE DEF vars, files, proc, Step
  <1>a. Types /\ NamesOnce /\ HistoryHasDirs /\ NextHasDirs
    BY DEF IInv
  <1>b. Target /\ Written /\ BootSwaps
    BY DEF IInv
  <1>1. ASSUME UNCHANGED <<history, next, dir, pc>>
        PROVE  HistoryHasDirs' /\ NextHasDirs'
    BY <1>a, <1>1 DEF HistoryHasDirs, NextHasDirs
  <1>2. ASSUME NEW v \in Versions, StageBegin(v) PROVE HistoryHasDirs' /\ NextHasDirs'
    BY <1>2, <1>a DEF HistoryHasDirs, NextHasDirs, Writing, StageBegin
  <1>3. ASSUME NEW v \in Versions, ApplyBegin(v) PROVE HistoryHasDirs' /\ NextHasDirs'
    <2>1. Range(Installed(v)) \subseteq {v} \cup Range(history)
      BY <1>3, <1>a, InstalledFacts DEF Types, NamesOnce
    <2> QED
      BY <1>3, <1>a, <2>1 DEF HistoryHasDirs, NextHasDirs, ApplyBegin
  <1>4. CASE StageRemove
    BY <1>4, <1>a DEF HistoryHasDirs, NextHasDirs, Writing, StageRemove
  <1>5. CASE StageRename
    BY <1>5, <1>a DEF HistoryHasDirs, NextHasDirs, Writing, StageRename
  <1>6. CASE StageMark
    BY <1>6, <1>a DEF HistoryHasDirs, NextHasDirs, Writing, StageMark
  <1>7. CASE WriteHistory
    <2>1. Range(<<>>) = {}
      BY <1>7 DEF Range
    <2> QED
      BY <1>7, <1>a, <2>1 DEF HistoryHasDirs, NextHasDirs, Writing, WriteHistory
  <1>8. CASE Prune
    <2>1. history = next
      BY <1>8, <1>b DEF Written, Prune
    <2>2. Range(next) \subseteq dir
      BY <1>8, <1>a DEF NextHasDirs, Writing, Prune
    <2>3. Range(next) \subseteq dir'
      BY <1>8, <2>2 DEF Prune
    <2> QED
      BY <1>8, <2>1, <2>3 DEF HistoryHasDirs, NextHasDirs, Prune
  <1>9. CASE ApplyFlag
    BY <1>9, <1>a DEF HistoryHasDirs, NextHasDirs, Writing, ApplyFlag
  <1>10. CASE ApplySwap
    BY <1>10, <1>a DEF HistoryHasDirs, NextHasDirs, Writing, ApplySwap
  <1>11. CASE Rollback
    <2>1. Len(history) >= 2 => Range(RolledBack) \subseteq Range(history)
      BY <1>11, <1>a, RolledBackFacts DEF Types, NamesOnce
    <2> QED
      BY <1>11, <1>a, <2>1 DEF HistoryHasDirs, NextHasDirs, Writing, Rollback,
         RollbackBegin, CanRollBack
  <1>12. CASE RollbackMark
    BY <1>12, <1>a DEF HistoryHasDirs, NextHasDirs, Writing, RollbackMark
  <1>13. CASE RollbackMarker
    BY <1>13, <1>a DEF HistoryHasDirs, NextHasDirs, Writing, RollbackMarker
  <1>14. CASE Boot
    <2>1. Len(history) >= 2 => Range(RolledBack) \subseteq Range(history)
      BY <1>14, <1>a, RolledBackFacts DEF Types, NamesOnce
    <2> QED
      BY <1>14, <1>a, <2>1 DEF HistoryHasDirs, NextHasDirs, Writing, Boot, RollbackBegin,
         CanRollBack
  <1>15. CASE BootClear
    BY <1>15, <1>a DEF HistoryHasDirs, NextHasDirs, Writing, BootClear
  <1>16. CASE Exit
    BY <1>16, <1>a DEF HistoryHasDirs, NextHasDirs, Writing, Exit
  <1>17. CASE MarkReady
    BY <1>17, <1>a DEF HistoryHasDirs, NextHasDirs, Writing, MarkReady
  <1>18. CASE SwapMove
    BY <1>18, <1>a DEF HistoryHasDirs, NextHasDirs, Writing, SwapMove
  <1>19. CASE Crash
    BY <1>19, <1>a DEF HistoryHasDirs, NextHasDirs, Writing, Crash
  <1>20. CASE UNCHANGED vars
    BY <1>1, <1>20
  <1> QED
    BY <1>2, <1>3, <1>4, <1>5, <1>6, <1>7, <1>8, <1>9, <1>10, <1>11, <1>12, <1>13, <1>14,
       <1>15, <1>16, <1>17, <1>18, <1>19, <1>20 DEF Next

\* An operation keeps its version, and what it prunes by is what it has written.
LEMMA TargetStep ==
    ASSUME IInv, [Next]_vars
    PROVE  Target' /\ Written'
  <1> USE DEF vars, files, proc, Step
  <1>a. Types /\ NamesOnce /\ HistoryHasDirs /\ NextHasDirs
    BY DEF IInv
  <1>b. Target /\ Written /\ BootSwaps
    BY DEF IInv
  <1>1. ASSUME UNCHANGED <<history, next, dir, pc, ver>>
        PROVE  Target' /\ Written'
    BY <1>b, <1>1 DEF Target, Written
  <1>2. ASSUME NEW v \in Versions, StageBegin(v) PROVE Target' /\ Written'
    BY <1>2, <1>a, <1>b DEF Types, Target, Written, StageBegin
  <1>3. ASSUME NEW v \in Versions, ApplyBegin(v) PROVE Target' /\ Written'
    BY <1>3, <1>a, <1>b DEF Types, Target, Written, ApplyBegin
  <1>4. CASE StageRemove
    BY <1>4, <1>a, <1>b DEF Types, Target, Written, StageRemove
  <1>5. CASE StageRename
    BY <1>5, <1>a, <1>b DEF Types, Target, Written, StageRename
  <1>6. CASE StageMark
    BY <1>6, <1>b DEF Target, Written, StageMark
  <1>7. CASE WriteHistory
    BY <1>7, <1>b DEF Target, Written, WriteHistory
  <1>8. CASE Prune
    <2>1. pc = "prune" /\ history = next /\ UNCHANGED <<history, next, ver>> /\ ver \in Versions
      BY <1>8, <1>b DEF Prune, Written, Target
    <2>2. pc' \in {"prune", "flagTrunc", "clearFlag", "running"}
      BY <1>8 DEF Prune
    <2> QED
      BY <1>8, <2>1, <2>2 DEF Target, Written
  <1>9. CASE ApplyFlag
    BY <1>9, <1>b DEF Target, Written, ApplyFlag
  <1>10. CASE ApplySwap
    BY <1>10, <1>b DEF Target, Written, ApplySwap
  <1>11. CASE Rollback
    <2>1. Len(history) >= 2 => history[2] \in Versions
      BY <1>11, <1>a, RolledBackFacts DEF Types, NamesOnce
    <2> QED
      BY <1>11, <1>b, <2>1 DEF Target, Written, Rollback, RollbackBegin, CanRollBack
  <1>12. CASE RollbackMark
    BY <1>12, <1>b DEF Target, Written, RollbackMark
  <1>13. CASE RollbackMarker
    BY <1>13, <1>b DEF Target, Written, RollbackMarker
  <1>14. CASE Boot
    <2>1. Len(history) >= 2 => history[2] \in Versions
      BY <1>14, <1>a, RolledBackFacts DEF Types, NamesOnce
    <2> QED
      BY <1>14, <1>b, <2>1 DEF Target, Written, Boot, RollbackBegin, CanRollBack
  <1>15. CASE BootClear
    BY <1>15, <1>b DEF Target, Written, BootClear
  <1>16. CASE Exit
    BY <1>16, <1>b DEF Target, Written, Exit
  <1>17. CASE MarkReady
    BY <1>17, <1>b DEF Target, Written, MarkReady
  <1>18. CASE SwapMove
    BY <1>18, <1>b DEF Target, Written, SwapMove
  <1>19. CASE Crash
    BY <1>19, <1>b DEF Target, Written, Crash
  <1>20. CASE UNCHANGED vars
    BY <1>1, <1>20
  <1> QED
    BY <1>2, <1>3, <1>4, <1>5, <1>6, <1>7, <1>8, <1>9, <1>10, <1>11, <1>12, <1>13, <1>14,
       <1>15, <1>16, <1>17, <1>18, <1>19, <1>20 DEF Next

\* A rollback at startup ends with another version first.
LEMMA BootStep ==
    ASSUME IInv, [Next]_vars
    PROVE  BootSwaps'
  <1> USE DEF vars, files, proc, Step
  <1>a. Types /\ NamesOnce /\ HistoryHasDirs /\ NextHasDirs
    BY DEF IInv
  <1>b. Target /\ Written /\ BootSwaps
    BY DEF IInv
  <1>1. ASSUME UNCHANGED <<pc, caller, next, bootHead>>
        PROVE  BootSwaps'
    BY <1>b, <1>1 DEF BootSwaps
  <1>2. ASSUME NEW v \in Versions, StageBegin(v) PROVE BootSwaps'
    BY <1>2, <1>b DEF BootSwaps, Writing, StageBegin
  <1>3. ASSUME NEW v \in Versions, ApplyBegin(v) PROVE BootSwaps'
    BY <1>3, <1>b DEF BootSwaps, Writing, ApplyBegin
  <1>4. CASE StageRemove
    BY <1>4, <1>b DEF BootSwaps, Writing, StageRemove
  <1>5. CASE StageRename
    BY <1>5, <1>b DEF BootSwaps, Writing, StageRename
  <1>6. CASE StageMark
    BY <1>6, <1>b DEF BootSwaps, Writing, StageMark
  <1>7. CASE WriteHistory
    BY <1>7, <1>b DEF BootSwaps, Writing, WriteHistory
  <1>8. CASE Prune
    <2>1. pc = "prune" /\ UNCHANGED <<next, caller, bootHead>>
      BY <1>8 DEF Prune
    <2>2. pc' \in {"prune", "clearFlag"} => pc' = "prune" \/ caller = "boot"
      BY <1>8 DEF Prune
    <2>3. pc' \in {"prune", "flagTrunc", "clearFlag", "running"}
      BY <1>8 DEF Prune
    <2> QED
      BY <1>8, <1>b, <2>1, <2>2, <2>3 DEF BootSwaps, Writing
  <1>9. CASE ApplyFlag
    BY <1>9, <1>b DEF BootSwaps, Writing, ApplyFlag
  <1>10. CASE ApplySwap
    BY <1>10, <1>b DEF BootSwaps, Writing, ApplySwap
  <1>11. CASE Rollback
    BY <1>11, <1>b DEF BootSwaps, Writing, Rollback, RollbackBegin
  <1>12. CASE RollbackMark
    BY <1>12, <1>b DEF BootSwaps, Writing, RollbackMark
  <1>13. CASE RollbackMarker
    BY <1>13, <1>b DEF BootSwaps, Writing, RollbackMarker
  <1>14. CASE Boot
    <2>1. Len(history) >= 2 =>
              /\ Len(RolledBack) >= 2 /\ RolledBack[1] = history[2] /\ RolledBack[2] = history[1]
              /\ history[1] # history[2]
      BY <1>14, <1>a, RolledBackFacts DEF Types, NamesOnce
    <2>2. Len(history) >= 2 => bootHead' = history[1]
      BY <1>14, <1>a, HeadTailProperties, EmptySeq DEF Types, Boot, HeadOf
    <2> QED
      BY <1>14, <2>1, <2>2 DEF BootSwaps, Writing, Boot, RollbackBegin, CanRollBack
  <1>15. CASE BootClear
    BY <1>15, <1>b DEF BootSwaps, Writing, BootClear
  <1>16. CASE Exit
    BY <1>16, <1>b DEF BootSwaps, Writing, Exit
  <1>17. CASE MarkReady
    BY <1>17, <1>b DEF BootSwaps, Writing, MarkReady
  <1>18. CASE SwapMove
    BY <1>18, <1>b DEF BootSwaps, Writing, SwapMove
  <1>19. CASE Crash
    BY <1>19, <1>b DEF BootSwaps, Writing, Crash
  <1>20. CASE UNCHANGED vars
    BY <1>1, <1>20
  <1> QED
    BY <1>2, <1>3, <1>4, <1>5, <1>6, <1>7, <1>8, <1>9, <1>10, <1>11, <1>12, <1>13, <1>14,
       <1>15, <1>16, <1>17, <1>18, <1>19, <1>20 DEF Next

-----------------------------------------------------------------------------
(* The theorems. *)

\* An empty updates directory satisfies the invariant ...
LEMMA InitIInv == Init => IInv
  <1> SUFFICES ASSUME Init PROVE IInv
    OBVIOUS
  <1>1. Types
    <2>1. NoMarks \in [Marks -> Content]
      BY DEF NoMarks, Content
    <2> QED
      BY <2>1, EmptySeq, CapAssumption, BoundsAssumption DEF Init, Types, Points
  <1>2. Range(<<>>) = {} /\ NoneTwice(<<>>)
    BY DEF Range, NoneTwice
  <1> QED
    BY <1>1, <1>2 DEF Init, IInv, NamesOnce, HistoryHasDirs, NextHasDirs, Target, Written,
       BootSwaps, Writing

\* ... every step and every crash preserves it ...
LEMMA NextIInv == IInv /\ [Next]_vars => IInv'
  BY TypeStep, NamesStep, DirsStep, TargetStep, BootStep DEF IInv

\* ... and so it always holds.
LEMMA InvariantHolds == Spec => []IInv
  BY InitIInv, NextIInv, PTL DEF Spec

\* What a finished rollback at startup leaves.
LEMMA OtherVersionFirst ==
    ASSUME IInv, pc \in {"clearFlag", "exiting"}
    PROVE  /\ bootHead \in Range(history) /\ HeadOf(history) # bootHead
           /\ bootHead # None
  <1>1. /\ history = next /\ Len(next) >= 2 /\ next[2] = bootHead /\ next[1] # bootHead
        /\ next \in Seq(Versions)
    BY DEF IInv, Types, Written, BootSwaps
  <1>2. 1 \in DOMAIN next /\ 2 \in DOMAIN next /\ next # <<>>
    BY <1>1, LenProperties, EmptySeq
  <1>3. HeadOf(history) = next[1]
    BY <1>1, <1>2, HeadTailProperties DEF HeadOf
  <1>4. next[2] \in Versions
    BY <1>1, <1>2
  <1> QED
    BY <1>1, <1>2, <1>3, <1>4, NoneAssumption DEF Range

\* Whatever operation is interrupted, and wherever, the history names each
\* version once and only versions that have a directory, and a rollback at
\* startup that ran to its end has changed the version.
THEOREM HistoryStaysUsable == Spec => []HistoryUsable
  <1>1. IInv => HistoryUsable
    <2> SUFFICES ASSUME IInv PROVE HistoryUsable
      OBVIOUS
    <2>1. Cardinality(Range(history)) = Len(history) /\ Cardinality(Range(next)) = Len(next)
      BY DistinctLength DEF IInv, Types, NamesOnce
    <2>2. TypeOK
      BY <2>1 DEF IInv, Types, TypeOK
    <2>3. RollbackComplete
      BY OtherVersionFirst DEF RollbackComplete
    <2> QED
      BY <2>2, <2>3 DEF IInv, HistoryUsable
  <1> QED
    BY <1>1, InvariantHolds, PTL

\* The first-launch flag is cleared by a script that says the launch is good
\* or after a rollback that has been written down, and by nothing else.
THEOREM FlagIsKept == Spec => UnreadyNotForgotten
  <1>1. ASSUME IInv, [Next]_vars, flag # "none", flag' = "none"
        PROVE  pc = "running" \/ (HeadOf(history) # bootHead /\ bootHead # None)
    <2> USE DEF vars, files, proc, Step
    <2>1. CASE BootClear
      BY <1>1, <2>1, OtherVersionFirst DEF BootClear
    <2>2. CASE MarkReady
      BY <2>2 DEF MarkReady
    <2>3. CASE ApplyFlag
      <3>1. ver \in Versions
        BY <1>1, <2>3 DEF IInv, Target, ApplyFlag
      <3> QED
        BY <1>1, <2>3, <3>1, FlagAssumption DEF ApplyFlag
    <2>4. ASSUME NEW v \in Versions, StageBegin(v) \/ ApplyBegin(v) PROVE FALSE
      BY <1>1, <2>4 DEF StageBegin, ApplyBegin
    <2>5. CASE StageRemove \/ StageRename \/ StageMark \/ WriteHistory \/ Prune \/ ApplySwap
      BY <1>1, <2>5 DEF StageRemove, StageRename, StageMark, WriteHistory, Prune, ApplySwap
    <2>6. CASE Rollback \/ RollbackMark \/ RollbackMarker \/ Boot \/ Exit \/ SwapMove \/ Crash
      BY <1>1, <2>6 DEF Rollback, RollbackMark, RollbackMarker, Boot, Exit, SwapMove, Crash
    <2>7. CASE UNCHANGED vars
      BY <1>1, <2>7
    <2> QED
      BY <1>1, <2>1, <2>2, <2>3, <2>4, <2>5, <2>6, <2>7 DEF Next
  <1>2. IInv /\ [Next]_vars =>
            [flag # "none" /\ flag' = "none" =>
                pc = "running" \/ (HeadOf(history) # bootHead /\ bootHead # None)]_vars
    BY <1>1
  <1> QED
    BY <1>2, InvariantHolds, PTL DEF Spec, UnreadyNotForgotten
====
