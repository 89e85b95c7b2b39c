------------------------------ MODULE Updater ------------------------------
(***************************************************************************)
(* The updater's files (src/runtime/updater.cpp), its calls from scripts   *)
(* and at startup (src/js/bind_app.cpp).  Everything the updater knows is  *)
(* on disk: a directory per version with a payload and markers, the        *)
(* history and the first-launch flag.  The process may crash between any   *)
(* two file operations, and any file operation may fail.                   *)
(*                                                                         *)
(* Writing a file truncates it first: a crash in between leaves it empty   *)
(* ("torn").  Verification of the artifact has succeeded when stage gets   *)
(* here; platform swaps are done by a script that outlives the process.    *)
(***************************************************************************)
EXTENDS Naturals, Sequences, FiniteSets, SequencesExt

CONSTANTS
    Versions,    \* versions offered
    HistoryCap,  \* length of the history (3 in the code)
    MaxOps,      \* operations of scripts (bound)
    MaxCrashes,  \* crashes and failed file operations (bound)
    None         \* no version

ASSUME NoneAssumption == None \notin Versions
ASSUME FlagAssumption == "none" \notin Versions /\ "torn" \notin Versions
ASSUME CapAssumption == HistoryCap \in Nat \ {0, 1}
ASSUME BoundsAssumption == MaxOps \in Nat /\ MaxCrashes \in Nat

Marks == {"staged", "pending", "rolledback"}
Content == {"none", "torn", "full"}

\* Files.
VARIABLES
    dir,        \* versions with a directory under updates/
    payload,    \* versions whose payload is in its directory
    partial,    \* versions with a .partial file
    mark,       \* marker files: content of mark[v][m]
    history,    \* history.txt
    flag        \* first-launch.flag: "none", "torn" or a version

\* The process.
VARIABLES
    pc,         \* where it is
    caller,     \* "boot" when a rollback is the one of startup, else "script"
    ver,        \* the version being staged, applied or rolled back to
    next,       \* `next`: the history being written
    rolledFrom, \* rolled_from_out
    swap        \* the version a platform swap script will move

\* Observer variables.
VARIABLES
    ops, crashes,
    bootHead    \* head of the history when the startup check began

files == <<dir, payload, partial, mark, history, flag>>
proc  == <<pc, caller, ver, next, rolledFrom, swap>>
vars  == <<files, proc, ops, crashes, bootHead>>

HeadOf(s) == IF s = <<>> THEN None ELSE Head(s)

NoMarks == [m \in Marks |-> "none"]

Init ==
    /\ dir = {} /\ payload = {} /\ partial = {}
    /\ mark = [v \in Versions |-> NoMarks]
    /\ history = <<>> /\ flag = "none"
    /\ pc = "down" /\ caller = "script" /\ ver = None /\ next = <<>> /\ rolledFrom = None
    /\ swap = None
    /\ ops = 0 /\ crashes = 0 /\ bootHead = None


Step(p, q) == pc = p /\ pc' = q /\ UNCHANGED <<ops, crashes, bootHead>>

-----------------------------------------------------------------------------
(* stage: payload.partial, then the payload, then the marker. *)

StageBegin(v) ==
    /\ pc = "running" /\ ops < MaxOps /\ pc' = "stRemove"
    /\ ops' = ops + 1 /\ ver' = v
    /\ dir' = dir \cup {v} /\ partial' = partial \cup {v}
    /\ UNCHANGED <<payload, mark, history, flag, caller, next, rolledFrom, swap, crashes, bootHead>>

StageRemove ==
    /\ Step("stRemove", "stRename")
    /\ payload' = payload \ {ver}
    /\ UNCHANGED <<dir, partial, mark, history, flag, caller, ver, next, rolledFrom, swap>>

StageRename ==
    /\ Step("stRename", "stMark")
    /\ partial' = partial \ {ver} /\ payload' = payload \cup {ver}
    /\ UNCHANGED <<dir, mark, history, flag, caller, ver, next, rolledFrom, swap>>

StageMark ==
    \/ /\ Step("stMark", "stMarked")
       /\ mark' = [mark EXCEPT ![ver].staged = "torn"]
       /\ UNCHANGED <<dir, payload, partial, history, flag, caller, ver, next, rolledFrom, swap>>
    \/ /\ Step("stMarked", "running")
       /\ mark' = [mark EXCEPT ![ver].staged = "full"]
       /\ UNCHANGED <<dir, payload, partial, history, flag, caller, ver, next, rolledFrom, swap>>

-----------------------------------------------------------------------------
(* apply_pending: the marker, the history, the flag, the swap. *)

\* Only the first HistoryCap versions are kept.
Cut(s) == IF Len(s) <= HistoryCap THEN s ELSE SubSeq(s, 1, HistoryCap)

\* The other versions of the history, which names none twice.
Without(v) ==
    LET at == {i \in DOMAIN history : history[i] = v}
    IN IF at = {} THEN history ELSE RemoveAt(history, CHOOSE i \in at : TRUE)

\* The history that record_installed_version writes.
Installed(v) == Cut(<<v>> \o Without(v))

ApplyBegin(v) ==
    /\ pc = "running" /\ ops < MaxOps
    /\ v \in dir /\ mark[v].staged # "none"
    /\ ops' = ops + 1 /\ ver' = v /\ caller' = "apply"
    /\ mark' = [mark EXCEPT ![v].pending = mark[v].staged, ![v].staged = "none"]
    /\ next' = Installed(v)
    /\ pc' = "histTrunc"
    /\ UNCHANGED <<dir, payload, partial, history, flag, rolledFrom, swap, crashes, bootHead>>

\* Mutant: the directories are removed before the history is written.
Mut_WriteHistory ==
    /\ \/ Step("histTrunc", "histWrite") /\ dir' = Range(next) /\ UNCHANGED history
       \/ Step("histWrite", "prune") /\ history' = next /\ UNCHANGED dir
    /\ UNCHANGED <<payload, partial, mark, flag, caller, ver, next, rolledFrom, swap>>

\* write_history_file, for apply_pending and for rollback.
WriteHistory ==
    /\ \/ Step("histTrunc", "histWrite") /\ history' = <<>>
       \/ Step("histWrite", "prune") /\ history' = next
    /\ UNCHANGED <<dir, payload, partial, mark, flag, caller, ver, next, rolledFrom, swap>>

\* prune_old_updates: one directory after the other.
Prune ==
    \/ \E v \in dir \ Range(next) :
        /\ Step("prune", "prune")
        /\ dir' = dir \ {v} /\ payload' = payload \ {v} /\ partial' = partial \ {v}
        /\ mark' = [mark EXCEPT ![v] = NoMarks]
        /\ UNCHANGED <<history, flag, caller, ver, next, rolledFrom, swap>>
    \/ /\ dir \subseteq Range(next)
       /\ Step("prune", CASE caller = "apply" -> "flagTrunc"
                          [] caller = "boot" -> "clearFlag"
                          [] OTHER -> "running")
       /\ UNCHANGED <<files, caller, ver, next, rolledFrom, swap>>

ApplyFlag ==
    /\ \/ Step("flagTrunc", "flagWrite") /\ flag' = "torn"
       \/ Step("flagWrite", "swap") /\ flag' = ver
    /\ UNCHANGED <<dir, payload, partial, mark, history, caller, ver, next, rolledFrom, swap>>

\* perform_platform_swap, for a payload that is an installer or an AppImage
\* and whose path the marker gave.
ApplySwap ==
    /\ Step("swap", "running")
    /\ swap' \in {swap} \cup (IF mark[ver].pending = "full" THEN {ver} ELSE {})
    /\ UNCHANGED <<files, caller, ver, next, rolledFrom>>

-----------------------------------------------------------------------------
(* rollback, called by a script or at startup. *)

\* update_payload_path: a path that a marker holds, or any file of the
\* directory, the .partial one included.
HasPayload(v) == v \in payload \cup partial

\* The history that rollback writes: the first two versions change places.
RolledBack == Cut(<<history[2], history[1]>> \o SubSeq(history, 3, Len(history)))

RollbackBegin(c) ==
    /\ next' = RolledBack
    /\ ver' = history[2] /\ caller' = c
    /\ pc' = "rbMark"

CanRollBack == Len(history) >= 2 /\ HasPayload(history[2])

Rollback ==
    /\ pc = "running" /\ ops < MaxOps /\ CanRollBack
    /\ ops' = ops + 1
    /\ RollbackBegin("script")
    /\ UNCHANGED <<files, rolledFrom, swap, crashes, bootHead>>

\* The current version's .pending becomes .rolledback, if there is one.
RollbackMark ==
    /\ Step("rbMark", "rbMarker")
    /\ mark' = IF mark[history[1]].pending = "none" THEN mark
               ELSE [mark EXCEPT ![history[1]].rolledback = mark[history[1]].pending,
                                 ![history[1]].pending = "none"]
    /\ UNCHANGED <<dir, payload, partial, history, flag, caller, ver, next, rolledFrom, swap>>

\* write_marker.
RollbackMarker ==
    /\ \/ Step("rbMarker", "rbMarked") /\ mark' = [mark EXCEPT ![ver].pending = "torn"]
       \/ Step("rbMarked", "histTrunc") /\ mark' = [mark EXCEPT ![ver].pending = "full"]
    /\ UNCHANGED <<dir, payload, partial, history, flag, caller, ver, next, rolledFrom, swap>>

-----------------------------------------------------------------------------
(* Startup, and the end of the process. *)

\* Mutant: the flag is removed before the rollback.
Mut_Boot ==
    /\ pc = "down"
    /\ bootHead' = HeadOf(history) /\ rolledFrom' = None
    /\ flag' = "none"
    /\ \/ flag # "none" /\ CanRollBack /\ RollbackBegin("boot")
       \/ (flag = "none" \/ ~CanRollBack) /\ pc' = "running" /\ UNCHANGED <<caller, ver, next>>
    /\ UNCHANGED <<dir, payload, partial, mark, history, swap, ops, crashes>>

\* auto_rollback_if_unready: nothing to do, a rollback that cannot start, or
\* a rollback.
Boot ==
    /\ pc = "down"
    /\ bootHead' = HeadOf(history)
    /\ \/ /\ flag = "none"
          /\ pc' = "running" /\ rolledFrom' = None
          /\ UNCHANGED <<caller, ver, next>>
       \/ /\ flag # "none" /\ rolledFrom' = IF flag = "torn" THEN HeadOf(history) ELSE flag
          /\ \/ CanRollBack /\ RollbackBegin("boot")
             \/ ~CanRollBack /\ pc' = "running" /\ UNCHANGED <<caller, ver, next>>
    /\ UNCHANGED <<files, swap, ops, crashes>>

\* Mutant: the flag is kept.
Mut_BootClear ==
    /\ Step("clearFlag", "exiting")
    /\ UNCHANGED <<files, caller, ver, next, rolledFrom, swap>>

\* mark_ready after the rollback; the process then exits.
BootClear ==
    /\ Step("clearFlag", "exiting")
    /\ flag' = "none"
    /\ UNCHANGED <<dir, payload, partial, mark, history, caller, ver, next, rolledFrom, swap>>

Exit ==
    /\ pc \in {"exiting", "running"} /\ pc' = "down"
    /\ UNCHANGED <<files, caller, ver, next, rolledFrom, swap, ops, crashes, bootHead>>

MarkReady ==
    /\ Step("running", "running") /\ flag # "none"
    /\ flag' = "none"
    /\ UNCHANGED <<dir, payload, partial, mark, history, caller, ver, next, rolledFrom, swap>>

\* The swap script moves the payload once the process is gone.
SwapMove ==
    /\ pc = "down" /\ swap # None
    /\ payload' = payload \ {swap} /\ swap' = None
    /\ UNCHANGED <<dir, partial, mark, history, flag, pc, caller, ver, next, rolledFrom, ops,
                   crashes, bootHead>>

\* The process dies, or a file operation fails and the operation returns (the
\* result of mark_ready at startup is not looked at).
Crash ==
    /\ pc # "down" /\ crashes < MaxCrashes
    /\ crashes' = crashes + 1
    /\ \/ pc' = "down"
       \/ pc \notin {"running", "clearFlag", "exiting"} /\ pc' = "running"
       \/ pc = "clearFlag" /\ pc' = "exiting"
    /\ UNCHANGED <<files, caller, ver, next, rolledFrom, swap, ops, bootHead>>

Next ==
    \/ \E v \in Versions : StageBegin(v) \/ ApplyBegin(v)
    \/ StageRemove \/ StageRename \/ StageMark
    \/ WriteHistory \/ Prune \/ ApplyFlag \/ ApplySwap
    \/ Rollback \/ RollbackMark \/ RollbackMarker
    \/ Boot \/ BootClear \/ Exit \/ MarkReady \/ SwapMove
    \/ Crash

Spec == Init /\ [][Next]_vars

\* Calls return, and somebody starts the application again.
Internal ==
    \/ StageRemove \/ StageRename \/ StageMark \/ WriteHistory \/ Prune \/ ApplyFlag \/ ApplySwap
    \/ RollbackMark \/ RollbackMarker \/ Boot \/ BootClear
    \/ pc = "exiting" /\ Exit
FairSpec == Spec /\ WF_vars(Internal)

-----------------------------------------------------------------------------
(* Properties. *)

Points == {"down", "running", "stRemove", "stRename", "stMark", "stMarked", "histTrunc",
           "histWrite", "prune", "flagTrunc", "flagWrite", "swap", "rbMark", "rbMarker",
           "rbMarked", "clearFlag", "exiting"}

\* Every variable has its type; the history is short and has no duplicates.
TypeOK ==
    /\ dir \subseteq Versions /\ payload \subseteq dir /\ partial \subseteq dir
    /\ mark \in [Versions -> [Marks -> Content]]
    /\ \A h \in {history, next} :
          h \in Seq(Versions) /\ Len(h) <= HistoryCap /\ Cardinality(Range(h)) = Len(h)
    /\ flag \in {"none", "torn"} \cup Versions
    /\ pc \in Points /\ caller \in {"script", "apply", "boot"}
    /\ {ver, rolledFrom, swap, bootHead} \subseteq Versions \cup {None}
    /\ ops \in 0..MaxOps /\ crashes \in 0..MaxCrashes

\* Whatever is interrupted, history.txt never names a version whose directory
\* prune_old_updates has removed, so that a rollback has somewhere to go.
HistoryHasDirs == Range(history) \subseteq dir

\* The first-launch flag is a promise to roll back: only a script that says
\* the launch is good, or a rollback that has been written down, removes it.
\* A crash during the rollback leaves the flag for the next start.
UnreadyNotForgotten ==
    [][flag # "none" /\ flag' = "none" =>
          pc = "running" \/ (HeadOf(history) # bootHead /\ bootHead # None)]_vars

\* A rollback at startup that ran to its end leaves another version first, and
\* the one it left still in the history.
RollbackComplete ==
    pc = "exiting" => bootHead \in Range(history) /\ HeadOf(history) # bootHead

\* The files the next start works from are usable after every step and crash.
HistoryUsable == TypeOK /\ HistoryHasDirs /\ RollbackComplete

\* Rolling back at startup and restarting does not go on for ever.
StartupSettles == []<>(pc = "running")

=============================================================================
