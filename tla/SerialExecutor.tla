--------------------------- MODULE SerialExecutor ---------------------------
(***************************************************************************)
(* What a task runner promises its clients: a task that was accepted is    *)
(* executed exactly once, tasks of one runner are executed in the order in *)
(* which they were accepted, nothing is accepted once the runner is        *)
(* closed, and the runner finishes only when every accepted task has been  *)
(* executed.  The window-runtime threads of the isolate coordinator        *)
(* implement this specification (IsolateCoordinator.tla).                  *)
(***************************************************************************)
EXTENDS Naturals, Sequences

CONSTANTS
    Runtimes,   \* the runners
    Tasks       \* the tasks a client may submit

VARIABLES
    accepted,   \* accepted[r]: the tasks r has agreed to run, oldest first
    executed,   \* executed[r]: the tasks r has run, oldest first
    phase       \* phase[r]: "open", "closed" or "finished"

execVars == <<accepted, executed, phase>>

ExecInit ==
    /\ accepted = [r \in Runtimes |-> <<>>]
    /\ executed = [r \in Runtimes |-> <<>>]
    /\ phase = [r \in Runtimes |-> "open"]

Accept(r, t) ==
    /\ phase[r] = "open"
    /\ accepted' = [accepted EXCEPT ![r] = Append(@, t)]
    /\ UNCHANGED <<executed, phase>>

\* The oldest accepted task that has not run yet.
Execute(r) ==
    /\ phase[r] # "finished"
    /\ Len(executed[r]) < Len(accepted[r])
    /\ executed' = [executed EXCEPT ![r] = Append(@, accepted[r][Len(executed[r]) + 1])]
    /\ UNCHANGED <<accepted, phase>>

Close(r) ==
    /\ phase[r] = "open"
    /\ phase' = [phase EXCEPT ![r] = "closed"]
    /\ UNCHANGED <<accepted, executed>>

Finish(r) ==
    /\ phase[r] # "finished"
    /\ executed[r] = accepted[r]
    /\ phase' = [phase EXCEPT ![r] = "finished"]
    /\ UNCHANGED <<accepted, executed>>

ExecNext ==
    \E r \in Runtimes :
        \/ \E t \in Tasks : Accept(r, t)
        \/ Execute(r)
        \/ Close(r)
        \/ Finish(r)

ExecSpec == ExecInit /\ [][ExecNext]_execVars
=============================================================================
