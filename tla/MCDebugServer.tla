---------------------------- MODULE MCDebugServer ----------------------------
(* Small instances of the debug server.  Each run picks the requests that  *)
(* its question is about.                                                  *)
EXTENDS DebugServer, TLC

CONSTANT c1

Request(op, id) == [op |-> op, ch |-> c1, id |-> id]

\* A delayed screenshot: before its delay it waits in the inbox, after it it
\* is like any other call.
ShotRequests == {Request("shot", TRUE)}

\* Every kind of request, and one without an id.
AllRequests == {Request(op, TRUE) : op \in Ops} \cup {Request("eval", FALSE)}
=============================================================================
