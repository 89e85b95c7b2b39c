------------------------ MODULE MCIsolateCoordinator ------------------------
(* Two runtimes, two callers, two tasks: enough for a stop to race with a  *)
(* post to the same runtime at exit, and for one caller's runtime to fail  *)
(* while the other's is running.                                           *)
EXTENDS IsolateCoordinator

=============================================================================
