----------------------------- MODULE MCHttpPool -----------------------------
(* Three origins with one slot each in a pool of two: the origin's limit,   *)
(* the pool's limit and, with three waiting, the queue's limit are all      *)
(* reached.                                                                 *)
EXTENDS HttpPool
=============================================================================
