------------------------------ MODULE MCUvLoop ------------------------------
(* The main thread, one worker that pumps, one thread that only posts: two *)
(* jobs are enough for a job to post the other, for a batch of two and for *)
(* both pumpers to hold a job.                                             *)
EXTENDS UvLoop
=============================================================================
