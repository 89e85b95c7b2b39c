------------------------------ MODULE MCTimers ------------------------------
(* Two timers of either kind and two animation frames: a callback can      *)
(* schedule, clear or outlive the other timer, and two ticks separate a    *)
(* deadline that has passed, one that is due and one that is not.          *)
EXTENDS Timers
=============================================================================
