----------------------------- MODULE MCUpdater -----------------------------
(* Three versions with a history of two: the third one pushes the first     *)
(* out.  The operations install two versions and one more; a crash          *)
(* interrupts an operation, a second one its recovery.                      *)
EXTENDS Updater
=============================================================================
