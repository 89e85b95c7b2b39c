-------------------------- MODULE MCSingleInstance --------------------------
(* Small instances of the single-instance protocol: every process was      *)
(* started with one URL.                                                   *)
EXTENDS SingleInstance, TLC

MCOpens == <<"url">>
=============================================================================
