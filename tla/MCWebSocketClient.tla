------------------------- MODULE MCWebSocketClient -------------------------
(* Two of: a message in two fragments, a ping, a received frame.  Each      *)
(* option alone: idle timeouts and compression do not meet.                 *)
EXTENDS WebSocketClient

MCOptions == [idle : BOOLEAN, deflate : BOOLEAN] \ {[idle |-> TRUE, deflate |-> TRUE]}
=============================================================================
