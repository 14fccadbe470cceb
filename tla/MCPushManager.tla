--------------------------- MODULE MCPushManager ---------------------------
(* Small instances of PushManager for TLC. *)
EXTENDS PushManager, TLC

CONSTANTS p1, c1, c2, q1, q2

NothingStored == <<>>
OneRunning == p1 :> [enabled |-> TRUE, cfg |-> c1]
=============================================================================
