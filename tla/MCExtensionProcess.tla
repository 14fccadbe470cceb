------------------------- MODULE MCExtensionProcess -------------------------
(* Small instances of ExtensionProcess for TLC. *)
EXTENDS ExtensionProcess, TLC

CONSTANTS c1, c2

Scene(k1, k2, extra, faults) ==
    [kind |-> c1 :> k1 @@ c2 :> k2, stop |-> "stop" \in extra,
     probe |-> "probe" \in extra, faults |-> faults]
Mixed == {
    Scene("command", "batch", {"stop"}, {"cut", "spawn", "refuse"}),
    Scene("command", "command", {}, {"drop"}),
    Scene("batch", "batch", {}, {}),
    Scene("command", None, {"probe"}, {"hang"}),
    Scene("query", "session", {"probe"}, {"hang", "drop"}),
    Scene("chunk", "oneshot", {}, {"memory"}),
    Scene("chunk", None, {"stop"}, {"memory", "refuse", "cut"}),
    Scene("oneshot", None, {"probe"}, {"memory", "hang", "drop"}),
    Scene("chunk", None, {}, {"memory", "final"})}
=============================================================================
