------------------------- MODULE MCExtensionManager -------------------------
(* Small instances of ExtensionManager for TLC. *)
EXTENDS ExtensionManager

CONSTANTS c1, c2, l1, u1

Scene(calls, faults, until) ==
    [calls |-> calls, faults |-> faults, until |-> until,
     manifest |-> TRUE, restart |-> TRUE]
Mixed == {
    Scene({c1, c2}, {}, 2),
    Scene({c1, l1}, {"drop"}, 1),
    Scene({l1, u1}, {"fail", "drop"}, 0),
    Scene({c1, l1, u1}, {}, 0),
    Scene({c1, u1}, {"jam"}, 0),
    Scene({c1}, {"others"}, 2),
    [Scene({c1}, {"fail"}, 1) EXCEPT !.manifest = FALSE],
    [Scene({c1}, {}, 1) EXCEPT !.restart = FALSE]}
OneCommand == {Scene({c1}, {}, 0)}
=============================================================================
