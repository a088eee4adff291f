---------------------------- MODULE MCPinnedRefs ----------------------------
(* Model-checking instance of PinnedRefs: two definitions with the same    *)
(* workflow, to which one refers as a file and the other through its       *)
(* directory. The first has a driver module as well.                       *)
EXTENDS PinnedRefs, TLC

CONSTANTS p1, p2, mod, wf

TwoWants == p1 :> {mod, wf} @@ p2 :> {wf}
OneDir   == p1 :> {} @@ p2 :> {wf}
=============================================================================
