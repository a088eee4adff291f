--------------------------- MODULE MCWorkflowRuns ---------------------------
(* Small instances of WorkflowRuns for TLC: workflows of two jobs of two   *)
(* steps: a chain against the order of the list with a condition and a     *)
(* lenient, guarded step; a cycle; a missing dependency; a runtime: client *)
(* workflow.                                                               *)
EXTENDS WorkflowRuns

CONSTANTS p1, p2, r1

J(needs, when, lenient) ==
    [needs |-> needs, when |-> when, lenient |-> lenient, guarded |-> lenient]
W(client, first, second) == [client |-> client, jobs |-> <<first, second>>]

Small ==
    { W(FALSE, J({2}, "flag", {}), J({}, "always", {2})),
      W(FALSE, J({}, "always", {}), J({2}, "always", {})),
      W(FALSE, J({}, "always", {}), J({0, 1}, "always", {})),
      W(TRUE, J({}, "always", {}), J({}, "always", {})) }
=============================================================================
