----------------------------- MODULE MCContexts -----------------------------
(* Two commands side by side, on a machine that is new or whose contexts,  *)
(* called 1 and 2, are in use.                                             *)
EXTENDS Contexts, TLC

Symmetry == Permutations(Procs) \cup Permutations(Servers) \cup Permutations(Orgs)
=============================================================================
