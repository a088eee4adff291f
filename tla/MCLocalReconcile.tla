-------------------------- MODULE MCLocalReconcile --------------------------
(* Model-checking instance of LocalReconcile: two clusters, each of which  *)
(* may depend on either, and two commands.                                 *)
EXTENDS LocalReconcile

CONSTANTS p, q

TwoNames == {1, 2}
=============================================================================
