--------------------------- MODULE MCOrgPlacement ---------------------------
(* Model-checking instance of OrgPlacement: the home cluster and another,  *)
(* two request handlers and the sweep.                                     *)
EXTENDS OrgPlacement

=============================================================================
