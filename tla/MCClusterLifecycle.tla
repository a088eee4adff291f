------------------------- MODULE MCClusterLifecycle -------------------------
(* One incarnation of a definition, its params the empty map or one of two *)
(* others, under one edit and one fault.                                   *)
EXTENDS ClusterLifecycle

CONSTANTS none, small, big

MCParams == {none, small, big}
MCFirstParams == {none, small}
=============================================================================
