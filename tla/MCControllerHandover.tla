------------------------- MODULE MCControllerHandover -------------------------
(* Two clusters, a second organization that can change places with the first, *)
(* and a managed cluster with or without one resource.                        *)
EXTENDS ControllerHandover

=============================================================================
