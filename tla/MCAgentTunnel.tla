--------------------------- MODULE MCAgentTunnel ---------------------------
(* Small instances of AgentTunnel for TLC: one or two API pods, one agent  *)
(* pod or the two of a rollout.                                            *)
EXTENDS AgentTunnel, TLC

CONSTANTS p1, p2, old, new

Replicas == Permutations({p1, p2}) \cup Permutations({old, new})
=============================================================================
