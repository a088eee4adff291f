-------------------------- MODULE MCAgentEnrolment --------------------------
(* Small instances of AgentEnrolment for TLC: two pods of a rollout, one   *)
(* or two namespaces an identity may be for.                               *)
EXTENDS AgentEnrolment, TLC

CONSTANTS a1, a2, home, moved, img

Replicas == Permutations({a1, a2}) \cup Permutations({home, moved})
=============================================================================
