----------------------------- MODULE OneShotRun -----------------------------
(***************************************************************************)
(* What a WorkflowRun promises whoever creates one: it is carried out at   *)
(* most once, by one worker, while its phase says Running, and a phase     *)
(* that reports an outcome is never taken back.                            *)
(***************************************************************************)
CONSTANT Runs

VARIABLES phase, work

Final == {"Succeeded", "Failed"}

Init == phase = [r \in Runs |-> "absent"] /\ work = [r \in Runs |-> "none"]

Become(r, p, w) == phase' = [phase EXCEPT ![r] = p] /\ work' = [work EXCEPT ![r] = w]

Create(r) == phase[r] = "absent" /\ Become(r, "Pending", "none")
Take(r)   == phase[r] = "Pending" /\ Become(r, "Running", "going")

(* Marked as running by a worker that does not live to do it.              *)
Lose(r) == phase[r] = "Pending" /\ Become(r, "Running", "over")

(* The work ends, with the outcome reported unless the report is lost.     *)
End(r) == /\ work[r] = "going"
          /\ \E p \in {phase[r]} \cup Final :
               (p # phase[r] => phase[r] = "Running") /\ Become(r, p, "over")

(* Removing the request does not stop work that is going on.               *)
Remove(r) == /\ phase[r] \notin {"absent", "gone"}
             /\ Become(r, "gone", IF work[r] = "none" THEN "over" ELSE work[r])

Next == \E r \in Runs : Create(r) \/ Take(r) \/ Lose(r) \/ End(r) \/ Remove(r)

Spec == Init /\ [][Next]_<<phase, work>>
=============================================================================
