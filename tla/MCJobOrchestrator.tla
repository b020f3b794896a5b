-------------------------- MODULE MCJobOrchestrator --------------------------
(* The orchestrator on small instances.  Two runs of a job share it with   *)
(* one disturbance at most: a failure of the store's process, a request it *)
(* refuses, or callers that give up; a resume meets only the failure, and  *)
(* beside a failure one frame is written, which reports no failed turn.    *)
EXTENDS JobOrchestratorProperties, TLC

Disturbances ==
  failures + orc.refusals
    + IF \E r \in Runs : orc.run[r].signal THEN 1 ELSE 0

Resuming == \E r \in Runs : orc.run[r].kind = "resume"

QuietOutput ==
  /\ \A r \in Runs : ~orc'.run[r].failure
  /\ Cardinality({r \in Runs : orc'.th[Write(r)].step # "idle"}) <= 1

OneDisturbance ==
  Init /\ [][/\ Next
             /\ Disturbances' <= (IF Resuming' THEN failures' ELSE 1)
             /\ failures' = 0 \/ QuietOutput]_vars

Symmetric == Permutations(Jobs) \cup Permutations(Runs)
=============================================================================
