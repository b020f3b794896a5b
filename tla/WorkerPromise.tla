---------------------------- MODULE WorkerPromise ----------------------------
(***************************************************************************)
(* What the supervisor of the agent worker promises the rest of the server *)
(* about a run (the comments of GjcWorkerRun and GjcWorkerOutcome,         *)
(* server/gjc-worker-client.ts): a run works at most once, and a verdict   *)
(* other than "unconfirmed" is given only when it no longer works and      *)
(* never will again.                                                       *)
(***************************************************************************)
CONSTANT Runs

VARIABLES life, verdict

promiseVars == <<life, verdict>>

Verdicts == {"not_started", "aborted", "completed", "reaped", "unconfirmed"}

Init ==
  /\ life = [r \in Runs |-> "new"]
  /\ verdict = [r \in Runs |-> "none"]

(* A run enters the worker, before any verdict but "unconfirmed".          *)
Begin(r) ==
  /\ life[r] = "new" /\ verdict[r] \in {"none", "unconfirmed"}
  /\ life' = [life EXCEPT ![r] = "working"]
  /\ UNCHANGED verdict

(* Runs end in the worker; all of its runs end with the worker.            *)
Stop(R) ==
  /\ R # {} /\ \A r \in R : life[r] = "working"
  /\ life' = [r \in Runs |-> IF r \in R THEN "stopped" ELSE life[r]]
  /\ UNCHANGED verdict

(* What a verdict says of a run's life.                                    *)
True(r, v) ==
  CASE v = "not_started" -> life[r] = "new"
    [] v = "completed" -> life[r] = "stopped"
    [] v \in {"aborted", "reaped"} -> life[r] # "working"
    [] OTHER -> TRUE

Judge(R) ==
  /\ R # {} /\ UNCHANGED life
  /\ \E v \in [R -> Verdicts] :
       /\ \A r \in R : verdict[r] = "none" /\ True(r, v[r])
       /\ verdict' = [r \in Runs |-> IF r \in R THEN v[r] ELSE verdict[r]]

Next ==
  \/ \E r \in Runs : Begin(r)
  \/ \E R \in SUBSET Runs : Stop(R) \/ Judge(R)

Spec == Init /\ [][Next]_promiseVars
=============================================================================
