---------------------- MODULE JobOrchestratorProperties ----------------------
(* What the orchestrator of JobOrchestrator must keep true. *)
EXTENDS JobOrchestrator

Steps ==
  {"idle", "queued", "done", "resolve", "load", "bound", "look", "check", "read",
   "reserve", "create", "prepare", "admit", "turnAdmit", "list", "verify", "readmit",
   "mark", "starting", "transition", "watching", "cancel", "finalize", "append",
   "aborting", "stopping", "reconcile"}

ThreadStates ==
  [step : Steps, again : BOOLEAN, mode : {"none", "early", "try", "catch", "fail", "own"},
   run : Runs \cup {NULL}, goal : {NULL, "cancel", "succeeded", "failed", "aborted"}]

RunStates ==
  [job : Jobs \cup {NULL}, kind : Kinds \cup {NULL}, generation : Nat,
   worker : {"none", "registered", "issued", "unconfirmed"} \cup Ended,
   started : BOOLEAN, signal : BOOLEAN, failure : BOOLEAN]

AtWork(t) == orc.th[t].step \notin {"idle", "queued", "done", "resolve", "watching"}

(* The fields of the orchestrator have their types; a thread waits for one  *)
(* request at most; only the oldest operation of a job is at work (serial). *)
TypeOK ==
  /\ orc.th \in [Threads -> ThreadStates]
  /\ orc.run \in [Runs -> RunStates]
  /\ orc.queue \in [Jobs -> Seq(Threads)] /\ orc.calls \in Seq(Threads)
  /\ orc.active \in [Jobs -> Runs \cup {NULL}]
  /\ orc.health.stopping \subseteq Runs /\ orc.health.todo \in Seq(BOOLEAN)
  /\ orc.health.phase \in {"idle", "stopping", "reconciling"}
  /\ orc.blocked \in BOOLEAN /\ orc.sick \in BOOLEAN /\ orc.health.confirmed \in BOOLEAN
  /\ \A i, k \in DOMAIN orc.calls : orc.calls[i] = orc.calls[k] => i = k
  /\ \A t \in Threads \ {Health} : AtWork(t) =>
       LET j == JobOf(orc, t) IN orc.queue[j] # <<>> /\ Head(orc.queue[j]) = t
  /\ orc.refusals \in 0..MaxRefusals /\ up \in BOOLEAN /\ failures \in 0..MaxFailures

Settled(r) == runs[r].state \in {"succeeded", "failed", "aborted"}

(* An outcome is written only when the worker is done with the run: no      *)
(* order of abort, cancellation, failure and end frees the job's slot while *)
(* the agent may still change the worktree.                                 *)
SettledBeforeEnded == \A r \in Runs : Settled(r) => ~Live(r)

(* A run called successful ended well, and the output it produced is in the *)
(* log: a write that failed, or is still on its way, is never passed over.  *)
SuccessIsWhole ==
  \A r \in Runs : runs[r].state = "succeeded" =>
    /\ orc.run[r].worker = "ok"
    /\ ~orc.run[r].failure
    /\ orc.th[Write(r)] # Idle => \E i \in DOMAIN log[runs[r].job] :
                                    log[runs[r].job][i].id = OutputId(r)

(* The agent works on one run of a job at a time, whatever calls, failures, *)
(* refusals and cancellations interleave.  A resume is left out: one that    *)
(* passed ensureAdmission before the store failed is readmitted as soon as   *)
(* the store is back, while the worker of the time before still runs         *)
(* (UnblockedAfterReap is about the same gap).                               *)
OneWorkerPerJob ==
  \A r, s \in {x \in Runs : Live(x) /\ orc.run[x].kind # "resume"} :
    orc.run[r].job = orc.run[s].job => r = s

(* No slot is freed and no second run begins behind the back of an agent   *)
(* that still works: abort, stopRun, complete and authorityHealth all      *)
(* decide about runs that other threads are deciding about.                *)
NoWorkBehindOutcome == SettledBeforeEnded /\ OneWorkerPerJob

(* Admission reopens only when no worker runs that nobody watches: the      *)
(* orchestrator is told that the store is back before the runs of the time  *)
(* before are over, and waits for them.                                     *)
UnblockedAfterReap ==
  [][orc.blocked /\ ~orc'.blocked => \A r \in Runs : ~Live(r)]_vars

(* Whatever happens to its requests, the orchestrator stays within the part *)
(* of the store's protocol that JobAuthority calls the server's client: it  *)
(* presents no lease of another run, ends a run with that run's own event,  *)
(* and readmits a job only with its worktree and through its session.  This *)
(* is Store!ClientSpec, with the stuttering looked at first.                *)
ClientOfTheAuthority ==
  Store!Init /\ [][store' # store => Store!ClientNext]_store
-----------------------------------------------------------------------------
(* Every call returns, every operation leaves the queue of its job. *)
CallsReturn ==
  \A t \in Threads : t[1] # "completion" =>
    (orc.th[t].step \notin {"idle", "done"} ~> orc.th[t].step \in {"idle", "done"})

(* An admitted run ends in the store once the worker never got it or is     *)
(* known to be done with it.                                                *)
RunsEnd ==
  \A r \in Runs :
    (/\ runs[r].state = "queued"
     /\ orc.th[Admission(r)].step = "done"
     /\ orc.run[r].worker \in Ended \cup {"none"}) ~> runs[r].state # "queued"

(* Neither a caller nor an admitted run waits for ever, whatever the store  *)
(* and the worker do to the requests they wait for.                         *)
WorkSettles == CallsReturn /\ RunsEnd

(* After the store's process came back, calls are admitted again, unless a  *)
(* worker could not be shown to be gone.                                    *)
AdmissionReopens == orc.blocked ~> ~orc.blocked \/ orc.sick
=============================================================================
