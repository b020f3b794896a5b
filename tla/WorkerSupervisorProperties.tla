---------------------- MODULE WorkerSupervisorProperties ----------------------
(***************************************************************************)
(* What the supervisor of the agent worker owes to the rest of the server. *)
(***************************************************************************)
EXTENDS WorkerSupervisor

(* No two worker processes are alive: the next one is started only after   *)
(* the end of the previous one is proved (ensureWorker, workerFailed).     *)
OneWorkerAlive == Cardinality({w \in Workers : host[w].up}) <= 1

(* A run written to a live worker, or working in one, is not decided yet,  *)
(* unless as unconfirmed: the job that gets the outcome may reuse its      *)
(* worktree at once (finishRun, workerFailed).                             *)
StartQueued(w, r) == \E i \in DOMAIN toWorker[w] : toWorker[w][i] = Request("start", r, 0)
OutcomeIsTrue ==
  \A r \in Runs, w \in Workers :
    host[w].up /\ (StartQueued(w, r) \/ Executes(w, r)) => run[r].outcome \in {"none", "unconfirmed"}

(* abort() says "aborted" only of a run that the worker stopped, or that   *)
(* is gone with its worker; "not_started" only of one no worker ever saw.  *)
Stopped(w, r) == host[w].run[r].abort \in {"requested", "aborted"} \/ ~Executes(w, r)
AbortIsTrue ==
  \A r \in Runs, w \in Workers :
    /\ run[r].told = "aborted" => Stopped(w, r)
    /\ run[r].told = "not_started" => ~StartQueued(w, r) /\ host[w].run[r] = NoHostRun

(* What is said of a run is true of every process that could still be at   *)
(* work on it, whatever crashes, late answers and retried stops came first.*)
VerdictsAreTrue == OneWorkerAlive /\ OutcomeIsTrue /\ AbortIsTrue

(* The browser gets at most one terminal message for a run, and when the   *)
(* run is over exactly one, unless the user stopped it or it was refused   *)
(* (handleEvent forwards one, finishRun writes one).                       *)
TerminalOnce ==
  \A r \in Runs :
    /\ run[r].terminals <= 1
    /\ run[r].phase = "over" /\ run[r].at # "none" /\ run[r].terminals = 0
         => run[r].aborted \/ run[r].outcome = "not_started"

(* A question is offered to the user only while the worker that asked it   *)
(* is the current one and its run is there (pendingApprovals,              *)
(* restoreApproval): an approval is never restored for a run that is over. *)
ApprovalsAreCurrent ==
  /\ \A r \in Runs : run[r].ask # "none" => run[r].phase = "issued"
  /\ \A r \in Offered : run[r].under = child /\ host[child].run[r].asks >= run[r].question

(* The browser is told the end of a run once and asked only what is still  *)
(* to be answered.                                                         *)
BrowserIsTold == TerminalOnce /\ ApprovalsAreCurrent

(* The worker refuses work only for a fence the server still holds: with   *)
(* the fence released and no admission request under way, new runs are not *)
(* refused (fenceForDesktopRestart, releaseDesktopRestartFence).           *)
NoStrayFence ==
  child # None /\ host[child].fence # None => fence.id = host[child].fence

(* An acknowledged fence keeps every start and query away from the worker. *)
FencedIsQuiet ==
  fence.acknowledged /\ fence.child = child =>
    /\ ActiveRuns = {} /\ ~starting
    /\ child # None => /\ ~\E i \in DOMAIN toWorker[child] : toWorker[child][i].method \in FencedMethods
                       /\ \A r \in Runs : ~Executes(child, r)

(* The server and its worker agree on the fence, also when the admission   *)
(* requests are late, lost or answered by a worker that was replaced.      *)
FenceIsKept == NoStrayFence /\ FencedIsQuiet

(* A report that no activity has outdated tells the truth: nothing runs in *)
(* any live worker, nothing is on its way to one, nobody waits for one     *)
(* (readDesktopRestartActivity).  The restart of the application relies on *)
(* it to stop the worker without losing work.                              *)
IdleProofHolds ==
  watch.proof =>
    /\ ActiveRuns = {} /\ pending = {}
    /\ \A w \in Workers : host[w].up =>
         /\ host[w].ops = {} /\ \A r \in Runs : ~InHost(host[w].run[r])
         /\ \A i \in DOMAIN toWorker[w] : toWorker[w][i].method \notin FencedMethods

(* The supervisor keeps the promise WorkerPromise states: this is its      *)
(* Spec, with the stuttering looked at first.                              *)
LifeOf(r) ==
  IF \E w \in Workers : Executes(w, r) THEN "working"
  ELSE IF \E w \in Workers : host[w].run[r].sdk # "none" THEN "stopped" ELSE "new"
Promise == INSTANCE WorkerPromise WITH
  life <- [r \in Runs |-> LifeOf(r)], verdict <- [r \in Runs |-> run[r].outcome]
KeepsPromise ==
  Promise!Init /\ [][Promise!promiseVars' # Promise!promiseVars => Promise!Next]_Promise!promiseVars

(* A run that was accepted is written to a worker or gets its outcome: no  *)
(* wait for a worker, for a reap or for options lasts forever.             *)
RunIsHandled ==
  \A r \in Runs : run[r].phase = "registered" ~> run[r].phase # "registered" \/ run[r].outcome # "none"

(* When its worker fails, a run gets its outcome.                          *)
FailureIsDecided ==
  \A r \in Runs : (run[r].phase = "issued" /\ child # run[r].under) ~> run[r].outcome # "none"

(* No run is left without a verdict, whatever becomes of its workers.      *)
RunsAreDecided == RunIsHandled /\ FailureIsDecided

(* Stop is always answered.                                                *)
AbortIsAnswered ==
  \A r \in Runs : run[r].stopping = "asked" ~> run[r].told # "none"

(* shutdown() settles.                                                     *)
ShutdownSettles == stop \in {"asked", "reap"} ~> stop \in {"done", "failed"}
=============================================================================
