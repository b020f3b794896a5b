--------------------------- MODULE JobOrchestrator ---------------------------
(***************************************************************************)
(* The job orchestrator of the server (server/services/                    *)
(* gjc-job-orchestrator.ts): it admits runs in the durable store, hands    *)
(* them to the agent worker, writes their output and outcome, aborts them, *)
(* and reacts to the health of the store's process.                        *)
(*                                                                         *)
(* A thread is one activation of an async method.  An action runs one      *)
(* thread from one await to the next; between two awaits of a thread every *)
(* other one may move.  Requests reach the store in the order they were    *)
(* made; when the store's process fails, every request that has no answer  *)
(* is rejected, executed or not.  The store is JobAuthority; the worker    *)
(* is what gjc-worker-client.ts promises: each run it accepts ends once.   *)
(***************************************************************************)
EXTENDS Integers, Sequences, FiniteSets, SequencesExt

CONSTANTS
  Jobs,        \* jobs; a job's session has the name of the job
  Runs,        \* runs, each admitted by one call
  Kinds,       \* the calls users make: "start", "turn", "resume"
  Cancellable, \* runs whose caller may give up
  Cap,         \* the concurrency limit
  MaxFailures, \* bound: failures of the store's process
  MaxRefusals, \* bound: requests a working store refuses without a reason
  NULL

ASSUME KindsAssumption == Kinds \subseteq {"start", "turn", "resume"}
ASSUME CancellableAssumption == Cancellable \subseteq Runs
ASSUME OrchestratorBounds == MaxFailures \in Nat /\ MaxRefusals \in Nat

VARIABLES
  jobs, runs, latest, bindings, log, \* the store
  orc,                               \* the orchestrator, its requests, its runs
  up,                                \* the store's process serves requests
  failures                           \* how often it failed

store == <<jobs, runs, latest, bindings, log>>
vars == <<store, orc, up, failures>>

Server == "server"
Worktree == "worktree"
OutputId(r) == <<"output", r>>
NoteId(r) == <<"admission-failed", r>>

Store == INSTANCE JobAuthority WITH
  Sessions <- Jobs, Owners <- {Server}, Worktrees <- {Worktree},
  ProviderSessions <- {"provider"}, Payloads <- {"output", "note"},
  EventIds <- {OutputId(r) : r \in Runs} \cup {NoteId(r) : r \in Runs},
  ArchivableJobs <- {}
-----------------------------------------------------------------------------
Admission(r) == <<"admission", r>>
Completion(r) == <<"completion", r>>
Write(r) == <<"write", r>>
Abort(j) == <<"abort", j>>
Health == <<"health", NULL>>

Threads ==
  {Admission(r) : r \in Runs} \cup {Completion(r) : r \in Runs}
    \cup {Write(r) : r \in Runs} \cup {Abort(j) : j \in Jobs} \cup {Health}

(* mode: which of the ways to settle a run the thread is on. *)
Thread(step, mode, r, goal) ==
  [step |-> step, again |-> FALSE, mode |-> mode, run |-> r, goal |-> goal]

Idle == Thread("idle", "none", NULL, NULL)

(* Requests to the store; after an error, mutate reads the job again.      *)
Reads == {"resolve", "load", "bound", "look", "check", "read"}
Mutations == {"prepare", "admit", "mark", "transition", "cancel", "finalize"}

NewRun ==
  [job |-> NULL, kind |-> NULL, generation |-> 0, worker |-> "none",
   started |-> FALSE, signal |-> FALSE, failure |-> FALSE]

Resting == [phase |-> "idle", stopping |-> {}, confirmed |-> TRUE, todo |-> <<>>]

Ended == {"ok", "error", "aborted", "reaped", "not_started"}

(* The worker may still be at work on the run. *)
Live(r) ==
  \/ orc.run[r].worker = "issued"
  \/ orc.run[r].worker = "unconfirmed" /\ orc.run[r].started

LeaseOf(r) == Store!Lease(Server, orc.run[r].generation)

(* sameFence *)
SameFence(r) ==
  LET j == orc.run[r].job
  IN latest[j] = r /\ Store!VerifyLease(j, LeaseOf(r))
-----------------------------------------------------------------------------
(* Steps of a thread, as functions of the orchestrator. *)

JobOf(o, t) == IF t[1] = "abort" THEN t[2] ELSE o.run[t[2]].job

Waits(o, t, next) == [o EXCEPT !.th[t] = next]

Sent(o, t, next) == [o EXCEPT !.th[t] = next, !.calls = Append(@, t)]

FirstCall(o, t) ==
  CASE t[1] = "completion" -> "look"
    [] t[1] = "write" -> "check"
    [] t[1] = "abort" -> "read"
    [] t[1] = "admission" ->
         CASE o.run[t[2]].kind = "start" -> "reserve"
           [] o.run[t[2]].kind = "turn" -> "turnAdmit"
           [] o.run[t[2]].kind = "resume" -> "load"

(* serial: the threads of a job run one after the other. *)
HeadBegins(o, j) ==
  IF o.queue[j] = <<>> THEN o
  ELSE LET t == Head(o.queue[j])
       IN Sent(o, t, [o.th[t] EXCEPT !.step = FirstCall(o, t)])

(* Mutant: operations of a job do not wait for each other. *)
QueuedAtOnce(o, t, j, r) ==
  Sent(o, t, Thread(FirstCall(o, t), "none", r, NULL))

Queued(o, t, j, r) ==
  LET q == [o EXCEPT !.queue[j] = Append(@, t),
                     !.th[t] = Thread("queued", "none", r, NULL)]
  IN IF o.queue[j] = <<>> THEN HeadBegins(q, j) ELSE q

(* Mutant: an operation that ends does not let the next one begin. *)
FinishedAlone(o, t) ==
  LET j == JobOf(o, t)
      d == [o EXCEPT !.th[t] = IF t[1] = "abort" THEN Idle
                               ELSE Thread("done", "none", NULL, NULL)]
  IN IF o.queue[j] # <<>> /\ Head(o.queue[j]) = t
     THEN [d EXCEPT !.queue[j] = Tail(@)] ELSE d

Finished(o, t) ==
  LET j == JobOf(o, t)
      d == [o EXCEPT !.th[t] = IF t[1] = "abort" THEN Idle
                               ELSE Thread("done", "none", NULL, NULL)]
  IN IF o.queue[j] # <<>> /\ Head(o.queue[j]) = t
     THEN HeadBegins([d EXCEPT !.queue[j] = Tail(@)], j)
     ELSE d

(* forgetRun deletes by job. *)
Forgot(o, j) == [o EXCEPT !.active[j] = NULL]

(* stopRun and the signal's listener: a run the worker has not been asked  *)
(* for ends at once; any other one is asked to end.                        *)
AskedToStop(o, R) ==
  [o EXCEPT !.run = [r \in Runs |->
     IF r \in R /\ o.run[r].worker = "registered"
     THEN [o.run[r] EXCEPT !.worker = "not_started"] ELSE o.run[r]]]

Looks(o, t, mode, r, goal) == Sent(o, t, Thread("look", mode, r, goal))

Stops(o, t, mode, r) == Waits(AskedToStop(o, {r}), t, Thread("stopping", mode, r, NULL))

(* failRun *)
FailsRun(o, r) ==
  IF o.run[r].worker = "not_started" THEN Looks(o, Admission(r), "fail", r, "cancel")
  ELSE IF o.run[r].worker \in {"reaped", "ok", "error"}
  THEN Looks(o, Admission(r), "fail", r, "failed")
  ELSE Stops(o, Admission(r), "fail", r)

(* The catch of dispatch, once there is a worker run. *)
Caught(o, r) ==
  IF o.run[r].signal THEN Stops(o, Admission(r), "catch", r) ELSE FailsRun(o, r)

(* Mutant: a caller that gave up before the dispatch leaves its run open. *)
DispatchesSilently(o, r) ==
  IF o.run[r].signal THEN Finished(o, Admission(r))
  ELSE Sent(o, Admission(r), Thread("mark", "none", r, NULL))

(* The head of dispatch. *)
Dispatches(o, r) ==
  IF o.run[r].signal THEN Looks(o, Admission(r), "early", r, "aborted")
  ELSE Sent(o, Admission(r), Thread("mark", "none", r, NULL))

Cancels(o, r) == Sent(o, Admission(r), Thread("cancel", "none", r, NULL))

(* authorityHealth runs one transition after the other.  "Down" without a  *)
(* run blocks and is over at once; "up" with a run throws.                 *)
HealthMoves(o, todo) ==
  LET current == {o.active[j] : j \in Jobs} \ {NULL}
      busy == {i \in DOMAIN todo : todo[i] = (current = {})}
      i == IF busy = {} THEN Len(todo) ELSE CHOOSE k \in busy : \A l \in busy : k <= l
      later == SubSeq(todo, i + 1, Len(todo))
      p == [o EXCEPT !.blocked = @ \/ \E k \in 1..i : ~todo[k]]
  IN IF busy = {} THEN [p EXCEPT !.health = Resting]
     ELSE IF todo[i]
     THEN [Sent(p, Health, Thread("reconcile", "none", NULL, NULL))
             EXCEPT !.health = [Resting EXCEPT !.phase = "reconciling", !.todo = later]]
     ELSE [AskedToStop(p, current)
             EXCEPT !.health = [Resting EXCEPT !.phase = "stopping",
                                               !.stopping = current, !.todo = later]]

(* Mutant: news that arrive while one is handled are dropped. *)
HealthReportedWhenIdle(o, healthy) ==
  IF o.health.phase = "idle" THEN HealthMoves(o, <<healthy>>) ELSE o

HealthReported(o, healthy) ==
  IF o.health.phase = "idle" THEN HealthMoves(o, <<healthy>>)
  ELSE [o EXCEPT !.health.todo = Append(@, healthy)]
-----------------------------------------------------------------------------
(* Mutant: output that could not be written does not matter. *)
GoalsOfWorker(r) ==
  IF orc.run[r].signal \/ orc.run[r].worker = "aborted" THEN {"aborted"}
  ELSE IF orc.run[r].worker = "ok" THEN {"succeeded"} ELSE {"failed"}

(* The outcome a finished run is given, from the worker's end, the signal  *)
(* and whether its output was written.                                     *)
CompletionGoals(r) ==
  LET my == orc.run[r]
      failed == IF my.failure THEN {"failed"} ELSE {}
  IN CASE my.worker = "ok" ->
            IF my.failure THEN {"failed"}
            ELSE IF my.signal THEN {"aborted"} ELSE {"succeeded"}
       [] my.worker = "aborted" -> IF my.failure THEN {"failed"} ELSE {"aborted"}
       [] my.worker = "error" -> IF my.signal THEN {"aborted"} ELSE {"failed"}
       [] my.worker \in {"reaped", "not_started"} ->
            IF my.signal THEN {"aborted"} \cup failed ELSE {"failed"}

(* Mutant: a job may be resumed before it was prepared. *)
ResumableUnprepared(j) == jobs[j].state = "interrupted"

Resumable(j) == jobs[j].state = "interrupted" /\ jobs[j].worktree # NULL

(* The continuation of a request that was granted: the states it may lead  *)
(* to.  Reads look at the store as it is now.                              *)
Spawned(o, r) ==
  {[Waits(o, Admission(r), Thread("starting", "none", r, NULL))
      EXCEPT !.active[o.run[r].job] = r, !.run[r].worker = w] :
     w \in {"registered", "not_started"}}

Marked(o, r) ==
  IF o.run[r].signal THEN {Looks(o, Admission(r), "try", r, "aborted")}
  ELSE Spawned(o, r)

Running(o, r) ==
  {[Finished(o, Admission(r)) EXCEPT
      !.th[Completion(r)] = Thread("watching", "none", r, NULL)]}

Looked(o, t) ==
  LET my == o.th[t]
      r == my.run
      goals == IF t[1] = "completion" THEN CompletionGoals(r) ELSE {my.goal}
      finals == (goals \ {"cancel"}) \cup IF "cancel" \in goals THEN {"failed"} ELSE {}
  IN IF ~SameFence(r)
     THEN {IF t[1] = "completion" THEN Finished(o, t)
           ELSE Finished(Forgot(o, o.run[r].job), t)}
     ELSE {Sent(o, t, [my EXCEPT !.step = "finalize", !.goal = g]) : g \in finals}
            \cup IF "cancel" \in goals THEN {Sent(o, t, [my EXCEPT !.step = "cancel"])}
                 ELSE {}

Granted(o, t) ==
  LET my == o.th[t]
      r == my.run
      j == IF t = Health THEN NULL ELSE JobOf(o, t)
      goesOn(step) == {Sent(o, t, Thread(step, "none", r, NULL))}
  IN CASE my.step = "resolve" ->
            {IF jobs[j].state = "ready" /\ bindings[j].active
             THEN Queued(o, t, j, r) ELSE Finished(o, t)}
       [] my.step = "reserve" ->
            {[Waits(o, t, Thread("create", "none", r, NULL))
                EXCEPT !.run[r].generation = 1]}
       [] my.step = "prepare" -> goesOn("admit")
       [] my.step = "admit" -> {Dispatches(o, r)}
       [] my.step = "turnAdmit" ->
            {[Waits(o, t, Thread("list", "none", r, NULL))
                EXCEPT !.run[r].generation = jobs[j].next]}
       [] my.step = "load" ->
            IF Resumable(j) THEN goesOn("bound") ELSE {Finished(o, t)}
       [] my.step = "bound" ->
            {IF bindings[j].active THEN Waits(o, t, Thread("verify", "none", r, NULL))
             ELSE Finished(o, t)}
       [] my.step = "readmit" ->
            {Dispatches([o EXCEPT !.run[r].generation = jobs[j].next], r)}
       [] my.step = "mark" -> Marked(o, r)
       [] my.step = "transition" -> Running(o, r)
       [] my.step = "cancel" ->
            {IF my.mode = "fail" THEN Finished(Forgot(o, j), t) ELSE Finished(o, t)}
       [] my.step = "look" -> Looked(o, t)
       [] my.step = "finalize" -> {Finished(Forgot(o, j), t)}
       [] my.step = "check" ->
            IF SameFence(r) THEN goesOn("append") ELSE {Finished(o, t)}
       [] my.step = "append" -> {Finished(o, t)}
       [] my.step = "read" ->
            LET current == Thread("aborting", "none", latest[j], NULL)
            IN IF jobs[j].state = "running" THEN {Sent(o, t, current)}
               ELSE IF jobs[j].state # "aborting" \/ o.active[j] = NULL
               THEN {Finished(o, t)}
               ELSE {Stops(o, t, "own", o.active[j])}
       [] my.step = "aborting" ->
            {IF o.active[j] = NULL THEN Finished(o, t)
             ELSE Stops(o, t, "own", o.active[j])}
       [] my.step = "reconcile" ->
            {HealthMoves([o EXCEPT !.blocked = FALSE, !.th[Health] = Idle], o.health.todo)}

(* The exception a thread sees when a request failed for good. *)
Failed(o, t) ==
  LET my == o.th[t]
      r == my.run
  IN CASE my.step \in {"prepare", "admit"} -> Cancels(o, r)
       [] my.step = "transition" -> Caught(o, r)
       [] my.step \in {"look", "finalize"} /\ my.mode = "try" ->
            Looks(o, t, "catch", r, "aborted")
       [] my.step \in {"check", "append"} ->
            [Finished(o, t) EXCEPT !.run[r].failure = TRUE]
       [] my.step = "reconcile" ->
            HealthMoves([o EXCEPT !.th[Health] = Idle], o.health.todo)
       [] OTHER -> Finished(o, t)

(* mutate reads the job again before it gives up. *)
Rejected(o, t) ==
  IF o.th[t].step \in Mutations /\ ~o.th[t].again
  THEN Sent(o, t, [o.th[t] EXCEPT !.again = TRUE])
  ELSE Failed(o, t)

(* Did the request take effect although its answer was an error? *)
Confirmed(o, t) ==
  LET my == o.th[t]
      r == my.run
      j == o.run[r].job
  IN CASE my.step = "prepare" -> jobs[j].worktree # NULL
       [] my.step = "admit" -> latest[j] = r
       [] my.step = "mark" -> latest[j] # NULL /\ runs[latest[j]].dispatched
       [] my.step = "transition" -> jobs[j].state = "running"
       [] my.step = "cancel" -> ~Store!VerifyLease(j, LeaseOf(r))
       [] my.step = "finalize" ->
            \/ jobs[j].state = my.goal
            \/ ~SameFence(r) /\ jobs[j].state \in {"ready", "interrupted"}

(* A dispatch mark without a lease is an error that nothing compensates; a *)
(* cancelled admission must also find its terminal event.                  *)
Reread(o, t) ==
  LET my == o.th[t]
      j == JobOf(o, t)
      noted == \E i \in DOMAIN log[j] : log[j][i].id = Store!TerminalId(my.run)
  IN IF ~Confirmed(o, t) THEN {Failed(o, t)}
     ELSE IF \/ my.step = "mark" /\ jobs[j].owner = NULL
             \/ my.step = "cancel" /\ my.mode = "fail" /\ ~noted
     THEN {Finished(o, t)}
     ELSE Granted([o EXCEPT !.th[t].again = FALSE], t)
-----------------------------------------------------------------------------
Init ==
  /\ Store!Init
  /\ orc = [th |-> [t \in Threads |-> Idle], queue |-> [j \in Jobs |-> <<>>],
            calls |-> <<>>, refusals |-> 0,
            run |-> [r \in Runs |-> NewRun], active |-> [j \in Jobs |-> NULL],
            blocked |-> FALSE, health |-> Resting, sick |-> FALSE]
  /\ up = TRUE
  /\ failures = 0

(* What the store does with the request of a thread. *)
Executes(t) ==
  LET my == orc.th[t]
      r == my.run
      j == JobOf(orc, t)
      held == LeaseOf(r)
  IN CASE my.again \/ my.step \in Reads -> UNCHANGED store
       [] my.step = "reserve" -> Store!ReserveStart(j, j, Server)
       [] my.step = "prepare" -> Store!Prepare(j, held, Worktree)
       [] my.step = "admit" -> Store!Admit(j, held, r, j)
       [] my.step = "turnAdmit" -> Store!TurnAdmit(j, j, Server, r)
       [] my.step = "readmit" -> Store!Readmit(j, Server, r, j)
       [] my.step = "mark" -> Store!MarkDispatching(j, held, r)
       [] my.step = "transition" -> Store!Transition(j, held, "running")
       [] my.step = "aborting" -> Store!Transition(j, held, "aborting")
       [] my.step = "cancel" ->
            Store!CancelAdmission(j, held, NoteId(r), "note",
                                  IF my.mode = "fail" THEN Store!TerminalId(r) ELSE NULL)
       [] my.step = "finalize" ->
            Store!FinalizeRun(j, held, r, my.goal, Store!TerminalId(r), my.goal)
       [] my.step = "append" -> Store!AppendEventForRun(j, held, r, OutputId(r), "output")
       [] my.step = "reconcile" -> Store!Reconcile

Calling == Head(orc.calls)

Received == [orc EXCEPT !.calls = Tail(@)]

(* The store answers the oldest request. *)
Answer ==
  /\ up /\ orc.calls # <<>>
  /\ Executes(Calling)
  /\ orc' \in IF orc.th[Calling].again THEN Reread(Received, Calling)
              ELSE Granted(Received, Calling)
  /\ UNCHANGED <<up, failures>>

(* The store refuses it: it must, or it has a trouble of its own. *)
Refuse ==
  /\ up /\ orc.calls # <<>>
  /\ \/ ~ENABLED Executes(Calling) /\ orc' = Rejected(Received, Calling)
     \/ /\ ENABLED Executes(Calling)
        /\ orc.refusals < MaxRefusals
        /\ orc' = Rejected([Received EXCEPT !.refusals = @ + 1], Calling)
  /\ UNCHANGED <<store, up, failures>>

(* GjcNativeClient.failed: the health callback, then every request without *)
(* an answer is rejected, executed or not.                                 *)
Fail ==
  /\ failures < MaxFailures
  /\ failures' = failures + 1
  /\ up' = FALSE
  /\ orc' = FoldLeft(Rejected,
                     HealthReported([orc EXCEPT !.blocked = TRUE, !.calls = <<>>], FALSE),
                     orc.calls)
  /\ \/ UNCHANGED store
     \/ up /\ orc.calls # <<>> /\ Executes(Calling)

(* The client starts the process again; opening the store reconciles it.   *)
(* A reconciliation of the orchestrator overtakes the requests that wait   *)
(* for the process, or it does not.                                        *)
Restart ==
  /\ ~up
  /\ Store!Reconcile
  /\ up' = TRUE
  /\ LET o == HealthReported(orc, TRUE)
         asked == o.calls # orc.calls
     IN orc' \in {o} \cup IF asked THEN {[o EXCEPT !.calls = <<Health>> \o orc.calls]} ELSE {}
  /\ UNCHANGED failures
-----------------------------------------------------------------------------
(* start, turnStart and resume; turnStart looks its job up first. *)
Call(r, j, kind) ==
  LET o == [orc EXCEPT !.run[r].job = j, !.run[r].kind = kind]
      t == Admission(r)
  IN /\ ~orc.blocked
     /\ orc.th[t] = Idle
     /\ orc' = IF kind = "turn" THEN Sent(o, t, Thread("resolve", "none", r, NULL))
               ELSE Queued(o, t, j, r)
     /\ UNCHANGED <<store, up, failures>>

(* abort *)
CallAbort(j) ==
  /\ orc.th[Abort(j)] = Idle
  /\ orc' = Queued(orc, Abort(j), j, NULL)
  /\ UNCHANGED <<store, up, failures>>

(* The caller gives up; a run the worker knows is asked to end. *)
Signal(r) ==
  /\ r \in Cancellable /\ orc.run[r].job # NULL /\ ~orc.run[r].signal
  /\ orc.th[Admission(r)].step # "done" \/ orc.th[Completion(r)].step \notin {"idle", "done"}
  /\ orc' = AskedToStop([orc EXCEPT !.run[r].signal = TRUE], {r})
  /\ UNCHANGED <<store, up, failures>>

(* The Git process creates, lists or verifies a worktree, or fails to. *)
GitAnswers(r) ==
  LET t == Admission(r)
      step == orc.th[t].step
  IN /\ step \in {"create", "list", "verify"}
     /\ orc' \in
          CASE step = "create" ->
                 {Sent(orc, t, Thread("prepare", "none", r, NULL)), Cancels(orc, r)}
            [] step = "list" -> {Dispatches(orc, r), Cancels(orc, r)}
            [] step = "verify" ->
                 {Sent(orc, t, Thread("readmit", "none", r, NULL)), Finished(orc, t)}
     /\ UNCHANGED <<store, up, failures>>

(* run.started settles. *)
StartKnown(r) ==
  /\ orc.th[Admission(r)].step = "starting"
  /\ \/ /\ orc.run[r].started
        /\ orc' = Sent(orc, Admission(r), Thread("transition", "none", r, NULL))
     \/ /\ ~orc.run[r].started
        /\ orc.run[r].worker \in Ended \cup {"unconfirmed"}
        /\ orc' = Caught(orc, r)
  /\ UNCHANGED <<store, up, failures>>

(* Mutant: an acknowledged abort counts as the end of the run. *)
StopAcknowledged(t) ==
  LET my == orc.th[t]
  IN /\ my.step = "stopping"
     /\ \/ /\ orc.run[my.run].worker \in Ended \cup {"issued"}
           /\ orc' = Looks(orc, t, my.mode, my.run,
                           IF my.mode = "fail" THEN "failed" ELSE "aborted")
        \/ /\ orc.run[my.run].worker = "unconfirmed"
           /\ orc' = Finished(orc, t)
     /\ UNCHANGED <<store, up, failures>>

(* stopRun returns to the thread that waits for it. *)
StopReturns(t) ==
  LET my == orc.th[t]
  IN /\ my.step = "stopping"
     /\ \/ /\ orc.run[my.run].worker \in Ended
           /\ orc' = Looks(orc, t, my.mode, my.run,
                           IF my.mode = "fail" THEN "failed" ELSE "aborted")
        \/ /\ orc.run[my.run].worker = "unconfirmed"
           /\ orc' = Finished(orc, t)
     /\ UNCHANGED <<store, up, failures>>

(* One stopRun of authorityHealth(false) returns; the last one clears the  *)
(* map of active runs, whatever it holds by now.                           *)
HealthStopped(r) ==
  LET h == orc.health
      sure == h.confirmed /\ orc.run[r].worker \in Ended
  IN /\ r \in h.stopping
     /\ orc.run[r].worker \in Ended \cup {"unconfirmed"}
     /\ orc' =
          IF h.stopping # {r}
          THEN [orc EXCEPT !.health.stopping = @ \ {r}, !.health.confirmed = sure]
          ELSE HealthMoves(IF sure THEN [orc EXCEPT !.active = [j \in Jobs |-> NULL]]
                           ELSE orc, h.todo)
     /\ UNCHANGED <<store, up, failures>>
-----------------------------------------------------------------------------
(* The agent worker, as its supervisor reports it. *)

RunMoves(r, from, to) ==
  /\ orc.run[r].worker = from
  /\ orc' = [orc EXCEPT !.run[r].worker = to]
  /\ UNCHANGED <<store, up, failures>>

WorkerTakes(r) ==
  /\ ~orc.sick
  /\ orc.run[r].worker = "registered"
  /\ orc' = [orc EXCEPT !.run[r].worker = "issued", !.run[r].started = TRUE]
  /\ UNCHANGED <<store, up, failures>>

WorkerFailsToStart(r) == RunMoves(r, "registered", "not_started")

WorkerEnds(r) == \E outcome \in {"ok", "error", "aborted"} : RunMoves(r, "issued", outcome)

(* The worker process fails or is terminated with all its runs; a process  *)
(* tree that cannot be shown to be gone is never followed by another one.  *)
WorkerDies ==
  LET held == {r \in Runs : orc.run[r].worker \in {"registered", "issued"}}
  IN /\ held # {}
     /\ \E sick \in BOOLEAN :
          orc' = [orc EXCEPT
            !.sick = @ \/ sick,
            !.run = [r \in Runs |-> IF r \notin held THEN orc.run[r]
                                    ELSE [orc.run[r] EXCEPT !.worker =
                                            IF sick THEN "unconfirmed" ELSE "reaped"]]]
     /\ UNCHANGED <<store, up, failures>>

(* A run that was asked to end and does not is terminated. *)
Asked(r) ==
  \/ \E t \in Threads : orc.th[t].step = "stopping" /\ orc.th[t].run = r
  \/ r \in orc.health.stopping
  \/ orc.run[r].signal

Terminated(r) == orc.run[r].worker = "issued" /\ Asked(r) /\ WorkerDies

(* The worker sends a frame; a frame may report an unsuccessful turn. *)
Emits(r) ==
  /\ orc.run[r].worker = "issued"
  /\ orc.th[Write(r)] = Idle
  /\ \E bad \in BOOLEAN :
       orc' = Queued([orc EXCEPT !.run[r].failure = @ \/ bad], Write(r), orc.run[r].job, r)
  /\ UNCHANGED <<store, up, failures>>

(* completion: the run has ended and its output is written or lost. *)
Drained(r) ==
  /\ orc.th[Completion(r)].step = "watching"
  /\ orc.run[r].worker \in Ended
  /\ orc.th[Write(r)].step \in {"idle", "done"}
  /\ orc' = Queued(orc, Completion(r), orc.run[r].job, r)
  /\ UNCHANGED <<store, up, failures>>
-----------------------------------------------------------------------------
StoreStep ==
  Answer \/ Refuse \/ Fail \/ Restart

UserStep ==
  \/ \E r \in Runs, j \in Jobs, kind \in Kinds : Call(r, j, kind)
  \/ \E j \in Jobs : CallAbort(j)
  \/ \E r \in Runs : Signal(r)

OrchestratorStep ==
  \/ \E r \in Runs : GitAnswers(r) \/ StartKnown(r) \/ HealthStopped(r) \/ Drained(r)
  \/ \E t \in Threads : StopReturns(t)

WorkerStep ==
  \/ \E r \in Runs :
       WorkerTakes(r) \/ WorkerFailsToStart(r) \/ WorkerEnds(r) \/ Emits(r)
  \/ WorkerDies

Next == StoreStep \/ UserStep \/ OrchestratorStep \/ WorkerStep

Spec == Init /\ [][Next]_vars

(* A request is answered or its process fails and is started again; Git    *)
(* answers; promises settle; a run that was asked to end ends (stopRun     *)
(* terminates the worker).  Nobody promises that a run ends by itself.     *)
Fairness ==
  /\ WF_vars(Answer \/ Refuse)
  /\ WF_vars(Restart)
  /\ \A t \in Threads : WF_vars(StopReturns(t))
  /\ \A r \in Runs :
       /\ WF_vars(GitAnswers(r)) /\ WF_vars(StartKnown(r))
       /\ WF_vars(HealthStopped(r)) /\ WF_vars(Drained(r))
       /\ WF_vars(WorkerTakes(r) \/ WorkerFailsToStart(r))
       /\ WF_vars(Terminated(r))

FairSpec == Spec /\ Fairness
=============================================================================
