# Verification of the job, run and restart machinery of gajae-code-app

gajae-code-app is a desktop and web front end for a coding agent. A Node server
(`server/`) drives agent runs in a supervised worker process, keeps jobs and runs
in a durable store served by a native process (`native/gajae-core`), serves a React
client over HTTP and WebSocket, and runs inside a Tauri shell (`src-tauri/`) that
updates and restarts it. This directory holds TLA+ models of the parts whose
correctness depends on the order of events, the TLC configurations that check them
on small instances, and proofs of their main safety properties for every instance.

Run them from this directory, for example:

    tlc -workers 2 -config WorkerSupervisorSafety.cfg MCWorkerSupervisorSafety
    tlapm JobAuthorityProofs.tla

The modules whose names end in `Proofs` are for TLAPS.

## The system

| Component | Source | State it keeps | Talks to |
|---|---|---|---|
| Durable job authority | `native/gajae-core/src/jobs.rs` | SQLite tables `jobs`, `runs`, `job_events`, `session_job_bindings`; leases | one request at a time over stdio |
| Native process client | `server/services/gjc-git-client.ts` | child process, pending requests, restart back-off, retired children | spawns the authority and the Git process; tells the orchestrator of their health |
| Job orchestrator | `server/services/gjc-job-orchestrator.ts` | per-job queues, map of active runs, admission flag | authority, worker supervisor, Git client |
| Agent worker supervisor | `server/gjc-worker-client.ts` | the worker child, its runs, pending approvals, aborts, the restart fence | the worker process; orchestrator; chat |
| Agent worker host | `server/gjc-worker.ts`, `gjc-bun-sdk-adapter.ts` | sessions of the agent SDK | the supervisor |
| Chat run registry and browsers | `server/modules/websocket/services/`, `src/stores`, `src/contexts`, `src/hooks` | buffered frames of a chat run, sequence numbers, viewers; a browser's cursor, cards and busy marks | WebSocket, supervisor |
| Desktop restart authority | `server/services/desktop-restart-authority.ts` | admission counter, revision, the current attempt and its token | every owner of work; the worker's fence |
| Restart controller and channel | `server/services/desktop-restart-backend.ts`, `-channel.ts` | the active attempt, its token, draft epochs | native shell; restart authority |
| Desktop shell and updater | `src-tauri/src/lifecycle.rs`, `supervisor.rs`, `updater_*.rs` | server child, launch gate, restart attempt, journal of an installation | the server, the file system |
| Worktrees, Git, terminal | `session-worktree-*.ts`, `git.rs`, `pty.rs` | git and the file system | git |
| Automation, providers, database, routes, notifications, presentation | rest of `server/`, `src/` | settings, caches, views | each other |

What makes each of them hard, and what makes it correct:

* **Job authority.** Callers are concurrent, retry, and hold leases from before a
  crash. Correct means: the cap holds, a stale lease never writes, a job has at most
  one open run, an ended run stays ended, an outcome, its terminal event and the
  freed slot appear together, and a restart leaves nothing half open.
* **Job orchestrator.** Every method awaits between reading a job and acting on it;
  the authority, the worker, an abort and the worker's end interleave. Correct means:
  one worker run per job, a run's outcome written once and by the right party,
  admission blocked while the authority is unknown and open again afterwards.
* **Worker supervisor and host.** Aborts, timeouts, completions, late answers, the
  fence and the death of the whole child race. Correct means: each run is decided
  once, "stopped" is never claimed of a run that may still be going, and the reports
  and fences a restart relies on are true.
* **Native client.** The child dies with requests outstanding. Correct means: every
  request is settled, nothing is sent twice, a doubt is remembered, and no process is
  forgotten while it may still work.
* **Chat runs.** Late frames, several viewers and reconnecting browsers. Correct
  means: a transcript neither loses nor repeats a frame the ring still holds, nothing
  follows the end, cards are the open questions, and no session stays busy for ever.
* **Restart authority and controller.** The proof that everybody is idle is collected
  by asynchronous reads while owners change, over a channel that may end. Correct
  means: at the commit the system *is* idle and the shell waits for it, an abandoned
  attempt reopens everything it closed and disturbs no later one, and the answers
  given are true.
* **Updater.** The shell, its server or the machine may stop between any two steps of
  an installation and of the bookkeeping that proves it. Correct means: only a proven
  bundle is started without a proof, the installer works alone, an aborted restart
  leaves a working desktop, and an update that worked is never locked out.

PROJECT.json lists the hazards line by line with the property that covers each.

## Modules

| Module | Contents |
|---|---|
| `JobAuthority` | the store: one action per mutating operation of `jobs.rs`; `Spec` for any caller, `ClientSpec` for the calls the server makes |
| `RunLedger` | abstract specification: bounded slots, one open run per slot, one outcome per run |
| `JobAuthorityProperties`, `MCJobAuthority` | type invariant, safety, action properties, the refinement mapping to `RunLedger`; corners and symmetry for TLC |
| `JobAuthorityProofs` | theorems: types, leases, fencing, the cap, frozen runs; the sealed log, the tables that agree, the refinement of `RunLedger` |
| `DesktopRestartAuthority` | admission, prepare, commit, cancel, expiry, and the worker's half of the fence |
| `DesktopRestartProperties`, `MCDesktopRestart` | its properties and TLC instance |
| `DesktopRestartProofs` | theorems: ingress, the proof and finality of a commit; an attempt's token, fence and answer are what it was told; the composition with the controller |
| `RestartControl` | the Node end of the shell's control channel, composed with `DesktopRestartAuthority` |
| `RestartControlProperties`, `MCRestartControl` | their properties and TLC instance |
| `JobOrchestrator` | the orchestrator's async methods as threads over an instance of `JobAuthority`, the store's client and the agent worker as it sees them |
| `JobOrchestratorProperties`, `MCJobOrchestrator` | its properties, the refinement of `JobAuthority`'s client, its TLC instance |
| `WorkerHost` | the worker process: protocol host and the life of a run in the SDK runtime |
| `WorkerSupervisor` | the supervisor, composed with every worker process it ever starts |
| `WorkerPromise` | abstract specification: what the supervisor says of a run, and when it may |
| `WorkerSupervisorProperties`, `MCWorkerSupervisorSafety`, `MCWorkerSupervisorLiveness` | properties, the refinement of `WorkerPromise`, TLC instances |
| `WorkerSupervisorProofs` | what each step of a worker leaves of what may be known of its runs; theorems: what the supervisor says of a run, and what the browser is told |
| `WorkerFenceProofs` | theorems: the worker's admission fence, and the proof that it is idle |
| `WorkerPromiseProofs` | theorem: the supervisor and its workers refine `WorkerPromise` |
| `NativeClient`, `NativeClientProperties`, `MCNativeClient` | one native process owner with its processes |
| `NativeClientProofs` | theorems about both safety invariants |
| `ChatRuns`, `ChatRunsProperties`, `MCChatRuns` | the registry, the handlers of the chat messages and the browsers of one session |
| `ChatRunsProofs` | theorems: the transcript every viewer sees, and whose end ends what |
| `UpdateJournal` | the update journal as file operations on a disk that may lose them |
| `UpdateLaunch` | what a desktop shell does with the journal: start, install, prove, quit, die |
| `ManualRestart`, `ManualRestartProperties` | the restart transaction the user asks for, with all of the above; its properties |
| `ManualRestartProofs` | theorems: the hand-over to the installer, and the admission of a server at start |

How they fit together: `JobOrchestrator` holds an instance of `JobAuthority` and is
shown to be its client; `RestartControl` extends `DesktopRestartAuthority`;
`WorkerSupervisor` extends `WorkerHost` and is shown to implement `WorkerPromise`, which
is what `JobOrchestrator` assumes of a worker run; `ManualRestart` extends
`UpdateLaunch`, which extends `UpdateJournal`. Between `ManualRestart` and
`RestartControl` the control channel is the seam: the shell's `backend` is the state
`RestartControl` keeps, and what the shell relies on when it retires the channel (an
attempt that is not committed opens again) is `ControlIsHeld` and
`EveryAttemptSettles` there.

### JobAuthority

`jobs`, `runs`, `bindings` and `log` are the tables; `latest` is the run of a job
with the largest rowid, which `verify_current_run` looks up. The process holds an
exclusive lock on its database and wraps each mutation in one IMMEDIATE transaction,
so an operation is one atomic action; a refused request rolls back and is an action
that is not enabled. A crash of the process therefore never shows half an operation:
what a crash leaves is found by `Reconcile`, which is also the shutdown operation
(`interruptForShutdown` and `reconcile` are the same transaction) and may happen at
any time. An operation guarded by a lease takes the lease as a parameter, and `Next`
offers it every lease that was ever granted on that job: late and repeated calls of
former holders are part of the behaviour.

Identifiers are model values. Event payloads matter only by equality (an id that
comes back must bring the same payload). Schema migration, identifier and path
validation, prompts, listing and replay paging are left out.

`ClientSpec` narrows `Next` to what `gjc-job-orchestrator.ts` and
`gjc-jobs-client.ts` send: reservations come with a session, outcomes go through
`run.finalize` with the run's own terminal event, readmission needs a worktree and
the bound session. The properties listed under "safety for the server's client"
depend on that discipline and do not hold for an arbitrary caller of the protocol
(a caller may, for instance, finalize a job and leave its run open).

### DesktopRestartAuthority

`auth` holds the fields of the authority object and one record per attempt; `guests`
counts the leases callers hold; `busy` and `gen` are the owners of work, which change
at any time (their contract: every change is a new generation); `fence` is the
worker's `restartFence`. JavaScript runs one callback at a time, so an action is the
code between two awaits. An attempt that was abandoned still comes back from its
awaits, so attempts keep their own `step`, `closing` (the promise of `fence.close`)
and `cleanup` (the release `reopen` starts). Deadlines and tokens lapse in their own
actions; the code looks at the clock where `late` and `lapsed` are read. Every entry
point first calls `expire`: actions use `Expired(auth)`. An owner's answer is reduced
to `idle` or `blocked`; all shape checks of the answer lead to `blocked`.

### JobOrchestrator

A *thread* is one activation of an async method: the admission of a run (`start`,
`turnStart` or `resume` with the `dispatch` in its tail), the run's `completion`, a
write of its output (`enqueueEvent`), an `abort`, and the chain of `authorityHealth`
transitions. An action runs one thread from one `await` to the next, so everything
the code can interleave is interleaved and nothing else. `th` says where each
thread waits and with what in hand:

| Field | Code |
|---|---|
| `orc.queue` | `queues`, the promise chain of `serial`; its head is the operation at work |
| `orc.active` | `activeRuns`, keyed by job |
| `orc.blocked`, `orc.health` | `admissionBlocked`, `healthChain` with the transition at work and those behind it |
| `orc.calls` | requests to the store, in the order the child's stdin gets them |
| `orc.run[r].worker` | the run's promises in the supervisor: `registered`, `issued` (the request was written), its outcome, or `unconfirmed` when the process tree could not be shown to be gone |
| `orc.run[r].signal`, `.failure` | the caller's `AbortSignal`; `scope.failure` |
| `jobs`, `runs`, `bindings`, `log` | the store, as in `JobAuthority` |

*The store.* `Executes` is the store's side of the oldest request: an action of the
`JobAuthority` instance. `Answer` executes it and continues its thread; `Refuse` is a
request whose action is not enabled, or (at most `MaxRefusals` times) an error of the
store's own such as a full disk. After an error `mutate` reads the job again and asks
its `confirmed` predicate whether the call took effect: `again`, `Confirmed`,
`Reread`. `Fail` is `GjcNativeClient.failed`: the health callback comes first, then
every request without an answer is rejected; the oldest may have been executed, its
answer lost. The rejected threads take their next step within the same action, since
their promise jobs run before anything the process receives later. `Restart` is the
new child's readiness: opening the store reconciles it (`jobs.rs`), and the
reconciliation the health callback asks for may reach the child before or after the
requests that waited for it.

*The worker* is what `gjc-worker-client.ts` promises: a run is registered, then
issued or ended as `not_started`; an issued run ends once, or dies with the whole
worker process; `stopRun` on a registered run ends it at once, on an issued run asks
for the end and finally terminates the process. That the supervisor keeps these promises
is what `WorkerSupervisor` is checked for.

*Git* (`create`, `list`, `status`) answers or fails, nothing else.

`ClientOfTheAuthority` says that the orchestrator implements `JobAuthority`'s
`ClientSpec`: this is what entitles `authority_client` and the theorem
`ClientTypeCorrect` to speak of the server.

What the model shows about the design: outcomes stay right because the store fences
them, not because the queue orders them (without `serial` the type invariant fails,
the outcome invariants do not). What the queue and the map of active runs are needed
for is stopping the right worker.

**A divergence.** `orchestrator_reopen` is a counterexample of `UnblockedAfterReap`.
A `resume` that passed `ensureAdmission` before the store failed is still waiting for
Git; the store fails, and `authorityHealth(false)` collects the runs of that moment
and waits for them to stop. The store is back and reconciled, the `resume` is
admitted and starts a worker, and only then the last `stopRun` returns: `clearRuns`
empties the whole map. `authorityHealth(true)` finds it empty, reconciles (which
interrupts the new run's job) and reopens admission with that worker alive and known
to nobody. The test "two non-settling runs are reaped before an early healthy
authority notification admits work" and the guard that throws "GJC worker reaping is
unconfirmed." say this shall not be. The next `resume` of the job would start a
second worker in the same worktree, which is why `OneWorkerPerJob` is checked with
`start` and `turn` only: a turn needs a `ready` job, and a job whose worker was lost
sight of is `interrupted`.

### RestartControl

`channel` is the life of the one control connection a server sees; `active`, `token` and
`latest` are the fields of `DesktopRestartBackend`; `command` is the handler under way and
what it awaits: the browser's status, the authority's `prepare` or its `commit`. The
channel refuses a second frame while one is unanswered by closing, so there is one handler
at a time, and it outlives its channel. The draft epochs of the channel are the epochs of
the authority (the code hashes them with the channel's own). The controller is itself the
owner `ui-drafts` of the idle proof, so its owner in `DesktopRestartAuthority` is no longer
free: `DraftsFollow` ties `busy` and `gen` of that owner to the binding and the active
attempt. `Fresh` is the expiry every reader of `state` performs first: the lapse of the
token is `Expire`, a step of its own, because its timer may bring it at any time. The
handshake that authenticates the channel is one step, `Bind`.

What the model shows about the design: a disconnection stops a commit in two ways, by
`controllerLost` and by the generation of `ui-drafts`; with the first removed the second
still keeps the commit from succeeding, but the attempt then closes admission until its
token expires.

### WorkerHost and WorkerSupervisor

Every worker process ever started has a number; `host[w]` is what it holds, `toWorker[w]`
and `toApp[w]` are its pipes. `WorkerHost` is the protocol host with the SDK runtime: a run
is `starting`, `active` or `settling` in the SDK, may ask questions, is aborted by
`turn.abort` with a deadline of the host's own, and may fail its cleanup, which poisons the
worker. The methods that are no run are of two sorts, by what a fence does to them.

| Variable | Code in `gjc-worker-client.ts` |
|---|---|
| `child`, `ready`, `starting` | `this.child`, the initialized state, the promise of `ensureWorker` |
| `terminating`, `affected`, `failure`, `unreaped` | `terminatingGeneration` with its run ids, `terminationFailure`, the processes whose end is not proved |
| `run[r]` | an entry of `runs` with its promises: `phase`, `outcome`, `told` (the answer of `abort`), `ask` (its approval), `terminals` (messages written to the browser) |
| `pending`, `expired` | requests without an answer, and requests given up whose answer may still come |
| `fence`, `watch` | `restartFence`; the activity reader and the last report no activity has outdated (`proof`) |
| `stop` | where `shutdown` is |

JavaScript runs synchronous code and the continuations of settled promises before the next
event: `Quiescent` says that no continuation is due, and every action but one waits for it.
The exception is `Receive`: several frames of one chunk are read in a loop, so a later frame
can be handled before the continuation of an earlier response. `heard` of a host is whether
the server still reads it; what a dead or replaced worker writes then is not kept. Late
answers are kept in `expired` and their repetition in the `n` of a request, up to `MaxSame`.

An abort in the worker has a deadline: if the runtime refuses after it, the refusal is kept
(`promise` is `"false"`), the start is answered as a failure, and whoever asks again is told
so. `rev` is the generation the worker reports with its activity, counted under one fence.
The code's revisions only grow and count the host's operations too; in the model more
observations look alike, so the supervisor notices less. That a fence also stops the
runtime's own producers is not modelled: `SdkMoves` may happen under it.

Abstracted: session aliases, the Windows job guard, per-run process ids (the SDK runtime
reports none), token and model resolution, titles and goals.

`WorkerPromise` is the abstract specification: a run works at most once, and a verdict other
than `unconfirmed` is given only when it no longer works and never will again. `life` is
read from the processes, `verdict` from the outcome of the run's promise. `KeepsPromise` is
checked by TLC and proved (`PromiseAlwaysKept`).

An observation without a property: `shutdown` with no child returns at once
(`stopWorkerAndReap`), and `ensureWorker` does not look at `shuttingDown`. A call that
arrives after that starts a worker which nobody stops; the supervisor relies on its callers
having been closed before.

### NativeClient

A request is `starting` (it waits for a start), `restart` or `chained` (for the back-off
timer and the start it begins), `pending` (written) or settled; `go` and `again` are its
continuations that are due, and every event waits until none is. `process[g]` is the g-th
process with its inbox and its answers: it executes what it was sent in any order, also
while the signal that kills it is on its way. `executed` counts effects, which the client
cannot see. `report` is an idle activity report that no later activity has outdated.
`client.uncertain` is the mark a failed Git process leaves; the `jobs` client leaves none
because its owner re-reads and fences. `client.sealed` is the committed restart of the
application: `enter()` of the activity group throws from then on, so a new request and the
back-off timer are turned away. `Commit` sets it on an idle report that still stands; that
the coordinator commits only then is `CommitIsProven` of the restart authority. The process
reads its requests one by one, and a Git request has a watcher and a time limit beside it:
the model lets it execute what it holds in any order, which is more than it does. A malformed frame, a wrong
sequence or an exit are all `ChildFails`.

### ChatRuns

One session. `run[g]` is the g-th run ever sent: its events (numbered by position), its
viewers, the turn's own promise and the worker's open question. `current` is the registry's
entry. `browser[b]` is a browser: `cursor`, `last` and `retired` are the replay cursor and
the generations it will no longer accept, `shown` the frames accepted so far, `cards` its
approval cards, `busy` the busy mark and whether it is older than the last status check.
`inbox` and `outbox` are the two directions of its socket, in order, and lost with it. A
handler of the server is one action unless it awaits the model (`chat.send`) or the worker
(`chat.abort`). The worker is the environment: it emits, asks, withdraws, and ends.

A handler that waited answers on the socket its message came from: `sender` of a run and
the browser in `aborts` become `None` when that socket closes, and the answer is then
written to nobody even if the browser is back on another one. What `chat.send` refuses
besides a session that is at work (no such session, no provider, options that cannot be
combined) is one alternative of `Send`, with the one answer all of them have. `Abort` of a
run whose model is being resolved reaches the worker, or is refused: the code has a handle
by then in a worktree and a resumed session, and in no other; the model allows both. A run
asks one question; `reply` is an answer the worker has yet to accept, and when it does not,
`Reoffer` offers the question again (`restoreApproval`), up to `MaxOffers` times in all.

An observation: a message refused because a restart has closed admission
(`DESKTOP_RESTART_FENCED`) is answered without a session id, so the page cannot tell whose
busy mark it clears; only the poll of running sessions, which is not modelled, does. The
model's refusals carry the session, as all others do.

### UpdateJournal, UpdateLaunch and ManualRestart

`fs` is what a running process sees in the update directory, `safe` what is certain to be
there after the machine stopped; a directory change without a sync is a group of names in
`pending` that reaches the disk together or not at all, and a file with unsynced bytes is in
`loose` and may come back old, new or torn. `Begin`, `Installed`, `Recover` and `Finish` are
the file operations of the four journal operations in the code's order; `Execute` performs
one, and the shell or the machine may stop between any two. `Check` and `FromCompletion` to
`OwnersGone` are what a starting shell reads: the ordinary start without a proof, and the
attempt it may resume.

| Variable | Code |
|---|---|
| `gate` | `LaunchGate.phase` (`updater_launch.rs`) |
| `task` | what the shell's update thread does, and the file operations ahead of it |
| `app`, `settled` | the installed bundle (0 when it is not whole), and whether its bytes are certainly on the disk |
| `server`, `ready` | the sidecar of this shell, or an orphan of an earlier one; the page is shown |
| `quitting` | `shutting_down` of `lifecycle.rs`, and by whom |
| `last` | the shell before this one is a zombie its parent has not reaped |
| `manual` | the attempt of `updater_restart.rs`: its phase and its owner's step |
| `backend`, `channel` | the restart authority as the shell knows it, and its end of the control channel |

A process id in a record is one of `self`, `last`, `orphan` or `gone`: what `kill(pid, 0)`
with the start time can tell. `Age` moves them as processes end. The installer is one action
with the outcomes its contract allows when it is interrupted: the old bundle, the new one,
or one that is not whole; a bundle that is not whole does not start, which is the signature
check of the operating system and not of this code. `Quit` is the quit that `holds_exit` can refuse;
the Quit event that macOS does not let an application refuse ends the shell wherever it is,
and is `ShellDies`. The owner's checks before `Commit` (deadlines, the owned process
tree, the target's record) may fail at any step, so each step may choose to abort.

`UpdateRecovers` asks for a working desktop again and again, or for one and the same damage
that has come to stay: a bundle that is not whole, one torn record, an installation cut off.
Each of these also shows for a moment in an update that goes well, and in the recovery that
every start repeats; so damage that is merely there again and again is no excuse, and a
receipt that every start finishes anew and never gets past counts as the lock-out it is.

Observations without a property:

* A restart refused at the last moment (`RestartDeferred`: deep links cannot be saved)
  leaves the attempt in `Restarting`, and `holds_exit` goes on refusing to close; only the
  Quit event that macOS does not let an application refuse gets the user out.
* A machine stop while a record is being written leaves a torn file, which blocks the
  desktop until somebody looks, by design; this includes an empty `stage`.
* Replacing the bundle by hand with an older one and updating again makes `finish` refuse
  the newer receipt. Changes of the bundle by anybody else are not modelled.

## Runs

| Run | Question | Bounds |
|---|---|---|
| `authority_anyone` | do jobs share the cap, sessions and leases correctly, and do fencing, frozen runs and the log hold over the life of a job, for any caller? | 2 jobs, 3 runs, 1 session, cap 1; corners *competing* (2 runs) and *alone* (1 job, 3 runs, provider session, archiving while there are 2) |
| `authority_client` | as the server uses it: do the tables agree with each other, and is `RunLedger` implemented? | 2 jobs, 2 runs, 2 sessions, cap 1 |
| `restart_safety` | is the system idle at the instant of the commit, is the commit final, and do attempts that overlap leave fence, counter and answers right? | worker and one other owner, 2 attempts; corners *fencing* (2 controllers, 2 attempts, the worker only) and *proving* (1 attempt, both owners) |
| `restart_control` | can every attempt be reached by its shell, is it committed only for a shell that waits, and does it settle? | worker and `ui-drafts`; corners *drafts* (2 draft epochs) and *callers* (1 draft, callers and the worker's work) |
| `orchestrator_safety` | with one disturbance, does an outcome wait for the worker, is a success whole, does the orchestrator stay within its client's protocol? | 1 job, 2 runs; 1 failure, or 1 refusal, or callers that give up |
| `orchestrator_liveness` | does every call return, every run end, admission reopen? | 1 job, 1 run, cancellable, 2 failures |
| `orchestrator_reopen` | expected violation: is every worker gone when admission reopens? | 1 job, 2 runs, 1 failure |
| `worker_safety` | are verdicts, terminal messages, approvals, fences and idle reports true of every process that may still work? | 2 workers; corners *run* (1 run with question, stops and late answers), *siblings* (2 runs), *fence* (1 run or call, a fence, the worker's own activity) |
| `worker_liveness` | does every run get a verdict, every stop an answer, does shutdown settle? | 2 workers, 2 runs; corners *waiting* (no stops) and *stopping* (1 run, shutdown) |
| `native_client` | is nothing replayed, forgotten or reported idle while it works, and is every request settled? | 2 requests, 1 observer, 2 failures, both commands |
| `chat` | are transcripts whole, cards true, ends a run's own, and does busy end? | a ring of 2 frames, 2 requests of a browser; corners *viewing* (2 browsers with 2 requests between them, 1 run), *offering* (1 browser, 1 run, its question offered twice) and *returning* (1 browser, 2 runs) |
| `desktop_update` | is every start without proof earned, is the hand-over safe, does the desktop come back unless one damage stays for good? | 2 updates in a row, 3 disturbances (failures, deaths, machine stops, quits) |

Why the bounds are enough. A *corner* is a choice a behaviour makes at its start: its MC
module lets one sort of behaviour be long and the other short, so that two hazards that do
not meet each other need not be explored together. Corners restrict what users and the
environment do, never a continuation of the code, and so take nothing from the fairness.

In the authority a job interacts with another only through
the cap and a session's binding, and with its own past through generations and run
ids: two jobs with cap 1 make both contend, and one job with three runs passes through
admission, outcome, turn, interruption and readmission with three tenures. Runs and
event ids are never reused, so the number of ids bounds the state space; no counter
is cut. In the restart authority two owners suffice for reads at different moments
(one changes after it was read, before the other is), two attempts for a late cleanup
that meets the next attempt; `MaxRevision` and `MaxGen` only stop callers and owners
from starting more work, never a continuation of the authority. The controller forgets
its attempt, or another draft is refused: two drafts show both.

In the orchestrator jobs meet only in the store (whose own runs have two jobs) and in
the worker's death; the queue, the map entry, the fences and the outcome belong to
one job, so one job with two runs makes an old run meet its successor. A single
failure already loses an answer, rejects waiting requests and interleaves the health
chain with calls; the liveness run has two, so that news arrive while news are
handled. A run sends one output frame; beside a failure only one of the two runs does. A
failure executes at most the oldest unanswered request: more would only add requests that
were executed and whose answers nobody awaits differently. `MaxFailures`, `MaxRefusals`
and `Cancellable` bound the environment. Refusals are 0 in the liveness run:
a store that refuses `markDispatching` for a reason of its own leaves its run queued
until the next reconciliation, because nothing in `dispatch` compensates that error.

Two workers make a process meet its successor, two runs share a worker that fails under
both; a run asks once, and a request of one method may be live twice (`MaxSame`), which is
what a retried stop and a late answer need. `MaxMoves` bounds the SDK's own activity under a
fence. In the native client two failures give a process, its replacement and the
replacement's own failure. In the chat two frames and a ring of two make a replay that
begins behind the ring possible; one lost socket or restart lies in every window, except
that two browsers which see a question twice keep their sockets; sends are refused for what
they say, and runs aborted, in the corners of one browser (aborts in *returning* only). In the
desktop, version 1 was installed by hand and two updates follow, so that the receipt of the
first is there when the second begins; three disturbances are, for instance, a failed file
operation, the death of the shell that recovers from it, and a machine stop.

Deadlock checking is off everywhere. The tables, ids and faults of the bounded systems are
used up and the system rests; and the desktop really may stop: a torn record or an
interrupted installation blocks every start until a person looks (`BlocksForGood`).

**Fairness.**

* *Restart control.* Weak fairness of every attempt's continuations (promises settle, and
  the worker's requests carry a one-second timeout that counts as an answer), of the
  attempt's deadline and token timer, of the expiry callback, of the continuations of
  `prepare` and `commit`, and of the channel's watchdog. The browser's status need never
  come, and nobody has to enter, leave, change or send a command. An owner's reader need
  not answer in the code: `read` is raced against the deadline, which is why `ReadOwner`
  may return `blocked` at any time.
* *Orchestrator* (`FairSpec`). A request is answered or its process fails, and the client
  always starts it again; Git answers; promises that are settled continue their threads; a
  registered run is taken or not started; a run that was asked to end is terminated,
  because `stopRun` ends in `terminate`. Nobody promises that a run ends by itself, that a
  caller gives up, or that failures happen. `RunsEnd` speaks of runs whose worker is done,
  `AdmissionReopens` excepts a worker whose process tree could not be shown to be gone.
* *Worker* (`FairSpec`). Weakly fair: continuations, frames of the current worker, `killTree`
  with either outcome. Strongly fair: the timers of `initialize`, `turn.abort` and
  `shutdown`, and the options of a run. These are events that are due but wait for
  `Quiescent`, which other continuations make false again and again; the event loop comes
  back to them. The worker process itself is not fair: it may hang at any point.
* *Native client.* Continuations, frames and exits of processes, the end of one that was
  killed, the back-off timer, the timer of a child that does not become ready, and that a
  process executes or answers what it was sent (its requests have no timer of their own).
* *Chat.* Sockets deliver or close, a browser reconnects, the model is resolved or not, and
  the promise of a run settles, which is `RunsAreDecided` of the worker.
* *Desktop.* The startup thread, the server's start, its exit once it was signalled, the
  restart's owner and the draft timer go on; dead shells are reaped and orphans exit (they
  lost their shell's pipe); a patient user leaves a recovery screen and starts the app
  again. No fairness of failures, of clicks, or of Quit elsewhere.

## Proofs

### The job authority

`JobAuthorityProofs` proves, for any finite sets of jobs and runs, any sessions,
owners, events and any cap from 1 to 64:

| Theorem | Property |
|---|---|
| `TypeCorrect`, `ClientTypeCorrect` | `TypeOK`, under `Spec` and under `ClientSpec` |
| `LeaseAlwaysMatchesState` | `LeaseMatchesState` |
| `FencingHolds` | `FencingTokenGrows` |
| `CapacityHolds` | `CapacityBound` |
| `SessionsHaveOneJob` | `SessionHasOneJob` |
| `EndedRunsStay` | `EndedRunIsFrozen` |

The two next-state relations use different event ids and guards; `AnyNext` covers
both, and each preservation lemma is about `AnyNext`. `LeaseMatchesState` is not
inductive: a reservation of a fresh row restarts at generation 1, which is only
larger than the row's last generation because a row that does not exist never had
one. The inductive invariant is `LeaseInv`, the conjunction of `TypeOK`,
`LeaseMatchesState` and `AbsentIsFresh`. `EveryStepIsJobStep` reduces every
operation's effect on a job row to four kinds (untouched, moved on within the slot,
tenure ended, tenure begun with a free slot), from which fencing and the cap follow
without looking at the operations again; the cap uses the library's cardinality
facts and the finiteness of `Jobs`.

Its second part goes on from there:

| Theorem | Property |
|---|---|
| `LogsAreSealed` | `LogIsSealed`, for any caller |
| `TablesInvHolds` | the invariant `TablesInv`, under `ClientSpec` |
| `TablesAlwaysAgree` | `TablesAgree`, under `ClientSpec` |
| `LedgerIsImplemented` | `ImplementsLedger`: `ClientSpec` implements `RunLedger` |

`TablesAgree` is not inductive. That a job has one open run only survives an admission
because the job's *latest* run is the only one that can be open, and that the terminal
event tells the outcome only survives the next append because the reserved ids of a run
that is not over are nowhere in any log. `TablesInv` is `TypeOK` with

* `RowsAgree`: what a job row promises of the run it looks up last, and what an open run
  promises of its job; both directions are needed, since an outcome frees the slot from
  the run's side and a turn takes it from the job's side;
* `LogAgrees`: ids are unique, an event that names a run belongs to that run's job, a
  terminal or shutdown event says how its run ended, and every end but a failed
  admission is told, by exactly one of the two.

An operation other than `Reconcile` writes one job's row and log (`OnlyJob`), so its
preservation is about that job; `Reconcile` writes them all, and its append to each log
is a function of the open run of that job. The refinement reads the run in a slot off the
job row (`LedgerView`), shows that the view follows from the invariant, and maps every
operation to a step of the ledger or to a stutter.

Assumptions: those named in `JobAuthority` (cap in 1..64 as `validate_cap` demands,
finitely many ids, NULL is no id, the reserved event ids are not made up by callers).

### The restart authority

`DesktopRestartProofs` proves, for any finite set of owners the worker is one of, any
controllers and any number of attempts:

| Theorem | Property |
|---|---|
| `TypeCorrect` | `TypeOK` |
| `IngressAlwaysAccounted` | `IngressIsAccounted` |
| `CommitsAreProven` | `CommitIsProven` |
| `CommitsAreFinal` | `CommitIsFinal` |
| `AttemptsAlwaysKept` | `AttemptsAreKept` |

The inductive invariant is `IInv`: the types; the ingress counter's account; and three
facts the properties do not mention.

* `Orderly`: the current attempt, and every attempt not begun yet, has no cleanup.
  Without it, giving an attempt up could start a second cleanup of the same attempt
  and the account would be wrong.
* `ReadsHold`: an owner an attempt found idle is idle, and the worker is fenced for
  that attempt, *as long as its generation is still the one it was read at*; a clean
  snapshot found every owner idle. This is what makes reads of different moments a
  proof of one: any change raises the generation and leaves the implication true, and
  the commit compares the generations last (`ProofIsOfNow`).
* `Sealed`: a committed attempt is the current one, its functions have returned,
  nobody is inside and the fence is its own. Its cleanup cannot be under way, since
  that would be an ingress.

The functions of the authority are applied one after the other (an entry point first
expires, then acts), so the invariant's core `Sound` speaks of a state record, and one
lemma per function (`EndedSound`, `ReadingSound`, `ReopenedSound`, `ExpiredSound`)
says that it keeps it; one lemma per action follows from those. For the two action
properties, `WinnersChange` shows that no step but `CommitsNow` changes which attempts
are committed.

The second part of the module proves `AttemptsAreKept`: a token that can be
committed has its own fence, acknowledged, on the worker; there is no stray fence; the
answer to a commit is true. None of these can be read off the present state, because the
requests to the worker are in flight and come back late. `KInv` is `IInv` and `Kept`, which
relates the phase of an attempt to the step its function waits in, to how its promise of
`fence.close` settled and to how far its cleanup has come, and these to the fence: a
requested or closed fence is the attempt's own until its release is done, and a release
that was not acknowledged latches the authority.

Assumptions: those named in `DesktopRestartAuthority` (finitely many owners, the worker
among them, bounds are numbers).

### The restart authority under its controller

The last part of `DesktopRestartProofs` is about `ControlSpec`, the composition. Most steps of the
controller change the authority and the owner of the drafts in one callback, so they are
not steps of the authority's own specification, and nothing proved there carries over by
itself; what carries over are the lemmas about the authority's functions.

| Theorem | Property |
|---|---|
| `ControlInvHolds` | the invariant `ControlInv` |
| `ControlAlwaysHeld` | `ControlIsHeld` |
| `ShellAttemptsAreKept` | `AttemptsAreKept`, of the composition |
| `ShellCommitsAreProven`, `ShellCommitsAreFinal` | `CommitIsProven`, `CommitIsFinal`, of the composition |

`ControlInv` is `KInv`, the types, and what ties the two halves together: the owner
`ui-drafts` is busy unless the controller has sealed drafts (`DraftsTold`), an attempt of
interest has the draft it was asked for (`Named`), the current attempt is one the shell can
reach (`AttemptIsReachable`), a channel that ended keeps at most a committed attempt
(`Withdrawn`), and a handler that waits knows what it will find (`HandlerKnows`: while
`commit` waits, only its own attempt can be the one that commits). `Advances` says what the
authority may do without its controller: no attempt begins, and only a commit that was asked
for succeeds.

Assumptions: in addition those of `RestartControl` (the drafts are an owner other than the
worker; draft epochs are positive numbers).

### The agent worker

`WorkerSupervisorProofs`, for any runs, calls and fences, any number of workers, of requests
of one method and of moves under a fence:

| Theorem | Property |
|---|---|
| `WorkerInvHolds` | the invariant `WorkerInv` |
| `VerdictsAlwaysTrue` | `VerdictsAreTrue` |
| `BrowserAlwaysTold` | `BrowserIsTold` |

A verdict is given far from where it can be seen to be true: the supervisor reads that a run
was stopped while its worker has gone on. A run is in three places of a worker: the pipe to
it, the record the worker keeps, and the pipe from it. `Place` says how the three agree: a
run is queued at most once and only while the worker has not seen it, and what a frame on its
way back says of the run is still so when the frame is read. Four things may be known of a run
at a worker: that the worker has not heard of it (`Untouched`), that it is neither at work nor
queued (`Quiet`), that it can only end (`Stops`), that it will send no more events (`Spent`).
The module's first half shows, with one lemma for each step of the worker, that each of the
four stays known while the worker goes on (`Advances`); an abort request in the pipe and the
promise it waits for in the runtime are the hard cases.

The supervisor's half is `Knows`: which of the four its record of a run claims of *all*
workers. A run not sent yet is untouched, a run with an outcome is quiet, one that was told
`aborted` stops, one whose terminal event was forwarded is spent. `Moves` says that a step
changes the record only to claim what was known before or has just been read off an answer.
Beside it stand `Processes` (the worker that may be up is the child, or the one being
terminated, or a failure is latched; every other one is silent), without which a claim about
all workers could not be made from one worker's answer, `Consistent` (the record alone) and
`Owned` (the worker a run was sent to). `WorkerInv` was checked by TLC on the bounds of
`worker_safety` before it was proved.

`WorkerFenceProofs` goes on from there:

| Theorem | Property |
|---|---|
| `FenceInvHolds` | the invariant `WorkerInv /\ FenceInv` |
| `FenceAlwaysKept` | `FenceIsKept` |
| `IdleProofAlwaysHolds` | `IdleProofHolds` |

Both properties are about requests the supervisor no longer waits for: a `close` whose timer
fired may still be on its way to the worker, behind it may come an `open`, and the answer to
an observation may be one that was asked for before a run was started. `Line` says what the
pipes of the current worker may hold against what the supervisor has not seen answered
(`Outstanding`, the requests that timed out included):

* `OnePlace`: a request is in the pipe to the worker, among its operations, or answered in the
  pipe back, in one of them and once. A request outstanding cannot be answered twice, and a
  report of activity on its way is the one the reader's slot is held for.
* `OfOneFence`: what closes or opens the worker, its answer and the worker's own fence all
  carry the fence the server holds. Needed, because the supervisor reuses a worker under the
  next fence, and only an acknowledged release makes it forget the last.
* `LastWord`: who waits for an admission request waits for the last one written; when an
  `open` that somebody waits for is answered the worker has no fence left, whatever was given
  up before it.
* `Shielded`: behind a request to close, and under an acknowledged fence, nothing that a fence
  refuses is in the pipe.

Beside it, `Drained`: once the worker may be fenced, nothing accepted has yet to be written
(`Free`), and nothing is accepted until the release; `Decided`: a run that is over has its
outcome; `Tables`: what the request tables hold, and that only an admission request gives up
without leaving a doubt; `Vouched`: the proof, or a reading no activity has disturbed, means
that the supervisor waits for nothing (`Still`), and an idle answer that is read or on its
way means that the worker rests, and it still does because nothing can wake it. As before,
one lemma per step of the worker says that it keeps the line (`HostStepKeeps`), one per step
of the supervisor that it keeps the whole. `FenceInv` was checked by TLC on the bounds of
`worker_safety` before it was proved.

`WorkerPromiseProofs` uses both invariants for the refinement:

| Theorem | Property |
|---|---|
| `PromiseInvHolds` | the invariant `WorkerInv /\ FenceInv /\ PromiseInv` |
| `PromiseAlwaysKept` | `KeepsPromise` |

What the two do not say is where a run *was*, and that is what a step of `WorkerPromise` is
about: `Begin` needs a run that no worker ever had, and `completed` claims that the run did
work. `PromiseInv` adds three parts. `OneHome`: a run is met (queued or begun) by one worker
only, so that the worker that reads its request is the first to. `Accounted`: a run that was
issued and is answered, without a cleanup failure, was begun or is stopped. A worker that is
closed or fenced also answers `start` without beginning the run: for a fence `FenceInv` says
that no run is left to be answered so, and for a shutdown `DrainsWarned` says that a worker
drains only when every issued run is stopped, whose outcome is then `aborted`.

`HostLives` says of each step of a worker which run it begins, if any; `Serves` says of each
step of the supervisor that it leaves the lives of the runs alone and gives outcomes once and
for what they say (`Judges`). A step of a worker then maps to `Begin`, to `Stop` of all the
runs it ends (a crash ends several), or to a stutter; a step of the supervisor to `Judge` of
all the runs it decides, or to a stutter. A violation of `PromiseInv` was looked for by
random simulation of the model of `worker_safety` (some nine million states, none found) before
it was proved.

Assumptions: those named in `WorkerHost` and `WorkerSupervisor` (bounds are numbers, runs that
may be stopped are runs, `None` is no id, no worker and no answer).

### The native client

`NativeClientProofs`, for any requests, observers and number of failures, for both
commands:

| Theorem | Property |
|---|---|
| `ClientInvHolds` | the invariant `ClientInv` |
| `ClientIsAlwaysHonest` | `ClientIsHonest` |
| `AnswersAlwaysExpected` | `AnswersAreExpected` |

What a caller was told must be related to frames in processes the client can no longer
see. `ClientInv` says where a frame can be: what the child holds is pending, what was not
written is nowhere, a written frame is in one inbox or, once executed, in the answers
(`Frames`); and which processes there are: a client has a child exactly while it starts one
or is ready, one failure is behind every other process, and a process that may still work is
the child or among the retired (`Processes`). An idle report stays true until an activity
outdates it (`QuietWhile`). The client's methods are functions of its record, and one lemma per function says that
it keeps the invariant.

Assumptions: requests, observers and the probe have different ids; the bound on failures is
a number.

### The chat

`ChatRunsProofs`, for any number of browsers, runs, events and disturbances, any size of
the ring and any bound on it:

| Theorem | Property |
|---|---|
| `ChatInvHolds` | the invariant `ChatInv` |
| `TranscriptAlwaysFaithful` | `TranscriptIsFaithful` |
| `EndsAlwaysOwn` | `EndsAreOwn` |

A viewer who has not been shown a frame must still receive it, although frames are
published, replayed, dropped and lost with a socket in between. `ChatInv` relates three
places, for each browser (`Wired`): the records of the registry, the frames in the socket,
and the browser's cursor. A frame is *ahead* of a place in the socket when it was shown or
comes before that place (`Ahead`). What is shown and what is on its way never goes back to
an older run (`ShownGrows`, `WireGrows`); a frame that comes behind a later one of its run
has come before (`LateIsAgain`), so the browser may take the duplicate for one; and no one
leaves the session's run for another (`Stays`). While the run runs (`Follows`): nothing the
ring holds is left out before a place (`NothingLeftOut`), nor before a cursor, in the
browser or in a subscription on its way (`CursorsTold`), which is what makes a replay from
that cursor complete; a viewer is ahead of everything the ring holds (`ViewerIsAhead`); and
who follows the run and waits for no subscription is a viewer (`FollowerIsViewer`). The
ring forgets only its oldest frames, so all of it survives a publication. One lemma says
what receiving the next frame does to all of this (`Receipt`), one what appending frames to
the socket does (`DeliveryGrows`, `DeliveryLeavesNothing`), one what a subscription does
(`ViewerJoins`), and each handler is a composition of them. Assumption: the ring holds at
least one frame.

### The desktop's update

`ManualRestartProofs`, for any number of versions and of disturbances; no assumption on a
constant is used:

| Theorem | Property |
|---|---|
| `HandoverAlwaysSafe` | `HandoverIsSafe` |
| `AdmissionInvHolds` | the invariant `AdmissionInv` |
| `AdmissionAlwaysEarned` | `AdmissionIsEarned` |

The hand-over needs only where the actors are: `HandoverInv` says what the launch gate tells
of the update thread (`Thread`), that a restart begins in a working desktop and bounds its
owner's step (`Restart`), and that what is past recall belongs to an attempt that is past
recall (`Owned`).

Admission is about the disk: `check` takes a committed receipt, an absent attempt and an
absent stage for a proof, so these three must never be seen together about a bundle
nobody proved, in any outcome of a stop of the machine. `AdmissionInv` says of what is on
the disk *and* of what would be left (`fs` and `safe`): the bundle is the one put there by
hand, or a start is blocked by the attempt's record, or a receipt is there and none is for
another bundle (`Vouched`); and what a start would take for a proof is certain to survive
(`Lasting`). A bundle counts as proven once its receipt is durably committed, which is
shown by what has been done of `finish`: its sixteen file operations keep their order in
`task.ops`, so the number left says which of them happened (`FinishDone`; `JotDone` for the
other three). What a machine stop leaves is `safe` with some of the groups in `pending`
applied and loose files torn or stale, and `Honest` is closed under it.

## Only model-checked

* The orchestrator: `TypeOK`, `SuccessIsWhole`, `NoWorkBehindOutcome` and the refinement of
  the store's client. When the store's process fails, all waiting threads are rejected in
  one action, one after the other: `Fail` folds `Rejected` over the queue of requests, and
  what a fold computes is proved by induction over data; `Refuse` speaks of an operation
  that is not enabled. Both are out of this prover's reach.
* The chat: `CardsAreOpen`. The cards a browser will show are a fold over the frames on
  their way to it, and what a fold computes is proved by induction over data.
* All liveness, and the finding of `orchestrator_reopen`, which is a counterexample.

## Plan

1. The shell's cache of updates: discovery, download and staging as a state machine of
   its own beside `UpdateLaunch`.
2. Durable composer drafts in the browser, which the restart waits for.
3. Worktrees and the locks around them.

## Not modelled

Presentation, routes, providers, settings, notifications, the website, packaging and
vendored code: they keep no state that depends on the order of events, or they are
input validation. PROJECT.json gives the reason for each component.

Of the orchestrator: `interruptForShutdown` and `close` (the process ends),
`appendAdminEvent` (one queued append without a lease), `setSessionId` (the path of an
output event), an `onRun` or `onPrepared` callback that throws, the replay that
publishes a committed event, and the counters of the desktop restart reader.

Of the chat: OAuth, goals, steering, titles, the poll of running sessions, the refusal under
a restart fence, history windows. Of the worker: what is named under *Abstracted* above. Of
the desktop: discovery, download and staging of an update, archives, signatures and
manifests, the authentication of the bridge and of the control channel, builds without an
updater, windows, navigation and diagnostics.
