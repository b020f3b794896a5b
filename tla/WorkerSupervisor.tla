-------------------------- MODULE WorkerSupervisor --------------------------
(***************************************************************************)
(* The supervisor of the agent worker (server/gjc-worker-client.ts): it    *)
(* starts one worker process at a time, hands it runs, correlates its      *)
(* answers, stops runs, mirrors its questions, fences it for a restart of  *)
(* the application, reads its activity, and reaps it when it fails.        *)
(*                                                                         *)
(* Synchronous code and the callbacks of promises that are already settled *)
(* run before the next event.  Only further frames of the chunk being read *)
(* may come between a response and the continuation that awaits it; every  *)
(* other action waits for Quiescent.                                       *)
(***************************************************************************)
EXTENDS WorkerHost, FiniteSetsExt

CONSTANTS
  MaxSame,     \* bound: live requests of one method and owner (late answers)
  Stoppable,   \* bound: the runs a user may stop
  MayShutDown  \* whether the server may be shut down

ASSUME SupervisorAssumption == MaxSame \in Nat \ {0} /\ Stoppable \subseteq Runs /\ MayShutDown \in BOOLEAN

VARIABLES
  child, ready, starting, \* the current worker, None without one
  terminating,            \* the worker being reaped, None without one
  affected,               \* the runs that were its own (terminatingGeneration.runIds)
  failure,                \* terminationFailure, never cleared
  unreaped,               \* workers whose end is not proved
  uncertain,              \* requestTimeoutUncertainty
  stop,                   \* where shutdown() is
  run,                    \* a record per run
  call,                   \* where each other call is
  pending, expired,       \* requests without an answer, requests given up
  fence,                  \* restartFence
  watch                   \* the activity reader

appVars == <<child, ready, starting, terminating, affected, failure, unreaped, uncertain,
             stop, run, call, pending, expired, fence, watch>>
vars == <<appVars, hostVars>>
current == <<child, ready, starting>>
reaping == <<terminating, affected, failure>>
requests == <<pending, toWorker>>
-----------------------------------------------------------------------------
(* `at` is where startRun is, `under` its startingChild, `answer` what the *)
(* worker answered; `stopping` is where the abortPromise is, `told` what   *)
(* the last abort() resolved with; terminals counts the terminal messages  *)
(* written to the browser, question numbers the run's last question.       *)
NoRun == [phase |-> "none", at |-> "none", under |-> None, aborted |-> FALSE,
          byRuntime |-> FALSE, doubtful |-> FALSE, stopping |-> "none", answer |-> "none",
          forwarded |-> FALSE, outcome |-> "none", ask |-> "none", question |-> 0,
          terminals |-> 0, told |-> "none"]

(* waits: the admission request that is awaited.                           *)
NoFence == [id |-> None, child |-> None, acknowledged |-> FALSE, waits |-> "none",
            baseline |-> -1, invalid |-> FALSE]

(* slot: an observation of the current worker has no answer yet; reading:  *)
(* its reader still waits; changed: activity since the read began; idle:   *)
(* the parent's own counts were zero then; proof: the last report, not     *)
(* outdated by activity, says idle.                                        *)
NoWatch == [slot |-> FALSE, reading |-> FALSE, changed |-> FALSE, idle |-> FALSE, proof |-> FALSE]

Init ==
  /\ HostInit
  /\ child = None /\ ready = FALSE /\ starting = FALSE
  /\ terminating = None /\ affected = {} /\ failure = FALSE
  /\ unreaped = {} /\ uncertain = FALSE /\ stop = "no"
  /\ run = [r \in Runs |-> NoRun] /\ call = [c \in Calls |-> "idle"]
  /\ pending = {} /\ expired = {} /\ fence = NoFence /\ watch = NoWatch

(* activityChanged: the generation moves, so a report is out of date.      *)
Touched(x) == [x EXCEPT !.changed = x.reading, !.proof = FALSE]
Touch == watch' = Touched(watch)

Active(x) == x.phase \in {"registered", "issued"}
ActiveRuns == {r \in Runs : Active(run[r])}
ShuttingDown == stop # "no"

(* No continuation of a settled promise is waiting to run.                 *)
Quiescent ==
  /\ \A r \in Runs : run[r].at \notin {"ready", "replied"} /\ run[r].stopping \notin {"yes", "no"}
  /\ \A c \in Calls : call[c] # "ready"

DefaultOutcome(x) ==
  IF x.aborted THEN "aborted" ELSE IF x.phase = "registered" THEN "not_started" ELSE "completed"

(* Mutant: a terminal is written although the worker's was forwarded.      *)
EndsAloud(x, outcome) ==
  [x EXCEPT !.phase = "over", !.ask = "none", !.outcome = IF @ = "none" THEN outcome ELSE @,
            !.terminals = IF x.aborted /\ ~x.byRuntime THEN @ ELSE @ + 1]

(* finishRun: the map entry and its approvals go, the outcome is resolved  *)
(* (once), and a terminal is written unless one was forwarded or the run   *)
(* was stopped by the user.  After a cleanup failure only a reap ends a    *)
(* run, and an unverified abort is forgotten.                              *)
Ends(x, outcome) ==
  LET lost == x.doubtful /\ ~x.forwarded
      y == [x EXCEPT !.aborted = @ /\ ~lost, !.byRuntime = @ /\ ~lost]
      speaks == ~y.forwarded /\ (~y.aborted \/ y.byRuntime)
  IN [y EXCEPT !.phase = "over", !.ask = "none",
               !.outcome = IF @ = "none" THEN outcome ELSE @,
               !.terminals = IF speaks THEN @ + 1 ELSE @]

Finished(x, outcome) ==
  IF Active(x) /\ (x.doubtful => outcome = "reaped") THEN Ends(x, outcome) ELSE x

(* request(): an id that no frame and no table still uses.                 *)
InUse == pending \cup expired \cup {toWorker[child][i] : i \in DOMAIN toWorker[child]}
FreshOf(method, of, ask) == {n \in 1..MaxSame : Asked(method, of, n, ask) \notin InUse}
Writes(q) == toWorker' = [toWorker EXCEPT ![child] = IF host[child].up THEN Append(@, q) ELSE @]
CanAsk(method, of, ask) == FreshOf(method, of, ask) # {}
Sends(method, of, ask) ==
  LET q == Asked(method, of, Min(FreshOf(method, of, ask)), ask)
  IN /\ pending' = pending \cup {q}
     /\ Writes(q)
-----------------------------------------------------------------------------
Unborn == {w \in Workers : host[w] = UnbornHost}

(* startWorker: the next process, and worker.initialize on its way.        *)
StartsWorker(w, rest) ==
  /\ child' = w /\ ready' = FALSE /\ starting' = TRUE
  /\ unreaped' = rest \cup {w}
  /\ pending' = pending \cup {Request("initialize", None, 1)}
  /\ host' = [host EXCEPT ![w] = NewHost]
  /\ toWorker' = [toWorker EXCEPT ![w] = <<Request("initialize", None, 1)>>]

(* Mutant: the catch leaves every failure to workerFailed.                 *)
CaughtSilently(x) == [x EXCEPT !.at = "done"]

(* startRun's catch.  While a worker is reaped, workerFailed settles.      *)
Caught(x) ==
  LET y == IF terminating # None \/ (failure /\ x.phase = "issued") THEN x
           ELSE Finished(x, DefaultOutcome(x))
  IN [y EXCEPT !.at = "done"]

(* ensureWorker: what a caller must wait for; `reaped` is whether the      *)
(* worker that was terminating is gone.                                    *)
Awaited(reaped) ==
  CASE failure -> "rejected"
    [] ~failure /\ terminating # None /\ ~reaped -> "termination"
    [] ready -> "ready"
    [] starting -> "starting"
    [] OTHER -> "none"

(* The runs R (records from X) and the calls C call ensureWorker.  Without *)
(* a worker the first of them starts one, which may throw.                 *)
Ensure(X, R, C, reaped) ==
  LET what == Awaited(reaped)
      rest == IF reaped THEN unreaped \ {terminating} ELSE unreaped
      Wait(for) == /\ run' = [r \in Runs |-> IF r \in R THEN [X[r] EXCEPT !.at = for] ELSE X[r]]
                   /\ call' = [c \in Calls |-> IF c \in C THEN for ELSE call[c]]
      Rejected == /\ run' = [r \in Runs |-> IF r \notin R THEN X[r] ELSE
                               [Finished(X[r], DefaultOutcome(X[r])) EXCEPT !.at = "done"]]
                  /\ call' = [c \in Calls |-> IF c \in C THEN "idle" ELSE call[c]]
      SameWorker == unreaped' = rest /\ UNCHANGED <<current, requests, host>>
  IN \/ what \in {"termination", "ready", "starting"} /\ Wait(what) /\ SameWorker
     \/ what \in {"rejected", "none"} /\ Rejected /\ SameWorker
     \/ /\ what = "none" /\ R \cup C # {} /\ Unborn # {}
        /\ Wait("starting") /\ StartsWorker(Min(Unborn), rest)

(* spawnRun: refused while shutting down and under a restart fence;        *)
(* otherwise startRun begins.                                              *)
SpawnRun(r) ==
  LET x == [run[r] EXCEPT !.phase = "registered"]
  IN /\ Quiescent /\ run[r] = NoRun
     /\ \/ /\ ~ShuttingDown /\ fence.id = None
           /\ Ensure([run EXCEPT ![r] = x], {r}, {}, FALSE)
        \/ /\ ShuttingDown \/ fence.id # None
           /\ run' = [run EXCEPT ![r] = [x EXCEPT !.phase = "over", !.at = "done", !.outcome = "not_started"]]
           /\ UNCHANGED <<current, unreaped, call, requests, host>>
     /\ Touch
     /\ UNCHANGED <<reaping, uncertain, stop, expired, fence, toApp>>

(* modelCatalog, providerQuota, inspectGoal, oauth*: refused under a fence *)
(* as new roots.                                                           *)
MakeCall(c) ==
  /\ Quiescent /\ call[c] = "idle" /\ fence.id = None
  /\ Ensure(run, {}, {c}, FALSE)
  /\ Touch
  /\ UNCHANGED <<reaping, uncertain, stop, expired, fence, toApp>>

CallSends(c) ==
  /\ call[c] = "ready"
  /\ \/ /\ child = None
        /\ call' = [call EXCEPT ![c] = "idle"]
        /\ UNCHANGED requests
     \/ /\ child # None /\ CanAsk("query", c, 0)
        /\ call' = [call EXCEPT ![c] = "reply"]
        /\ Sends("query", c, 0)
  /\ Touch
  /\ UNCHANGED <<current, reaping, unreaped, uncertain, stop, run, expired, fence, host, toApp>>

(* oauth.submit and oauth.cancel under a fence, turn.steer and             *)
(* goal.control of a run: written at once to the worker there is.          *)
Steerable(x) == x.phase = "issued" /\ ~x.aborted /\ x.stopping = "none"
FollowUp(c) ==
  /\ Quiescent /\ call[c] = "idle" /\ child # None /\ CanAsk("follow", c, 0)
  /\ (fence.id # None /\ ready) \/ \E r \in Runs : Steerable(run[r])
  /\ call' = [call EXCEPT ![c] = "reply"] /\ Sends("follow", c, 0)
  /\ Touch
  /\ UNCHANGED <<current, reaping, unreaped, uncertain, stop, run, expired, fence, host, toApp>>
-----------------------------------------------------------------------------
RunOnly == UNCHANGED <<current, reaping, unreaped, uncertain, stop, call, expired, fence, host, toApp>>

(* canStartRun, asked after the worker is ensured and again after the      *)
(* options are known.                                                      *)
CanStart(x, under) ==
  /\ under # None /\ child = under /\ ready
  /\ terminating = None /\ ~failure /\ ~x.doubtful

(* Mutant: a run that ended while it waited goes on.                       *)
StartContinuesAnyway(x, under, next) ==
  IF CanStart(x, under) THEN next ELSE [x EXCEPT !.at = "done"]

StartContinues(x, under, next) ==
  IF x.phase # "registered" THEN [x EXCEPT !.at = "done"]
  ELSE IF x.aborted \/ ShuttingDown
  THEN [Finished([x EXCEPT !.aborted = TRUE], "not_started") EXCEPT !.at = "done"]
  ELSE IF CanStart(x, under) THEN next ELSE [x EXCEPT !.at = "done"]

WorkerReadyFor(r) ==
  LET x == run[r]
  IN /\ x.at = "ready"
     /\ run' = [run EXCEPT ![r] = StartContinues(x, child, [x EXCEPT !.at = "options", !.under = child])]
     /\ Touch
     /\ RunOnly /\ UNCHANGED requests

(* enrichOptions settled: the request is written with no await between the *)
(* last check and the write.                                               *)
OptionsKnown(r) ==
  LET x == run[r]
      issued == [x EXCEPT !.at = "reply", !.phase = "issued"]
  IN /\ Quiescent /\ x.at = "options"
     /\ run' = [run EXCEPT ![r] = StartContinues(x, x.under, issued)]
     /\ IF run'[r] = issued
        THEN /\ pending' = pending \cup {Request("start", r, 0)}
             /\ Writes(Request("start", r, 0))
        ELSE UNCHANGED requests
     /\ Touch
     /\ RunOnly

(* They cannot be had, or cannot be used.                                  *)
OptionsRejected(r) ==
  /\ Quiescent /\ run[r].at = "options"
  /\ run' = [run EXCEPT ![r] = Caught(@)]
  /\ Touch
  /\ RunOnly /\ UNCHANGED requests

(* The continuation after the answer to session.start.                     *)
RunReplied(r) ==
  LET x == run[r]
      stopped == x.answer = "aborted"
      y == [x EXCEPT !.byRuntime = IF stopped THEN ~x.aborted /\ x.stopping = "none" ELSE @,
                     !.aborted = @ \/ stopped]
  IN /\ x.at = "replied"
     /\ run' = [run EXCEPT ![r] =
          [Finished(y, DefaultOutcome(y)) EXCEPT !.at = "done", !.answer = "none"]]
     /\ Touch
     /\ RunOnly /\ UNCHANGED requests
-----------------------------------------------------------------------------
(* abort(): a registered run ends at once; an issued one is stopped in the *)
(* worker, and only its confirmation counts.                               *)
Abort(r) ==
  LET x == run[r]
  IN /\ Quiescent /\ r \in Stoppable /\ Active(x) /\ x.stopping = "none"
     /\ \/ /\ x.phase = "registered"
           /\ run' = [run EXCEPT ![r] =
                [Finished([x EXCEPT !.aborted = TRUE], "not_started") EXCEPT !.told = "not_started"]]
           /\ UNCHANGED requests
        \/ /\ x.phase = "issued" /\ child # None /\ CanAsk("abort", r, 0)
           /\ run' = [run EXCEPT ![r].stopping = "asked", ![r].told = "none"]
           /\ Sends("abort", r, 0)
        \/ /\ x.phase = "issued" /\ child = None
           /\ run' = [run EXCEPT ![r].told = "unconfirmed"]
           /\ UNCHANGED requests
     /\ Touch
     /\ RunOnly

AbortReplied(r) ==
  LET x == run[r]
      stopped == x.stopping = "yes" /\ x.phase # "over"
  IN /\ x.stopping \in {"yes", "no"}
     /\ run' = [run EXCEPT ![r] = [x EXCEPT !.stopping = "none", !.aborted = @ \/ stopped,
                                            !.told = IF stopped THEN "aborted" ELSE "unconfirmed"]]
     /\ Touch
     /\ RunOnly /\ UNCHANGED requests

(* resolveApproval and, when the reply does not arrive, restoreApproval.   *)
Approve(r) ==
  LET x == run[r]
  IN /\ Quiescent /\ child # None /\ x.ask = "offered" /\ CanAsk("reply", r, x.question)
     /\ run' = [run EXCEPT ![r].ask = "answering"]
     /\ Sends("reply", r, x.question)
     /\ Touch
     /\ RunOnly

(* Mutant: the approval is restored whatever became of the run.            *)
RestoredAnyway(x, question) ==
  IF x.question = question /\ x.ask # "offered" THEN [x EXCEPT !.ask = "offered"] ELSE x

Restored(x, question) ==
  IF x.ask = "answering" /\ x.question = question /\ Active(x) /\ ~x.doubtful
  THEN [x EXCEPT !.ask = "offered"] ELSE x

(* What the user interface is shown: pendingApprovals.                     *)
Offered == IF child = None \/ failure THEN {} ELSE {r \in Runs : run[r].ask = "offered"}
-----------------------------------------------------------------------------
(* workerFailed, from the run records X: the worker is retired before      *)
(* anything else happens, its process tree is being killed, and every      *)
(* request is rejected, which the continuations of startRun, abort() and   *)
(* resolveApproval see while the worker is terminating.                    *)
(* Mutant: who waits for an abort is not told.                             *)
StartsRejected(x) ==
  [Restored(x, x.question) EXCEPT !.at = IF @ \in {"starting", "reply"} THEN "done" ELSE @]

RequestsRejected(x) ==
  [Restored(x, x.question) EXCEPT !.at = IF @ \in {"starting", "reply"} THEN "done" ELSE @,
                                  !.stopping = IF @ = "none" THEN @ ELSE "no"]

(* Mutant: shutdown() goes on waiting for the answer of a dead worker.     *)
StopForgotten(s) == s
StopAfterFailure(s) == IF s = "asked" THEN "reap" ELSE s

WorkerFails(X) ==
  /\ child' = None /\ ready' = FALSE /\ starting' = FALSE
  /\ terminating' = child
  /\ affected' = {r \in Runs : Active(X[r])}
  /\ run' = [r \in Runs |-> RequestsRejected(X[r])]
  /\ call' = [c \in Calls |-> IF call[c] \in {"starting", "reply"} THEN "idle" ELSE call[c]]
  /\ pending' = {} /\ expired' = {}
  /\ fence' = [fence EXCEPT !.waits = "none"]
  /\ watch' = NoWatch
  /\ stop' = StopAfterFailure(stop)
  /\ toApp' = [toApp EXCEPT ![child] = <<>>]
  /\ host' = [host EXCEPT ![child].heard = FALSE]
  /\ UNCHANGED <<failure, unreaped, uncertain, toWorker>>

(* The process exited, broke the protocol or a pipe to it failed, it did   *)
(* not initialize in time, or terminate() was called for one of its runs.  *)
WorkerFailed ==
  /\ Quiescent /\ child # None
  /\ WorkerFails(run)

WaitingRuns == {r \in Runs : run[r].at = "termination"}
WaitingCalls == {c \in Calls : call[c] = "termination"}

(* Mutant: killTree is taken at its word before the tree is gone.          *)
ReapedUnproved ==
  LET X == [r \in Runs |-> IF r \in affected THEN Finished(run[r], "reaped") ELSE run[r]]
  IN /\ Quiescent /\ terminating # None
     /\ Ensure(X, WaitingRuns, WaitingCalls, TRUE)
     /\ terminating' = None /\ affected' = {}
     /\ uncertain' = (uncertain /\ unreaped # {terminating})
     /\ stop' = IF stop = "reap" THEN "done" ELSE stop
     /\ Touch
     /\ UNCHANGED <<failure, expired, fence, toApp>>

(* Mutant: the runs of the worker are left to their own promises.          *)
ReapedForgets ==
  /\ Quiescent /\ terminating # None /\ ~host[terminating].up
  /\ Ensure(run, WaitingRuns, WaitingCalls, TRUE)
  /\ terminating' = None /\ affected' = {}
  /\ uncertain' = (uncertain /\ unreaped # {terminating})
  /\ stop' = IF stop = "reap" THEN "done" ELSE stop
  /\ Touch
  /\ UNCHANGED <<failure, expired, fence, toApp>>

(* killTree proved that the tree is gone: the affected runs end, and the   *)
(* callers that waited for it ask for a worker again.                      *)
Reaped ==
  LET X == [r \in Runs |-> IF r \in affected THEN Finished(run[r], "reaped") ELSE run[r]]
  IN /\ Quiescent /\ terminating # None /\ ~host[terminating].up
     /\ Ensure(X, WaitingRuns, WaitingCalls, TRUE)
     /\ terminating' = None /\ affected' = {}
     /\ uncertain' = (uncertain /\ unreaped # {terminating})
     /\ stop' = IF stop = "reap" THEN "done" ELSE stop
     /\ Touch
     /\ UNCHANGED <<failure, expired, fence, toApp>>

(* It could not prove it: the failure is latched, no worker starts again,  *)
(* and what the affected runs did stays unconfirmed.                       *)
ReapFails ==
  /\ Quiescent /\ terminating # None
  /\ failure' = TRUE /\ terminating' = None /\ affected' = {}
  /\ run' = [r \in Runs |->
       LET x == run[r]
           y == IF r \in affected /\ x.outcome = "none" THEN [x EXCEPT !.outcome = "unconfirmed"] ELSE x
       IN IF r \in WaitingRuns THEN [Finished(y, DefaultOutcome(y)) EXCEPT !.at = "done"] ELSE y]
  /\ call' = [c \in Calls |-> IF c \in WaitingCalls THEN "idle" ELSE call[c]]
  /\ stop' = IF stop = "reap" THEN "failed" ELSE stop
  /\ Touch
  /\ UNCHANGED <<current, unreaped, uncertain, requests, expired, fence, host, toApp>>

(* shutdown(): every run counts as stopped, the worker is asked to drain,  *)
(* and then reaped.                                                        *)
Shutdown ==
  /\ Quiescent /\ MayShutDown /\ stop = "no"
  /\ \/ /\ child = None
        /\ stop' = IF terminating # None THEN "reap" ELSE IF failure THEN "failed" ELSE "done"
        /\ UNCHANGED <<run, requests>>
     \/ /\ child # None /\ CanAsk("shutdown", None, 0)
        /\ stop' = "asked"
        /\ run' = [r \in Runs |-> [run[r] EXCEPT !.aborted = @ \/ Active(run[r])]]
        /\ Sends("shutdown", None, 0)
  /\ Touch
  /\ UNCHANGED <<current, reaping, unreaped, uncertain, call, expired, fence, host, toApp>>
-----------------------------------------------------------------------------
(* What was accepted before the fence and has not ended: runs, requests,   *)
(* and the activity tasks.                                                 *)
Tasks ==
  \/ starting \/ terminating # None \/ stop \in {"asked", "reap"}
  \/ \E r \in Runs : \/ run[r].at \notin {"none", "done"}
                     \/ run[r].stopping # "none" \/ run[r].ask = "answering"
  \/ \E c \in Calls : call[c] # "idle"
Accepted == ActiveRuns # {} \/ pending # {} \/ Tasks

(* Mutant: the worker is fenced although it may still be sent a request.   *)
FenceInTheirPath(f) ==
  /\ Quiescent /\ fence.id = None /\ child # None /\ ready /\ CanAsk("close", f, 0)
  /\ fence' = [NoFence EXCEPT !.id = f, !.child = child, !.waits = "close"]
  /\ Sends("close", f, 0)
  /\ Touch
  /\ UNCHANGED <<current, reaping, unreaped, uncertain, stop, run, call, expired, host, toApp>>

(* fenceForDesktopRestart: the local fence first; the worker is fenced     *)
(* only when nothing accepted could still be on its way to it.  The        *)
(* restart authority never closes while its release is in flight.          *)
FenceForRestart(f) ==
  LET closed == [NoFence EXCEPT !.id = f]
      local == IF fence.id = None THEN closed ELSE fence
  IN /\ Quiescent /\ fence.id \in {None, f} /\ fence.waits = "none"
     /\ ~(fence.acknowledged /\ fence.child = child)
     /\ \/ /\ Accepted \/ (child # None /\ ~ready)
           /\ fence' = local /\ UNCHANGED requests
        \/ /\ ~Accepted /\ child = None
           /\ fence' = [local EXCEPT !.acknowledged = @ \/ (unreaped = {} /\ ~failure)]
           /\ UNCHANGED requests
        \/ /\ ~Accepted /\ child # None /\ ready /\ CanAsk("close", f, 0)
           /\ fence' = [local EXCEPT !.child = child, !.waits = "close"]
           /\ Sends("close", f, 0)
     /\ Touch
     /\ UNCHANGED <<current, reaping, unreaped, uncertain, stop, run, call, expired, host, toApp>>

(* Mutant: the local fence opens before the worker has confirmed.          *)
ReleaseAtOnce(f) ==
  /\ Quiescent /\ fence.id = f /\ fence.waits = "none"
  /\ fence' = NoFence
  /\ IF fence.child # None /\ fence.child = child /\ CanAsk("open", f, 0)
     THEN Sends("open", f, 0) ELSE UNCHANGED requests
  /\ Touch
  /\ UNCHANGED <<current, reaping, unreaped, uncertain, stop, run, call, expired, host, toApp>>

(* releaseDesktopRestartFence, once the close has settled.                 *)
ReleaseFence(f) ==
  /\ Quiescent /\ fence.id = f /\ fence.waits = "none"
  /\ \/ /\ fence.child # None /\ fence.child = child /\ CanAsk("open", f, 0)
        /\ fence' = [fence EXCEPT !.waits = "open"]
        /\ Sends("open", f, 0)
     \/ /\ fence.child = None \/ fence.child # child
        /\ fence' = NoFence
        /\ UNCHANGED requests
  /\ Touch
  /\ UNCHANGED <<current, reaping, unreaped, uncertain, stop, run, call, expired, host, toApp>>

(* readDesktopRestartActivity: it observes the worker there is, never      *)
(* starts one.  (A second read joins the first; nobody reads where no      *)
(* restart is ever wanted.)                                                *)
ReadActivity ==
  LET idle == /\ ~Accepted /\ ~uncertain /\ ~failure
              /\ \A r \in Runs : run[r].ask = "none"
              /\ unreaped = IF child = None THEN {} ELSE {child}
  IN /\ Quiescent /\ ~watch.slot /\ Fences # {}
     /\ \/ /\ child # None /\ ready
           /\ watch' = [NoWatch EXCEPT !.slot = TRUE, !.reading = TRUE, !.idle = idle]
           /\ Writes(Request("activity", None, 0))
        \/ /\ child = None \/ ~ready
           /\ watch' = [NoWatch EXCEPT !.proof = idle]
           /\ UNCHANGED toWorker
     /\ UNCHANGED <<current, reaping, unreaped, uncertain, stop, run, call, pending, expired, fence, host, toApp>>

(* 250 ms passed; the slot stays taken until the late answer.              *)
ReadTimesOut ==
  /\ Quiescent /\ watch.reading
  /\ watch' = [NoWatch EXCEPT !.slot = TRUE]
  /\ UNCHANGED <<current, reaping, unreaped, uncertain, stop, run, call, pending, expired, fence, hostVars>>
-----------------------------------------------------------------------------
(* A frame of the current worker.                                          *)
FrameRead == toApp' = [toApp EXCEPT ![child] = Tail(@)]
Settles(q) == pending' = pending \ {q} /\ UNCHANGED expired

EventRead(e) ==
  LET x == run[e.of]
      y == CASE e.result = "ask" -> [x EXCEPT !.ask = "offered", !.question = e.ask]
             [] e.result = "cancelled" /\ x.question = e.ask -> [x EXCEPT !.ask = "none"]
             [] e.result \in {"completed", "failed"} ->
                  [x EXCEPT !.forwarded = TRUE, !.terminals = @ + 1]
             [] OTHER -> x
  IN /\ IF Active(x) THEN run' = [run EXCEPT ![e.of] = y] /\ Touch
        ELSE UNCHANGED <<run, watch>>
     /\ FrameRead
     /\ UNCHANGED <<current, reaping, unreaped, uncertain, stop, call, requests, expired, fence, host>>

(* Mutant: activity while the observation was under way is not noticed.    *)
ObservationReadLate(seen) ==
  LET fenced == fence.acknowledged /\ fence.child = child
      fresh == watch.reading /\ seen # Unobserved /\ seen.fence = fence.id
  IN /\ fence' = [fence EXCEPT !.baseline = IF fresh /\ fenced /\ @ = -1 THEN seen.rev ELSE @]
     /\ watch' = [NoWatch EXCEPT !.proof = fresh /\ fenced /\ watch.idle /\ seen.idle]
     /\ FrameRead
     /\ UNCHANGED <<current, reaping, unreaped, uncertain, stop, run, call, requests, expired, host>>

(* The observation of the worker arrives.  The first one under a fence     *)
(* sets the baseline; another revision later invalidates the fence.        *)
ObservationRead(seen) ==
  LET fenced == fence.acknowledged /\ fence.child = child
      fresh == watch.reading /\ seen # Unobserved /\ ~watch.changed
               /\ seen.fence = fence.id
      moved == fresh /\ fenced /\ fence.baseline \notin {-1, seen.rev}
      f == [fence EXCEPT !.baseline = IF fresh /\ fenced /\ @ = -1 THEN seen.rev ELSE @,
                         !.invalid = @ \/ moved]
  IN /\ fence' = f
     /\ watch' = [NoWatch EXCEPT !.proof = /\ fresh /\ fenced /\ watch.idle
                                           /\ seen.idle /\ ~f.invalid]
     /\ FrameRead
     /\ UNCHANGED <<current, reaping, unreaped, uncertain, stop, run, call, requests, expired, host>>

(* Mutant: any answer to turn.abort but an error counts as a stop.         *)
AbortTaken(result) == IF result \in {"aborted", "refused"} THEN "yes" ELSE "no"
(* Mutant: the abortPromise resolves with the answer itself.               *)
AbortEchoed(result) == result
AbortAnswer(result) == IF result = "aborted" THEN "yes" ELSE "no"

(* What a settled request does to the one who waits for it; the answer is  *)
(* "late" when its timer fired.                                            *)
RunAfter(q, result) ==
  CASE q.method = "start" -> [run EXCEPT ![q.of].at = "replied", ![q.of].answer = result]
    [] q.method = "abort" -> [run EXCEPT ![q.of].stopping = AbortAnswer(result)]
    [] q.method = "reply" /\ result # "ok" -> [run EXCEPT ![q.of] = Restored(@, q.ask)]
    [] q.method = "initialize" -> [r \in Runs |-> IF run[r].at = "starting" THEN [run[r] EXCEPT !.at = "ready"] ELSE run[r]]
    [] OTHER -> run

CallAfter(q) ==
  CASE q.method \in {"query", "follow"} -> [call EXCEPT ![q.of] = "idle"]
    [] q.method = "initialize" -> [c \in Calls |-> IF call[c] = "starting" THEN "ready" ELSE call[c]]
    [] OTHER -> call

FenceAfter(q, result) ==
  CASE q.method = "close" -> [fence EXCEPT !.waits = "none", !.acknowledged = @ \/ result = "ok"]
    [] q.method = "open" -> IF result = "ok" THEN NoFence ELSE [fence EXCEPT !.waits = "none"]
    [] OTHER -> fence

Answered(q, result) ==
  /\ run' = RunAfter(q, result) /\ call' = CallAfter(q) /\ fence' = FenceAfter(q, result)
  /\ ready' = (ready \/ q.method = "initialize") /\ starting' = (starting /\ q.method # "initialize")
  /\ Touch
  /\ UNCHANGED <<child, reaping, unreaped, stop, toWorker, host>>

(* A cleanup failure is fatal before its request settles, and so are a     *)
(* failed initialization and the end of the drain.                         *)
Fatal(q, result) ==
  \/ result = "cleanup" \/ q.method = "shutdown"
  \/ q.method = "initialize" /\ result # "ok"
Doubtful(result) ==
  [r \in Runs |-> IF result = "cleanup" THEN [run[r] EXCEPT !.doubtful = @ \/ Active(run[r])] ELSE run[r]]

ResponseRead(q, result) ==
  \/ q.method = "activity" /\ ObservationRead(result)
  \/ q.method # "activity" /\ Fatal(q, result) /\ (result = "cleanup" \/ q \in pending)
     /\ WorkerFails(Doubtful(result))
  \/ /\ q.method # "activity" /\ result # "cleanup" /\ q \in expired
     /\ expired' = expired \ {q}
     /\ Touch /\ FrameRead
     /\ UNCHANGED <<current, reaping, unreaped, uncertain, stop, run, call, requests, fence, host>>
  \/ /\ q.method # "activity" /\ ~Fatal(q, result) /\ q \in pending
     /\ Settles(q) /\ Answered(q, result) /\ FrameRead
     /\ UNCHANGED uncertain

Receive ==
  /\ child # None /\ toApp[child] # <<>>
  /\ LET frame == Head(toApp[child])
     IN IF frame.kind = "event" THEN EventRead(frame) ELSE ResponseRead(frame.of, frame.result)

(* A request's timer fires (session.start has none).  Only an admission    *)
(* request cannot have started SDK work.                                   *)
TimesOut(q) ==
  /\ Quiescent /\ q \in pending /\ q.method # "start"
  /\ \/ /\ q.method \in {"initialize", "shutdown"}
        /\ WorkerFails(run)
     \/ /\ q.method \notin {"initialize", "shutdown"}
        /\ pending' = pending \ {q} /\ expired' = expired \cup {q}
        /\ uncertain' = (uncertain \/ q.method \notin {"close", "open"})
        /\ Answered(q, "late")
        /\ UNCHANGED toApp

RunStep(r) ==
  \/ SpawnRun(r) \/ WorkerReadyFor(r) \/ OptionsKnown(r) \/ OptionsRejected(r) \/ RunReplied(r)
  \/ Abort(r) \/ AbortReplied(r) \/ Approve(r)

Next ==
  \/ \E r \in Runs : RunStep(r)
  \/ \E c \in Calls : MakeCall(c) \/ CallSends(c) \/ FollowUp(c)
  \/ \E f \in Fences : FenceForRestart(f) \/ ReleaseFence(f)
  \/ ReadActivity \/ ReadTimesOut
  \/ Receive \/ (\E q \in pending : TimesOut(q))
  \/ WorkerFailed \/ Reaped \/ ReapFails \/ Shutdown
  \/ (\E w \in Workers : HostStep(w)) /\ UNCHANGED appVars

(* Promises settle, frames are read and killTree ends; the event loop      *)
(* comes back to a timer that is due, and to the options of a run, however *)
(* often continuations run in between.                                     *)
Timed == {"initialize", "abort", "shutdown"}
TimerFires(method) == \E q \in pending : q.method = method /\ TimesOut(q)
Fairness ==
  /\ \A r \in Runs : /\ WF_vars(WorkerReadyFor(r)) /\ WF_vars(RunReplied(r)) /\ WF_vars(AbortReplied(r))
                     /\ SF_vars(OptionsKnown(r) \/ OptionsRejected(r))
  /\ \A c \in Calls : WF_vars(CallSends(c))
  /\ WF_vars(Receive) /\ \A method \in Timed : SF_vars(TimerFires(method))
  /\ WF_vars(Reaped \/ ReapFails)

Spec == Init /\ [][Next]_vars
FairSpec == Spec /\ Fairness
=============================================================================
