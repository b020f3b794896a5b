---------------------------- MODULE NativeClient ----------------------------
(***************************************************************************)
(* GjcNativeClient (server/services/gjc-git-client.ts): the owner of one   *)
(* native process, `gajae-core git` or `gajae-core jobs`, which it starts  *)
(* on demand, kills when it misbehaves and restarts after a delay.  A      *)
(* request waits for a start or a restart, is written once and is settled  *)
(* by its answer or by the failure of the process it was written to.       *)
(*                                                                         *)
(* Code runs to completion between two events; the continuations of a      *)
(* settled promise run before the next event, in any order (Quiescent).    *)
(* The length of the back-off delay and the diagnostics are abstracted; a  *)
(* frame that is refused (too long, not JSON, out of sequence) is a        *)
(* failure of the process like its exit.                                   *)
(***************************************************************************)
EXTENDS Naturals, FiniteSets

CONSTANTS
  Requests,   \* calls of request(), each with an id of its own
  Observers,  \* calls of observeActivity()
  MaxFaults   \* bound: failures of processes and of their starts

ASSUME FaultsAssumption == MaxFaults \in Nat

VARIABLES
  client,    \* the fields of the GjcNativeClient
  call,      \* where each call of request() and observeActivity() is
  process,   \* the processes, by generation, with what they were sent
  executed,  \* how often a request took effect
  report,    \* an idle activity report that no later activity has outdated
  faults     \* failures so far

vars == <<client, call, process, executed, report, faults>>

Generations == 1..(MaxFaults + 1)
None == 0
Probe == "probe"   \* the id of the request of jobs.capabilities at a start

(* Every request frame has a fresh id (randomUUID). *)
ASSUME IdsAssumption == Requests \cap Observers = {} /\ Probe \notin Requests \cup Observers

(* "starting" waits for the promise of startInner, "restart" for the timer   *)
(* of the back-off, "chained" for the start that timer began; "go" and       *)
(* "again" are continuations that are due; "late" is an observer whose timer *)
(* fired.                                                                    *)
Waiting == {"starting", "restart", "chained", "again", "go", "pending"}
Ended == {"answered", "rejected"}

NoProcess == [state |-> "none", inbox |-> {}, answers |-> {}, hello |-> FALSE]

Init ==
  /\ \E name \in {"git", "jobs"} :
       client = [command |-> name, closed |-> FALSE, ready |-> FALSE, starting |-> FALSE,
                 auto |-> FALSE, timer |-> FALSE, child |-> None, generation |-> 0,
                 pending |-> {}, retiring |-> {}, uncertain |-> FALSE, attached |-> TRUE,
                 sealed |-> FALSE]
  /\ call = [r \in Requests \cup Observers |-> "new"]
  /\ process = [g \in Generations |-> NoProcess]
  /\ executed = [r \in Requests |-> 0]
  /\ report = FALSE /\ faults = 0
---------------------------------------------------------------------------
(* The methods the operations call, as functions of the state.              *)

Restarting(c) == c.timer /\ ~c.closed

(* The operations counter: requests in flight, and a restart's own start.   *)
Operations(c, k) == {r \in Requests : k[r] \in Waiting} # {} \/ c.auto

(* activity(): nothing goes on, and nothing is unknown.                     *)
Idle(c, k) ==
  /\ ~(c.starting /\ ~c.ready) /\ ~Restarting(c)
  /\ ~Operations(c, k) /\ c.pending \subseteq Observers
  /\ c.retiring = {}
  /\ ~c.uncertain /\ \A o \in Observers : k[o] # "late"

(* collected(): a closed client with nothing left leaves the activity group,*)
(* which a restart of the application no longer asks about it.              *)
Collected(c, k) ==
  [c EXCEPT !.attached = @ /\ ~(/\ c.closed /\ c.child = None /\ c.retiring = {}
                                /\ ~Operations(c, k) /\ c.pending = {} /\ ~c.uncertain)]

(* failed(), for the current child or a start that threw: the child is      *)
(* killed and kept until it is seen to end, a restart is scheduled, and     *)
(* lost Git work leaves its mark.                                           *)
GivenUp(c) ==
  [c EXCEPT !.uncertain = @ \/ (c.command = "git" /\ c.pending # {}),
            !.retiring = (@ \cup {c.child}) \ {None},
            !.ready = FALSE, !.starting = FALSE, !.auto = FALSE,
            !.pending = {}, !.child = None]

(* Mutant: the work of a process that failed is forgotten.                  *)
FailedCertain(c) == [GivenUp(c) EXCEPT !.timer = TRUE, !.uncertain = c.uncertain]

Failed(c) == [GivenUp(c) EXCEPT !.timer = TRUE]

(* Mutant: who was written to the process that failed is written again. *)
Replayed(k) ==
  [r \in DOMAIN k |-> IF k[r] \in {"starting", "chained"} THEN "rejected"
                      ELSE IF k[r] = "pending" THEN "restart" ELSE k[r]]

(* rejectPending and readyReject: who waits for the child learns of it.     *)
Rejected(k) ==
  [r \in DOMAIN k |-> IF k[r] \in {"starting", "chained", "pending", "late"}
                      THEN "rejected" ELSE k[r]]

Killed(p, g) == [p EXCEPT ![g].state = IF @ = "up" THEN "dying" ELSE @]

(* failed(child, generation) with the child's events behind it.             *)
Fails(k, p) ==
  /\ faults < MaxFaults
  /\ faults' = faults + 1
  /\ client' = Failed(client)
  /\ call' = Rejected(k)
  /\ process' = IF client.child = None THEN p ELSE Killed(p, client.child)
  /\ report' = FALSE

(* startInner() from the spawn on.  A git process says that it is ready, a  *)
(* jobs process answers a probe.                                            *)
Spawned(c, auto) ==
  [c EXCEPT !.starting = TRUE, !.auto = auto, !.generation = @ + 1,
            !.child = c.generation + 1,
            !.pending = IF c.command = "jobs" THEN {Probe} ELSE {}]

Begun(g) ==
  [process EXCEPT ![g] =
     [NoProcess EXCEPT !.state = "up", !.hello = client.command = "git",
                       !.inbox = IF client.command = "jobs" THEN {Probe} ELSE {}]]

(* Who calls startInner() waits for what is there, or spawns.               *)
WaitsFor(c) ==
  CASE c.closed -> "rejected"
    [] ~c.closed /\ c.ready -> "go"
    [] ~c.closed /\ ~c.ready /\ ~c.starting /\ Restarting(c) -> "restart"
    [] OTHER -> "starting"

Spawns(c) == WaitsFor(c) = "starting" /\ ~c.starting

StartsFor(r) ==
  \/ /\ Spawns(client)
     /\ client' = Spawned(client, FALSE)
     /\ process' = Begun(client.generation + 1)
     /\ call' = [call EXCEPT ![r] = "starting"]
     /\ report' = FALSE /\ UNCHANGED faults
  \/ /\ Spawns(client) \* the spawn throws
     /\ Fails([call EXCEPT ![r] = "starting"], process)
  \/ /\ ~Spawns(client)
     /\ call' = [call EXCEPT ![r] = WaitsFor(client)]
     /\ client' = Collected(client, call')
     /\ report' = FALSE /\ UNCHANGED <<process, faults>>

(* Continuations run before the next event. *)
Quiescent == \A r \in Requests : call[r] \notin {"again", "go"}
---------------------------------------------------------------------------
(* request(): counted, then startInner() is awaited.  Once the restart of   *)
(* the application is committed nothing enters the group any more.          *)
Request(r) ==
  /\ Quiescent
  /\ call[r] = "new"
  /\ \/ /\ ~client.sealed
        /\ StartsFor(r)
     \/ /\ client.sealed
        /\ call' = [call EXCEPT ![r] = "rejected"]
        /\ UNCHANGED <<client, process, report, faults>>
  /\ UNCHANGED executed

(* A wait for the restart timer was followed by another look.               *)
LooksAgain(r) ==
  /\ call[r] = "again"
  /\ StartsFor(r)
  /\ UNCHANGED executed

(* requestOwned() after the await: the child may be gone again; a write to  *)
(* it may throw.                                                            *)
Written(r) ==
  /\ client' = [client EXCEPT !.pending = @ \cup {r}]
  /\ call' = [call EXCEPT ![r] = "pending"]
  /\ process' = [process EXCEPT ![client.child].inbox =
                   IF process[client.child].state = "up" THEN @ \cup {r} ELSE @]
  /\ report' = FALSE
  /\ UNCHANGED faults

GoesOn(r) ==
  /\ call[r] = "go"
  /\ \/ /\ client.ready
        /\ Written(r)
     \/ /\ client.ready \* the write throws
        /\ Fails([call EXCEPT ![r] = "rejected"], process)
     \/ /\ ~client.ready
        /\ call' = [call EXCEPT ![r] = "rejected"]
        /\ client' = Collected(client, call')
        /\ report' = FALSE /\ UNCHANGED <<process, faults>>
  /\ UNCHANGED executed

(* observeActivity(): only of a jobs process that is ready; two at most.    *)
Watching == {o \in Observers : call[o] \in {"pending", "late"}}

Observe(o) ==
  /\ Quiescent
  /\ call[o] = "new"
  /\ client.command = "jobs" /\ client.ready /\ Cardinality(Watching) < 2
  /\ \/ /\ client' = [client EXCEPT !.pending = @ \cup {o}]
        /\ call' = [call EXCEPT ![o] = "pending"]
        /\ process' = [process EXCEPT ![client.child].inbox =
                         IF process[client.child].state = "up" THEN @ \cup {o} ELSE @]
        /\ UNCHANGED <<report, faults>>
     \/ Fails([call EXCEPT ![o] = "rejected"], process)
  /\ UNCHANGED executed

(* Mutant: the answer that comes after the timer finds no request.          *)
ObservationForgotten(o) ==
  /\ Quiescent /\ call[o] = "pending"
  /\ call' = [call EXCEPT ![o] = "rejected"]
  /\ client' = [client EXCEPT !.pending = @ \ {o}]
  /\ report' = FALSE
  /\ UNCHANGED <<process, executed, faults>>

(* The timer of an observation: its request stays, for its late answer.     *)
ObservationTimesOut(o) ==
  /\ Quiescent /\ call[o] = "pending"
  /\ call' = [call EXCEPT ![o] = "late"]
  /\ report' = FALSE
  /\ UNCHANGED <<client, process, executed, faults>>
---------------------------------------------------------------------------
(* Events of the process.                                                   *)

(* markReady(): the start is over, and so is the wait of the restart.       *)
Ready(c) == [c EXCEPT !.ready = TRUE, !.starting = FALSE, !.auto = FALSE]
Admitted(k) ==
  [r \in DOMAIN k |-> CASE k[r] = "starting" -> "go"
                        [] k[r] = "chained" -> "again"
                        [] OTHER -> k[r]]

MarkReady(g) ==
  /\ Quiescent /\ client.child = g
  /\ process[g].hello
  /\ ~client.ready
  /\ client' = Ready(client)
  /\ call' = Admitted(call)
  /\ process' = [process EXCEPT ![g].hello = FALSE]
  /\ report' = FALSE
  /\ UNCHANGED <<executed, faults>>

(* decode(): an answer must find its request; anything else is a failure of *)
(* the process.  What a retired process still says is not read.             *)
Answered(id) ==
  IF id = Probe THEN call ELSE [call EXCEPT ![id] = IF @ = "late" THEN "rejected" ELSE "answered"]

Answer(g, id) ==
  /\ Quiescent /\ client.child = g
  /\ id \in process[g].answers
  /\ \/ /\ id \in client.pending
        /\ LET c == [client EXCEPT !.pending = @ \ {id}]
               k == Answered(id)
           IN IF id = Probe
              THEN \/ client' = Ready(c) /\ call' = Admitted(k)
                   \/ client' = c /\ call' = k /\ faults < MaxFaults \* the probe is refused
              ELSE /\ call' = k
                   /\ client' = Collected(c, call')
        /\ report' = (report /\ id \in Observers /\ call[id] = "pending")
        /\ process' = [process EXCEPT ![g].answers = @ \ {id}]
        /\ UNCHANGED faults
     \/ /\ id \notin client.pending
        /\ Fails(call, process)
  /\ UNCHANGED executed

(* The child exits, its pipe breaks, it is not ready in time, or what it    *)
(* writes is refused.                                                       *)
ChildFails ==
  /\ Quiescent /\ client.child # None
  /\ Fails(call, process)
  /\ UNCHANGED executed

(* 'close' of a child that ended.                                           *)
ChildCloses(g) ==
  /\ Quiescent
  /\ process[g].state = "ended"
  /\ IF client.child = g
     THEN /\ client' = [Failed(client) EXCEPT !.retiring = client.retiring]
          /\ call' = Rejected(call)
     ELSE /\ client' = Collected([client EXCEPT !.retiring = @ \ {g}], call)
          /\ UNCHANGED call
  /\ process' = [process EXCEPT ![g].state = "closed"]
  /\ report' = FALSE
  /\ UNCHANGED <<executed, faults>>

(* The restart's timer: its start() is an operation of its own.  A client   *)
(* that is closed, or may not enter the group, only rejects who waited.     *)
Restarts(auto) ==
  [r \in DOMAIN call |-> IF call[r] = "restart" THEN auto ELSE call[r]]

TimerFires ==
  /\ Quiescent /\ client.timer
  /\ \/ /\ client.closed \/ client.sealed
        /\ call' = Restarts("rejected")
        /\ client' = Collected([client EXCEPT !.timer = FALSE], call')
        /\ report' = FALSE
        /\ UNCHANGED <<process, faults>>
     \/ /\ ~client.closed /\ ~client.sealed
        /\ client' = Spawned([client EXCEPT !.timer = FALSE], TRUE)
        /\ process' = Begun(client.generation + 1)
        /\ call' = Restarts("chained")
        /\ report' = FALSE
        /\ UNCHANGED faults
     \/ /\ ~client.closed /\ ~client.sealed \* the spawn throws
        /\ Fails(Restarts("chained"), process)
  /\ UNCHANGED executed

(* close() *)
Close ==
  /\ Quiescent /\ ~client.closed
  /\ call' = Rejected(call)
  /\ client' = Collected([GivenUp(client) EXCEPT !.closed = TRUE], call')
  /\ process' = IF client.child = None THEN process ELSE Killed(process, client.child)
  /\ report' = FALSE
  /\ UNCHANGED <<executed, faults>>

(* The activity group reads the clients it knows.                           *)
Read ==
  /\ Quiescent
  /\ report' = (client.attached => Idle(client, call))
  /\ UNCHANGED <<client, call, process, executed, faults>>

(* The restart of the application is committed: on an idle report that      *)
(* still stands, which DesktopRestart has the coordinator for.              *)
Commit ==
  /\ Quiescent /\ report /\ ~client.sealed
  /\ client' = [client EXCEPT !.sealed = TRUE]
  /\ UNCHANGED <<call, process, executed, report, faults>>
---------------------------------------------------------------------------
(* The native process executes what it was sent, also while the signal that *)
(* kills it is on its way.  It reads one request at a time; here it may     *)
(* take them in any order.                                                  *)
Alive(g) == process[g].state \in {"up", "dying"}

Execute(g, id) ==
  /\ Quiescent /\ Alive(g) /\ id \in process[g].inbox
  /\ process' = [process EXCEPT ![g].inbox = @ \ {id}, ![g].answers = @ \cup {id}]
  /\ executed' = IF id \in Requests THEN [executed EXCEPT ![id] = @ + 1] ELSE executed
  /\ UNCHANGED <<client, call, report, faults>>

End(g) ==
  /\ Quiescent
  /\ \/ process[g].state = "dying" /\ UNCHANGED faults
     \/ process[g].state = "up" /\ faults < MaxFaults /\ faults' = faults + 1
  /\ process' = [process EXCEPT ![g].state = "ended", ![g].inbox = {}]
  /\ UNCHANGED <<client, call, executed, report>>

Continuation(r) == LooksAgain(r) \/ GoesOn(r)
Event(g) == MarkReady(g) \/ (\E id \in process[g].answers : Answer(g, id)) \/ ChildCloses(g)

Next ==
  \/ \E r \in Requests : Request(r) \/ Continuation(r)
  \/ \E o \in Observers : Observe(o) \/ ObservationTimesOut(o)
  \/ \E g \in Generations :
       Event(g) \/ End(g) \/ (\E id \in process[g].inbox : Execute(g, id))
  \/ ChildFails \/ TimerFires \/ Close \/ Read \/ Commit

Spec == Init /\ [][Next]_vars

(* Promises settle, pipes are read, timers fire; a process that was killed  *)
(* ends and one that was asked answers, or fails.  A child that is not      *)
(* ready in time is given up (the timer of startInner).                     *)
Fairness ==
  /\ \A r \in Requests : WF_vars(Continuation(r))
  /\ \A g \in Generations :
       /\ WF_vars(Event(g))
       /\ WF_vars(process[g].state = "dying" /\ End(g))
       /\ WF_vars(\E id \in process[g].inbox : Execute(g, id))
  /\ WF_vars(TimerFires)
  /\ WF_vars(~client.ready /\ ChildFails)

FairSpec == Spec /\ Fairness
=============================================================================
