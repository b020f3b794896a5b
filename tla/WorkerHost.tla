----------------------------- MODULE WorkerHost -----------------------------
(***************************************************************************)
(* The agent worker process: the protocol host (server/gjc-worker.ts) and  *)
(* the SDK runtime it drives (server/gjc-bun-sdk-adapter.ts).  Every       *)
(* worker the server ever starts has a number; it reads requests from its  *)
(* stdin (toWorker) and writes responses and events to its stdout (toApp). *)
(*                                                                         *)
(* The methods that neither start nor end a run are of two sorts: "query"  *)
(* (models.catalog, quota.providers, goal.inspect, oauth.start, ...), which a   *)
(* fence refuses, and "follow" (oauth.submit, oauth.cancel), which         *)
(* continues what was accepted before the fence.                           *)
(***************************************************************************)
EXTENDS Integers, Sequences, FiniteSets

CONSTANTS
  Runs,        \* runs, by run id
  Calls,       \* calls of the server that are not runs
  Fences,      \* restart fence ids
  MaxWorkers,  \* bound: worker processes ever started
  MaxMoves,    \* bound: SDK activity changes under one fence
  MaxAsks,     \* bound: questions one run raises
  None

ASSUME HostAssumption ==
  /\ MaxWorkers \in Nat \ {0} /\ MaxMoves \in Nat /\ MaxAsks \in Nat
  /\ None \notin Runs \cup Calls \cup Fences \cup 1..MaxWorkers
  /\ None \notin {"ok", "failed", "cleanup", "aborted", "refused"}

VARIABLES host, toWorker, toApp

hostVars == <<host, toWorker, toApp>>

Workers == 1..MaxWorkers

(* A request names its owner (a run, a call, a fence, or nobody); n tells  *)
(* apart the requests of one method and owner.  A reply, and an event, is  *)
(* about the ask-th question of its run.                                   *)
Asked(method, of, n, ask) == [method |-> method, of |-> of, n |-> n, ask |-> ask]
Request(method, of, n) == Asked(method, of, n, 0)
Response(q, result) == [kind |-> "response", of |-> q, result |-> result]
Event(r, what, ask) == [kind |-> "event", of |-> r, result |-> what, ask |-> ask]

(* A run inside the worker: `sdk` is where the SDK is with it, `abort` the *)
(* runtime's abortState, `promise` the host's abortPromise, `asked` the    *)
(* turn.abort requests that wait for it, `late` abortDeadlineExceeded.     *)
NoHostRun == [sdk |-> "none", abort |-> "idle", promise |-> "none", asked |-> {},
              aborted |-> FALSE, late |-> FALSE, ask |-> FALSE, asks |-> 0]

NewHost == [up |-> TRUE, heard |-> TRUE, initialized |-> "no", closed |-> FALSE, poisoned |-> FALSE,
            fence |-> None, rev |-> 0, ops |-> {}, run |-> [r \in Runs |-> NoHostRun]]

UnbornHost == [NewHost EXCEPT !.up = FALSE, !.heard = FALSE]

HostInit ==
  /\ host = [w \in Workers |-> UnbornHost]
  /\ toWorker = [w \in Workers |-> <<>>]
  /\ toApp = [w \in Workers |-> <<>>]

(* #runs of the host: started and not yet answered.                        *)
InHost(x) == x.sdk \notin {"none", "gone"}
HostRuns(w) == {r \in Runs : InHost(host[w].run[r])}

(* Until its process is gone, what a worker runs may still act.            *)
Executes(w, r) == host[w].up /\ host[w].run[r].sdk \in {"starting", "active", "settling"}

(* A poisoned worker answers everything with cleanup_unconfirmed and emits *)
(* no events.                                                              *)
Answers(h, q, result) == Response(q, IF h.poisoned THEN "cleanup" ELSE result)
Emits(h, r, whats) ==
  IF h.poisoned THEN <<>> ELSE [i \in 1..Len(whats) |-> Event(r, whats[i], h.run[r].asks)]

(* heard: the server still reads this worker's stdout.                     *)
Says(w, frames) == toApp' = [toApp EXCEPT ![w] = IF host[w].heard THEN @ \o frames ELSE @]

(* abortGjcSession: <<abort state, answer>>, the answer None while         *)
(* session.abort() is awaited.                                             *)
AbortCall(x) ==
  CASE x.sdk = "starting" /\ x.abort = "idle" -> <<"requested", "aborted">>
    [] x.sdk \in {"active", "settling"} /\ x.abort = "idle" -> <<"aborting", None>>
    [] OTHER -> <<x.abort, "refused">>

(* abort(): a first request calls the runtime, later ones join its answer; *)
(* a refusal is forgotten so that the next Stop asks again, unless it came *)
(* after the deadline: then the run's aborts have failed for good.         *)
AbortRequested(x, q) ==
  LET call == AbortCall(x)
  IN IF x.promise = "pending" THEN <<[x EXCEPT !.asked = @ \cup {q}], None>>
     ELSE IF x.promise # "none"
     THEN <<[x EXCEPT !.aborted = @ \/ ~x.late], IF x.late THEN "failed" ELSE "aborted">>
     ELSE CASE call[2] = None -> <<[x EXCEPT !.abort = call[1], !.promise = "pending", !.asked = {q}], None>>
            [] call[2] = "aborted" -> <<[x EXCEPT !.abort = call[1], !.promise = "true", !.aborted = TRUE], "aborted">>
            [] OTHER -> <<[x EXCEPT !.aborted = FALSE], "refused">>

(* close(): no new work, and one abort for every run.                      *)
Closed(h) ==
  [h EXCEPT !.closed = TRUE,
            !.run = [r \in Runs |-> [h.run[r] EXCEPT !.abort = AbortCall(h.run[r])[1]]]]

(* poison: a cleanup that could not be confirmed closes the whole worker.  *)
Poisoned(h) == [Closed(h) EXCEPT !.poisoned = TRUE]
-----------------------------------------------------------------------------
(* One request is read.  <<next host, answer or None>>.  rev stands for    *)
(* the generation under one fence: the code's revisions only grow, count   *)
(* the host's operations too, and go on under a fence that also stops the  *)
(* runtime's producers; here more observations look alike.                 *)
Admission(h, q) ==
  LET f == q.of
      next == IF q.method = "close" THEN f ELSE None
  IN IF h.initialized # "yes" \/ h.fence \notin {None, f}
     THEN <<h, "failed">>
     ELSE <<[h EXCEPT !.fence = next, !.rev = IF next = h.fence THEN @ ELSE 0], "ok">>

(* worker.activity: idle evidence needs a fence and nothing owned.         *)
Idle(h) == h.initialized = "yes" /\ h.ops = {} /\ \A r \in Runs : ~InHost(h.run[r])
Observed(h) == [fence |-> h.fence, rev |-> h.rev, idle |-> h.fence # None /\ Idle(h)]
Unobserved == [fence |-> None, rev |-> -1, idle |-> FALSE]
Refusal(q, result) == IF q.method = "activity" THEN Unobserved ELSE result

FencedMethods == {"initialize", "start", "query"}
ControlMethods == {"activity", "close", "open"}

Served(h, q) ==
  LET x == h.run[q.of]
      onRun(y) == [h EXCEPT !.run[q.of] = y]
  IN CASE q.method = "initialize" ->
            <<[h EXCEPT !.initialized = "running", !.ops = @ \cup {q}], None>>
       [] q.method = "start" -> <<onRun([x EXCEPT !.sdk = "starting"]), None>>
       [] q.method = "abort" ->
            IF InHost(x) THEN LET a == AbortRequested(x, q) IN <<onRun(a[1]), a[2]>>
            ELSE <<h, "failed">>
       [] q.method = "reply" ->
            IF ~InHost(x) THEN <<h, "failed">>
            ELSE IF x.ask /\ x.asks = q.ask THEN <<onRun([x EXCEPT !.ask = FALSE]), "ok">>
            ELSE <<h, "refused">>
       [] q.method = "shutdown" -> <<[Closed(h) EXCEPT !.ops = @ \cup {q}], None>>
       [] OTHER -> <<[h EXCEPT !.ops = @ \cup {q}], None>>

Handled(h, q) ==
  IF h.poisoned THEN <<h, Refusal(q, "cleanup")>>
  ELSE IF h.closed THEN <<h, Refusal(q, "failed")>>
  ELSE CASE q.method = "activity" -> <<h, Observed(h)>>
         [] q.method \in {"close", "open"} -> Admission(h, q)
         [] q.method \in FencedMethods /\ h.fence # None -> <<h, "failed">>
         [] q.method \notin FencedMethods \cup ControlMethods /\ h.initialized # "yes" -> <<h, "failed">>
         [] OTHER -> Served(h, q)

Handle(w) ==
  LET q == Head(toWorker[w])
      next == Handled(host[w], q)
  IN /\ host[w].up /\ toWorker[w] # <<>>
     /\ toWorker' = [toWorker EXCEPT ![w] = Tail(@)]
     /\ host' = [host EXCEPT ![w] = next[1]]
     /\ Says(w, IF next[2] = None THEN <<>> ELSE <<Response(q, next[2])>>)

(* loadRuntime settled.                                                    *)
Initialized(w) ==
  \E q \in host[w].ops, ok \in BOOLEAN :
    /\ host[w].up /\ q.method = "initialize"
    /\ host' = [host EXCEPT ![w].initialized = IF ok THEN "yes" ELSE "no", ![w].ops = @ \ {q}]
    /\ Says(w, <<Response(q, IF ok THEN "ok" ELSE "failed")>>)
    /\ UNCHANGED toWorker

(* An operation of the runtime ends.  A shutdown answers when every run    *)
(* drained or its six seconds passed; a query may meet a cleanup failure.  *)
OperationEnds(w) ==
  \E q \in host[w].ops, how \in {"ok", "failed", "cleanup"} :
    /\ host[w].up /\ q.method # "initialize"
    /\ q.method = "shutdown" => how = "ok"
    /\ LET h == [host[w] EXCEPT !.ops = @ \ {q}]
           next == IF how = "cleanup" THEN Poisoned(h) ELSE h
       IN /\ host' = [host EXCEPT ![w] = next]
          /\ Says(w, <<Answers(next, q, how)>>)
    /\ UNCHANGED toWorker

(* Work the SDK does on its own moves its generation.                      *)
SdkMoves(w) ==
  /\ host[w].up /\ host[w].fence # None /\ host[w].rev < MaxMoves
  /\ host' = [host EXCEPT ![w].rev = @ + 1]
  /\ UNCHANGED <<toWorker, toApp>>
-----------------------------------------------------------------------------
(* A run inside the worker.  Each step replaces the run's record and emits *)
(* events.                                                                 *)
RunMoves(w, r, y, whats) ==
  /\ host' = [host EXCEPT ![w].run[r] = y]
  /\ Says(w, Emits(host[w], r, whats))
  /\ UNCHANGED toWorker

(* The session exists; one that was stopped before it existed ends at once.*)
SessionStarts(w, r) ==
  LET x == host[w].run[r]
  IN /\ host[w].up /\ x.sdk = "starting"
     /\ IF x.abort = "requested"
        THEN RunMoves(w, r, [x EXCEPT !.sdk = "settling", !.abort = "aborted"], <<>>)
        ELSE RunMoves(w, r, [x EXCEPT !.sdk = "active"], <<>>)

StartFails(w, r) ==
  LET x == host[w].run[r]
  IN host[w].up /\ x.sdk = "starting" /\ RunMoves(w, r, [x EXCEPT !.sdk = "failed"], <<>>)

AskPresented(w, r) ==
  LET x == host[w].run[r]
  IN /\ host[w].up /\ x.sdk = "active" /\ x.abort # "aborted" /\ ~x.ask /\ x.asks < MaxAsks
     /\ host' = [host EXCEPT ![w].run[r] = [x EXCEPT !.ask = TRUE, !.asks = @ + 1]]
     /\ Says(w, IF host[w].poisoned THEN <<>> ELSE <<Event(r, "ask", x.asks + 1)>>)
     /\ UNCHANGED toWorker

(* The question expires, or the tool call it belongs to is given up.       *)
AskCancelled(w, r) ==
  LET x == host[w].run[r]
  IN host[w].up /\ x.ask /\ RunMoves(w, r, [x EXCEPT !.ask = FALSE], <<"cancelled">>)

(* The prompt settled: dispose questions and delegation, then the session. *)
TurnEnds(w, r) ==
  LET x == host[w].run[r]
  IN /\ host[w].up /\ x.sdk = "active"
     /\ RunMoves(w, r, [x EXCEPT !.sdk = "settling", !.ask = FALSE],
                 IF x.ask THEN <<"cancelled">> ELSE <<>>)

(* The session was disposed.  forwardPromptTerminal: one terminal event,   *)
(* unless the run was aborted.                                             *)
Disposed(w, r, how) ==
  LET x == host[w].run[r]
  IN /\ host[w].up /\ x.sdk = "settling"
     /\ RunMoves(w, r, [x EXCEPT !.sdk = IF how = "completed" THEN "ended" ELSE "failed"],
                 IF x.abort = "aborted" THEN <<>> ELSE <<how>>)

DisposalFails(w, r) ==
  LET h == [host[w] EXCEPT !.run[r].sdk = "gone"]
  IN /\ host[w].up /\ host[w].run[r].sdk = "settling"
     /\ host' = [host EXCEPT ![w] = Poisoned(h)]
     /\ Says(w, <<Response(Request("start", r, 0), "cleanup")>>)
     /\ UNCHANGED toWorker

(* session.abort() settled: everyone who asked is answered.  A refusal     *)
(* that comes late is kept: the start's answer will be a failure.          *)
AbortSettles(w, r, ok) ==
  LET x == host[w].run[r]
      settled == IF ok THEN "true" ELSE IF x.late THEN "false" ELSE "none"
      y == [x EXCEPT !.abort = IF ok THEN "aborted" ELSE "idle", !.asked = {},
                     !.promise = IF @ = "none" THEN @ ELSE settled,
                     !.aborted = IF x.promise = "none" \/ x.late THEN @ ELSE ok,
                     !.ask = @ /\ ~ok]
      result == IF x.late THEN "failed" ELSE IF ok THEN "aborted" ELSE "refused"
      answer == {Answers(host[w], q, result) : q \in x.asked}
  IN /\ host[w].up /\ x.abort = "aborting"
     /\ host' = [host EXCEPT ![w].run[r] = y]
     /\ \E order \in [1..Cardinality(answer) -> answer] :
          /\ \A i, j \in DOMAIN order : i # j => order[i] # order[j]
          /\ Says(w, Emits(host[w], r, IF x.ask /\ ok THEN <<"cancelled">> ELSE <<>>) \o order)
     /\ UNCHANGED toWorker

(* awaitAbort gave up after six seconds: the run will count as failed.     *)
AbortDeadline(w, r) ==
  LET x == host[w].run[r]
      answer == {Answers(host[w], q, "failed") : q \in x.asked}
  IN /\ host[w].up /\ x.promise = "pending" /\ (~x.late \/ x.asked # {})
     /\ host' = [host EXCEPT ![w].run[r] = [x EXCEPT !.late = TRUE, !.asked = {}]]
     /\ \E order \in [1..Cardinality(answer) -> answer] :
          /\ \A i, j \in DOMAIN order : i # j => order[i] # order[j]
          /\ Says(w, order)
     /\ UNCHANGED toWorker

(* settleStart: the answer to session.start, the last word about a run;    *)
(* it waits for an abort in flight.                                        *)
SettleStart(w, r) ==
  LET x == host[w].run[r]
      fails == x.sdk = "failed" \/ (x.late /\ x.promise # "none")
      result == IF fails THEN "failed" ELSE IF x.aborted THEN "aborted" ELSE "ok"
  IN /\ host[w].up /\ x.sdk \in {"ended", "failed"}
     /\ x.promise = "pending" => x.late
     /\ host' = [host EXCEPT ![w].run[r] = [x EXCEPT !.sdk = "gone"]]
     /\ Says(w, <<Answers(host[w], Request("start", r, 0), result)>>)
     /\ UNCHANGED toWorker

(* The process dies; what it wrote before is still in the pipe.  Of its    *)
(* memory only the history is kept: which runs it saw, and their questions.*)
Dead(x) == [NoHostRun EXCEPT !.sdk = IF x.sdk = "none" THEN "none" ELSE "gone", !.asks = x.asks]
Dies(w) ==
  LET h == host[w]
  IN /\ h.up
     /\ host' = [host EXCEPT ![w] =
          [UnbornHost EXCEPT !.heard = h.heard, !.initialized = "died", !.run = [r \in Runs |-> Dead(h.run[r])]]]
     /\ toWorker' = [toWorker EXCEPT ![w] = <<>>]
     /\ UNCHANGED toApp

HostRunStep(w, r) ==
  \/ SessionStarts(w, r)
  \/ StartFails(w, r)
  \/ AskPresented(w, r)
  \/ AskCancelled(w, r)
  \/ TurnEnds(w, r)
  \/ \E how \in {"completed", "failed"} : Disposed(w, r, how)
  \/ DisposalFails(w, r)
  \/ \E ok \in BOOLEAN : AbortSettles(w, r, ok)
  \/ AbortDeadline(w, r)
  \/ SettleStart(w, r)

HostStep(w) ==
  \/ Handle(w)
  \/ Initialized(w)
  \/ OperationEnds(w)
  \/ SdkMoves(w)
  \/ Dies(w)
  \/ \E r \in Runs : HostRunStep(w, r)
=============================================================================
