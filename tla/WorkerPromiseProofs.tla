------------------------- MODULE WorkerPromiseProofs -------------------------
(***************************************************************************)
(* The supervisor and its workers implement WorkerPromise, for any number  *)
(* of runs, calls, fences and workers.                                     *)
(*                                                                         *)
(* What the other invariants do not say is where a run was: it is met by   *)
(* one worker only, and an answer that concludes it, with no cleanup       *)
(* failure, comes of a run that was begun, or from a worker that is        *)
(* drained or fenced, when no run is left to be concluded by it.           *)
(***************************************************************************)
EXTENDS WorkerFenceProofs

(* What a worker does to the lives of its runs: it has seen those it had   *)
(* seen, and is closed without a cleanup failure only by a shutdown.       *)
Drains(h, g) == g.closed /\ ~g.poisoned => h.closed /\ ~h.poisoned
SeesSame(h, g) ==
  \A r \in Runs : g.run[r].sdk = "none" <=> h.run[r].sdk = "none"

LEMMA OneRunSeen ==
  ASSUME HostTypeInv, NEW w \in Workers, NEW r \in Runs, NEW y,
         host' = [host EXCEPT ![w].run[r] = y], y.sdk # "none", host[w].run[r].sdk # "none"
  PROVE  SeesSame(host[w], host'[w]) /\ Drains(host[w], host'[w]) /\ host'[w].run[r].sdk # "none"
<1>1. host[w] \in HostRecord /\ host[w].run \in [Runs -> HostRunRecord] /\ host \in [Workers -> HostRecord]
  BY HostTypes DEF HostTypeInv
<1>2. host'[w] = [host[w] EXCEPT !.run[r] = y]
  BY <1>1
<1>3. /\ host'[w].closed = host[w].closed /\ host'[w].poisoned = host[w].poisoned
      /\ \A s \in Runs : host'[w].run[s] = IF s = r THEN y ELSE host[w].run[s]
  BY <1>1, <1>2 DEF HostRecord
<1> QED BY <1>3 DEF SeesSame, Drains

LEMMA ClosedSees ==
  ASSUME NEW h \in HostRecord
  PROVE  SeesSame(h, Closed(h)) /\ SeesSame(h, Poisoned(h)) /\ Drains(h, Poisoned(h))
<1>1. \A r \in Runs : h.run[r] \in HostRunRecord
  BY DEF HostRecord
<1>2. \A r \in Runs : Closed(h).run[r] = Closing(h.run[r]) /\ Poisoned(h).run[r] = Closing(h.run[r])
  BY ClosedIs
<1>3. \A x \in HostRunRecord : Closing(x).sdk = x.sdk
  BY DEF Closing, HostRunRecord
<1>4. Poisoned(h).poisoned
  BY DEF Poisoned, Closed, HostRecord
<1> QED BY <1>1, <1>2, <1>3, <1>4 DEF SeesSame, Drains

LEMMA DisposalSees ==
  ASSUME HostTypeInv, NEW w \in Workers, NEW r \in Runs, DisposalFails(w, r)
  PROVE  SeesSame(host[w], host'[w]) /\ Drains(host[w], host'[w]) /\ host'[w].run[r].sdk # "none"
<1>1. host[w] \in HostRecord /\ host[w].run[r] \in HostRunRecord /\ host \in [Workers -> HostRecord]
  BY HostTypes DEF HostTypeInv
<1>2. PICK y : y = [host[w].run[r] EXCEPT !.sdk = "gone"]
  OBVIOUS
<1>3. PICK h : h = [host[w] EXCEPT !.run[r] = y]
  OBVIOUS
<1>4. y \in HostRunRecord /\ y.sdk = "gone"
  BY <1>1, <1>2 DEF HostRunRecord
<1>5. h \in HostRecord /\ \A s \in Runs : h.run[s] = IF s = r THEN y ELSE host[w].run[s]
  BY <1>1, <1>3, <1>4, OneRunIs
<1>6. host' = [host EXCEPT ![w] = Poisoned(h)] /\ host[w].run[r].sdk = "settling"
  <2>1. h = [host[w] EXCEPT !.run[r].sdk = "gone"]
    BY <1>2, <1>3
  <2> QED BY <2>1 DEF DisposalFails
<1>7. host'[w] = Poisoned(h)
  BY <1>1, <1>6
<1>8. SeesSame(h, Poisoned(h)) /\ Poisoned(h).poisoned
  <2>1. Poisoned(h).poisoned
    BY <1>5 DEF Poisoned, Closed, HostRecord
  <2> QED BY <1>5, <2>1, ClosedSees
<1> QED BY <1>4, <1>5, <1>6, <1>7, <1>8 DEF SeesSame, Drains

LEMMA RunSees ==
  ASSUME HostTypeInv, Places, NEW w \in Workers, NEW r \in Runs, HostRunStep(w, r)
  PROVE  SeesSame(host[w], host'[w]) /\ Drains(host[w], host'[w]) /\ host'[w].run[r].sdk # "none"
<1> DEFINE x == host[w].run[r]
           Seen == SeesSame(host[w], host'[w]) /\ Drains(host[w], host'[w]) /\ host'[w].run[r].sdk # "none"
<1>1. x \in HostRunRecord /\ Record(x, r)
  BY HostTypes DEF Places, Place
<1>2. x.ask \/ x.abort = "aborting" \/ x.promise = "pending" => x.sdk # "none"
  BY <1>1 DEF Record, NoHostRun
<1>3. ASSUME NEW y, host' = [host EXCEPT ![w].run[r] = y], y.sdk # "none", x.sdk # "none"
      PROVE  Seen
  BY <1>3, OneRunSeen
<1>5. ASSUME SessionStarts(w, r) PROVE Seen
  <2>1. PICK y : /\ y \in {[x EXCEPT !.sdk = "settling", !.abort = "aborted"], [x EXCEPT !.sdk = "active"]}
                 /\ x.sdk = "starting" /\ host' = [host EXCEPT ![w].run[r] = y]
    BY <1>5 DEF SessionStarts, RunMoves
  <2>2. y.sdk # "none"
    BY <1>1, <2>1 DEF HostRunRecord
  <2> QED BY <1>3, <2>1, <2>2
<1>6. ASSUME StartFails(w, r) PROVE Seen
  <2>1. PICK y : y = [x EXCEPT !.sdk = "failed"] /\ x.sdk = "starting" /\ host' = [host EXCEPT ![w].run[r] = y]
    BY <1>6 DEF StartFails, RunMoves
  <2>2. y.sdk # "none" /\ x.sdk # "none"
    BY <1>1, <1>2, <2>1 DEF HostRunRecord
  <2> QED BY <1>3, <2>1, <2>2
<1>7. ASSUME AskPresented(w, r) PROVE Seen
  <2>1. PICK y : y = [x EXCEPT !.ask = TRUE, !.asks = x.asks + 1] /\ x.sdk = "active" /\ host' = [host EXCEPT ![w].run[r] = y]
    BY <1>7 DEF AskPresented
  <2>2. y.sdk # "none" /\ x.sdk # "none"
    BY <1>1, <1>2, <2>1 DEF HostRunRecord
  <2> QED BY <1>3, <2>1, <2>2
<1>8. ASSUME AskCancelled(w, r) PROVE Seen
  <2>1. PICK y : y = [x EXCEPT !.ask = FALSE] /\ x.ask /\ host' = [host EXCEPT ![w].run[r] = y]
    BY <1>8 DEF AskCancelled, RunMoves
  <2>2. y.sdk # "none" /\ x.sdk # "none"
    BY <1>1, <1>2, <2>1 DEF HostRunRecord
  <2> QED BY <1>3, <2>1, <2>2
<1>9. ASSUME TurnEnds(w, r) PROVE Seen
  <2>1. PICK y : y = [x EXCEPT !.sdk = "settling", !.ask = FALSE] /\ x.sdk = "active" /\ host' = [host EXCEPT ![w].run[r] = y]
    BY <1>9 DEF TurnEnds, RunMoves
  <2>2. y.sdk # "none" /\ x.sdk # "none"
    BY <1>1, <1>2, <2>1 DEF HostRunRecord
  <2> QED BY <1>3, <2>1, <2>2
<1>10. ASSUME NEW how \in {"completed", "failed"}, Disposed(w, r, how) PROVE Seen
  <2>1. PICK v, y :
          v \in {"ended", "failed"} /\ y = [x EXCEPT !.sdk = v] /\ x.sdk = "settling" /\ host' = [host EXCEPT ![w].run[r] = y]
    BY <1>10 DEF Disposed, RunMoves
  <2>2. y.sdk # "none"
    BY <1>1, <2>1 DEF HostRunRecord
  <2> QED BY <1>3, <2>1, <2>2
<1>11. ASSUME NEW ok \in BOOLEAN, AbortSettles(w, r, ok) PROVE Seen
  <2>1. PICK abort, promise, aborted, ask :
          /\ x.abort = "aborting"
          /\ host' = [host EXCEPT ![w].run[r] =
               [x EXCEPT !.abort = abort, !.asked = {}, !.promise = promise, !.aborted = aborted, !.ask = ask]]
    BY <1>11 DEF AbortSettles
  <2>2. PICK y : y = [x EXCEPT !.abort = abort, !.asked = {}, !.promise = promise, !.aborted = aborted, !.ask = ask]
    OBVIOUS
  <2>3. y.sdk = x.sdk
    BY <1>1, <2>2 DEF HostRunRecord
  <2> QED BY <1>2, <1>3, <2>1, <2>2, <2>3
<1>12. ASSUME AbortDeadline(w, r) PROVE Seen
  <2>1. PICK y : y = [x EXCEPT !.late = TRUE, !.asked = {}] /\ x.promise = "pending" /\ host' = [host EXCEPT ![w].run[r] = y]
    BY <1>12 DEF AbortDeadline
  <2>2. y.sdk # "none" /\ x.sdk # "none"
    BY <1>1, <1>2, <2>1 DEF HostRunRecord
  <2> QED BY <1>3, <2>1, <2>2
<1>13. ASSUME SettleStart(w, r) PROVE Seen
  <2>1. PICK y : y = [x EXCEPT !.sdk = "gone"] /\ x.sdk \in {"ended", "failed"} /\ host' = [host EXCEPT ![w].run[r] = y]
    BY <1>13 DEF SettleStart
  <2>2. y.sdk # "none" /\ x.sdk # "none"
    BY <1>1, <1>2, <2>1 DEF HostRunRecord
  <2> QED BY <1>3, <2>1, <2>2
<1> QED BY <1>5, <1>6, <1>7, <1>8, <1>9, <1>10, <1>11, <1>12, <1>13, DisposalSees DEF HostRunStep

(* What a step of a worker that reads no request says of its runs.         *)
LivesOn(w) ==
  /\ SeesSame(host[w], host'[w]) /\ Drains(host[w], host'[w])
  /\ toWorker'[w] \in {toWorker[w], <<>>}
  /\ \E fs \in Seq(Frames) :
       /\ Says(w, fs)
       /\ \A i \in 1..Len(fs), r \in Runs : IsAnswer(fs[i], r) => host'[w].run[r].sdk # "none"

LEMMA RunLives ==
  ASSUME HostTypeInv, Places, NEW w \in Workers, NEW r \in Runs, HostRunStep(w, r)
  PROVE  LivesOn(w)
<1>1. SeesSame(host[w], host'[w]) /\ Drains(host[w], host'[w]) /\ host'[w].run[r].sdk # "none"
  BY RunSees
<1>2. PICK fs \in Seq(Frames) :
        Says(w, fs) /\ UNCHANGED toWorker /\ \A i \in 1..Len(fs) : IsAside(fs[i], r)
  BY RunMutters DEF Mutters
<1>3. \A i \in 1..Len(fs), s \in Runs : IsAnswer(fs[i], s) => s = r
  BY <1>2 DEF IsAside, IsAnswer, IsStart
<1> QED BY <1>1, <1>2, <1>3 DEF LivesOn

LEMMA OperationLives ==
  ASSUME HostTypeInv, NEW w \in Workers, Initialized(w) \/ OperationEnds(w)
  PROVE  LivesOn(w)
<1>1. host[w] \in HostRecord /\ host \in [Workers -> HostRecord]
  BY HostTypes DEF HostTypeInv
<1>2. SeesSame(host[w], host'[w]) /\ Drains(host[w], host'[w])
  <2>1. CASE Initialized(w)
    <3>1. PICK initialized, ops :
            host' = [host EXCEPT ![w].initialized = initialized, ![w].ops = ops]
      BY <2>1 DEF Initialized
    <3>2. host'[w] = [host[w] EXCEPT !.initialized = initialized, !.ops = ops]
      BY <1>1, <3>1
    <3>3. host'[w].run = host[w].run /\ host'[w].closed = host[w].closed /\ host'[w].poisoned = host[w].poisoned
      BY <1>1, <3>2 DEF HostRecord
    <3> QED BY <3>3 DEF SeesSame, Drains
  <2>2. CASE OperationEnds(w)
    <3>1. PICK q, g :
            /\ q \in host[w].ops
            /\ g \in {Poisoned([host[w] EXCEPT !.ops = @ \ {q}]), [host[w] EXCEPT !.ops = @ \ {q}]}
            /\ host' = [host EXCEPT ![w] = g]
      BY <2>2 DEF OperationEnds
    <3>2. PICK h : h = [host[w] EXCEPT !.ops = @ \ {q}]
      OBVIOUS
    <3>3. /\ h \in HostRecord /\ h.run = host[w].run /\ h.closed = host[w].closed
          /\ h.poisoned = host[w].poisoned
      BY <1>1, <3>2 DEF HostRecord
    <3>4. host'[w] \in {Poisoned(h), h}
      BY <1>1, <3>1, <3>2
    <3>5. SeesSame(h, Poisoned(h)) /\ Drains(h, Poisoned(h))
      BY <3>3, ClosedSees
    <3> QED BY <3>3, <3>4, <3>5 DEF SeesSame, Drains
  <2> QED BY <2>1, <2>2
<1>3. PICK q \in Operations, result \in Results :
        Response(q, result) \in Frames /\ Says(w, <<Response(q, result)>>) /\ UNCHANGED toWorker
  BY OperationFinishes DEF Finishes
<1>4. PICK f \in Frames : f = Response(q, result)
  BY <1>3
<1>5. \A r \in Runs : ~IsAnswer(f, r)
  BY <1>3, <1>4, OperationIs DEF Concerns
<1>6. <<f>> \in Seq(Frames) /\ \A i \in 1..Len(<<f>>) : <<f>>[i] = f
  BY OneFrame
<1>7. Says(w, <<f>>)
  BY <1>3, <1>4
<1> QED BY <1>2, <1>3, <1>5, <1>6, <1>7 DEF LivesOn

LEMMA NoFrames ==
  \E fs \in Seq(Frames) : fs = <<>> /\ \A i : i \notin 1..Len(fs)
<1>1. <<>> \in Seq(Frames)
  OBVIOUS
<1>2. \A i : i \notin 1..Len(<<>>)
  OBVIOUS
<1> QED BY <1>1, <1>2

LEMMA SilentLives ==
  ASSUME HostTypeInv, NEW w \in Workers, SdkMoves(w) \/ Dies(w)
  PROVE  LivesOn(w)
<1>1. host[w] \in HostRecord /\ host \in [Workers -> HostRecord] /\ host[w].run \in [Runs -> HostRunRecord]
  BY HostTypes DEF HostTypeInv
<1>2. /\ SeesSame(host[w], host'[w]) /\ Drains(host[w], host'[w])
      /\ toWorker'[w] \in {toWorker[w], <<>>}
  <2>1. CASE SdkMoves(w)
    <3>1. PICK rev : host' = [host EXCEPT ![w].rev = rev] /\ toWorker' = toWorker
      BY <2>1 DEF SdkMoves
    <3>2. host'[w] = [host[w] EXCEPT !.rev = rev]
      BY <1>1, <3>1
    <3>3. host'[w].run = host[w].run /\ host'[w].closed = host[w].closed /\ host'[w].poisoned = host[w].poisoned
      BY <1>1, <3>2 DEF HostRecord
    <3> QED BY <3>1, <3>3 DEF SeesSame, Drains
  <2>2. CASE Dies(w)
    <3>1. /\ host'[w] = [UnbornHost EXCEPT !.heard = host[w].heard, !.initialized = "died",
                                           !.run = [r \in Runs |-> Dead(host[w].run[r])]]
          /\ toWorker'[w] = <<>>
      BY <1>1, <2>2 DEF Dies, HostTypeInv
    <3>2. ~host'[w].closed /\ host'[w].run = [r \in Runs |-> Dead(host[w].run[r])]
      BY <3>1 DEF UnbornHost, NewHost
    <3>3. \A r \in Runs : (Dead(host[w].run[r]).sdk = "none" <=> host[w].run[r].sdk = "none")
      <4> SUFFICES ASSUME NEW r \in Runs PROVE (Dead(host[w].run[r]).sdk = "none" <=> host[w].run[r].sdk = "none")
        OBVIOUS
      <4>1. PICK v : v = IF host[w].run[r].sdk = "none" THEN "none" ELSE "gone"
        OBVIOUS
      <4>2. Dead(host[w].run[r]).sdk = v
        BY <4>1 DEF Dead, NoHostRun
      <4> QED BY <4>1, <4>2
    <3> QED BY <3>1, <3>2, <3>3 DEF SeesSame, Drains
  <2> QED BY <2>1, <2>2
<1>3. PICK fs \in Seq(Frames) : fs = <<>> /\ \A i : i \notin 1..Len(fs)
  BY NoFrames
<1>4. Says(w, fs)
  <2>1. PICK out \in Seq(Frames) : out = toApp[w]
    BY DEF HostTypeInv
  <2>2. out \o fs = out
    BY <1>3
  <2>3. PICK same : same = IF host[w].heard THEN toApp[w] \o fs ELSE toApp[w]
    OBVIOUS
  <2>4. same = toApp[w]
    BY <2>1, <2>2, <2>3
  <2>5. toApp' = [toApp EXCEPT ![w] = same]
    BY <2>4 DEF SdkMoves, Dies, HostTypeInv
  <2> QED BY <2>3, <2>5 DEF Says
<1> QED BY <1>2, <1>3, <1>4 DEF LivesOn

(* A request is read.                                                      *)
LEMMA HandledSees ==
  ASSUME NEW h \in HostRecord, NEW q \in Requests, NEW g, g = Handled(h, q)[1], NEW a, a = Handled(h, q)[2]
  PROVE  /\ q.method # "start" => SeesSame(h, g)
         /\ q.method # "shutdown" => Drains(h, g)
         /\ q.method = "start" =>
              \/ a = None /\ g = [h EXCEPT !.run[q.of] = [@ EXCEPT !.sdk = "starting"]]
              \/ g = h /\ (a = "cleanup" \/ (h.closed /\ ~h.poisoned) \/ h.fence # None)
<1> DEFINE Same(k) == k.run = h.run /\ k.closed = h.closed /\ k.poisoned = h.poisoned
<1>1. \A k : Same(k) => SeesSame(h, k) /\ Drains(h, k)
  BY DEF SeesSame, Drains
<1>2. CASE h.poisoned
  <2>1. g = h /\ a = Refusal(q, "cleanup")
    BY <1>2 DEF Handled
  <2>2. q.method = "start" => a = "cleanup"
    BY <2>1 DEF Refusal
  <2> QED BY <1>1, <2>1, <2>2
<1>3. CASE ~h.poisoned /\ h.closed
  <2>1. g = h
    BY <1>3 DEF Handled
  <2> QED BY <1>1, <1>3, <2>1
<1>4. CASE ~h.poisoned /\ ~h.closed
  <2>1. CASE q.method = "activity"
    <3>1. g = h
      BY <1>4, <2>1 DEF Handled
    <3> QED BY <1>1, <2>1, <3>1
  <2>2. CASE q.method \in {"close", "open"}
    <3>1. g = Admission(h, q)[1]
      <4>1. Handled(h, q) = Admission(h, q)
        BY <1>4, <2>2 DEF Handled, FencedMethods, ControlMethods
      <4> QED BY <4>1
    <3>2. PICK held, rev : g \in {h, [h EXCEPT !.fence = held, !.rev = rev]}
      BY <3>1 DEF Admission
    <3>3. Same(g)
      BY <3>2 DEF HostRecord
    <3> QED BY <1>1, <2>2, <3>3
  <2>3. CASE q.method \notin ControlMethods /\ q.method # "start"
    <3>1. g = h \/ g = Served(h, q)[1]
      BY <1>4, <2>3 DEF Handled, ControlMethods
    <3>2. SeesSame(h, Served(h, q)[1]) /\ (q.method # "shutdown" => Drains(h, Served(h, q)[1]))
      <4>1. CASE q.method = "shutdown"
        <5>1. PICK k : k = Closed(h) /\ k \in HostRecord
          BY ClosedIs
        <5>2. PICK ops : Served(h, q)[1] = [k EXCEPT !.ops = ops]
          BY <4>1, <5>1 DEF Served
        <5>3. Served(h, q)[1].run = k.run
          BY <5>1, <5>2 DEF HostRecord
        <5> QED BY <4>1, <5>1, <5>3, ClosedSees DEF SeesSame
      <4>2. CASE q.method \in {"abort", "reply"}
        <5>1. PICK r \in Runs : r = q.of
          BY <4>2 DEF Requests, Plain, StartRequests, RunRequests, CallRequests, FenceRequests, OwnRequests, Readings
        <5>2. PICK x \in HostRunRecord : x = h.run[r]
          BY DEF HostRecord
        <5>3. PICK y : /\ y.sdk = x.sdk /\ Served(h, q)[1] \in {h, [h EXCEPT !.run[r] = y]}
          <6>1. CASE q.method = "abort"
            <7>1. AbortRequested(x, q)[1].sdk = x.sdk
              <8>1. \A u, v : [x EXCEPT !.asked = u].sdk = x.sdk /\ [x EXCEPT !.aborted = v].sdk = x.sdk
                BY DEF HostRunRecord
              <8>2. \A t, u, v : /\ [x EXCEPT !.abort = t, !.promise = u, !.asked = v].sdk = x.sdk
                                 /\ [x EXCEPT !.abort = t, !.promise = u, !.aborted = v].sdk = x.sdk
                BY DEF HostRunRecord
              <8> QED BY <8>1, <8>2 DEF AbortRequested
            <7>2. Served(h, q)[1] \in {h, [h EXCEPT !.run[r] = AbortRequested(x, q)[1]]}
              BY <5>1, <5>2, <6>1 DEF Served
            <7> QED BY <7>1, <7>2
          <6>2. CASE q.method = "reply"
            <7>1. Served(h, q)[1] \in {h, [h EXCEPT !.run[r] = [x EXCEPT !.ask = FALSE]]}
              BY <5>1, <5>2, <6>2 DEF Served
            <7>2. [x EXCEPT !.ask = FALSE].sdk = x.sdk
              BY DEF HostRunRecord
            <7> QED BY <7>1, <7>2
          <6> QED BY <4>2, <6>1, <6>2
        <5>4. PICK k : k = Served(h, q)[1]
          OBVIOUS
        <5>5. /\ k.closed = h.closed /\ k.poisoned = h.poisoned
              /\ \A s \in Runs : k.run[s].sdk = h.run[s].sdk
          <6>1. CASE k = h
            BY <6>1
          <6>2. CASE k = [h EXCEPT !.run[r] = y]
            BY <5>2, <5>3, <6>2 DEF HostRecord
          <6> QED BY <5>3, <5>4, <6>1, <6>2
        <5> QED BY <5>4, <5>5 DEF SeesSame, Drains
      <4>3. CASE q.method \notin {"shutdown", "abort", "reply"}
        <5>1. PICK initialized, ops :
                Served(h, q)[1] \in {[h EXCEPT !.initialized = initialized, !.ops = ops], [h EXCEPT !.ops = ops]}
          BY <2>3, <4>3 DEF Served
        <5>2. PICK k : k = Served(h, q)[1]
          OBVIOUS
        <5>3. Same(k)
          BY <5>1, <5>2 DEF HostRecord
        <5> QED BY <1>1, <5>2, <5>3
      <4> QED BY <4>1, <4>2, <4>3
    <3>3. SeesSame(h, h) /\ Drains(h, h)
      BY DEF SeesSame, Drains
    <3> QED BY <2>3, <3>1, <3>2, <3>3
  <2>4. CASE q.method = "start"
    <3>1. CASE h.fence # None
      <4>1. g = h
        BY <1>4, <2>4, <3>1 DEF Handled, FencedMethods
      <4> QED BY <1>1, <2>4, <3>1, <4>1
    <3>2. CASE h.fence = None
      <4>1. a = None /\ g = [h EXCEPT !.run[q.of] = [h.run[q.of] EXCEPT !.sdk = "starting"]]
        BY <1>4, <2>4, <3>2 DEF Handled, FencedMethods, ControlMethods, Served
      <4>2. Drains(h, g)
        BY <4>1 DEF Drains, HostRecord
      <4> QED BY <2>4, <4>1, <4>2
    <3> QED BY <3>1, <3>2
  <2> QED BY <2>1, <2>2, <2>3, <2>4 DEF ControlMethods
<1> QED BY <1>2, <1>3, <1>4

(* What every step of a worker says of its runs: one is begun only when    *)
(* its request is read, and a start is answered without a cleanup failure  *)
(* only if the run was begun, or by a worker that drains or is fenced.     *)
Draining(in) == \E i \in 1..Len(in) : in[i].method = "shutdown"
Drain(w) == Draining(toWorker[w]) \/ (host[w].closed /\ ~host[w].poisoned)
Concludes(f, r) == IsAnswer(f, r) /\ f.result # "cleanup"
Begins(w, r) ==
  /\ host[w].up /\ Starts(toWorker[w], r)
  /\ host'[w] = [host[w] EXCEPT !.run[r] = [@ EXCEPT !.sdk = "starting"]]
HostLives(w) ==
  /\ SeesSame(host[w], host'[w]) \/ \E r \in Runs : Begins(w, r)
  /\ Drain(w)' => Drain(w)
  /\ \A r \in Runs :
       /\ Starts(toWorker'[w], r) => Starts(toWorker[w], r)
       /\ \A k \in 1..Len(toApp'[w]) : Concludes(toApp'[w][k], r) =>
            \/ \E l \in 1..Len(toApp[w]) : Concludes(toApp[w][l], r)
            \/ host'[w].run[r].sdk # "none"
            \/ host[w].heard /\ (Drain(w) \/ host[w].fence # None)

LEMMA SaidLives ==
  ASSUME HostTypeInv, NEW w \in Workers, NEW fs \in Seq(Frames), Says(w, fs), NEW r, NEW P,
         \A i \in 1..Len(fs) : Concludes(fs[i], r) => P
  PROVE  \A k \in 1..Len(toApp'[w]) : Concludes(toApp'[w][k], r) =>
           (\E l \in 1..Len(toApp[w]) : Concludes(toApp[w][l], r)) \/ (host[w].heard /\ P)
<1>1. PICK out, more : out \in Seq(Frames) /\ out = toApp[w] /\ more = toApp'[w]
  BY DEF HostTypeInv
<1>2. more = IF host[w].heard THEN out \o fs ELSE out
  BY <1>1 DEF Says, HostTypeInv
<1>3. ASSUME NEW k \in 1..Len(more), Concludes(more[k], r)
      PROVE  (\E l \in 1..Len(out) : Concludes(out[l], r)) \/ (host[w].heard /\ P)
  <2>1. CASE host[w].heard
    <3>1. (k \in 1..Len(out) /\ more[k] = out[k]) \/ \E i \in 1..Len(fs) : more[k] = fs[i]
      BY <1>2, <2>1, JoinOf
    <3> QED BY <1>3, <2>1, <3>1
  <2>2. CASE ~host[w].heard
    BY <1>2, <1>3, <2>2
  <2> QED BY <2>1, <2>2
<1> QED BY <1>1, <1>3

LEMMA LivesOnIs ==
  ASSUME HostTypeInv, NEW w \in Workers, LivesOn(w)
  PROVE  HostLives(w)
<1>1. PICK fs \in Seq(Frames) :
        /\ Says(w, fs)
        /\ \A i \in 1..Len(fs), r \in Runs : IsAnswer(fs[i], r) => host'[w].run[r].sdk # "none"
  BY DEF LivesOn
<1>2. ASSUME NEW r \in Runs
      PROVE  \A k \in 1..Len(toApp'[w]) : Concludes(toApp'[w][k], r) =>
               (\E l \in 1..Len(toApp[w]) : Concludes(toApp[w][l], r)) \/ host'[w].run[r].sdk # "none"
  <2>1. PICK P : P = (host'[w].run[r].sdk # "none")
    OBVIOUS
  <2>2. \A i \in 1..Len(fs) : Concludes(fs[i], r) => P
    BY <1>1, <2>1 DEF Concludes
  <2> QED BY <1>1, <2>1, <2>2, SaidLives
<1>3. toWorker'[w] \in {toWorker[w], <<>>}
  BY DEF LivesOn
<1>4. /\ Draining(toWorker'[w]) => Draining(toWorker[w])
      /\ \A r \in Runs : Starts(toWorker'[w], r) => Starts(toWorker[w], r)
  <2>1. PICK none : none = <<>> /\ \A i : i \notin 1..Len(none)
    OBVIOUS
  <2> QED BY <1>3, <2>1 DEF Draining, Starts
<1>5. Drain(w)' => Drain(w)
  BY <1>4 DEF Drain, LivesOn, Drains
<1> QED BY <1>2, <1>4, <1>5 DEF HostLives, LivesOn

LEMMA HandleLives ==
  ASSUME HostTypeInv, NEW w \in Workers, Handle(w)
  PROVE  HostLives(w)
<1>1. PICK h, in, q, g, a :
        /\ h \in HostRecord /\ in \in Seq(Requests) /\ q \in Requests
        /\ h = host[w] /\ in = toWorker[w] /\ in # <<>> /\ q = Head(in)
        /\ g = Handled(h, q)[1] /\ a = Handled(h, q)[2]
  BY HostTypes DEF Handle
<1>2. PICK said :
        /\ host' = [host EXCEPT ![w] = g] /\ toWorker' = [toWorker EXCEPT ![w] = Tail(in)] /\ h.up
        /\ said = (IF a = None THEN <<>> ELSE <<Response(q, a)>>) /\ Says(w, said)
  BY <1>1 DEF Handle, HostTypeInv
<1>3. host'[w] = g /\ toWorker'[w] = Tail(in)
  BY <1>2 DEF HostTypeInv
<1>4. /\ q.method # "start" => SeesSame(h, g)
      /\ q.method # "shutdown" => Drains(h, g)
      /\ q.method = "start" =>
           \/ a = None /\ g = [h EXCEPT !.run[q.of] = [@ EXCEPT !.sdk = "starting"]]
           \/ g = h /\ (a = "cleanup" \/ (h.closed /\ ~h.poisoned) \/ h.fence # None)
  BY <1>1, HandledSees
<1>5. PICK rest : rest = Tail(in)
  OBVIOUS
<1>10. /\ \A i \in 1..Len(rest) : i + 1 \in 1..Len(in) /\ rest[i] = in[i + 1]
       /\ 1 \in 1..Len(in) /\ in[1] = q
  BY <1>1, <1>5, TailOf
<1>6. /\ Draining(rest) => Draining(in)
      /\ q.method = "shutdown" => Draining(in)
      /\ \A r \in Runs : (Starts(rest, r) => Starts(in, r)) /\ (IsStart(q, r) => Starts(in, r))
  BY <1>10 DEF Draining, Starts
<1>7. Drain(w)' => Drain(w)
  BY <1>1, <1>3, <1>4, <1>5, <1>6 DEF Drain, Drains
<1>8. SeesSame(h, g) \/ \E r \in Runs : Begins(w, r)
  <2>1. CASE q.method # "start"
    BY <1>4, <2>1
  <2>2. CASE q.method = "start"
    <3>1. q.of \in Runs /\ IsStart(q, q.of)
      BY <1>1, <2>2 DEF IsStart, Requests, Plain, StartRequests, RunRequests, CallRequests, FenceRequests,
         OwnRequests, Readings
    <3>2. CASE g = h
      BY <3>2 DEF SeesSame
    <3>3. CASE g = [h EXCEPT !.run[q.of] = [@ EXCEPT !.sdk = "starting"]]
      <4>1. Begins(w, q.of)
        BY <1>1, <1>2, <1>3, <1>6, <3>1, <3>3 DEF Begins
      <4> QED BY <3>1, <4>1
    <3> QED BY <1>4, <2>2, <3>2, <3>3
  <2> QED BY <2>1, <2>2
<1>9. ASSUME NEW r \in Runs
      PROVE  \A k \in 1..Len(toApp'[w]) : Concludes(toApp'[w][k], r) =>
               \/ \E l \in 1..Len(toApp[w]) : Concludes(toApp[w][l], r)
               \/ host[w].heard /\ (Drain(w) \/ host[w].fence # None)
  <2>1. PICK P : P = (Drain(w) \/ host[w].fence # None)
    OBVIOUS
  <2>2. CASE a = None
    <3>1. PICK fs \in Seq(Frames) : fs = <<>> /\ \A i : i \notin 1..Len(fs)
      BY NoFrames
    <3>2. Says(w, fs)
      BY <1>2, <2>2, <3>1
    <3> QED BY <2>1, <3>1, <3>2, SaidLives
  <2>3. CASE a # None
    <3>1. PICK f \in Frames : f = Response(q, a)
      <4>1. Handles(h, q, g, a)
        BY <1>1, HandledIs
      <4> QED BY <2>3, <4>1 DEF Handles
    <3>2. Concludes(f, r) => P
      <4>1. f.kind = "response" /\ f.of = q /\ f.result = a
        BY <3>1, ResponseIs
      <4> QED BY <1>1, <1>4, <2>1, <2>3, <4>1 DEF Concludes, IsAnswer, IsStart, Drain
    <3>3. said = <<f>>
      BY <1>2, <2>3, <3>1
    <3>4. said \in Seq(Frames) /\ \A i \in 1..Len(said) : said[i] = f
      BY <3>3, OneFrame
    <3>5. \A i \in 1..Len(said) : Concludes(said[i], r) => P
      BY <3>2, <3>4
    <3> QED BY <1>2, <2>1, <3>4, <3>5, SaidLives
  <2> QED BY <2>2, <2>3
<1> QED BY <1>1, <1>3, <1>5, <1>6, <1>7, <1>8, <1>9 DEF HostLives

LEMMA HostStepLives ==
  ASSUME HostTypeInv, Places, NEW w \in Workers, HostStep(w)
  PROVE  HostLives(w)
BY HandleLives, LivesOnIs, RunLives, OperationLives, SilentLives DEF HostStep
-----------------------------------------------------------------------------
(* Where a run was, and what stands for an outcome that is not given yet:  *)
(* a run is met by one worker only; one that was issued and is answered    *)
(* was begun or stopped; a worker drains only when every run is stopped.   *)
Met(w, r) == Starts(toWorker[w], r) \/ host[w].run[r].sdk # "none"
Began(r) == \E w \in Workers : host[w].run[r].sdk # "none"
Concluded(r) == \E w \in Workers : \E k \in 1..Len(toApp[w]) : Concludes(toApp[w][k], r)
Warned == stop # "no" /\ \A r \in Runs : run[r].phase = "issued" => run[r].aborted

OneHome == \A r \in Runs : \A v, w \in Workers : Met(v, r) /\ Met(w, r) => v = w
Accounted ==
  \A r \in Runs : run[r].phase = "issued" /\ (run[r].at = "replied" \/ Concluded(r)) =>
    run[r].aborted \/ Began(r)
DrainsWarned == \A w \in Workers : Drain(w) => Warned
PromiseInv == OneHome /\ Accounted /\ DrainsWarned

(* What a step of the supervisor says of its record of a run, x before and *)
(* y after: an outcome is given once, and for what it says.                *)
Fresh(x) == x.phase \in {"none", "registered"}
Judges(x, y) ==
  y.outcome = x.outcome \/
    /\ x.outcome = "none"
    /\ y.outcome = "not_started" => Fresh(x)
    /\ y.outcome = "completed" => x.phase = "issued" /\ x.at = "replied" /\ ~x.aborted
Turns(x, y) ==
  /\ Judges(x, y) /\ (Fresh(y) => Fresh(x))
  /\ y.phase = "issued" =>
       x.phase = "issued" /\ (x.aborted => y.aborted) /\ (y.at = "replied" => x.at = "replied")

Heeds(r) ==
  run'[r].phase = "issued" =>
    \/ AllUntouched(r) /\ stop = "no" /\ run'[r].at # "replied"
    \/ /\ run[r].phase = "issued" /\ (run[r].aborted => run'[r].aborted)
       /\ run'[r].at = "replied" => run[r].at = "replied" \/ Concluded(r)

HostsBide ==
  \A w \in Workers :
    /\ host'[w].run = host[w].run
    /\ host'[w].closed = host[w].closed /\ host'[w].poisoned = host[w].poisoned
    /\ host'[w].up = host[w].up \/ \A r \in Runs : host[w].run[r].sdk = "none"
PipesBide ==
  /\ \A w \in Workers : (Draining(toWorker'[w]) => Draining(toWorker[w]))
  /\ \A w \in Workers, r \in Runs : (Starts(toWorker'[w], r) => Starts(toWorker[w], r))
  /\ \A r \in Runs : (Concluded(r)' => Concluded(r))
RunsTurn == \A r \in Runs : Turns(run[r], run'[r])

Serves ==
  /\ HostsBide
  /\ \A w \in Workers : Draining(toWorker'[w]) => Draining(toWorker[w]) \/ Warned'
  /\ \A w \in Workers, r \in Runs :
       Starts(toWorker'[w], r) => Starts(toWorker[w], r) \/ (w = child /\ AllUntouched(r))
  /\ \A r \in Runs : (Concluded(r)' => Concluded(r)) /\ Heeds(r) /\ Judges(run[r], run'[r])
  /\ stop # "no" => stop' # "no"

LEMMA UntouchedBefore ==
  ASSUME NEW r, AllUntouched(r)
  PROVE  ~Began(r) /\ ~Concluded(r) /\ \A w \in Workers : ~Met(w, r)
<1>1. NoHostRun.sdk = "none"
  BY DEF NoHostRun
<1>2. \A w \in Workers :
        /\ host[w].run[r].sdk = "none" /\ ~Starts(toWorker[w], r)
        /\ \A i \in 1..Len(toApp[w]) : ~IsAnswer(toApp[w][i], r)
  BY <1>1 DEF AllUntouched, Untouched, Concerns
<1> QED BY <1>2 DEF Began, Concluded, Concludes, Met

LEMMA ServesKeeps ==
  ASSUME PromiseInv, Serves
  PROVE  PromiseInv'
<1>1. \A w \in Workers, r \in Runs : host'[w].run[r].sdk = host[w].run[r].sdk
  BY DEF Serves, HostsBide
<1>2. ASSUME NEW w \in Workers, NEW r \in Runs, Met(w, r)'
      PROVE  Met(w, r) \/ (w = child /\ AllUntouched(r))
  BY <1>1, <1>2 DEF Serves, Met
<1>3. OneHome'
  <2> SUFFICES ASSUME NEW r \in Runs, NEW v \in Workers, NEW w \in Workers, Met(v, r)', Met(w, r)'
               PROVE  v = w
    BY DEF OneHome, Workers
  <2>1. CASE AllUntouched(r)
    <3>1. ~Met(v, r) /\ ~Met(w, r)
      BY <2>1, UntouchedBefore
    <3> QED BY <1>2, <3>1
  <2>2. CASE ~AllUntouched(r)
    <3>1. Met(v, r) /\ Met(w, r)
      BY <1>2, <2>2
    <3> QED BY <3>1 DEF PromiseInv, OneHome
  <2> QED BY <2>1, <2>2
<1>4. Accounted'
  <2> SUFFICES ASSUME NEW r \in Runs, run'[r].phase = "issued", run'[r].at = "replied" \/ Concluded(r)'
               PROVE  run'[r].aborted \/ Began(r)'
    BY DEF Accounted
  <2>1. Heeds(r) /\ (Concluded(r)' => Concluded(r))
    BY DEF Serves
  <2>2. CASE AllUntouched(r) /\ run'[r].at # "replied"
    BY <2>1, <2>2, UntouchedBefore
  <2>3. CASE /\ run[r].phase = "issued" /\ (run[r].aborted => run'[r].aborted)
             /\ run'[r].at = "replied" => run[r].at = "replied" \/ Concluded(r)
    <3>1. run[r].aborted \/ Began(r)
      BY <2>1, <2>3 DEF PromiseInv, Accounted
    <3>2. Began(r) => Began(r)'
      BY <1>1 DEF Began, Workers
    <3> QED BY <2>3, <3>1, <3>2
  <2> QED BY <2>1, <2>2, <2>3 DEF Heeds
<1>5. DrainsWarned'
  <2> SUFFICES ASSUME NEW w \in Workers, Drain(w)' PROVE Warned'
    BY DEF DrainsWarned, Workers
  <2>1. CASE Warned'
    BY <2>1
  <2>2. CASE ~Warned'
    <3>1. Drain(w)
      BY <2>2 DEF Serves, HostsBide, Drain
    <3>2. Warned
      BY <3>1 DEF PromiseInv, DrainsWarned
    <3>3. \A r \in Runs : run'[r].phase = "issued" => run'[r].aborted
      BY <3>2 DEF Serves, Heeds, Warned
    <3> QED BY <3>2, <3>3 DEF Serves, Warned
  <2> QED BY <2>1, <2>2
<1> QED BY <1>3, <1>4, <1>5 DEF PromiseInv

LEMMA TurnsServe ==
  ASSUME HostsBide, PipesBide, RunsTurn, stop # "no" => stop' # "no"
  PROVE  Serves
<1>1. \A r \in Runs : Judges(run[r], run'[r]) /\ Heeds(r)
  BY DEF RunsTurn, Turns, Heeds
<1> QED BY <1>1 DEF Serves, PipesBide
-----------------------------------------------------------------------------
(* The pipes, and the records of the runs.                                 *)
LEMMA HostsStay ==
  ASSUME UNCHANGED host
  PROVE  HostsBide
BY DEF HostsBide

LEMMA PipesWait ==
  ASSUME UNCHANGED <<toWorker, toApp>>
  PROVE  PipesBide
BY DEF PipesBide, Concluded, Workers

LEMMA PipeTakes ==
  ASSUME HostTypeInv, child \in Workers, NEW q \in Requests, Writes(q), UNCHANGED toApp
  PROVE  /\ \A w \in Workers : Draining(toWorker'[w]) => Draining(toWorker[w]) \/ q.method = "shutdown"
         /\ \A w \in Workers, r \in Runs :
              Starts(toWorker'[w], r) => Starts(toWorker[w], r) \/ (w = child /\ IsStart(q, r))
         /\ \A r \in Runs : Concluded(r)' => Concluded(r)
<1>1. PICK v, in : v \in Workers /\ in \in Seq(Requests) /\ v = child /\ in = toWorker[v]
  BY HostTypes
<1>2. toWorker' = [toWorker EXCEPT ![v] = IF host[v].up THEN Append(in, q) ELSE in]
  BY <1>1 DEF Writes, HostTypeInv
<1>3. /\ \A w \in Workers : w # v => toWorker'[w] = toWorker[w]
      /\ toWorker'[v] \in {in, Append(in, q)}
  BY <1>1, <1>2 DEF HostTypeInv
<1>4. \A i \in 1..Len(Append(in, q)) :
        (i \in 1..Len(in) /\ Append(in, q)[i] = in[i]) \/ Append(in, q)[i] = q
  BY <1>1, AppendOf
<1>5. /\ Draining(Append(in, q)) => Draining(in) \/ q.method = "shutdown"
      /\ \A r \in Runs : Starts(Append(in, q), r) => Starts(in, r) \/ IsStart(q, r)
  BY <1>4 DEF Draining, Starts
<1>6. /\ Draining(toWorker'[v]) => Draining(in) \/ q.method = "shutdown"
      /\ \A r \in Runs : Starts(toWorker'[v], r) => Starts(in, r) \/ IsStart(q, r)
  BY <1>3, <1>5
<1>7. \A r \in Runs : Concluded(r)' => Concluded(r)
  BY DEF Concluded, Workers
<1> QED BY <1>1, <1>3, <1>6, <1>7

LEMMA PipeAsks ==
  ASSUME HostTypeInv, child \in Workers, NEW q \in Requests, q.method \notin {"start", "shutdown"},
         Writes(q), UNCHANGED toApp
  PROVE  PipesBide
BY PipeTakes DEF PipesBide, IsStart

LEMMA PipeSends ==
  ASSUME WorkerInv, child # None, NEW method, NEW of, NEW ask \in Nat, CanAsk(method, of, ask),
         Sends(method, of, ask), UNCHANGED toApp,
         \/ method \in {"abort", "reply"} /\ of \in Runs
         \/ method \in {"query", "follow"} /\ of \in Calls
         \/ method \in {"close", "open"} /\ of \in Fences
  PROVE  PipesBide
<1>1. PICK q \in Requests : q.method = method /\ Writes(q)
  BY RequestIs
<1>2. HostTypeInv /\ child \in Workers
  BY DEF WorkerInv, TypeInv, HostTypeInv
<1>3. q.method \notin {"start", "shutdown"}
  BY <1>1
<1> QED BY <1>1, <1>2, <1>3, PipeAsks

LEMMA PipeRead ==
  ASSUME HostTypeInv, child \in Workers, UNCHANGED toWorker, NEW out,
         toApp' = [toApp EXCEPT ![child] = out],
         out = <<>> \/ (toApp[child] # <<>> /\ out = Tail(toApp[child]))
  PROVE  PipesBide
<1>1. PICK v, all : v \in Workers /\ all \in Seq(Frames) /\ v = child /\ all = toApp[v]
  BY HostTypes
<1>2. /\ \A w \in Workers : w # v => toApp'[w] = toApp[w]
      /\ toApp'[v] = out
  BY <1>1 DEF HostTypeInv
<1>3. \A i \in 1..Len(out) : \E j \in 1..Len(all) : out[i] = all[j]
  <2>1. CASE out = <<>>
    <3>1. \A i : i \notin 1..Len(<<>>)
      OBVIOUS
    <3> QED BY <2>1, <3>1
  <2>2. CASE all # <<>> /\ out = Tail(all)
    BY <2>2, TailOf
  <2> QED BY <1>1, <2>1, <2>2
<1>4. ASSUME NEW r \in Runs, NEW w \in Workers, NEW k \in 1..Len(toApp'[w]), Concludes(toApp'[w][k], r)
      PROVE  Concluded(r)
  <2>1. CASE w = v
    <3>1. PICK j \in 1..Len(all) : out[k] = all[j]
      BY <1>2, <1>3, <1>4, <2>1
    <3> QED BY <1>1, <1>2, <1>4, <2>1, <3>1 DEF Concluded
  <2>2. CASE w # v
    BY <1>2, <1>4, <2>2 DEF Concluded
  <2> QED BY <2>1, <2>2
<1>5. \A r \in Runs : Concluded(r)' => Concluded(r)
  BY <1>4 DEF Concluded, Workers
<1> QED BY <1>5 DEF PipesBide
LEMMA TurnsFurther ==
  ASSUME NEW x, NEW y, NEW z, Turns(x, y), Turns(y, z)
  PROVE  Turns(x, z)
BY DEF Turns, Judges

LEMMA AlikeTurns ==
  ASSUME NEW x, NEW y, Alike(x, y), x.aborted => y.aborted
  PROVE  Turns(x, y)
BY DEF Alike, Turns, Judges, Fresh

LEMMA NotedTurns ==
  ASSUME NEW x, IsRun(x), NEW v
  PROVE  /\ Turns(x, x)
         /\ Turns(x, [x EXCEPT !.aborted = TRUE])
         /\ Turns(x, [x EXCEPT !.doubtful = v])
         /\ Turns(x, [x EXCEPT !.answer = v])
         /\ Turns(x, [x EXCEPT !.ask = v])
         /\ Turns(x, [x EXCEPT !.stopping = v])
         /\ Turns(x, [x EXCEPT !.told = v])
<1>1. /\ [x EXCEPT !.aborted = TRUE].aborted
      /\ [x EXCEPT !.doubtful = v].aborted = x.aborted
      /\ [x EXCEPT !.answer = v].aborted = x.aborted
      /\ [x EXCEPT !.ask = v].aborted = x.aborted
      /\ [x EXCEPT !.stopping = v].aborted = x.aborted
      /\ [x EXCEPT !.told = v].aborted = x.aborted
  BY DEF IsRun, RunFields
<1> QED BY <1>1, NotedGoes, AlikeTurns

LEMMA AtTurns ==
  ASSUME NEW x, IsRun(x), NEW at, at = "replied" => x.at = "replied"
  PROVE  /\ Turns(x, [x EXCEPT !.at = at]) /\ IsRun([x EXCEPT !.at = at])
<1>1. PICK y : y = [x EXCEPT !.at = at]
  OBVIOUS
<1>2. IsRun(y) /\ y.at = at /\ y.phase = x.phase /\ y.outcome = x.outcome /\ y.aborted = x.aborted
  BY <1>1 DEF IsRun, RunFields
<1> QED BY <1>1, <1>2 DEF Turns, Judges, Fresh

LEMMA FinishedTurns ==
  ASSUME NEW x, IsRun(x), NEW outcome, outcome = "not_started" => Fresh(x),
         outcome = "completed" => x.phase = "issued" /\ x.at = "replied" /\ ~x.aborted
  PROVE  /\ Turns(x, Finished(x, outcome)) /\ IsRun(Finished(x, outcome))
         /\ Finished(x, outcome).at = x.at
<1>1. PICK z : z = Finished(x, outcome)
  OBVIOUS
<1>2. z = x \/ /\ IsRun(z) /\ z.at = x.at /\ z.phase = "over"
               /\ z.outcome = IF x.outcome = "none" THEN outcome ELSE x.outcome
  BY <1>1, FinishedIs
<1>3. Turns(x, z) /\ IsRun(z) /\ z.at = x.at
  BY <1>2 DEF Turns, Judges, Fresh
<1> QED BY <1>1, <1>3

LEMMA DefaultTurns ==
  ASSUME NEW x, IsRun(x), x.phase = "issued" => x.at = "replied"
  PROVE  /\ Turns(x, Finished(x, DefaultOutcome(x))) /\ IsRun(Finished(x, DefaultOutcome(x)))
         /\ Finished(x, DefaultOutcome(x)).at = x.at
<1>1. CASE ~Active(x)
  <2>1. Finished(x, DefaultOutcome(x)) = x
    BY <1>1 DEF Finished
  <2> QED BY <2>1, NotedTurns
<1>2. CASE Active(x)
  <2>1. PICK o : o = DefaultOutcome(x)
    OBVIOUS
  <2>2. /\ o = "not_started" => Fresh(x)
        /\ o = "completed" => x.phase = "issued" /\ x.at = "replied" /\ ~x.aborted
    BY <1>2, <2>1 DEF DefaultOutcome, Active, Fresh
  <2> QED BY <2>1, <2>2, FinishedTurns
<1> QED BY <1>1, <1>2

LEMMA ContinueTurns ==
  ASSUME NEW x, IsRun(x), NEW under, NEW next
  PROVE  \/ Turns(x, StartContinues(x, under, next))
         \/ /\ x.phase = "registered" /\ ~x.aborted /\ ~ShuttingDown /\ CanStart(x, under)
            /\ StartContinues(x, under, next) = next
<1>1. Turns(x, [x EXCEPT !.at = "done"])
  BY AtTurns
<1>2. CASE x.phase # "registered"
  BY <1>1, <1>2 DEF StartContinues
<1>3. CASE x.phase = "registered" /\ (x.aborted \/ ShuttingDown)
  <2>1. PICK y : y = [x EXCEPT !.aborted = TRUE]
    OBVIOUS
  <2>2. Turns(x, y) /\ IsRun(y) /\ y.phase = x.phase
    BY <2>1, NotedTurns, NotedGoes DEF Alike
  <2>3. PICK z : z = Finished(y, "not_started")
    OBVIOUS
  <2>4. Turns(y, z) /\ IsRun(z)
    BY <1>3, <2>2, <2>3, FinishedTurns DEF Fresh
  <2>5. Turns(z, [z EXCEPT !.at = "done"])
    BY <2>4, AtTurns
  <2>6. StartContinues(x, under, next) = [z EXCEPT !.at = "done"]
    BY <1>3, <2>1, <2>3 DEF StartContinues
  <2> QED BY <2>2, <2>4, <2>5, <2>6, TurnsFurther
<1>4. CASE x.phase = "registered" /\ ~(x.aborted \/ ShuttingDown)
  <2>1. StartContinues(x, under, next) = IF CanStart(x, under) THEN next ELSE [x EXCEPT !.at = "done"]
    BY <1>4 DEF StartContinues
  <2> QED BY <1>1, <1>4, <2>1
<1> QED BY <1>2, <1>3, <1>4

LEMMA CaughtTurns ==
  ASSUME NEW x, IsRun(x), x.phase # "issued"
  PROVE  Turns(x, Caught(x))
<1>1. PICK y : y = IF terminating # None \/ (failure /\ x.phase = "issued") THEN x
                   ELSE Finished(x, DefaultOutcome(x))
  OBVIOUS
<1>2. Turns(x, y) /\ IsRun(y)
  BY <1>1, NotedTurns, DefaultTurns
<1>3. Turns(y, [y EXCEPT !.at = "done"])
  BY <1>2, AtTurns
<1>4. Caught(x) = [y EXCEPT !.at = "done"]
  BY <1>1 DEF Caught
<1> QED BY <1>2, <1>3, <1>4, TurnsFurther

LEMMA RestoredTurns ==
  ASSUME NEW x, IsRun(x), NEW question
  PROVE  Turns(x, Restored(x, question)) /\ IsRun(Restored(x, question))
<1>1. Restored(x, question) \in {x, [x EXCEPT !.ask = "offered"]}
  BY DEF Restored
<1>2. PICK y : y = [x EXCEPT !.ask = "offered"]
  OBVIOUS
<1>3. Turns(x, y) /\ IsRun(y) /\ Turns(x, x)
  BY <1>2, NotedTurns, NotedGoes DEF Alike
<1> QED BY <1>1, <1>2, <1>3

LEMMA RejectedTurns ==
  ASSUME NEW x, IsRun(x)
  PROVE  Turns(x, RequestsRejected(x))
<1>1. PICK y : y = Restored(x, x.question)
  OBVIOUS
<1>2. Turns(x, y) /\ IsRun(y)
  BY <1>1, RestoredTurns
<1>3. PICK at, s : /\ at = IF y.at \in {"starting", "reply"} THEN "done" ELSE y.at
                   /\ s = IF y.stopping = "none" THEN y.stopping ELSE "no"
  OBVIOUS
<1>4. PICK z : z = [y EXCEPT !.at = at]
  OBVIOUS
<1>5. Turns(y, z) /\ IsRun(z)
  BY <1>2, <1>3, <1>4, AtTurns
<1>6. Turns(z, [z EXCEPT !.stopping = s])
  BY <1>5, NotedTurns
<1>7. RequestsRejected(x) = [z EXCEPT !.stopping = s]
  BY <1>1, <1>3, <1>4 DEF RequestsRejected
<1> QED BY <1>2, <1>5, <1>6, <1>7, TurnsFurther

LEMMA OneTurns ==
  ASSUME WorkerInv, NEW r \in Runs, NEW y, Turns(run[r], y), run' = [run EXCEPT ![r] = y]
  PROVE  RunsTurn
<1>1. \A s \in Runs : run'[s] = IF s = r THEN y ELSE run[s]
  BY DEF WorkerInv, TypeInv, HostTypeInv
<1>2. ASSUME NEW s \in Runs PROVE Turns(run[s], run'[s])
  <2>1. Turns(run[s], run[s])
    BY RunTypes, RunIs, NotedTurns
  <2> QED BY <1>1, <2>1
<1> QED BY <1>2 DEF RunsTurn

LEMMA NoneTurns ==
  ASSUME WorkerInv, UNCHANGED run
  PROVE  RunsTurn
BY RunTypes, RunIs, NotedTurns DEF RunsTurn

LEMMA EnsureServes ==
  ASSUME WorkerInv, FenceInv, NEW reaped \in BOOLEAN, NEW X, NEW R, NEW C, Ensure(X, R, C, reaped),
         \A r \in Runs : IsRun(X[r]) /\ Turns(run[r], X[r]) /\ (r \in R => X[r].phase # "issued"),
         UNCHANGED toApp, stop # "no" => stop' # "no"
  PROVE  Serves
<1>1. RunsTurn
  <2> SUFFICES ASSUME NEW r \in Runs PROVE Turns(run[r], run'[r])
    BY DEF RunsTurn
  <2>1. \/ run'[r] = X[r]
        \/ \E for \in {"termination", "ready", "starting"} : run'[r] = [X[r] EXCEPT !.at = for]
        \/ r \in R /\ run'[r] = [Finished(X[r], DefaultOutcome(X[r])) EXCEPT !.at = "done"]
    BY EnsureIs DEF FenceInv, FenceTypes
  <2>2. CASE run'[r] = X[r]
    BY <2>2
  <2>3. ASSUME NEW for \in {"termination", "ready", "starting"}, run'[r] = [X[r] EXCEPT !.at = for]
        PROVE  Turns(run[r], run'[r])
    BY <2>3, AtTurns, TurnsFurther
  <2>4. CASE r \in R /\ run'[r] = [Finished(X[r], DefaultOutcome(X[r])) EXCEPT !.at = "done"]
    <3>1. PICK z : z = Finished(X[r], DefaultOutcome(X[r]))
      OBVIOUS
    <3>2. Turns(X[r], z) /\ IsRun(z)
      BY <2>4, <3>1, DefaultTurns
    <3>3. Turns(z, run'[r])
      BY <2>4, <3>1, <3>2, AtTurns
    <3> QED BY <3>2, <3>3, TurnsFurther
  <2> QED BY <2>1, <2>2, <2>3, <2>4
<1>2. HostsBide /\ PipesBide
  <2>1. CASE UNCHANGED <<toWorker, host>>
    BY <2>1, HostsStay, PipesWait
  <2>2. ASSUME NEW w, Spawned(w) PROVE HostsBide /\ PipesBide
    <3>1. PICK q, one : q = Request("initialize", None, 1) /\ one = <<q>>
      OBVIOUS
    <3>2. q.method = "initialize"
      BY <3>1 DEF Request, Asked
    <3>3. \A i \in 1..Len(one) : one[i] = q
      BY <3>1
    <3>4. /\ w \in Workers /\ host[w] = UnbornHost /\ toWorker'[w] = one /\ host'[w] = NewHost
          /\ \A v \in Workers : v # w => toWorker'[v] = toWorker[v] /\ host'[v] = host[v]
      BY <2>2, <3>1 DEF Spawned, WorkerInv, TypeInv, HostTypeInv
    <3>5. ~Draining(one) /\ \A r \in Runs : ~Starts(one, r)
      BY <3>2, <3>3 DEF Draining, Starts, IsStart
    <3>6. PipesBide
      BY <3>4, <3>5 DEF PipesBide, Concluded, Workers
    <3>7. /\ NewHost.run = UnbornHost.run /\ NewHost.closed = UnbornHost.closed
          /\ NewHost.poisoned = UnbornHost.poisoned /\ \A r \in Runs : UnbornHost.run[r].sdk = "none"
      BY BlankIs DEF UnbornHost, NewHost, NoHostRun
    <3>8. HostsBide
      BY <3>4, <3>7 DEF HostsBide
    <3> QED BY <3>6, <3>8
  <2> QED BY <2>1, <2>2, EnsureWorker
<1> QED BY <1>1, <1>2, TurnsServe

-----------------------------------------------------------------------------
(* The steps of the supervisor, one by one.                                *)
LEMMA OneServes ==
  ASSUME WorkerInv, NEW r \in Runs, NEW y, Turns(run[r], y), run' = [run EXCEPT ![r] = y],
         UNCHANGED <<host, stop>>, PipesBide
  PROVE  Serves
BY OneTurns, HostsStay, TurnsServe

LEMMA RestServes ==
  ASSUME WorkerInv, UNCHANGED <<host, run, stop>>, PipesBide
  PROVE  Serves
BY NoneTurns, HostsStay, TurnsServe

LEMMA WorkerReadyForServes ==
  ASSUME WorkerInv, NEW r \in Runs, WorkerReadyFor(r)
  PROVE  Serves
<1>1. PICK x : x = run[r]
  OBVIOUS
<1>2. IsRun(x) /\ x.at = "ready"
  BY <1>1, RunTypes, RunIs DEF WorkerReadyFor
<1>3. PICK next : next = [x EXCEPT !.at = "options", !.under = child]
  OBVIOUS
<1>4. Turns(x, next)
  <2>1. next.at = "options" /\ next.phase = x.phase /\ next.outcome = x.outcome /\ next.aborted = x.aborted
    BY <1>2, <1>3 DEF IsRun, RunFields
  <2> QED BY <1>2, <2>1 DEF Turns, Judges, Fresh
<1>5. Turns(x, StartContinues(x, child, next))
  BY <1>2, <1>4, ContinueTurns
<1>6. /\ run' = [run EXCEPT ![r] = StartContinues(x, child, next)]
      /\ UNCHANGED <<host, stop, toWorker, toApp>>
  BY <1>1, <1>3 DEF WorkerReadyFor, RunOnly, requests
<1> QED BY <1>1, <1>5, <1>6, PipesWait, OneServes

LEMMA OptionsRejectedServes ==
  ASSUME WorkerInv, NEW r \in Runs, OptionsRejected(r)
  PROVE  Serves
<1>1. IsRun(run[r]) /\ run[r].phase # "issued"
  BY RunTypes, RunIs DEF OptionsRejected, Consistent, Early
<1>2. Turns(run[r], Caught(run[r]))
  BY <1>1, CaughtTurns
<1>3. run' = [run EXCEPT ![r] = Caught(run[r])] /\ UNCHANGED <<host, stop, toWorker, toApp>>
  BY DEF OptionsRejected, RunOnly, requests, WorkerInv, TypeInv, HostTypeInv
<1> QED BY <1>2, <1>3, PipesWait, OneServes

LEMMA RunRepliedServes ==
  ASSUME WorkerInv, NEW r \in Runs, RunReplied(r)
  PROVE  Serves
<1>1. PICK x : x = run[r]
  OBVIOUS
<1>2. IsRun(x) /\ x.at = "replied"
  BY <1>1, RunTypes, RunIs DEF RunReplied
<1>3. PICK b, a : /\ b = (IF x.answer = "aborted" THEN ~x.aborted /\ x.stopping = "none" ELSE x.byRuntime)
                  /\ a = (x.aborted \/ x.answer = "aborted")
  OBVIOUS
<1>4. PICK y : y = [x EXCEPT !.byRuntime = b, !.aborted = a]
  OBVIOUS
<1>5. Turns(x, y) /\ IsRun(y) /\ y.at = "replied"
  <2>1. Alike(x, y) /\ y.aborted = a
    BY <1>2, <1>4 DEF Alike, IsRun, RunFields
  <2>2. x.aborted => y.aborted
    BY <1>3, <2>1
  <2> QED BY <1>2, <2>1, <2>2, AlikeTurns DEF Alike
<1>6. PICK z : z = Finished(y, DefaultOutcome(y))
  OBVIOUS
<1>7. Turns(y, z) /\ IsRun(z)
  BY <1>5, <1>6, DefaultTurns
<1>8. PICK u : u = [z EXCEPT !.at = "done"]
  OBVIOUS
<1>9. Turns(z, u) /\ IsRun(u)
  BY <1>7, <1>8, AtTurns
<1>10. PICK v : v = [u EXCEPT !.answer = "none"]
  OBVIOUS
<1>11. Turns(u, v)
  BY <1>9, <1>10, NotedTurns
<1>12. Turns(x, v)
  BY <1>5, <1>7, <1>9, <1>11, TurnsFurther
<1>13. run' = [run EXCEPT ![r] = v]
  <2>1. y = [x EXCEPT !.byRuntime = IF x.answer = "aborted" THEN ~x.aborted /\ x.stopping = "none" ELSE @,
                      !.aborted = @ \/ x.answer = "aborted"]
    BY <1>3, <1>4
  <2>2. v = [z EXCEPT !.at = "done", !.answer = "none"]
    BY <1>8, <1>10
  <2> QED BY <1>1, <1>6, <2>1, <2>2 DEF RunReplied
<1>14. UNCHANGED <<host, stop, toWorker, toApp>>
  BY DEF RunReplied, RunOnly, requests
<1> QED BY <1>1, <1>12, <1>13, <1>14, PipesWait, OneServes

LEMMA AbortRepliedServes ==
  ASSUME WorkerInv, NEW r \in Runs, AbortReplied(r)
  PROVE  Serves
<1>1. PICK x, stopped : x = run[r] /\ stopped = (x.stopping = "yes" /\ x.phase # "over")
  OBVIOUS
<1>2. PICK a, t : a = (x.aborted \/ stopped) /\ t = IF stopped THEN "aborted" ELSE "unconfirmed"
  OBVIOUS
<1>3. PICK y : y = [x EXCEPT !.stopping = "none", !.aborted = a, !.told = t]
  OBVIOUS
<1>4. Turns(x, y)
  <2>1. IsRun(x)
    BY <1>1, RunTypes, RunIs
  <2>2. Alike(x, y) /\ y.aborted = a
    BY <1>3, <2>1 DEF Alike, IsRun, RunFields
  <2>3. x.aborted => y.aborted
    BY <1>2, <2>2
  <2> QED BY <2>2, <2>3, AlikeTurns
<1>5. run' = [run EXCEPT ![r] = y] /\ UNCHANGED <<host, stop, toWorker, toApp>>
  BY <1>1, <1>2, <1>3 DEF AbortReplied, RunOnly, requests
<1> QED BY <1>1, <1>4, <1>5, PipesWait, OneServes

LEMMA ApproveServes ==
  ASSUME WorkerInv, NEW r \in Runs, Approve(r)
  PROVE  Serves
<1>1. /\ child # None /\ CanAsk("reply", r, run[r].question) /\ Sends("reply", r, run[r].question)
      /\ run' = [run EXCEPT ![r].ask = "answering"] /\ UNCHANGED <<host, stop, toApp>> /\ run[r].question \in Nat
  BY RunTypes DEF Approve, RunOnly, RunRecord
<1>2. PipesBide
  BY <1>1, PipeSends
<1>3. PICK y : y = [run[r] EXCEPT !.ask = "answering"]
  OBVIOUS
<1>4. Turns(run[r], y)
  BY <1>3, RunTypes, RunIs, NotedTurns
<1>5. run' = [run EXCEPT ![r] = y]
  BY <1>1, <1>3
<1> QED BY <1>1, <1>2, <1>4, <1>5, OneServes

LEMMA AbortServes ==
  ASSUME WorkerInv, NEW r \in Runs, Abort(r)
  PROVE  Serves
<1>1. UNCHANGED <<host, stop, toApp>> /\ IsRun(run[r])
  BY RunTypes, RunIs DEF Abort, RunOnly
<1>2. CASE /\ run[r].phase = "registered"
           /\ run' = [run EXCEPT ![r] = [Finished([run[r] EXCEPT !.aborted = TRUE], "not_started")
                                         EXCEPT !.told = "not_started"]]
           /\ UNCHANGED requests
  <2>1. PICK x : x = [run[r] EXCEPT !.aborted = TRUE]
    OBVIOUS
  <2>2. Turns(run[r], x) /\ IsRun(x) /\ Fresh(x)
    BY <1>1, <1>2, <2>1, NotedTurns, NotedGoes DEF Alike, Fresh
  <2>3. PICK z : z = Finished(x, "not_started")
    OBVIOUS
  <2>4. Turns(x, z) /\ IsRun(z)
    BY <2>2, <2>3, FinishedTurns
  <2>5. PICK y : y = [z EXCEPT !.told = "not_started"]
    OBVIOUS
  <2>6. Turns(z, y)
    BY <2>4, <2>5, NotedTurns
  <2>7. Turns(run[r], y)
    BY <2>2, <2>4, <2>6, TurnsFurther
  <2>8. run' = [run EXCEPT ![r] = y]
    BY <1>2, <2>1, <2>3, <2>5
  <2>9. PipesBide
    BY <1>1, <1>2, PipesWait DEF requests
  <2> QED BY <1>1, <2>7, <2>8, <2>9, OneServes
<1>3. CASE /\ child # None /\ CanAsk("abort", r, 0) /\ Sends("abort", r, 0)
           /\ run' = [run EXCEPT ![r].stopping = "asked", ![r].told = "none"]
  <2>1. PICK y : y = [run[r] EXCEPT !.stopping = "asked", !.told = "none"]
    OBVIOUS
  <2>2. Alike(run[r], y) /\ y.aborted = run[r].aborted
    BY <1>1, <2>1 DEF Alike, IsRun, RunFields
  <2>3. run' = [run EXCEPT ![r] = y]
    BY <1>3, <2>1 DEF WorkerInv, TypeInv, HostTypeInv
  <2>4. PipesBide
    BY <1>1, <1>3, PipeSends
  <2> QED BY <1>1, <2>2, <2>3, <2>4, AlikeTurns, OneServes
<1>4. CASE run' = [run EXCEPT ![r].told = "unconfirmed"] /\ UNCHANGED requests
  <2>1. PICK y : y = [run[r] EXCEPT !.told = "unconfirmed"]
    OBVIOUS
  <2>2. Turns(run[r], y)
    BY <1>1, <2>1, NotedTurns
  <2>3. run' = [run EXCEPT ![r] = y]
    BY <1>4, <2>1
  <2>4. PipesBide
    BY <1>1, <1>4, PipesWait DEF requests
  <2> QED BY <1>1, <2>2, <2>3, <2>4, OneServes
<1> QED BY <1>2, <1>3, <1>4 DEF Abort

(* The request is written, to the worker there is, and nobody saw the run. *)
LEMMA OptionsKnownServes ==
  ASSUME WorkerInv, NEW r \in Runs, OptionsKnown(r)
  PROVE  Serves
<1>1. PICK x : x = run[r]
  OBVIOUS
<1>2. x.at = "options" /\ x.phase # "issued" /\ KnownOf(r) /\ IsRun(x)
  BY <1>1, RunTypes, RunIs DEF OptionsKnown, Consistent, Early
<1>3. PICK issued, y : issued = [x EXCEPT !.at = "reply", !.phase = "issued"] /\ y = StartContinues(x, x.under, issued)
  OBVIOUS
<1>4. issued.at = "reply" /\ issued.phase = "issued" /\ issued.outcome = x.outcome
  BY <1>2, <1>3 DEF IsRun, RunFields
<1>5. PICK q : q = Request("start", r, 0)
  OBVIOUS
<1>6. /\ run' = [run EXCEPT ![r] = y] /\ (\A s \in Runs : run'[s] = IF s = r THEN y ELSE run[s])
      /\ UNCHANGED <<host, stop, toApp>>
      /\ y = issued => Writes(q)
      /\ y # issued => UNCHANGED toWorker
  <2>1. run' = [run EXCEPT ![r] = y] /\ \A s \in Runs : run'[s] = IF s = r THEN y ELSE run[s]
    BY <1>1, <1>3 DEF OptionsKnown, WorkerInv, TypeInv, HostTypeInv
  <2> QED BY <1>1, <1>3, <1>5, <2>1 DEF OptionsKnown, RunOnly, requests
<1>7. CASE Turns(x, y)
  <2>1. y # issued
    BY <1>2, <1>4, <1>7 DEF Turns
  <2> QED BY <1>1, <1>6, <1>7, <2>1, PipesWait, OneServes
<1>8. CASE x.phase = "registered" /\ ~ShuttingDown /\ CanStart(x, x.under) /\ y = issued
  <2>1. stop = "no" /\ child # None
    BY <1>8 DEF ShuttingDown, CanStart
  <2>2. q \in Requests /\ q.method = "start" /\ q.of = r
    BY <1>5 DEF Request, Asked, Requests, Plain, StartRequests
  <2>3. HostTypeInv /\ child \in Workers
    BY <2>1 DEF WorkerInv, TypeInv, HostTypeInv
  <2>4. AllUntouched(r)
    BY <1>1, <1>8 DEF KnownOf, Knows, NotSent, WorkerInv, Known
  <2>5. /\ \A w \in Workers : Draining(toWorker'[w]) => Draining(toWorker[w])
        /\ \A w \in Workers, s \in Runs :
             Starts(toWorker'[w], s) => Starts(toWorker[w], s) \/ (w = child /\ s = r)
        /\ \A s \in Runs : Concluded(s)' => Concluded(s)
    BY <1>6, <1>8, <2>2, <2>3, PipeTakes DEF IsStart
  <2>6. ASSUME NEW s \in Runs PROVE Heeds(s) /\ Judges(run[s], run'[s])
    <3>1. CASE s = r
      BY <1>1, <1>4, <1>6, <1>8, <2>1, <2>4, <3>1 DEF Heeds, Judges
    <3>2. CASE s # r
      BY <1>6, <3>2 DEF Heeds, Judges
    <3> QED BY <3>1, <3>2
  <2> QED BY <1>6, <2>4, <2>5, <2>6, HostsStay DEF Serves
<1> QED BY <1>2, <1>3, <1>7, <1>8, ContinueTurns

LEMMA CallServes ==
  ASSUME WorkerInv, NEW c \in Calls, CallSends(c) \/ FollowUp(c)
  PROVE  Serves
<1>1. UNCHANGED <<host, run, stop, toApp>>
  BY DEF CallSends, FollowUp
<1>2. UNCHANGED toWorker \/ PipesBide
  BY <1>1, PipeSends DEF CallSends, FollowUp, requests
<1> QED BY <1>1, <1>2, PipesWait, RestServes

LEMMA FenceServes ==
  ASSUME WorkerInv, NEW f \in Fences, FenceForRestart(f) \/ ReleaseFence(f)
  PROVE  Serves
<1>1. UNCHANGED <<host, run, stop, toApp>>
  BY DEF FenceForRestart, ReleaseFence
<1>2. child # None \/ UNCHANGED toWorker
  BY NoneElse DEF FenceForRestart, ReleaseFence, requests
<1>3. UNCHANGED toWorker \/ PipesBide
  BY <1>1, <1>2, PipeSends DEF FenceForRestart, ReleaseFence, requests
<1> QED BY <1>1, <1>3, PipesWait, RestServes

LEMMA ReadingServes ==
  ASSUME WorkerInv, ReadActivity \/ ReadTimesOut
  PROVE  Serves
<1>1. UNCHANGED <<host, run, stop, toApp>>
  BY DEF ReadActivity, ReadTimesOut, hostVars
<1>2. UNCHANGED toWorker \/ (child # None /\ Writes(Observes))
  BY DEF ReadActivity, ReadTimesOut, hostVars, Observes
<1>3. child # None => child \in Workers /\ HostTypeInv
  BY DEF WorkerInv, TypeInv, HostTypeInv
<1>4. PipesBide
  BY <1>1, <1>2, <1>3, ObservesIs, PipesWait, PipeAsks
<1> QED BY <1>1, <1>4, RestServes

LEMMA ShutdownServes ==
  ASSUME WorkerInv, Shutdown
  PROVE  Serves
<1>1. UNCHANGED <<host, toApp>> /\ stop = "no"
  BY DEF Shutdown
<1>2. CASE UNCHANGED <<run, requests>>
  BY <1>1, <1>2, NoneTurns, HostsStay, PipesWait, TurnsServe DEF requests
<1>3. CASE /\ child # None /\ CanAsk("shutdown", None, 0) /\ stop' = "asked" /\ Sends("shutdown", None, 0)
           /\ run' = [r \in Runs |-> [run[r] EXCEPT !.aborted = @ \/ Active(run[r])]]
  <2>1. ASSUME NEW r \in Runs
        PROVE  Turns(run[r], run'[r]) /\ (run'[r].phase = "issued" => run'[r].aborted)
    <3>1. PICK a : a = (run[r].aborted \/ Active(run[r]))
      OBVIOUS
    <3>2. PICK y : y = [run[r] EXCEPT !.aborted = a]
      OBVIOUS
    <3>3. run'[r] = y
      BY <1>3, <3>1, <3>2
    <3>4. IsRun(run[r])
      BY RunTypes, RunIs
    <3>5. Alike(run[r], y) /\ y.aborted = a
      BY <3>2, <3>4 DEF Alike, IsRun, RunFields
    <3>6. (run[r].aborted => y.aborted) /\ (y.phase = "issued" => y.aborted)
      BY <3>1, <3>5 DEF Alike, Active
    <3> QED BY <3>3, <3>5, <3>6, AlikeTurns
  <2>2. Warned'
    BY <1>3, <2>1 DEF Warned
  <2>3. PICK q \in Requests : q.method = "shutdown" /\ Writes(q)
    BY <1>3, RequestIs
  <2>4. HostTypeInv /\ child \in Workers
    BY <1>3 DEF WorkerInv, TypeInv, HostTypeInv
  <2>5. /\ \A w \in Workers, r \in Runs : Starts(toWorker'[w], r) => Starts(toWorker[w], r)
        /\ \A r \in Runs : Concluded(r)' => Concluded(r)
    BY <1>1, <2>3, <2>4, PipeTakes DEF IsStart
  <2>6. \A r \in Runs : Heeds(r) /\ Judges(run[r], run'[r])
    BY <2>1 DEF Turns, Heeds
  <2> QED BY <1>1, <2>2, <2>5, <2>6, HostsStay DEF Serves
<1> QED BY <1>2, <1>3 DEF Shutdown


(* A worker is asked for.                                                  *)
LEMMA SpawnRunServes ==
  ASSUME WorkerInv, FenceInv, NEW r \in Runs, SpawnRun(r)
  PROVE  Serves
<1>1. run[r] = NoRun /\ run \in [Runs -> RunRecord] /\ IsRun(NoRun) /\ NoRun.outcome = "none" /\ NoRun.phase = "none"
  BY NoRunIs, RunIs DEF SpawnRun, WorkerInv, TypeInv, HostTypeInv
<1>2. UNCHANGED <<stop, toApp>>
  BY DEF SpawnRun
<1>3. PICK x : x = [NoRun EXCEPT !.phase = "registered"]
  OBVIOUS
<1>4. IsRun(x) /\ x.phase = "registered" /\ x.outcome = "none"
  BY <1>1, <1>3 DEF IsRun, RunFields
<1>5. Turns(NoRun, x)
  BY <1>1, <1>4 DEF Turns, Judges, Fresh
<1>6. ASSUME Ensure([run EXCEPT ![r] = x], {r}, {}, FALSE) PROVE Serves
  <2>1. PICK X, R, C : X = [run EXCEPT ![r] = x] /\ R = {r} /\ C = {}
    OBVIOUS
  <2>2. X[r] = x /\ \A s \in Runs : s # r => X[s] = run[s]
    BY <1>1, <2>1
  <2>3. ASSUME NEW s \in Runs
        PROVE  IsRun(X[s]) /\ Turns(run[s], X[s]) /\ (s \in R => X[s].phase # "issued")
    <3>1. IsRun(run[s]) /\ Turns(run[s], run[s])
      BY RunTypes, RunIs, NotedTurns
    <3> QED BY <1>1, <1>4, <1>5, <2>1, <2>2, <3>1
  <2>4. Ensure(X, R, C, FALSE)
    BY <1>6, <2>1
  <2> QED BY <1>2, <2>3, <2>4, EnsureServes
<1>7. ASSUME UNCHANGED <<requests, host>>,
             run' = [run EXCEPT ![r] = [x EXCEPT !.phase = "over", !.at = "done", !.outcome = "not_started"]]
      PROVE  Serves
  <2>1. PICK y : y = [x EXCEPT !.phase = "over", !.at = "done", !.outcome = "not_started"]
    OBVIOUS
  <2>2. y.phase = "over" /\ y.outcome = "not_started"
    BY <1>4, <2>1 DEF IsRun, RunFields
  <2>3. Turns(run[r], y)
    BY <1>1, <2>2 DEF Turns, Judges, Fresh
  <2>4. run' = [run EXCEPT ![r] = y] /\ UNCHANGED <<host, toWorker>>
    BY <1>7, <2>1 DEF requests
  <2> QED BY <1>2, <2>3, <2>4, PipesWait, OneServes
<1> QED BY <1>1, <1>3, <1>6, <1>7 DEF SpawnRun

LEMMA MakeCallServes ==
  ASSUME WorkerInv, FenceInv, NEW c \in Calls, MakeCall(c)
  PROVE  Serves
<1>1. UNCHANGED <<stop, toApp>> /\ Ensure(run, {}, {c}, FALSE)
  BY DEF MakeCall
<1>2. PICK X, R, C : X = run /\ R = {} /\ C = {c}
  OBVIOUS
<1>3. \A s \in Runs : IsRun(X[s]) /\ Turns(run[s], X[s]) /\ (s \in R => X[s].phase # "issued")
  BY <1>2, RunTypes, RunIs, NotedTurns
<1>4. Ensure(X, R, C, FALSE)
  BY <1>1, <1>2
<1> QED BY <1>1, <1>3, <1>4, EnsureServes

LEMMA ReapedServes ==
  ASSUME WorkerInv, FenceInv, Reaped
  PROVE  Serves
<1>1. UNCHANGED toApp /\ (stop # "no" => stop' # "no")
  BY DEF Reaped
<1>2. PICK X : X = [r \in Runs |-> IF r \in affected THEN Finished(run[r], "reaped") ELSE run[r]]
  OBVIOUS
<1>3. Ensure(X, WaitingRuns, WaitingCalls, TRUE)
  BY <1>2 DEF Reaped
<1>4. ASSUME NEW r \in Runs
      PROVE  IsRun(X[r]) /\ Turns(run[r], X[r]) /\ (r \in WaitingRuns => X[r].phase # "issued")
  <2>1. IsRun(run[r]) /\ Consistent(run[r])
    BY RunTypes, RunIs
  <2>2. IsRun(X[r]) /\ Turns(run[r], X[r])
    <3>1. CASE r \in affected
      <4>1. X[r] = Finished(run[r], "reaped")
        BY <1>2, <3>1
      <4> QED BY <2>1, <4>1, FinishedTurns
    <3>2. CASE r \notin affected
      <4>1. X[r] = run[r]
        BY <1>2, <3>2
      <4> QED BY <2>1, <4>1, NotedTurns
    <3> QED BY <3>1, <3>2
  <2>3. r \in WaitingRuns => run[r].phase # "issued"
    BY <2>1 DEF WaitingRuns, Consistent, Early
  <2> QED BY <2>2, <2>3 DEF Turns
<1> HIDE DEF WaitingRuns, WaitingCalls
<1> QED BY <1>1, <1>3, <1>4, EnsureServes

LEMMA ReapFailsServes ==
  ASSUME WorkerInv, ReapFails
  PROVE  Serves
<1>1. UNCHANGED <<host, toWorker, toApp>> /\ (stop # "no" => stop' # "no")
  BY DEF ReapFails, requests
<1>2. ASSUME NEW r \in Runs PROVE Turns(run[r], run'[r])
  <2>1. PICK x : x = run[r] /\ IsRun(x) /\ Consistent(x)
    BY RunTypes, RunIs
  <2>2. PICK y : y = IF r \in affected /\ x.outcome = "none" THEN [x EXCEPT !.outcome = "unconfirmed"] ELSE x
    OBVIOUS
  <2>3. IsRun(y) /\ Turns(x, y) /\ y.phase = x.phase
    <3>1. CASE r \in affected /\ x.outcome = "none"
      <4>1. PICK z : z = [x EXCEPT !.outcome = "unconfirmed"]
        OBVIOUS
      <4>2. IsRun(z) /\ z.phase = x.phase /\ z.at = x.at /\ z.aborted = x.aborted /\ z.outcome = "unconfirmed"
        BY <2>1, <4>1 DEF IsRun, RunFields
      <4>3. y = z
        BY <2>2, <3>1, <4>1
      <4> QED BY <3>1, <4>2, <4>3 DEF Turns, Judges, Fresh
    <3>2. CASE ~(r \in affected /\ x.outcome = "none")
      BY <2>1, <2>2, <3>2, NotedTurns
    <3> QED BY <3>1, <3>2
  <2>4. PICK z : z = Finished(y, DefaultOutcome(y))
    OBVIOUS
  <2>5. run'[r] = IF r \in WaitingRuns THEN [z EXCEPT !.at = "done"] ELSE y
    BY <2>1, <2>2, <2>4 DEF ReapFails
  <2>6. CASE r \notin WaitingRuns
    BY <2>1, <2>3, <2>5, <2>6
  <2>7. CASE r \in WaitingRuns
    <3>1. x.phase # "issued"
      BY <2>1, <2>7 DEF WaitingRuns, Consistent, Early
    <3>2. Turns(y, z) /\ IsRun(z)
      BY <2>3, <2>4, <3>1, DefaultTurns
    <3>3. Turns(z, [z EXCEPT !.at = "done"])
      BY <3>2, AtTurns
    <3>4. run'[r] = [z EXCEPT !.at = "done"]
      BY <2>5, <2>7
    <3> QED BY <2>1, <2>3, <3>2, <3>3, <3>4, TurnsFurther
  <2> QED BY <2>6, <2>7
<1>3. RunsTurn
  BY <1>2 DEF RunsTurn
<1> QED BY <1>1, <1>3, HostsStay, PipesWait, TurnsServe

(* The worker fails.                                                       *)
LEMMA WorkerFailsServes ==
  ASSUME WorkerInv, child # None, NEW X, \A r \in Runs : IsRun(X[r]) /\ Turns(run[r], X[r]), WorkerFails(X)
  PROVE  Serves
<1>1. HostTypeInv /\ child \in Workers /\ host \in [Workers -> HostRecord]
  BY DEF WorkerInv, TypeInv, HostTypeInv
<1>2. RunsTurn
  <2> SUFFICES ASSUME NEW r \in Runs PROVE Turns(run[r], run'[r])
    BY DEF RunsTurn
  <2>1. run'[r] = RequestsRejected(X[r])
    BY DEF WorkerFails
  <2>2. Turns(X[r], run'[r])
    BY <2>1, RejectedTurns
  <2> QED BY <2>2, TurnsFurther
<1>3. PipesBide
  <2>1. PICK none : none = <<>>
    OBVIOUS
  <2>2. toApp' = [toApp EXCEPT ![child] = none] /\ UNCHANGED toWorker
    BY <2>1 DEF WorkerFails
  <2> QED BY <1>1, <2>1, <2>2, PipeRead
<1>4. HostsBide
  <2>1. PICK v, g : v = child /\ g = [host[v] EXCEPT !.heard = FALSE]
    OBVIOUS
  <2>2. host' = [host EXCEPT ![v] = g] /\ v \in Workers /\ host[v] \in HostRecord
    BY <1>1, <2>1 DEF WorkerFails
  <2>3. g.run = host[v].run /\ g.closed = host[v].closed /\ g.poisoned = host[v].poisoned /\ g.up = host[v].up
    BY <2>1, <2>2 DEF HostRecord
  <2>4. \A w \in Workers : host'[w] = IF w = v THEN g ELSE host[w]
    BY <1>1, <2>2
  <2> QED BY <2>3, <2>4 DEF HostsBide
<1>5. stop # "no" => stop' # "no"
  BY DEF WorkerFails, StopAfterFailure
<1> QED BY <1>2, <1>3, <1>4, <1>5, TurnsServe

LEMMA FailedServes ==
  ASSUME WorkerInv, child # None, WorkerFails(run)
  PROVE  Serves
<1>1. \A r \in Runs : IsRun(run[r]) /\ Turns(run[r], run[r])
  BY RunTypes, RunIs, NotedTurns
<1> QED BY <1>1, WorkerFailsServes

LEMMA DoubtServes ==
  ASSUME WorkerInv, child # None, NEW result, WorkerFails(Doubtful(result))
  PROVE  Serves
<1>1. PICK X : X = Doubtful(result)
  OBVIOUS
<1>2. ASSUME NEW r \in Runs PROVE IsRun(X[r]) /\ Turns(run[r], X[r])
  <2>1. IsRun(run[r])
    BY RunTypes, RunIs
  <2>2. PICK d : d = (run[r].doubtful \/ Active(run[r]))
    OBVIOUS
  <2>3. PICK y : y = [run[r] EXCEPT !.doubtful = d]
    OBVIOUS
  <2>4. X[r] = y \/ X[r] = run[r]
    BY <1>1, <2>2, <2>3 DEF Doubtful
  <2>5. IsRun(y) /\ Turns(run[r], y)
    BY <2>1, <2>3, NotedTurns, NotedGoes DEF Alike
  <2> QED BY <2>1, <2>4, <2>5, NotedTurns
<1> QED BY <1>1, <1>2, WorkerFailsServes

(* A request is answered, or given up.                                     *)
LEMMA RunAfterTurns ==
  ASSUME WorkerInv, NEW q \in Plain, NEW result, run' = RunAfter(q, result), NEW r \in Runs
  PROVE  \/ Turns(run[r], run'[r])
         \/ /\ IsStart(q, r) /\ run'[r].phase = run[r].phase /\ run'[r].outcome = run[r].outcome
            /\ run'[r].aborted = run[r].aborted
<1>1. run \in [Runs -> RunRecord] /\ IsRun(run[r]) /\ Turns(run[r], run[r])
  BY RunTypes, RunIs, NotedTurns DEF WorkerInv, TypeInv, HostTypeInv
<1>2. CASE q.method = "start"
  <2>1. run' = [run EXCEPT ![q.of] = [run[q.of] EXCEPT !.at = "replied", !.answer = result]]
    BY <1>1, <1>2, PlainOf DEF RunAfter
  <2>2. CASE r = q.of
    <3>1. PICK y : y = [run[r] EXCEPT !.at = "replied", !.answer = result]
      OBVIOUS
    <3>2. run'[r] = y
      BY <1>1, <2>1, <2>2, <3>1
    <3>3. y.phase = run[r].phase /\ y.outcome = run[r].outcome /\ y.aborted = run[r].aborted
      BY <1>1, <3>1 DEF IsRun, RunFields
    <3> QED BY <1>2, <2>2, <3>2, <3>3 DEF IsStart
  <2>3. CASE r # q.of
    BY <1>1, <2>1, <2>3
  <2> QED BY <2>2, <2>3
<1>3. CASE q.method = "abort"
  <2>1. run' = [run EXCEPT ![q.of] = [run[q.of] EXCEPT !.stopping = AbortAnswer(result)]]
    BY <1>1, <1>3, PlainOf DEF RunAfter
  <2>2. PICK v, y : v = AbortAnswer(result) /\ y = [run[r] EXCEPT !.stopping = v]
    OBVIOUS
  <2>3. run'[r] = run[r] \/ run'[r] = y
    BY <1>1, <2>1, <2>2
  <2>4. Turns(run[r], y)
    BY <1>1, <2>2, NotedTurns
  <2> QED BY <1>1, <2>3, <2>4
<1>4. CASE q.method = "reply" /\ result # "ok"
  <2>1. run' = [run EXCEPT ![q.of] = Restored(run[q.of], q.ask)]
    BY <1>1, <1>4, PlainOf DEF RunAfter
  <2>2. run'[r] = run[r] \/ run'[r] = Restored(run[r], q.ask)
    BY <1>1, <2>1
  <2> QED BY <1>1, <2>2, RestoredTurns
<1>5. CASE q.method = "initialize"
  <2>1. run'[r] = IF run[r].at = "starting" THEN [run[r] EXCEPT !.at = "ready"] ELSE run[r]
    BY <1>5 DEF RunAfter
  <2> QED BY <1>1, <2>1, AtTurns
<1>6. CASE q.method \notin {"start", "abort", "initialize"} /\ ~(q.method = "reply" /\ result # "ok")
  BY <1>1, <1>6 DEF RunAfter
<1> QED BY <1>2, <1>3, <1>4, <1>5, <1>6

LEMMA AnsweredServes ==
  ASSUME WorkerInv, NEW q \in Plain, NEW result, Answered(q, result), PipesBide,
         \A r \in Runs : IsStart(q, r) => Concluded(r)
  PROVE  Serves
<1>1. run' = RunAfter(q, result) /\ UNCHANGED <<stop, host>>
  BY DEF Answered
<1>2. ASSUME NEW r \in Runs PROVE Heeds(r) /\ Judges(run[r], run'[r])
  <2>1. CASE Turns(run[r], run'[r])
    BY <2>1 DEF Turns, Heeds
  <2>2. CASE /\ IsStart(q, r) /\ run'[r].phase = run[r].phase /\ run'[r].outcome = run[r].outcome
             /\ run'[r].aborted = run[r].aborted
    BY <2>2 DEF Heeds, Judges
  <2> QED BY <1>1, <2>1, <2>2, RunAfterTurns
<1> QED BY <1>1, <1>2, HostsStay DEF Serves, PipesBide

LEMMA TimesOutServes ==
  ASSUME WorkerInv, FenceInv, NEW q \in pending, TimesOut(q)
  PROVE  Serves
<1>1. child # None /\ q \in Plain
  <2>1. child # None /\ q \in Requests /\ q.method # "activity"
    BY DEF WorkerInv, Processes, TypeInv, HostTypeInv, FenceInv, Tables
  <2> QED BY <2>1 DEF Requests, Readings
<1>2. CASE WorkerFails(run)
  BY <1>1, <1>2, FailedServes
<1>3. CASE Answered(q, "late") /\ UNCHANGED toApp
  <2>1. \A r \in Runs : ~IsStart(q, r)
    BY DEF TimesOut, IsStart
  <2>2. PipesBide
    BY <1>3, PipesWait DEF Answered
  <2>3. PICK result : result = "late"
    OBVIOUS
  <2> QED BY <1>1, <1>3, <2>1, <2>2, <2>3, AnsweredServes
<1> QED BY <1>2, <1>3 DEF TimesOut

(* A frame is read.                                                        *)
LEMMA FrameBides ==
  ASSUME WorkerInv, child # None, toApp[child] # <<>>, FrameRead, UNCHANGED toWorker
  PROVE  PipesBide
<1>1. HostTypeInv /\ child \in Workers
  BY DEF WorkerInv, TypeInv, HostTypeInv
<1>2. PICK out : out = Tail(toApp[child])
  OBVIOUS
<1>3. toApp' = [toApp EXCEPT ![child] = out]
  BY <1>2 DEF FrameRead
<1> QED BY <1>1, <1>2, <1>3, PipeRead

LEMMA EventReadServes ==
  ASSUME WorkerInv, child # None, toApp[child] # <<>>, NEW e, e = Head(toApp[child]),
         e.kind = "event", EventRead(e)
  PROVE  Serves
<1>1. FrameRead /\ UNCHANGED <<host, toWorker, stop>>
  BY DEF EventRead, requests
<1>2. PipesBide
  BY <1>1, FrameBides
<1>3. e \in Frames /\ e.of \in Runs
  <2>1. e \in Frames
    BY <1>1, SaidBefore
  <2> QED BY <2>1 DEF Frames, Responses, Events
<1>4. PICK r \in Runs : r = e.of
  BY <1>3
<1>5. CASE ~Active(run[r])
  <2>1. UNCHANGED run
    BY <1>4, <1>5 DEF EventRead
  <2> QED BY <1>1, <1>2, <2>1, RestServes
<1>6. CASE Active(run[r])
  <2>1. PICK x, y : /\ x = run[r]
                    /\ y = CASE e.result = "ask" -> [x EXCEPT !.ask = "offered", !.question = e.ask]
                             [] e.result = "cancelled" /\ x.question = e.ask -> [x EXCEPT !.ask = "none"]
                             [] e.result \in {"completed", "failed"} ->
                                  [x EXCEPT !.forwarded = TRUE, !.terminals = x.terminals + 1]
                             [] OTHER -> x
    OBVIOUS
  <2>2. run' = [run EXCEPT ![r] = y]
    BY <1>4, <1>6, <2>1 DEF EventRead
  <2>3. IsRun(x)
    BY <2>1, RunTypes, RunIs
  <2>4. Turns(x, y)
    <3>1. CASE e.result = "ask"
      <4>1. y = [x EXCEPT !.ask = "offered", !.question = e.ask]
        BY <2>1, <3>1
      <4>2. Alike(x, y) /\ y.aborted = x.aborted
        BY <2>3, <4>1 DEF Alike, IsRun, RunFields
      <4> QED BY <4>2, AlikeTurns
    <3>2. CASE e.result = "cancelled" /\ x.question = e.ask
      <4>1. y = [x EXCEPT !.ask = "none"]
        BY <2>1, <3>2
      <4> QED BY <2>3, <4>1, NotedTurns
    <3>3. CASE e.result \in {"completed", "failed"}
      <4>1. PICK n : n = x.terminals + 1
        OBVIOUS
      <4>2. y = [x EXCEPT !.forwarded = TRUE, !.terminals = n]
        BY <2>1, <3>3, <4>1
      <4>3. Alike(x, y) /\ y.aborted = x.aborted
        BY <2>3, <4>2 DEF Alike, IsRun, RunFields
      <4> QED BY <4>3, AlikeTurns
    <3>4. CASE e.result \notin {"ask", "completed", "failed"} /\ ~(e.result = "cancelled" /\ x.question = e.ask)
      <4>1. y = x
        BY <2>1, <3>4
      <4> QED BY <2>3, <4>1, NotedTurns
    <3> QED BY <3>1, <3>2, <3>3, <3>4
  <2> QED BY <1>1, <1>2, <2>1, <2>2, <2>4, OneServes
<1> QED BY <1>5, <1>6

LEMMA ReceiveServes ==
  ASSUME WorkerInv, FenceInv, Receive
  PROVE  Serves
<1>1. PICK f : f = Head(toApp[child])
  OBVIOUS
<1>2. child # None /\ toApp[child] # <<>> /\ child \in Workers /\ toApp[child] \in Seq(Frames)
  BY DEF Receive, WorkerInv, TypeInv, HostTypeInv
<1>3. f \in Frames /\ 1 \in 1..Len(toApp[child]) /\ f = toApp[child][1]
  BY <1>1, <1>2, TailOf
<1>4. CASE f.kind = "event"
  <2>1. EventRead(f)
    BY <1>1, <1>4 DEF Receive
  <2> QED BY <1>1, <1>2, <1>4, <2>1, EventReadServes
<1>5. CASE f.kind # "event"
  <2>1. PICK q, result : q = f.of /\ result = f.result
    OBVIOUS
  <2>2. f.kind = "response" /\ (q \in Plain \/ q.method = "activity")
    BY <1>3, <1>5, <2>1 DEF Frames, Responses, Events, Readings
  <2>3. ResponseRead(q, result)
    BY <1>1, <1>5, <2>1 DEF Receive
  <2>4. CASE ObservationRead(result)
    <3>1. FrameRead /\ UNCHANGED <<host, toWorker, run, stop>>
      BY <2>4 DEF ObservationRead, requests
    <3> QED BY <1>2, <3>1, FrameBides, RestServes
  <2>5. CASE WorkerFails(Doubtful(result))
    BY <1>2, <2>5, DoubtServes
  <2>6. CASE FrameRead /\ UNCHANGED <<stop, run, requests, host>>
    <3>1. FrameRead /\ UNCHANGED <<host, toWorker, run, stop>>
      BY <2>6 DEF requests
    <3> QED BY <1>2, <3>1, FrameBides, RestServes
  <2>7. CASE /\ q.method # "activity" /\ ~Fatal(q, result) /\ Answered(q, result) /\ FrameRead
    <3>1. PipesBide
      BY <1>2, <2>7, FrameBides DEF Answered
    <3>2. ASSUME NEW r \in Runs, IsStart(q, r) PROVE Concluded(r)
      BY <1>2, <1>3, <2>1, <2>2, <2>7, <3>2 DEF Concluded, Concludes, IsAnswer, Fatal
    <3> QED BY <2>2, <2>7, <3>1, <3>2, AnsweredServes
  <2> QED BY <2>3, <2>4, <2>5, <2>6, <2>7 DEF ResponseRead
<1> QED BY <1>4, <1>5

(* Every step but those of the workers.                                    *)
AppStepOf ==
  \/ \E r \in Runs : RunStep(r)
  \/ \E c \in Calls : MakeCall(c) \/ CallSends(c) \/ FollowUp(c)
  \/ \E f \in Fences : FenceForRestart(f) \/ ReleaseFence(f)
  \/ ReadActivity \/ ReadTimesOut
  \/ Receive \/ (\E q \in pending : TimesOut(q))
  \/ WorkerFailed \/ Reaped \/ ReapFails \/ Shutdown

LEMMA AppServes ==
  ASSUME WorkerInv, FenceInv, AppStepOf
  PROVE  Serves
<1>1. ASSUME NEW r \in Runs, RunStep(r) PROVE Serves
  BY <1>1, SpawnRunServes, WorkerReadyForServes, OptionsKnownServes, OptionsRejectedServes, RunRepliedServes,
     AbortServes, AbortRepliedServes, ApproveServes DEF RunStep
<1>2. ASSUME NEW c \in Calls, MakeCall(c) \/ CallSends(c) \/ FollowUp(c) PROVE Serves
  BY <1>2, MakeCallServes, CallServes
<1>3. ASSUME NEW f \in Fences, FenceForRestart(f) \/ ReleaseFence(f) PROVE Serves
  BY <1>3, FenceServes
<1>4. ASSUME NEW q \in pending, TimesOut(q) PROVE Serves
  BY <1>4, TimesOutServes
<1>5. ASSUME WorkerFailed PROVE Serves
  BY <1>5, FailedServes DEF WorkerFailed
<1> QED BY <1>1, <1>2, <1>3, <1>4, <1>5, ReceiveServes, ReadingServes, ReapedServes, ReapFailsServes,
           ShutdownServes DEF AppStepOf

-----------------------------------------------------------------------------
(* The promise is kept by the steps of the workers.                        *)
LEMMA HeldIsOwn ==
  ASSUME WorkerInv, FenceInv, child # None, host[child].fence # None
  PROVE  host[child].fence = Own /\ fence.child = child /\ ActiveRuns = {}
<1>1. PICK w, known, pend, own, shut, ops, held, in, out :
        /\ w \in Workers /\ w = child /\ known = Outstanding /\ pend = pending /\ own = Own /\ shut = Shut
        /\ ops = host[w].ops /\ held = host[w].fence /\ in = toWorker[w] /\ out = toApp[w]
  BY DEF WorkerInv, TypeInv
<1>2. Line(known, pend, own, shut, ops, held, in, out)
  BY <1>1 DEF FenceInv, Ordered, LineOf
<1>3. held \in {None, own}
  BY <1>2 DEF Line, OfOneFence
<1>4. fence.child = child
  BY <1>1, <1>3 DEF Own
<1> QED BY <1>1, <1>3, <1>4 DEF FenceInv, Drained, Fenced, Free

LEMMA BeginsIs ==
  ASSUME HostTypeInv, NEW w \in Workers, NEW q \in Runs, Begins(w, q)
  PROVE  /\ host'[w].up /\ host'[w].run[q].sdk = "starting"
         /\ \A r \in Runs : r # q => host'[w].run[r] = host[w].run[r]
<1>1. host[w] \in HostRecord /\ host[w].run[q] \in HostRunRecord
  BY HostTypes
<1>2. PICK y : y = [host[w].run[q] EXCEPT !.sdk = "starting"]
  OBVIOUS
<1>3. y \in HostRunRecord /\ y.sdk = "starting"
  BY <1>1, <1>2 DEF HostRunRecord
<1>4. host'[w] = [host[w] EXCEPT !.run[q] = y]
  BY <1>2 DEF Begins
<1>5. \A r \in Runs : host'[w].run[r] = IF r = q THEN y ELSE host[w].run[r]
  BY <1>1, <1>4 DEF HostRecord
<1>6. host'[w].up = host[w].up
  BY <1>1, <1>4 DEF HostRecord
<1> QED BY <1>3, <1>5, <1>6 DEF Begins

LEMMA HostMeets ==
  ASSUME HostTypeInv, NEW w \in Workers, HostLives(w), Alone(w)
  PROVE  /\ \A v \in Workers, r \in Runs : Met(v, r)' => Met(v, r)
         /\ \A r \in Runs : Began(r) => Began(r)'
         /\ \A v \in Workers : Drain(v)' => Drain(v)
<1>1. \A v \in Workers : v # w => host'[v] = host[v] /\ toWorker'[v] = toWorker[v] /\ toApp'[v] = toApp[v]
  BY DEF Alone
<1>2. ASSUME NEW r \in Runs
      PROVE  /\ host'[w].run[r].sdk # "none" => Met(w, r)
             /\ host[w].run[r].sdk # "none" => host'[w].run[r].sdk # "none"
  <2>1. CASE SeesSame(host[w], host'[w])
    BY <2>1 DEF SeesSame, Met
  <2>2. ASSUME NEW q \in Runs, Begins(w, q)
        PROVE  /\ host'[w].run[r].sdk # "none" => Met(w, r)
               /\ host[w].run[r].sdk # "none" => host'[w].run[r].sdk # "none"
    BY <2>2, BeginsIs DEF Begins, Met
  <2> QED BY <2>1, <2>2 DEF HostLives
<1>3. ASSUME NEW v \in Workers, NEW r \in Runs, Met(v, r)' PROVE Met(v, r)
  <2>1. Starts(toWorker'[w], r) => Starts(toWorker[w], r)
    BY DEF HostLives
  <2> QED BY <1>1, <1>2, <1>3, <2>1 DEF Met
<1>4. ASSUME NEW r \in Runs, Began(r) PROVE Began(r)'
  <2>1. PICK v \in Workers : host[v].run[r].sdk # "none"
    BY <1>4 DEF Began
  <2>2. host'[v].run[r].sdk # "none"
    BY <1>1, <1>2, <2>1
  <2> QED BY <2>2 DEF Began, Workers
<1>5. ASSUME NEW v \in Workers, Drain(v)' PROVE Drain(v)
  <2>1. Drain(w)' => Drain(w)
    BY DEF HostLives
  <2> QED BY <1>1, <1>5, <2>1 DEF Drain
<1> QED BY <1>3, <1>4, <1>5

LEMMA HostKeepsPromise ==
  ASSUME WorkerInv, FenceInv, PromiseInv, NEW w \in Workers, HostStep(w), UNCHANGED appVars
  PROVE  PromiseInv'
<1>1. HostTypeInv /\ Places
  BY DEF WorkerInv, TypeInv
<1>2. HostLives(w) /\ Alone(w)
  BY <1>1, HostStepLives, HostStepIs DEF HostGoesOn
<1>3. UNCHANGED <<run, stop, child>>
  BY DEF appVars
<1>4. /\ \A v \in Workers, r \in Runs : Met(v, r)' => Met(v, r)
      /\ \A r \in Runs : Began(r) => Began(r)'
      /\ \A v \in Workers : Drain(v)' => Drain(v)
  BY <1>1, <1>2, HostMeets
<1>5. OneHome'
  BY <1>4 DEF PromiseInv, OneHome, Workers
<1>6. DrainsWarned'
  BY <1>3, <1>4 DEF PromiseInv, DrainsWarned, Warned, Workers
<1>7. Accounted'
  <2> SUFFICES ASSUME NEW r \in Runs, run'[r].phase = "issued", run'[r].at = "replied" \/ Concluded(r)'
               PROVE  run'[r].aborted \/ Began(r)'
    BY DEF Accounted
  <2>1. run'[r] = run[r]
    BY <1>3
  <2>2. CASE run[r].at = "replied" \/ Concluded(r)
    BY <1>4, <2>1, <2>2 DEF PromiseInv, Accounted
  <2>3. CASE Concluded(r)' /\ ~Concluded(r)
    <3>1. PICK v \in Workers : \E k \in 1..Len(toApp'[v]) : Concludes(toApp'[v][k], r)
      BY <2>3 DEF Concluded, Workers
    <3>2. v = w
      BY <1>2, <2>3, <3>1 DEF Alone, Concluded
    <3>3. host'[w].run[r].sdk # "none" \/ (host[w].heard /\ (Drain(w) \/ host[w].fence # None))
      BY <1>2, <2>3, <3>1, <3>2 DEF HostLives, Concluded
    <3>4. CASE host'[w].run[r].sdk # "none"
      BY <3>4 DEF Began, Workers
    <3>5. CASE Drain(w)
      BY <2>1, <3>5 DEF PromiseInv, DrainsWarned, Warned
    <3>6. CASE host[w].heard /\ host[w].fence # None
      <4>1. w = child /\ child # None
        BY <3>6, NoneElse DEF WorkerInv, Processes
      <4>2. ActiveRuns = {}
        BY <3>6, <4>1, HeldIsOwn
      <4> QED BY <2>1, <4>2 DEF ActiveRuns, Active
    <3> QED BY <3>3, <3>4, <3>5, <3>6
  <2> QED BY <2>1, <2>2, <2>3
<1> QED BY <1>5, <1>6, <1>7 DEF PromiseInv

LEMMA InitPromise ==
  ASSUME Init
  PROVE  PromiseInv
<1>1. /\ host = [w \in Workers |-> UnbornHost] /\ toWorker = [w \in Workers |-> <<>>]
      /\ toApp = [w \in Workers |-> <<>>] /\ run = [r \in Runs |-> NoRun]
  BY DEF Init, HostInit
<1>2. \A w \in Workers : ~host[w].closed /\ \A r \in Runs : host[w].run[r].sdk = "none"
  <2>1. ~UnbornHost.closed
    BY DEF UnbornHost, NewHost
  <2> QED BY <1>1, <2>1, BlankIs DEF NoHostRun
<1>3. \A w \in Workers : ~Draining(toWorker[w]) /\ \A r \in Runs : ~Starts(toWorker[w], r)
  BY <1>1 DEF Draining, Starts
<1>4. \A r \in Runs : run[r].phase # "issued"
  BY <1>1, NoRunIs
<1> QED BY <1>2, <1>3, <1>4 DEF PromiseInv, OneHome, Met, Accounted, DrainsWarned, Drain

LEMMA NextPromise ==
  ASSUME WorkerInv, FenceInv, PromiseInv, Next
  PROVE  PromiseInv'
BY AppServes, ServesKeeps, HostKeepsPromise DEF Next, AppStepOf

LEMMA StutterPromise ==
  ASSUME PromiseInv, UNCHANGED vars
  PROVE  PromiseInv'
<1>1. UNCHANGED <<run, stop, host, toWorker, toApp>>
  BY DEF vars, appVars, hostVars
<1> QED BY <1>1 DEF PromiseInv, OneHome, Met, Accounted, Concluded, Began, DrainsWarned, Drain, Warned, Workers
-----------------------------------------------------------------------------
(* The steps of WorkerPromise.                                             *)
Works(r) == \E w \in Workers : Executes(w, r)

LEMMA LifeIs ==
  ASSUME NEW r \in Runs
  PROVE  /\ LifeOf(r) = IF Works(r) THEN "working" ELSE IF Began(r) THEN "stopped" ELSE "new"
         /\ Works(r) => Began(r)
BY DEF LifeOf, Works, Began, Executes

LEMMA LifeIsThen ==
  ASSUME NEW r \in Runs
  PROVE  /\ LifeOf(r)' = IF Works(r)' THEN "working" ELSE IF Began(r)' THEN "stopped" ELSE "new"
         /\ Works(r)' => Began(r)'
BY DEF LifeOf, Works, Began, Executes, Workers

LEMMA StopMaps ==
  ASSUME \A r \in Runs : LifeOf(r)' # LifeOf(r) => LifeOf(r) = "working" /\ LifeOf(r)' = "stopped",
         UNCHANGED run
  PROVE  Promise!promiseVars' # Promise!promiseVars => Promise!Next
<1> DEFINE R == {r \in Runs : LifeOf(r)' # LifeOf(r)}
<1>1. [r \in Runs |-> run'[r].outcome] = [r \in Runs |-> run[r].outcome]
  OBVIOUS
<1>2. CASE R = {}
  <2>1. [r \in Runs |-> LifeOf(r)'] = [r \in Runs |-> LifeOf(r)]
    BY <1>2
  <2> QED BY <1>1, <2>1 DEF Promise!promiseVars
<1>3. CASE R # {}
  <2>1. [r \in Runs |-> LifeOf(r)'] =
          [r \in Runs |-> IF r \in R THEN "stopped" ELSE [q \in Runs |-> LifeOf(q)][r]]
    OBVIOUS
  <2>2. \A r \in R : [q \in Runs |-> LifeOf(q)][r] = "working"
    OBVIOUS
  <2>3. R \in SUBSET Runs
    OBVIOUS
  <2> HIDE DEF R
  <2>4. Promise!Stop(R)
    BY <1>1, <1>3, <2>1, <2>2 DEF Promise!Stop
  <2> QED BY <2>3, <2>4 DEF Promise!Next
<1> QED BY <1>2, <1>3

LEMMA BeginMaps ==
  ASSUME NEW q \in Runs, LifeOf(q) = "new", LifeOf(q)' = "working",
         \A r \in Runs : r # q => LifeOf(r)' = LifeOf(r),
         run[q].outcome \in {"none", "unconfirmed"}, UNCHANGED run
  PROVE  Promise!Next
<1>1. [r \in Runs |-> run'[r].outcome] = [r \in Runs |-> run[r].outcome]
  OBVIOUS
<1>2. [r \in Runs |-> LifeOf(r)'] = [[r \in Runs |-> LifeOf(r)] EXCEPT ![q] = "working"]
  OBVIOUS
<1>3. [r \in Runs |-> LifeOf(r)][q] = "new" /\ [r \in Runs |-> run[r].outcome][q] \in {"none", "unconfirmed"}
  OBVIOUS
<1>4. Promise!Begin(q)
  BY <1>1, <1>2, <1>3 DEF Promise!Begin
<1> QED BY <1>4 DEF Promise!Next

LEMMA JudgeMaps ==
  ASSUME \A r \in Runs : LifeOf(r)' = LifeOf(r),
         \A r \in Runs : run'[r].outcome # run[r].outcome =>
           /\ run[r].outcome = "none" /\ run'[r].outcome \in Promise!Verdicts
           /\ run'[r].outcome = "not_started" => LifeOf(r) = "new"
           /\ run'[r].outcome = "completed" => LifeOf(r) = "stopped"
           /\ run'[r].outcome \in {"aborted", "reaped"} => LifeOf(r) # "working"
  PROVE  Promise!promiseVars' # Promise!promiseVars => Promise!Next
<1>1. PICK R \in SUBSET Runs : R = {r \in Runs : run'[r].outcome # run[r].outcome}
  OBVIOUS
<1>2. PICK v \in [R -> Promise!Verdicts] : v = [r \in R |-> run'[r].outcome]
  BY <1>1
<1>3. [r \in Runs |-> LifeOf(r)'] = [r \in Runs |-> LifeOf(r)]
  OBVIOUS
<1>4. CASE R = {}
  <2>1. [r \in Runs |-> run'[r].outcome] = [r \in Runs |-> run[r].outcome]
    BY <1>1, <1>4
  <2> QED BY <1>3, <2>1 DEF Promise!promiseVars
<1>5. CASE R # {}
  <2>1. \A r \in R : [q \in Runs |-> run[q].outcome][r] = "none"
    BY <1>1
  <2>2. ASSUME NEW r \in R PROVE Promise!True(r, v[r])
    <3>1. v[r] = run'[r].outcome /\ [q \in Runs |-> LifeOf(q)][r] = LifeOf(r)
      BY <1>1, <1>2
    <3>2. /\ v[r] = "not_started" => LifeOf(r) = "new"
          /\ v[r] = "completed" => LifeOf(r) = "stopped"
          /\ v[r] \in {"aborted", "reaped"} => LifeOf(r) # "working"
      BY <1>1, <3>1
    <3> QED BY <3>1, <3>2 DEF Promise!True
  <2>3. [r \in Runs |-> run'[r].outcome] =
          [r \in Runs |-> IF r \in R THEN v[r] ELSE [q \in Runs |-> run[q].outcome][r]]
    BY <1>1, <1>2
  <2>4. /\ \A r \in R : [q \in Runs |-> run[q].outcome][r] = "none" /\ Promise!True(r, v[r])
        /\ [r \in Runs |-> run'[r].outcome] =
             [r \in Runs |-> IF r \in R THEN v[r] ELSE [q \in Runs |-> run[q].outcome][r]]
    BY <2>1, <2>2, <2>3
  <2>5. Promise!Judge(R)
    BY <1>3, <1>5, <2>4, Zenon DEF Promise!Judge
  <2> QED BY <2>5 DEF Promise!Next
<1> QED BY <1>4, <1>5

LEMMA HostMaps ==
  ASSUME WorkerInv, PromiseInv, NEW w \in Workers, HostStep(w), UNCHANGED appVars
  PROVE  Promise!promiseVars' # Promise!promiseVars => Promise!Next
<1>1. HostTypeInv /\ Places
  BY DEF WorkerInv, TypeInv
<1>2. HostLives(w) /\ HostGoesOn(w)
  BY <1>1, HostStepLives, HostStepIs
<1>3. UNCHANGED run
  BY DEF appVars
<1>4. \A v \in Workers : v # w => host'[v] = host[v]
  BY <1>2 DEF HostGoesOn, Alone
<1>5. host[w].up
  BY <1>2 DEF HostGoesOn
<1>6. \A r \in Runs : Place(host[w].run[r], toWorker[w], toApp[w], r)
  BY <1>1 DEF Places
<1>7. CASE SeesSame(host[w], host'[w])
  <2> SUFFICES ASSUME NEW r \in Runs, LifeOf(r)' # LifeOf(r)
               PROVE  LifeOf(r) = "working" /\ LifeOf(r)' = "stopped"
    BY <1>3, StopMaps
  <2>1. Began(r)' <=> Began(r)
    BY <1>4, <1>7 DEF Began, SeesSame, Workers
  <2>2. ASSUME Works(r)' PROVE Works(r)
    <3>1. PICK v \in Workers : Executes(v, r)'
      BY <2>2 DEF Works, Workers
    <3>2. CASE v # w
      BY <1>4, <3>1, <3>2 DEF Executes, Works
    <3>3. CASE v = w
      <4>1. Live(host'[w].run[r]) /\ host'[w].run[r].sdk # "none"
        BY <3>1, <3>3 DEF Executes, Live
      <4>2. host[w].run[r].sdk # "none"
        BY <1>7, <4>1 DEF SeesSame
      <4>3. ~Starts(toWorker[w], r)
        BY <1>6, <4>2 DEF Place, Queued, Starts
      <4>4. Live(host[w].run[r])
        BY <1>2, <1>6, <4>1, <4>3 DEF HostGoesOn, Advances, Quiet
      <4> QED BY <1>5, <4>4 DEF Live, Executes, Works
    <3> QED BY <3>2, <3>3
  <2> QED BY <2>1, <2>2, LifeIs, LifeIsThen
<1>8. ASSUME NEW q \in Runs, Begins(w, q) PROVE Promise!Next
  <2>1. /\ host'[w].up /\ host'[w].run[q].sdk = "starting"
        /\ \A r \in Runs : r # q => host'[w].run[r] = host[w].run[r]
    BY <1>1, <1>8, BeginsIs
  <2>2. Starts(toWorker[w], q) /\ host[w].run[q].sdk = "none"
    BY <1>6, <1>8 DEF Begins, Place, Queued, Starts
  <2>3. ~Began(q)
    BY <2>2 DEF Began, PromiseInv, OneHome, Met
  <2>4. Works(q)'
    BY <2>1 DEF Works, Executes, Workers
  <2>5. run[q].outcome \in {"none", "unconfirmed"}
    <3>1. ~AllQuiet(q)
      BY <2>2 DEF AllQuiet, Quiet
    <3> QED BY <3>1, RunTypes DEF KnownOf, Knows, Judged
  <2>6. ASSUME NEW r \in Runs, r # q PROVE LifeOf(r)' = LifeOf(r)
    <3>1. \A v \in Workers : host'[v].run[r] = host[v].run[r] /\ (Executes(v, r)' <=> Executes(v, r))
      BY <1>4, <1>5, <2>1, <2>6 DEF Executes
    <3> QED BY <3>1 DEF LifeOf, Workers
  <2>7. LifeOf(q) = "new" /\ LifeOf(q)' = "working"
    BY <2>3, <2>4, LifeIs, LifeIsThen
  <2> QED BY <1>3, <2>5, <2>6, <2>7, BeginMaps
<1> QED BY <1>2, <1>7, <1>8 DEF HostLives

LEMMA AppMaps ==
  ASSUME WorkerInv, WorkerInv', PromiseInv, Serves
  PROVE  Promise!promiseVars' # Promise!promiseVars => Promise!Next
<1>1. ASSUME NEW r \in Runs PROVE LifeOf(r)' = LifeOf(r)
  <2>1. \A w \in Workers : host'[w].run[r] = host[w].run[r] /\ (Executes(w, r)' <=> Executes(w, r))
    BY DEF Serves, HostsBide, Executes
  <2> QED BY <2>1 DEF LifeOf, Workers
<1>2. ASSUME NEW r \in Runs, AllQuiet(r) PROVE ~Works(r)
  BY <1>2 DEF AllQuiet, Quiet, Live, Works, Executes
<1>3. ASSUME NEW r \in Runs, AllQuiet(r)' PROVE ~Works(r)'
  BY <1>3 DEF AllQuiet, Quiet, Live, Works, Executes, Workers
<1>4. ASSUME NEW r \in Runs, run'[r].outcome # run[r].outcome
      PROVE  /\ run[r].outcome = "none" /\ run'[r].outcome \in Promise!Verdicts
             /\ run'[r].outcome = "not_started" => LifeOf(r) = "new"
             /\ run'[r].outcome = "completed" => LifeOf(r) = "stopped"
             /\ run'[r].outcome \in {"aborted", "reaped"} => LifeOf(r) # "working"
  <2>1. Judges(run[r], run'[r])
    BY DEF Serves
  <2>2. run[r].outcome = "none"
    BY <1>4, <2>1 DEF Judges
  <2>3. run'[r] \in RunRecord /\ KnownOf(r)'
    BY DEF WorkerInv, TypeInv, HostTypeInv, Known
  <2>4. run'[r].outcome \in Promise!Verdicts
    BY <1>4, <2>2, <2>3 DEF RunRecord, Promise!Verdicts
  <2>5. ASSUME run'[r].outcome = "not_started" PROVE LifeOf(r) = "new"
    <3>1. NotSent(run[r])
      BY <1>4, <2>1, <2>5 DEF Judges, Fresh, NotSent
    <3>2. AllUntouched(r)
      BY <3>1, RunTypes DEF KnownOf, Knows
    <3> QED BY <3>2, UntouchedBefore, LifeIs
  <2>6. ASSUME run'[r].outcome = "completed" PROVE LifeOf(r) = "stopped"
    <3>1. run[r].phase = "issued" /\ run[r].at = "replied" /\ ~run[r].aborted
      BY <1>4, <2>1, <2>6 DEF Judges
    <3>2. Began(r)
      BY <3>1 DEF PromiseInv, Accounted
    <3>3. AllQuiet(r)
      BY <3>1, RunTypes DEF KnownOf, Knows, Judged
    <3> QED BY <1>2, <3>2, <3>3, LifeIs
  <2>7. ASSUME run'[r].outcome \in {"aborted", "reaped"} PROVE LifeOf(r) # "working"
    <3>1. AllQuiet(r)'
      BY <2>3, <2>7 DEF KnownOf, Knows, Judged
    <3> QED BY <1>1, <1>3, <3>1, LifeIsThen
  <2> QED BY <2>2, <2>4, <2>5, <2>6, <2>7
<1> QED BY <1>1, <1>4, JudgeMaps

LEMMA InitMaps ==
  ASSUME Init
  PROVE  Promise!Init
<1>1. host = [w \in Workers |-> UnbornHost] /\ run = [r \in Runs |-> NoRun]
  BY DEF Init, HostInit
<1>2. ASSUME NEW r \in Runs PROVE LifeOf(r) = "new" /\ run[r].outcome = "none"
  <2>1. \A w \in Workers : host[w].run[r].sdk = "none"
    BY <1>1, BlankIs DEF NoHostRun
  <2>2. run[r].outcome = "none"
    BY <1>1, NoRunIs
  <2> QED BY <2>1, <2>2, LifeIs DEF Began
<1> QED BY <1>2 DEF Promise!Init

LEMMA StepMaps ==
  ASSUME WorkerInv, FenceInv, PromiseInv, WorkerInv', [Next]_vars
  PROVE  [Promise!promiseVars' # Promise!promiseVars => Promise!Next]_Promise!promiseVars
<1>1. CASE Next
  <2>1. CASE AppStepOf
    BY <2>1, AppServes, AppMaps
  <2>2. ASSUME NEW w \in Workers, HostStep(w), UNCHANGED appVars
        PROVE  Promise!promiseVars' # Promise!promiseVars => Promise!Next
    BY <2>2, HostMaps
  <2> QED BY <1>1, <2>1, <2>2 DEF Next, AppStepOf
<1>2. CASE UNCHANGED vars
  <2>1. UNCHANGED <<run, host>>
    BY <1>2 DEF vars, appVars, hostVars
  <2>2. \A r \in Runs : LifeOf(r)' = LifeOf(r)
    BY <2>1 DEF LifeOf, Executes, Workers
  <2> QED BY <2>1, <2>2 DEF Promise!promiseVars
<1> QED BY <1>1, <1>2

(* A run is met by one worker, a run that is answered was begun or stopped,*)
(* and a worker drains only when all runs are stopped.                     *)
THEOREM PromiseInvHolds == Spec => [](WorkerInv /\ FenceInv /\ PromiseInv)
<1>1. Init => WorkerInv /\ FenceInv /\ PromiseInv
  BY InitKnows, InitFence, InitPromise
<1>2. WorkerInv /\ FenceInv /\ PromiseInv /\ [Next]_vars => (WorkerInv /\ FenceInv /\ PromiseInv)'
  BY NextKnows, StutterKnows, NextFence, StutterFence, NextPromise, StutterPromise
<1> QED BY <1>1, <1>2, PTL DEF Spec

(* The supervisor and its workers implement WorkerPromise: a run works at   *)
(* most once, and a verdict other than "unconfirmed" is given only of a run *)
(* that does not work and never will again (GjcWorkerOutcome), whichever of *)
(* answers, stops, fences, crashes and reaps come first.                    *)
THEOREM PromiseAlwaysKept == Spec => KeepsPromise
<1>1. Init => Promise!Init
  BY InitMaps
<1>2. WorkerInv /\ FenceInv /\ PromiseInv /\ (WorkerInv /\ FenceInv /\ PromiseInv)' /\ [Next]_vars =>
        [Promise!promiseVars' # Promise!promiseVars => Promise!Next]_Promise!promiseVars
  BY StepMaps
<1> QED BY <1>1, <1>2, PromiseInvHolds, PTL DEF Spec, KeepsPromise
=============================================================================
