----------------------- MODULE WorkerSupervisorProofs -----------------------
(***************************************************************************)
(* What a worker process does to its runs and what it says of them, and    *)
(* what the supervisor says of a run: its verdicts and what the browser is *)
(* told, for any number of runs, calls, fences and workers.                *)
(*                                                                         *)
(* A run is in three places of a worker: the pipe to it, the record it     *)
(* keeps, and the pipe from it.  Place says how the three agree; Advances, *)
(* that what may be known of a run outside the worker stays known while it *)
(* goes on.  Each step of a worker is shown to advance each of its runs.   *)
(*                                                                         *)
(* A verdict is given far from where it can be seen to be true.  Knows     *)
(* says what the supervisor's record of a run promises about all workers;  *)
(* every step either leaves that promise alone or has just earned it.      *)
(***************************************************************************)
EXTENDS WorkerSupervisorProperties, FiniteSetTheorems, SequenceTheorems, WellFoundedInduction, TLAPS

(* Types.                                                                   *)
StartRequests == [method : {"start"}, of : Runs, n : {0}, ask : {0}]
RunRequests == [method : {"abort", "reply"}, of : Runs, n : Nat, ask : Nat]
CallRequests == [method : {"query", "follow"}, of : Calls, n : Nat, ask : Nat]
FenceRequests == [method : {"close", "open"}, of : Fences, n : Nat, ask : Nat]
OwnRequests == [method : {"initialize", "shutdown"}, of : {None}, n : Nat, ask : Nat]
Plain == StartRequests \cup RunRequests \cup CallRequests \cup FenceRequests \cup OwnRequests
Readings == [method : {"activity"}, of : {None}, n : Nat, ask : Nat]
Requests == Plain \cup Readings
Operations == CallRequests \cup OwnRequests

Results == {"ok", "failed", "cleanup", "aborted", "refused"}
Observations == [fence : Fences \cup {None}, rev : Int, idle : BOOLEAN]
Responses ==
  [kind : {"response"}, of : Plain, result : Results]
    \cup [kind : {"response"}, of : Readings, result : Observations]
Events == [kind : {"event"}, of : Runs, result : {"ask", "cancelled", "completed", "failed"}, ask : Nat]
Frames == Responses \cup Events

HostRunRecord ==
  [sdk : {"none", "starting", "active", "settling", "ended", "failed", "gone"},
   abort : {"idle", "requested", "aborting", "aborted"}, promise : {"none", "pending", "true", "false"},
   asked : SUBSET Requests, aborted : BOOLEAN, late : BOOLEAN, ask : BOOLEAN, asks : Nat]
HostRecord ==
  [up : BOOLEAN, heard : BOOLEAN, initialized : {"no", "running", "yes", "died"},
   closed : BOOLEAN, poisoned : BOOLEAN, fence : Fences \cup {None}, rev : Nat,
   ops : SUBSET Operations, run : [Runs -> HostRunRecord]]

HostTypeInv ==
  /\ host \in [Workers -> HostRecord]
  /\ toWorker \in [Workers -> Seq(Requests)] /\ toApp \in [Workers -> Seq(Frames)]
-----------------------------------------------------------------------------
(* A run in a worker: x is the worker's record of it, in and out are the   *)
(* pipes to and from the worker.                                           *)
IsStart(q, r) == q.method = "start" /\ q.of = r
Starts(in, r) == \E i \in 1..Len(in) : IsStart(in[i], r)
IsAnswer(f, r) == f.kind = "response" /\ IsStart(f.of, r)
IsStopped(f, r) ==
  f.kind = "response" /\ f.of.method = "abort" /\ f.of.of = r /\ f.result = "aborted"
IsEvent(f, r) == f.kind = "event" /\ f.of = r
IsTerminal(f, r) == IsEvent(f, r) /\ f.result \in {"completed", "failed"}
Concerns(f, r) == IsAnswer(f, r) \/ IsStopped(f, r) \/ IsEvent(f, r)

Live(x) == x.sdk \in {"starting", "active", "settling"}
Halted(x) == x.abort \in {"requested", "aborted"} \/ ~Live(x)

(* The record alone: an abort that is promised is one that happens.        *)
Record(x, r) ==
  /\ x.sdk = "none" => x = NoHostRun
  /\ x.promise = "true" => x.abort \in {"requested", "aborted"}
  /\ x.promise = "pending" => x.abort = "aborting"
  /\ x.promise = "false" => x.late
  /\ IsFiniteSet(x.asked) /\ \A q \in x.asked : q.method = "abort" /\ q.of = r

(* A run is started once and answered once; what the worker says of it is  *)
(* so when it is read.                                                     *)
Queued(x, in, out, r) ==
  \A i \in 1..Len(in) : IsStart(in[i], r) =>
    /\ x.sdk = "none" /\ \A k \in 1..Len(out) : ~Concerns(out[k], r)
    /\ \A j \in 1..Len(in) : IsStart(in[j], r) => i = j
Said(x, out, r) ==
  \A i \in 1..Len(out) :
    /\ IsAnswer(out[i], r) => ~InHost(x)
    /\ IsStopped(out[i], r) => Halted(x) /\ x.sdk # "none"
    /\ IsEvent(out[i], r) => out[i].ask <= x.asks /\ x.sdk # "none"
    /\ IsTerminal(out[i], r) =>
         /\ x.sdk \in {"ended", "failed", "gone"}
         /\ \A j \in 1..Len(out) : IsTerminal(out[j], r) => i = j
Place(x, in, out, r) == Record(x, r) /\ Queued(x, in, out, r) /\ Said(x, out, r)

Untouched(x, in, out, r) ==
  x = NoHostRun /\ ~Starts(in, r) /\ \A i \in 1..Len(out) : ~Concerns(out[i], r)
Quiet(x, in, r) == ~Starts(in, r) /\ ~Live(x)
Idles(x, in, r) == ~Starts(in, r) /\ ~InHost(x)
Stops(x, in, r) == ~Starts(in, r) /\ Halted(x)
Spent(x, in, out, r) == Quiet(x, in, r) /\ \A i \in 1..Len(out) : ~IsTerminal(out[i], r)

Places == \A w \in Workers, r \in Runs : Place(host[w].run[r], toWorker[w], toApp[w], r)
-----------------------------------------------------------------------------
(* Sequences.                                                               *)
LEMMA TailOf ==
  ASSUME NEW S, NEW s \in Seq(S), s # <<>>
  PROVE  /\ Tail(s) \in Seq(S) /\ Len(Tail(s)) = Len(s) - 1 /\ Len(s) \in Nat \ {0}
         /\ \A i \in 1..Len(Tail(s)) : i + 1 \in 1..Len(s) /\ Tail(s)[i] = s[i + 1]
         /\ 1 \in 1..Len(s) /\ Head(s) = s[1] /\ s[1] \in S
OBVIOUS

LEMMA JoinOf ==
  ASSUME NEW S, NEW s \in Seq(S), NEW t \in Seq(S)
  PROVE  /\ s \o t \in Seq(S) /\ Len(s \o t) = Len(s) + Len(t)
         /\ Len(s) \in Nat /\ Len(t) \in Nat
         /\ \A i \in 1..Len(s) : i \in 1..Len(s \o t) /\ (s \o t)[i] = s[i]
         /\ \A i \in 1..Len(t) : Len(s) + i \in 1..Len(s \o t) /\ (s \o t)[Len(s) + i] = t[i]
         /\ \A k \in 1..Len(s \o t) : k \in 1..Len(s) \/ \E i \in 1..Len(t) : k = Len(s) + i
<1>1. Len(s) \in Nat /\ Len(t) \in Nat /\ s \o t \in Seq(S) /\ Len(s \o t) = Len(s) + Len(t)
  OBVIOUS
<1>2. \A i \in 1..Len(s) : i \in 1..Len(s \o t) /\ (s \o t)[i] = s[i]
  OBVIOUS
<1>3. \A i \in 1..Len(t) : Len(s) + i \in 1..Len(s \o t) /\ (s \o t)[Len(s) + i] = t[i]
  OBVIOUS
<1>4. \A k \in 1..Len(s \o t) : k \in 1..Len(s) \/ \E i \in 1..Len(t) : k = Len(s) + i
  <2> SUFFICES ASSUME NEW k \in 1..Len(s \o t), k \notin 1..Len(s)
               PROVE  \E i \in 1..Len(t) : k = Len(s) + i
    OBVIOUS
  <2>1. k - Len(s) \in 1..Len(t) /\ k = Len(s) + (k - Len(s))
    BY <1>1
  <2> QED BY <2>1
<1> QED BY <1>1, <1>2, <1>3, <1>4
-----------------------------------------------------------------------------
(* A step of a worker, as it concerns one of its runs: the record goes from *)
(* x to y, the pipes from in and out to in2 and out2.  What the supervisor  *)
(* may know of a run stays so.                                              *)
Advances(x, in, out, y, in2, out2, r) ==
  Place(x, in, out, r) =>
    /\ Place(y, in2, out2, r) /\ x.asks <= y.asks
    /\ Untouched(x, in, out, r) => Untouched(y, in2, out2, r)
    /\ Quiet(x, in, r) => Quiet(y, in2, r)
    /\ Idles(x, in, r) => Idles(y, in2, r)
    /\ Stops(x, in, r) => Stops(y, in2, r)
    /\ Spent(x, in, out, r) => Spent(y, in2, out2, r)

LEMMA AdvanceFurther ==
  ASSUME NEW r, NEW x, NEW in, NEW out, NEW y, NEW in2, NEW out2, NEW z, NEW in3, NEW out3,
         x.asks \in Nat, y.asks \in Nat, z.asks \in Nat,
         Advances(x, in, out, y, in2, out2, r), Advances(y, in2, out2, z, in3, out3, r)
  PROVE  Advances(x, in, out, z, in3, out3, r)
BY DEF Advances

(* Nothing happens, or a request is taken from the pipe.                    *)
LEMMA AdvanceNot ==
  ASSUME NEW r, NEW x, x.asks \in Nat, NEW in, NEW out
  PROVE  Advances(x, in, out, x, in, out, r)
BY DEF Advances

LEMMA AdvanceTaken ==
  ASSUME NEW r \in Runs, NEW x \in HostRunRecord, NEW in \in Seq(Requests), in # <<>>, NEW out
  PROVE  /\ Advances(x, in, out, x, Tail(in), out, r)
         /\ Place(x, in, out, r) /\ IsStart(Head(in), r) =>
              /\ x = NoHostRun /\ ~Starts(Tail(in), r)
              /\ \A k \in 1..Len(out) : ~Concerns(out[k], r)
<1>1. /\ Len(Tail(in)) = Len(in) - 1 /\ Len(in) \in Nat \ {0}
      /\ \A i \in 1..Len(Tail(in)) : i + 1 \in 1..Len(in) /\ Tail(in)[i] = in[i + 1]
      /\ 1 \in 1..Len(in) /\ Head(in) = in[1]
  BY TailOf
<1>2. ~Starts(in, r) => ~Starts(Tail(in), r)
  BY <1>1 DEF Starts
<1>3. ASSUME Place(x, in, out, r) PROVE Queued(x, Tail(in), out, r)
  <2> SUFFICES ASSUME NEW i \in 1..Len(Tail(in)), IsStart(Tail(in)[i], r)
               PROVE  /\ x.sdk = "none" /\ \A k \in 1..Len(out) : ~Concerns(out[k], r)
                      /\ \A j \in 1..Len(Tail(in)) : IsStart(Tail(in)[j], r) => i = j
    BY DEF Queued
  <2>1. i + 1 \in 1..Len(in) /\ IsStart(in[i + 1], r)
    BY <1>1
  <2>2. x.sdk = "none" /\ \A k \in 1..Len(out) : ~Concerns(out[k], r)
    BY <1>3, <2>1 DEF Place, Queued
  <2>3. ASSUME NEW j \in 1..Len(Tail(in)), IsStart(Tail(in)[j], r) PROVE i = j
    <3>1. j + 1 \in 1..Len(in) /\ IsStart(in[j + 1], r)
      BY <1>1, <2>3
    <3>2. i + 1 = j + 1
      BY <1>3, <2>1, <3>1 DEF Place, Queued
    <3> QED BY <3>2
  <2> QED BY <2>2, <2>3
<1>4. Advances(x, in, out, x, Tail(in), out, r)
  <2>1. x.asks \in Nat
    BY DEF HostRunRecord
  <2> QED BY <1>2, <1>3, <2>1 DEF Advances, Place, Untouched, Quiet, Idles, Stops, Spent
<1>5. ASSUME Place(x, in, out, r), IsStart(Head(in), r)
      PROVE  /\ x = NoHostRun /\ ~Starts(Tail(in), r)
             /\ \A k \in 1..Len(out) : ~Concerns(out[k], r)
  <2>1. /\ x.sdk = "none" /\ \A k \in 1..Len(out) : ~Concerns(out[k], r)
        /\ \A j \in 1..Len(in) : IsStart(in[j], r) => 1 = j
    BY <1>1, <1>5 DEF Place, Queued
  <2>2. ASSUME NEW i \in 1..Len(Tail(in)), IsStart(Tail(in)[i], r) PROVE FALSE
    <3>1. i + 1 \in 1..Len(in) /\ IsStart(in[i + 1], r)
      BY <1>1, <2>2
    <3>2. 1 = i + 1
      BY <2>1, <3>1
    <3> QED BY <3>2
  <2> QED BY <1>5, <2>1, <2>2 DEF Starts, Place, Record
<1> QED BY <1>4, <1>5

(* The record moves, and something is said.                                 *)
Finals == {"ended", "failed", "gone"}
Grows(x, y) ==
  /\ x.asks <= y.asks /\ (x.sdk = "none" <=> y.sdk = "none")
  /\ Live(y) => Live(x)
  /\ Halted(x) => Halted(y)
  /\ InHost(y) => InHost(x)
  /\ x.sdk \in Finals => y.sdk \in Finals

Fits(x, y, in, fs, r) ==
  \A i \in 1..Len(fs) :
    /\ Concerns(fs[i], r) => x.sdk # "none"
    /\ IsAnswer(fs[i], r) => ~InHost(y)
    /\ IsStopped(fs[i], r) => Halted(y)
    /\ IsEvent(fs[i], r) => fs[i].ask <= y.asks
    /\ IsTerminal(fs[i], r) => Live(x) /\ y.sdk \in Finals /\ Len(fs) = 1

LEMMA AdvanceMoved ==
  ASSUME NEW r \in Runs, NEW x \in HostRunRecord, NEW y \in HostRunRecord,
         NEW in \in Seq(Requests), NEW out \in Seq(Frames), NEW fs \in Seq(Frames),
         Record(x, r) => Record(y, r) /\ Grows(x, y), Fits(x, y, in, fs, r)
  PROVE  /\ Advances(x, in, out, y, in, out, r)
         /\ Advances(x, in, out, y, in, out \o fs, r)
<1> SUFFICES ASSUME Place(x, in, out, r)
             PROVE  /\ Advances(x, in, out, y, in, out, r)
                    /\ Advances(x, in, out, y, in, out \o fs, r)
  BY DEF Advances
<1>1. Record(x, r) /\ Record(y, r) /\ Grows(x, y)
  BY DEF Place
<1>2. x.sdk = "none" => x = NoHostRun /\ y = NoHostRun
  BY <1>1 DEF Record, Grows
<1>3. Queued(y, in, out, r)
  BY <1>1 DEF Place, Queued, Grows
<1>4. Said(y, out, r)
  <2> SUFFICES ASSUME NEW i \in 1..Len(out)
               PROVE  /\ IsAnswer(out[i], r) => ~InHost(y)
                      /\ IsStopped(out[i], r) => Halted(y) /\ y.sdk # "none"
                      /\ IsEvent(out[i], r) => out[i].ask <= y.asks /\ y.sdk # "none"
                      /\ IsTerminal(out[i], r) =>
                           /\ y.sdk \in {"ended", "failed", "gone"}
                           /\ \A j \in 1..Len(out) : IsTerminal(out[j], r) => i = j
    BY DEF Said
  <2>1. /\ IsAnswer(out[i], r) => ~InHost(x)
        /\ IsStopped(out[i], r) => Halted(x) /\ x.sdk # "none"
        /\ IsEvent(out[i], r) => out[i].ask <= x.asks /\ x.sdk # "none"
        /\ IsTerminal(out[i], r) =>
             /\ x.sdk \in {"ended", "failed", "gone"}
             /\ \A j \in 1..Len(out) : IsTerminal(out[j], r) => i = j
    BY DEF Place, Said
  <2>2. x.asks \in Nat /\ y.asks \in Nat /\ (IsEvent(out[i], r) => out[i].ask \in Nat)
    <3>1. out[i] \in Frames
      OBVIOUS
    <3> QED BY <3>1 DEF HostRunRecord, Frames, Responses, Events, IsEvent
  <2> QED BY <1>1, <2>1, <2>2 DEF Grows, Finals
<1>5. /\ Untouched(x, in, out, r) => Untouched(y, in, out, r)
      /\ Quiet(x, in, r) => Quiet(y, in, r)
      /\ Idles(x, in, r) => Idles(y, in, r)
      /\ Stops(x, in, r) => Stops(y, in, r)
  BY <1>1, <1>2 DEF Untouched, Quiet, Idles, Stops, Grows, NoHostRun
<1> DEFINE all == out \o fs
<1>6. /\ all \in Seq(Frames) /\ Len(out) \in Nat /\ Len(fs) \in Nat
      /\ \A i \in 1..Len(out) : i \in 1..Len(all) /\ all[i] = out[i]
      /\ \A k \in 1..Len(all) :
           \/ k \in 1..Len(out) /\ all[k] = out[k]
           \/ \E i \in 1..Len(fs) : k = Len(out) + i /\ all[k] = fs[i]
  BY JoinOf
<1> HIDE DEF all
<1>7. x.sdk = "none" => \A k \in 1..Len(all) : Concerns(all[k], r) => \E i \in 1..Len(out) : Concerns(out[i], r)
  BY <1>6 DEF Fits
<1>8. Queued(y, in, all, r)
  BY <1>3, <1>6, <1>7, <1>1 DEF Queued, Grows
<1>9. ASSUME NEW k \in 1..Len(all)
      PROVE  /\ IsAnswer(all[k], r) => ~InHost(y)
             /\ IsStopped(all[k], r) => Halted(y) /\ y.sdk # "none"
             /\ IsEvent(all[k], r) => all[k].ask <= y.asks /\ y.sdk # "none"
             /\ IsTerminal(all[k], r) => y.sdk \in Finals
  <2>1. CASE k \in 1..Len(out) /\ all[k] = out[k]
    BY <1>4, <2>1 DEF Said, Finals
  <2>2. ASSUME NEW i \in 1..Len(fs), all[k] = fs[i]
        PROVE  /\ IsAnswer(all[k], r) => ~InHost(y)
               /\ IsStopped(all[k], r) => Halted(y) /\ y.sdk # "none"
               /\ IsEvent(all[k], r) => all[k].ask <= y.asks /\ y.sdk # "none"
               /\ IsTerminal(all[k], r) => y.sdk \in Finals
    <3>1. Concerns(all[k], r) => y.sdk # "none"
      BY <1>1, <2>2 DEF Fits, Grows
    <3> QED BY <2>2, <3>1 DEF Fits, Concerns
  <2> QED BY <1>6, <2>1, <2>2
<1>10. ASSUME NEW k \in 1..Len(all), NEW j \in 1..Len(all), IsTerminal(all[k], r), IsTerminal(all[j], r)
       PROVE  k = j
  <2>1. CASE Live(x)
    <3>1. x.sdk \notin Finals
      BY <2>1 DEF Live, Finals
    <3>2. \A i \in 1..Len(out) : ~IsTerminal(out[i], r)
      BY <3>1 DEF Place, Said, Finals
    <3>3. \E i \in 1..Len(fs) : k = Len(out) + i /\ all[k] = fs[i]
      BY <1>6, <1>10, <3>2
    <3>4. \E i \in 1..Len(fs) : j = Len(out) + i /\ all[j] = fs[i]
      BY <1>6, <1>10, <3>2
    <3>5. Len(fs) = 1
      BY <1>10, <3>3 DEF Fits
    <3> QED BY <1>6, <3>3, <3>4, <3>5
  <2>2. CASE ~Live(x)
    <3>1. \A i \in 1..Len(fs) : ~IsTerminal(fs[i], r)
      BY <2>2 DEF Fits
    <3>2. k \in 1..Len(out) /\ all[k] = out[k] /\ j \in 1..Len(out) /\ all[j] = out[j]
      BY <1>6, <1>10, <3>1
    <3> QED BY <1>4, <1>10, <3>2 DEF Said
  <2> QED BY <2>1, <2>2
<1>11. Said(y, all, r)
  BY <1>9, <1>10 DEF Said, Finals
<1>12. Untouched(x, in, out, r) => Untouched(y, in, all, r)
  BY <1>2, <1>7 DEF Untouched, NoHostRun
<1>13. Spent(x, in, out, r) => Spent(y, in, out, r) /\ Spent(y, in, all, r)
  <2> SUFFICES ASSUME Spent(x, in, out, r)
               PROVE  Spent(y, in, out, r) /\ Spent(y, in, all, r)
    OBVIOUS
  <2>1. Quiet(x, in, r) /\ \A i \in 1..Len(out) : ~IsTerminal(out[i], r)
    BY DEF Spent
  <2>2. \A i \in 1..Len(fs) : ~IsTerminal(fs[i], r)
    BY <2>1 DEF Fits, Quiet
  <2>3. \A k \in 1..Len(all) : ~IsTerminal(all[k], r)
    BY <1>6, <2>1, <2>2
  <2> QED BY <1>5, <2>1, <2>3 DEF Spent
<1>14. x.asks <= y.asks
  BY <1>1 DEF Grows
<1>15. Advances(x, in, out, y, in, out, r)
  BY <1>1, <1>3, <1>4, <1>5, <1>13, <1>14 DEF Advances, Place
<1>16. Advances(x, in, out, y, in, all, r)
  BY <1>1, <1>5, <1>8, <1>11, <1>12, <1>13, <1>14 DEF Advances, Place
<1> QED BY <1>15, <1>16 DEF all
-----------------------------------------------------------------------------
(* What each step of a worker does to the record of a run.                  *)
MayBecome(x, y, r) == Record(x, r) => Record(y, r) /\ Grows(x, y)

Closing(x) == [x EXCEPT !.abort = AbortCall(x)[1]]

LEMMA Stays ==
  ASSUME NEW r, NEW x \in HostRunRecord
  PROVE  MayBecome(x, x, r)
BY DEF MayBecome, Grows, HostRunRecord

LEMMA Becomes ==
  ASSUME NEW r, NEW x \in HostRunRecord, NEW y \in HostRunRecord, NEW z \in HostRunRecord,
         MayBecome(x, y, r), MayBecome(y, z, r)
  PROVE  MayBecome(x, z, r)
BY DEF MayBecome, Grows, HostRunRecord

LEMMA AbortCallIs ==
  ASSUME NEW x \in HostRunRecord
  PROVE  \/ /\ x.sdk = "starting" /\ x.abort = "idle" /\ AbortCall(x) = <<"requested", "aborted">>
         \/ /\ x.sdk \in {"active", "settling"} /\ x.abort = "idle"
            /\ AbortCall(x) = <<"aborting", None>>
         \/ AbortCall(x) = <<x.abort, "refused">>
BY DEF AbortCall

LEMMA ClosingIs ==
  ASSUME NEW r, NEW x \in HostRunRecord
  PROVE  Closing(x) \in HostRunRecord /\ MayBecome(x, Closing(x), r)
<1>1. \/ AbortCall(x)[1] = "requested" /\ x.sdk = "starting" /\ x.abort = "idle"
      \/ AbortCall(x)[1] = "aborting" /\ x.sdk \in {"active", "settling"} /\ x.abort = "idle"
      \/ AbortCall(x)[1] = x.abort
  BY AbortCallIs
<1>2. PICK a : a = AbortCall(x)[1]
  OBVIOUS
<1>3. a \in {"idle", "requested", "aborting", "aborted"}
  BY <1>1, <1>2 DEF HostRunRecord
<1>4. Closing(x) = [x EXCEPT !.abort = a]
  BY <1>2 DEF Closing
<1>5. [x EXCEPT !.abort = a] \in HostRunRecord
  BY <1>3 DEF HostRunRecord
<1>6. MayBecome(x, [x EXCEPT !.abort = a], r)
  <2>1. CASE a = x.abort
    <3>1. [x EXCEPT !.abort = a] = x
      BY <2>1 DEF HostRunRecord
    <3> QED BY <3>1, Stays
  <2>2. CASE a = "requested" /\ x.sdk = "starting" /\ x.abort = "idle"
    BY <2>2 DEF MayBecome, Record, Grows, HostRunRecord, Live, Halted, InHost, Finals
  <2>3. CASE a = "aborting" /\ x.sdk \in {"active", "settling"} /\ x.abort = "idle"
    BY <2>3 DEF MayBecome, Record, Grows, HostRunRecord, Live, Halted, InHost, Finals
  <2> QED BY <1>1, <1>2, <2>1, <2>2, <2>3
<1> QED BY <1>4, <1>5, <1>6

LEMMA AbortRequestedIs ==
  ASSUME NEW r \in Runs, NEW x \in HostRunRecord, InHost(x),
         NEW q \in Requests, q.method = "abort", q.of = r
  PROVE  /\ AbortRequested(x, q)[1] \in HostRunRecord
         /\ MayBecome(x, AbortRequested(x, q)[1], r)
         /\ AbortRequested(x, q)[2] \in {None, "failed", "aborted", "refused"}
         /\ Record(x, r) /\ AbortRequested(x, q)[2] = "aborted" => Halted(AbortRequested(x, q)[1])
<1>1. None \notin {"failed", "aborted", "refused"}
  BY HostAssumption
<1> DEFINE does == AbortCall(x)
<1>2. CASE x.promise = "pending"
  <2>1. AbortRequested(x, q) = <<[x EXCEPT !.asked = @ \cup {q}], None>>
    BY <1>2 DEF AbortRequested
  <2>2. [x EXCEPT !.asked = @ \cup {q}] \in HostRunRecord
    BY DEF HostRunRecord
  <2>3. MayBecome(x, [x EXCEPT !.asked = @ \cup {q}], r)
    BY FS_AddElement DEF MayBecome, Record, Grows, HostRunRecord, Live, Halted, InHost, Finals
  <2> QED BY <1>1, <2>1, <2>2, <2>3
<1>3. CASE x.promise \in {"true", "false"}
  <2>1. AbortRequested(x, q) = <<[x EXCEPT !.aborted = @ \/ ~x.late], IF x.late THEN "failed" ELSE "aborted">>
    BY <1>3 DEF AbortRequested
  <2>2. PICK b \in BOOLEAN : b = (x.aborted \/ ~x.late)
    OBVIOUS
  <2>3. [x EXCEPT !.aborted = b] \in HostRunRecord
    BY DEF HostRunRecord
  <2>4. MayBecome(x, [x EXCEPT !.aborted = b], r)
    BY DEF MayBecome, Record, Grows, HostRunRecord, Live, Halted, InHost, Finals
  <2>5. Record(x, r) /\ ~x.late => Halted([x EXCEPT !.aborted = b])
    BY <1>3 DEF Record, Halted, HostRunRecord
  <2> QED BY <2>1, <2>2, <2>3, <2>4, <2>5
<1>4. CASE x.promise = "none"
  <2>1. CASE x.sdk = "starting" /\ x.abort = "idle" /\ does = <<"requested", "aborted">>
    <3>1. AbortRequested(x, q) = <<[x EXCEPT !.abort = "requested", !.promise = "true", !.aborted = TRUE], "aborted">>
      BY <1>1, <1>4, <2>1 DEF AbortRequested
    <3> DEFINE y == [x EXCEPT !.abort = "requested", !.promise = "true", !.aborted = TRUE]
    <3>2. y \in HostRunRecord /\ Halted(y)
      BY DEF HostRunRecord, Halted
    <3>3. MayBecome(x, y, r)
      BY <2>1 DEF MayBecome, Record, Grows, HostRunRecord, Live, Halted, InHost, Finals
    <3> QED BY <3>1, <3>2, <3>3
  <2>2. CASE x.sdk \in {"active", "settling"} /\ x.abort = "idle" /\ does = <<"aborting", None>>
    <3>1. AbortRequested(x, q) = <<[x EXCEPT !.abort = "aborting", !.promise = "pending", !.asked = {q}], None>>
      BY <1>1, <1>4, <2>2 DEF AbortRequested
    <3> DEFINE y == [x EXCEPT !.abort = "aborting", !.promise = "pending", !.asked = {q}]
    <3>2. y \in HostRunRecord
      BY DEF HostRunRecord
    <3>3. IsFiniteSet({q})
      BY FS_Singleton
    <3>4. MayBecome(x, y, r)
      BY <2>2, <3>3 DEF MayBecome, Record, Grows, HostRunRecord, Live, Halted, InHost, Finals
    <3> QED BY <1>1, <3>1, <3>2, <3>4
  <2>3. CASE does = <<x.abort, "refused">>
    <3>1. AbortRequested(x, q) = <<[x EXCEPT !.aborted = FALSE], "refused">>
      <4>1. does[2] = "refused" /\ does[2] # None /\ does[2] # "aborted"
        BY <1>1, <2>3
      <4>2. x.promise = "none"
        BY <1>4
      <4> HIDE DEF does
      <4> QED BY <4>1, <4>2 DEF AbortRequested, does
    <3>2. [x EXCEPT !.aborted = FALSE] \in HostRunRecord
      BY DEF HostRunRecord
    <3>3. MayBecome(x, [x EXCEPT !.aborted = FALSE], r)
      BY DEF MayBecome, Record, Grows, HostRunRecord, Live, Halted, InHost, Finals
    <3> QED BY <3>1, <3>2, <3>3
  <2> QED BY <2>1, <2>2, <2>3, AbortCallIs
<1>5. x.promise \in {"none", "pending", "true", "false"}
  BY DEF HostRunRecord
<1> QED BY <1>2, <1>3, <1>4, <1>5

LEMMA DeadIs ==
  ASSUME NEW r, NEW x \in HostRunRecord
  PROVE  /\ Dead(x) \in HostRunRecord /\ MayBecome(x, Dead(x), r)
         /\ Dead(x).sdk \in {"none", "gone"}
<1>1. PICK z : z = NoHostRun
  OBVIOUS
<1>2. /\ z \in HostRunRecord /\ z.sdk = "none" /\ z.abort = "idle" /\ z.promise = "none"
      /\ z.asked = {} /\ z.asks = 0
  BY <1>1 DEF NoHostRun, HostRunRecord
<1>3. PICK sdk \in {"none", "gone"} : sdk = IF x.sdk = "none" THEN "none" ELSE "gone"
  OBVIOUS
<1>4. PICK asks \in Nat : asks = x.asks
  BY DEF HostRunRecord
<1>5. PICK y : y = [z EXCEPT !.sdk = sdk, !.asks = asks]
  OBVIOUS
<1>6. Dead(x) = y
  BY <1>1, <1>3, <1>4, <1>5 DEF Dead
<1>7. /\ y \in HostRunRecord /\ y.sdk = sdk /\ y.asks = asks /\ y.abort = "idle"
      /\ y.promise = "none" /\ y.asked = {}
  BY <1>2, <1>5 DEF HostRunRecord
<1>8. MayBecome(x, y, r)
  <2> SUFFICES ASSUME Record(x, r) PROVE Record(y, r) /\ Grows(x, y)
    BY DEF MayBecome
  <2>1. CASE x.sdk = "none"
    <3>1. x = z
      BY <1>1, <2>1 DEF Record
    <3>2. y = x
      BY <1>2, <1>3, <1>4, <1>5, <3>1 DEF HostRunRecord
    <3> QED BY <3>2, Stays DEF MayBecome
  <2>2. CASE x.sdk # "none"
    <3>1. Record(y, r)
      BY <1>3, <1>7, <2>2, FS_EmptySet DEF Record
    <3>2. Grows(x, y)
      BY <1>3, <1>4, <1>7, <2>2 DEF Grows, HostRunRecord, Live, Halted, InHost, Finals
    <3> QED BY <3>1, <3>2
  <2> QED BY <2>1, <2>2
<1> QED BY <1>6, <1>7, <1>8
-----------------------------------------------------------------------------
(* A step of worker w, and what it leaves.                                  *)
Alone(w) ==
  /\ \A v \in Workers : v # w =>
       host'[v] = host[v] /\ toWorker'[v] = toWorker[v] /\ toApp'[v] = toApp[v]
  /\ host' \in [Workers -> HostRecord]
  /\ toWorker' \in [Workers -> Seq(Requests)] /\ toApp' \in [Workers -> Seq(Frames)]

HostGoesOn(w) ==
  /\ Alone(w) /\ host[w].up /\ host'[w].heard = host[w].heard
  /\ ~host[w].heard => toApp'[w] = toApp[w]
  /\ ~host'[w].up =>
       /\ host'[w].initialized = "died" /\ toWorker'[w] = <<>>
       /\ \A r \in Runs : host'[w].run[r].sdk \in {"none", "gone"}
  /\ \A r \in Runs : Advances(host[w].run[r], toWorker[w], toApp[w],
                              host'[w].run[r], toWorker'[w], toApp'[w], r)

LEMMA HostTypes ==
  ASSUME HostTypeInv, NEW w \in Workers
  PROVE  /\ host[w] \in HostRecord /\ toWorker[w] \in Seq(Requests) /\ toApp[w] \in Seq(Frames)
         /\ \A r \in Runs : host[w].run[r] \in HostRunRecord /\ host[w].run[r].asks \in Nat
         /\ host[w].run \in [Runs -> HostRunRecord]
<1>1. /\ host[w] \in HostRecord /\ toWorker[w] \in Seq(Requests) /\ toApp[w] \in Seq(Frames)
  BY DEF HostTypeInv
<1>2. host[w].run \in [Runs -> HostRunRecord]
  BY <1>1 DEF HostRecord
<1> QED BY <1>1, <1>2 DEF HostRunRecord

(* The runs of a worker move, and something is said.                        *)
LEMMA HostMoves ==
  ASSUME HostTypeInv, NEW w \in Workers, host[w].up,
         NEW h \in HostRecord, h.up, h.heard = host[w].heard, NEW fs \in Seq(Frames),
         host' = [host EXCEPT ![w] = h], Says(w, fs), UNCHANGED toWorker,
         \A r \in Runs : /\ MayBecome(host[w].run[r], h.run[r], r)
                         /\ Fits(host[w].run[r], h.run[r], toWorker[w], fs, r)
  PROVE  HostGoesOn(w)
<1>1. toApp' = [toApp EXCEPT ![w] = IF host[w].heard THEN toApp[w] \o fs ELSE toApp[w]]
  BY DEF Says, HostTypeInv
<1>2. toApp[w] \o fs \in Seq(Frames) /\ toApp[w] \in Seq(Frames)
  BY HostTypes
<1>3. Alone(w) /\ host'[w] = h
  BY <1>1, <1>2 DEF Alone, HostTypeInv
<1>4. toApp'[w] = IF host[w].heard THEN toApp[w] \o fs ELSE toApp[w]
  BY <1>1 DEF HostTypeInv
<1>5. \A r \in Runs : Advances(host[w].run[r], toWorker[w], toApp[w],
                               host'[w].run[r], toWorker'[w], toApp'[w], r)
  <2> SUFFICES ASSUME NEW r \in Runs
               PROVE  Advances(host[w].run[r], toWorker[w], toApp[w],
                               h.run[r], toWorker[w], toApp'[w], r)
    BY <1>3
  <2>1. host[w].run[r] \in HostRunRecord /\ toWorker[w] \in Seq(Requests) /\ toApp[w] \in Seq(Frames)
    BY HostTypes
  <2>2. h.run[r] \in HostRunRecord
    BY DEF HostRecord
  <2>3. Record(host[w].run[r], r) => Record(h.run[r], r) /\ Grows(host[w].run[r], h.run[r])
    BY DEF MayBecome
  <2>4. /\ Advances(host[w].run[r], toWorker[w], toApp[w], h.run[r], toWorker[w], toApp[w], r)
        /\ Advances(host[w].run[r], toWorker[w], toApp[w], h.run[r], toWorker[w], toApp[w] \o fs, r)
    BY <2>1, <2>2, <2>3, AdvanceMoved
  <2> QED BY <1>4, <2>4
<1> QED BY <1>3, <1>4, <1>5 DEF HostGoesOn

(* One run moves.                                                           *)
LEMMA OneRunMoves ==
  ASSUME HostTypeInv, NEW w \in Workers, host[w].up, NEW r \in Runs,
         NEW y \in HostRunRecord, NEW fs \in Seq(Frames),
         host' = [host EXCEPT ![w].run[r] = y], Says(w, fs), UNCHANGED toWorker,
         MayBecome(host[w].run[r], y, r), Fits(host[w].run[r], y, toWorker[w], fs, r),
         \A i \in 1..Len(fs), s \in Runs : s # r => ~Concerns(fs[i], s)
  PROVE  HostGoesOn(w)
<1> DEFINE h == [host[w] EXCEPT !.run[r] = y]
<1>1. host[w] \in HostRecord /\ host[w].run \in [Runs -> HostRunRecord]
  BY HostTypes
<1>2. h = [host[w] EXCEPT !.run = [host[w].run EXCEPT ![r] = y]]
  BY <1>1 DEF HostRecord
<1>3. [host[w].run EXCEPT ![r] = y] \in [Runs -> HostRunRecord]
  BY <1>1
<1>4. /\ h \in HostRecord /\ h.up /\ h.heard = host[w].heard
      /\ h.run = [host[w].run EXCEPT ![r] = y]
  BY <1>1, <1>2, <1>3 DEF HostRecord
<1>5. host' = [host EXCEPT ![w] = h]
  BY DEF HostTypeInv
<1> HIDE DEF h
<1>6. ASSUME NEW s \in Runs
      PROVE  /\ MayBecome(host[w].run[s], h.run[s], s)
             /\ Fits(host[w].run[s], h.run[s], toWorker[w], fs, s)
  <2>1. CASE s = r
    BY <1>1, <1>4, <2>1
  <2>2. CASE s # r
    <3>1. h.run[s] = host[w].run[s] /\ host[w].run[s] \in HostRunRecord
      BY <1>1, <1>4, <2>2
    <3>2. Fits(host[w].run[s], h.run[s], toWorker[w], fs, s)
      BY <2>2 DEF Fits, Concerns, IsTerminal
    <3> QED BY <3>1, <3>2, Stays
  <2> QED BY <2>1, <2>2
<1> QED BY <1>4, <1>5, <1>6, HostMoves
-----------------------------------------------------------------------------
(* What a run says is about itself.                                         *)
LEMMA FrameIs ==
  /\ \A q \in Plain, result \in Results : Response(q, result) \in Frames
  /\ \A q \in Readings, result \in Observations : Response(q, result) \in Frames
  /\ \A r \in Runs, what \in {"ask", "cancelled", "completed", "failed"}, n \in Nat :
       Event(r, what, n) \in Frames
  /\ \A r \in Runs : Request("start", r, 0) \in StartRequests
BY DEF Response, Event, Frames, Responses, Events, Request, Asked, StartRequests

LEMMA SilenceFits ==
  ASSUME NEW r, NEW x, NEW y, NEW in
  PROVE  Fits(x, y, in, <<>>, r) /\ <<>> \in Seq(Frames) /\ Len(<<>>) = 0
BY DEF Fits

(* One run moves and says nothing, or one event.                            *)
LEMMA RunMovesIs ==
  ASSUME HostTypeInv, NEW w \in Workers, NEW r \in Runs, host[w].up,
         NEW y \in HostRunRecord, NEW whats, RunMoves(w, r, y, whats),
         MayBecome(host[w].run[r], y, r), host[w].run[r].sdk # "none" \/ whats = <<>>,
         y.asks = host[w].run[r].asks,
         \/ whats \in {<<>>, <<"cancelled">>}
         \/ /\ whats \in {<<"completed">>, <<"failed">>}
            /\ Live(host[w].run[r]) /\ y.sdk \in Finals
  PROVE  HostGoesOn(w)
<1> DEFINE x == host[w].run[r]
<1>1. x \in HostRunRecord /\ x.asks \in Nat
  BY HostTypes
<1>2. PICK fs : fs = Emits(host[w], r, whats)
  OBVIOUS
<1>3. host' = [host EXCEPT ![w].run[r] = y] /\ Says(w, fs) /\ UNCHANGED toWorker
  BY <1>2 DEF RunMoves
<1>4. \/ fs = <<>>
      \/ whats = <<"cancelled">> /\ fs = <<Event(r, "cancelled", x.asks)>>
      \/ whats = <<"completed">> /\ fs = <<Event(r, "completed", x.asks)>>
      \/ whats = <<"failed">> /\ fs = <<Event(r, "failed", x.asks)>>
  BY <1>2 DEF Emits
<1>5. CASE fs = <<>>
  <2>1. Fits(x, y, toWorker[w], fs, r) /\ fs \in Seq(Frames) /\ Len(fs) = 0
    BY <1>5, SilenceFits
  <2>2. \A i \in 1..Len(fs), s \in Runs : s # r => ~Concerns(fs[i], s)
    BY <2>1
  <2> QED BY <1>3, <2>1, <2>2, OneRunMoves
<1>6. ASSUME NEW what \in {"cancelled", "completed", "failed"},
             whats = <<what>>, fs = <<Event(r, what, x.asks)>>
      PROVE  HostGoesOn(w)
  <2>1. Event(r, what, x.asks) \in Frames
    BY <1>1, FrameIs
  <2>2. fs \in Seq(Frames) /\ Len(fs) = 1 /\ fs[1] = Event(r, what, x.asks)
    BY <1>6, <2>1
  <2>3. x.sdk # "none" /\ (what \in {"completed", "failed"} => Live(x) /\ y.sdk \in Finals)
    BY <1>6
  <2>4. Fits(x, y, toWorker[w], fs, r)
    <3> SUFFICES ASSUME NEW i \in 1..Len(fs)
                 PROVE  /\ Concerns(fs[i], r) => x.sdk # "none"
                        /\ IsAnswer(fs[i], r) => ~InHost(y)
                        /\ IsStopped(fs[i], r) => Halted(y)
                        /\ IsEvent(fs[i], r) => fs[i].ask <= y.asks
                        /\ IsTerminal(fs[i], r) => Live(x) /\ y.sdk \in Finals /\ Len(fs) = 1
      BY DEF Fits
    <3>1. fs[i] = [kind |-> "event", of |-> r, result |-> what, ask |-> x.asks]
      BY <2>2 DEF Event
    <3> QED BY <1>1, <2>2, <2>3, <3>1 DEF IsAnswer, IsStopped, IsEvent, IsTerminal
  <2>5. \A i \in 1..Len(fs), s \in Runs : s # r => ~Concerns(fs[i], s)
    BY <2>2 DEF Concerns, IsAnswer, IsStopped, IsEvent, Event
  <2> QED BY <1>3, <2>2, <2>4, <2>5, OneRunMoves
<1> QED BY <1>4, <1>5, <1>6
-----------------------------------------------------------------------------
(* The steps of a run.                                                      *)
LEMMA SessionStartsIs ==
  ASSUME HostTypeInv, NEW w \in Workers, NEW r \in Runs, SessionStarts(w, r)
  PROVE  HostGoesOn(w)
<1> DEFINE x == host[w].run[r]
<1>1. x \in HostRunRecord /\ host[w].up /\ x.sdk = "starting"
  BY HostTypes DEF SessionStarts
<1>2. CASE x.abort = "requested"
  <2> DEFINE y == [x EXCEPT !.sdk = "settling", !.abort = "aborted"]
  <2>1. RunMoves(w, r, y, <<>>)
    BY <1>2 DEF SessionStarts
  <2>2. y \in HostRunRecord /\ y.asks = x.asks
    BY <1>1 DEF HostRunRecord
  <2>3. MayBecome(x, y, r)
    BY <1>1, <1>2 DEF MayBecome, Record, Grows, HostRunRecord, Live, Halted, InHost, Finals
  <2> QED BY <1>1, <2>1, <2>2, <2>3, RunMovesIs
<1>3. CASE x.abort # "requested"
  <2> DEFINE y == [x EXCEPT !.sdk = "active"]
  <2>1. RunMoves(w, r, y, <<>>)
    BY <1>3 DEF SessionStarts
  <2>2. y \in HostRunRecord /\ y.asks = x.asks
    BY <1>1 DEF HostRunRecord
  <2>3. MayBecome(x, y, r)
    BY <1>1, <1>3 DEF MayBecome, Record, Grows, HostRunRecord, Live, Halted, InHost, Finals
  <2> QED BY <1>1, <2>1, <2>2, <2>3, RunMovesIs
<1> QED BY <1>2, <1>3

LEMMA StartFailsIs ==
  ASSUME HostTypeInv, NEW w \in Workers, NEW r \in Runs, StartFails(w, r)
  PROVE  HostGoesOn(w)
<1> DEFINE x == host[w].run[r]
           y == [x EXCEPT !.sdk = "failed"]
<1>1. x \in HostRunRecord /\ host[w].up /\ x.sdk = "starting" /\ RunMoves(w, r, y, <<>>)
  BY HostTypes DEF StartFails
<1>2. y \in HostRunRecord /\ y.asks = x.asks
  BY <1>1 DEF HostRunRecord
<1>3. MayBecome(x, y, r)
  BY <1>1 DEF MayBecome, Record, Grows, HostRunRecord, Live, Halted, InHost, Finals
<1> QED BY <1>1, <1>2, <1>3, RunMovesIs

LEMMA AskPresentedIs ==
  ASSUME HostTypeInv, NEW w \in Workers, NEW r \in Runs, AskPresented(w, r)
  PROVE  HostGoesOn(w)
<1> DEFINE x == host[w].run[r]
<1>0. PICK n \in Nat : n = x.asks + 1
  BY HostTypes
<1> DEFINE y == [x EXCEPT !.ask = TRUE, !.asks = n]
<1>1. /\ x \in HostRunRecord /\ x.asks \in Nat /\ host[w].up /\ x.sdk = "active"
      /\ host' = [host EXCEPT ![w].run[r] = y] /\ UNCHANGED toWorker
  BY HostTypes, <1>0 DEF AskPresented
<1>2. PICK fs : /\ fs = IF host[w].poisoned THEN <<>> ELSE <<Event(r, "ask", x.asks + 1)>>
                /\ Says(w, fs)
  BY DEF AskPresented
<1>3. y \in HostRunRecord /\ y.asks = x.asks + 1
  BY <1>0, <1>1 DEF HostRunRecord
<1>4. MayBecome(x, y, r)
  BY <1>0, <1>1 DEF MayBecome, Record, Grows, HostRunRecord, Live, Halted, InHost, Finals
<1> HIDE DEF y
<1>5. Event(r, "ask", x.asks + 1) \in Frames
  BY <1>1, FrameIs
<1>6. CASE fs = <<>>
  <2>1. Fits(x, y, toWorker[w], fs, r) /\ fs \in Seq(Frames) /\ Len(fs) = 0
    BY <1>6, SilenceFits
  <2>2. \A i \in 1..Len(fs), s \in Runs : s # r => ~Concerns(fs[i], s)
    BY <2>1
  <2> QED BY <1>1, <1>2, <1>3, <1>4, <2>1, <2>2, OneRunMoves
<1>7. CASE fs = <<Event(r, "ask", x.asks + 1)>>
  <2>1. /\ fs \in Seq(Frames) /\ Len(fs) = 1
        /\ \A i \in 1..Len(fs) : fs[i] = [kind |-> "event", of |-> r, result |-> "ask", ask |-> x.asks + 1]
    BY <1>5, <1>7 DEF Event
  <2>2. Fits(x, y, toWorker[w], fs, r)
    <3> SUFFICES ASSUME NEW i \in 1..Len(fs)
                 PROVE  /\ Concerns(fs[i], r) => x.sdk # "none"
                        /\ IsAnswer(fs[i], r) => ~InHost(y)
                        /\ IsStopped(fs[i], r) => Halted(y)
                        /\ IsEvent(fs[i], r) => fs[i].ask <= y.asks
                        /\ IsTerminal(fs[i], r) => Live(x) /\ y.sdk \in Finals /\ Len(fs) = 1
      BY DEF Fits
    <3>1. fs[i] = [kind |-> "event", of |-> r, result |-> "ask", ask |-> x.asks + 1]
      BY <2>1
    <3> QED BY <1>1, <1>3, <3>1 DEF IsAnswer, IsStopped, IsEvent, IsTerminal
  <2>3. \A i \in 1..Len(fs), s \in Runs : s # r => ~Concerns(fs[i], s)
    BY <2>1 DEF Concerns, IsAnswer, IsStopped, IsEvent
  <2> QED BY <1>1, <1>2, <1>3, <1>4, <2>1, <2>2, <2>3, OneRunMoves
<1> QED BY <1>2, <1>6, <1>7

LEMMA AskCancelledIs ==
  ASSUME HostTypeInv, Places, NEW w \in Workers, NEW r \in Runs, AskCancelled(w, r)
  PROVE  HostGoesOn(w)
<1> DEFINE x == host[w].run[r]
           y == [x EXCEPT !.ask = FALSE]
<1>1. x \in HostRunRecord /\ host[w].up /\ x.ask /\ RunMoves(w, r, y, <<"cancelled">>)
  BY HostTypes DEF AskCancelled
<1>2. x.sdk # "none"
  BY <1>1 DEF Places, Place, Record, NoHostRun
<1>3. y \in HostRunRecord /\ y.asks = x.asks
  BY <1>1 DEF HostRunRecord
<1>4. MayBecome(x, y, r)
  BY <1>1, <1>2 DEF MayBecome, Record, Grows, HostRunRecord, Live, Halted, InHost, Finals
<1> QED BY <1>1, <1>2, <1>3, <1>4, RunMovesIs

LEMMA TurnEndsIs ==
  ASSUME HostTypeInv, NEW w \in Workers, NEW r \in Runs, TurnEnds(w, r)
  PROVE  HostGoesOn(w)
<1> DEFINE x == host[w].run[r]
           y == [x EXCEPT !.sdk = "settling", !.ask = FALSE]
<1>1. x \in HostRunRecord /\ host[w].up /\ x.sdk = "active"
  BY HostTypes DEF TurnEnds
<1>2. PICK whats \in {<<>>, <<"cancelled">>} : RunMoves(w, r, y, whats)
  BY DEF TurnEnds
<1>3. y \in HostRunRecord /\ y.asks = x.asks
  BY <1>1 DEF HostRunRecord
<1>4. MayBecome(x, y, r)
  BY <1>1 DEF MayBecome, Record, Grows, HostRunRecord, Live, Halted, InHost, Finals
<1> QED BY <1>1, <1>2, <1>3, <1>4, RunMovesIs

LEMMA DisposedIs ==
  ASSUME HostTypeInv, NEW w \in Workers, NEW r \in Runs, NEW how \in {"completed", "failed"},
         Disposed(w, r, how)
  PROVE  HostGoesOn(w)
<1> DEFINE x == host[w].run[r]
<1>1. x \in HostRunRecord /\ host[w].up /\ x.sdk = "settling"
  BY HostTypes DEF Disposed
<1>2. PICK sdk \in {"ended", "failed"} : sdk = IF how = "completed" THEN "ended" ELSE "failed"
  OBVIOUS
<1> DEFINE y == [x EXCEPT !.sdk = sdk]
<1>3. PICK whats \in {<<>>, <<how>>} : RunMoves(w, r, y, whats)
  BY <1>2 DEF Disposed
<1>4. y \in HostRunRecord /\ y.asks = x.asks /\ Live(x) /\ y.sdk \in Finals
  BY <1>1 DEF HostRunRecord, Live, Finals
<1>5. MayBecome(x, y, r)
  BY <1>1 DEF MayBecome, Record, Grows, HostRunRecord, Live, Halted, InHost, Finals
<1> HIDE DEF y
<1> QED BY <1>1, <1>3, <1>4, <1>5, RunMovesIs

LEMMA PlainIs ==
  ASSUME NEW q \in Requests, q.method # "activity"
  PROVE  q \in Plain
BY DEF Requests, Readings

LEMMA AnswersIs ==
  ASSUME NEW h, NEW q \in Plain, NEW result \in Results
  PROVE  \E said \in Results : /\ Answers(h, q, result) = Response(q, said)
                               /\ said \in {result, "cleanup"}
                               /\ Answers(h, q, result) \in Frames
                               /\ Answers(h, q, result) =
                                    [kind |-> "response", of |-> q, result |-> said]
<1>1. PICK said : said = IF h.poisoned THEN "cleanup" ELSE result
  OBVIOUS
<1>2. said \in Results /\ said \in {result, "cleanup"} /\ Answers(h, q, result) = Response(q, said)
  BY <1>1 DEF Answers, Results
<1>3. Answers(h, q, result) \in Frames
  BY <1>2, FrameIs
<1> QED BY <1>2, <1>3 DEF Response

LEMMA SettleStartIs ==
  ASSUME HostTypeInv, NEW w \in Workers, NEW r \in Runs, SettleStart(w, r)
  PROVE  HostGoesOn(w)
<1> DEFINE x == host[w].run[r]
           y == [x EXCEPT !.sdk = "gone"]
<1>1. /\ x \in HostRunRecord /\ host[w].up /\ x.sdk \in {"ended", "failed"}
      /\ host' = [host EXCEPT ![w].run[r] = y] /\ UNCHANGED toWorker
  BY HostTypes DEF SettleStart
<1>2. Request("start", r, 0) \in Plain
  BY FrameIs DEF Plain
<1>3. PICK result \in Results : Says(w, <<Answers(host[w], Request("start", r, 0), result)>>)
  BY DEF SettleStart, Results
<1>4. PICK said \in Results : /\ Answers(host[w], Request("start", r, 0), result) \in Frames
                              /\ Answers(host[w], Request("start", r, 0), result) =
                                   [kind |-> "response", of |-> Request("start", r, 0), result |-> said]
  BY <1>2, AnswersIs
<1>5. PICK fs \in Seq(Frames) : /\ Says(w, fs) /\ Len(fs) = 1
                                /\ \A i \in 1..Len(fs) : fs[i] =
                                     [kind |-> "response", of |-> Request("start", r, 0), result |-> said]
  <2>1. PICK f \in Frames : /\ Says(w, <<f>>)
                            /\ f = [kind |-> "response", of |-> Request("start", r, 0), result |-> said]
    BY <1>3, <1>4
  <2>2. <<f>> \in Seq(Frames) /\ Len(<<f>>) = 1 /\ \A i \in 1..Len(<<f>>) : <<f>>[i] = f
    OBVIOUS
  <2> QED BY <2>1, <2>2
<1>6. y \in HostRunRecord
  BY <1>1 DEF HostRunRecord
<1>7. MayBecome(x, y, r)
  BY <1>1 DEF MayBecome, Record, Grows, HostRunRecord, Live, Halted, InHost, Finals
<1>8. Fits(x, y, toWorker[w], fs, r)
  <2> SUFFICES ASSUME NEW i \in 1..Len(fs)
               PROVE  /\ Concerns(fs[i], r) => x.sdk # "none"
                      /\ IsAnswer(fs[i], r) => ~InHost(y)
                      /\ IsStopped(fs[i], r) => Halted(y)
                      /\ IsEvent(fs[i], r) => fs[i].ask <= y.asks
                      /\ IsTerminal(fs[i], r) => Live(x) /\ y.sdk \in Finals /\ Len(fs) = 1
    BY DEF Fits
  <2>1. ~InHost(y)
    BY <1>1 DEF HostRunRecord, InHost
  <2> QED BY <1>1, <1>5, <2>1 DEF IsAnswer, IsStopped, IsEvent, IsTerminal, IsStart, Request, Asked
<1>9. \A i \in 1..Len(fs), s \in Runs : s # r => ~Concerns(fs[i], s)
  BY <1>5 DEF Concerns, IsAnswer, IsStopped, IsEvent, IsStart, Request, Asked
<1> HIDE DEF y
<1> QED BY <1>1, <1>5, <1>6, <1>7, <1>8, <1>9, OneRunMoves

(* What is said to those who asked for a stop.                              *)
Tells(f, r) ==
  \E q \in RunRequests, said \in Results : q.method = "abort" /\ q.of = r /\ f = Response(q, said)
Told(f, r, n) == f = Event(r, "cancelled", n) \/ Tells(f, r)

LEMMA TalkFits ==
  ASSUME NEW r \in Runs, NEW x \in HostRunRecord, NEW y \in HostRunRecord, NEW in,
         NEW fs \in Seq(Frames), x.sdk # "none", y.asks = x.asks,
         \A i \in 1..Len(fs) : Told(fs[i], r, x.asks) /\ (IsStopped(fs[i], r) => Halted(y))
  PROVE  /\ Fits(x, y, in, fs, r)
         /\ \A i \in 1..Len(fs), s \in Runs : s # r => ~Concerns(fs[i], s)
<1>1. ASSUME NEW i \in 1..Len(fs)
      PROVE  /\ ~IsAnswer(fs[i], r) /\ ~IsTerminal(fs[i], r)
             /\ IsEvent(fs[i], r) => fs[i].ask = x.asks
             /\ \A s \in Runs : s # r => ~Concerns(fs[i], s)
  <2>1. CASE fs[i] = Event(r, "cancelled", x.asks)
    <3>1. fs[i] = [kind |-> "event", of |-> r, result |-> "cancelled", ask |-> x.asks]
      BY <2>1 DEF Event
    <3> QED BY <3>1 DEF IsAnswer, IsTerminal, IsEvent, IsStopped, Concerns
  <2>2. ASSUME NEW q \in RunRequests, NEW said \in Results,
               q.method = "abort", q.of = r, fs[i] = Response(q, said)
        PROVE  /\ ~IsAnswer(fs[i], r) /\ ~IsTerminal(fs[i], r)
               /\ IsEvent(fs[i], r) => fs[i].ask = x.asks
               /\ \A s \in Runs : s # r => ~Concerns(fs[i], s)
    <3>1. fs[i].kind = "response" /\ fs[i].of = q
      BY <2>2 DEF Response
    <3> QED BY <2>2, <3>1 DEF IsAnswer, IsTerminal, IsEvent, IsStopped, Concerns, IsStart
  <2>3. Told(fs[i], r, x.asks)
    OBVIOUS
  <2> QED BY <2>1, <2>2, <2>3 DEF Told, Tells
<1>2. x.asks \in Nat
  BY DEF HostRunRecord
<1> QED BY <1>1, <1>2 DEF Fits

LEMMA TalkJoins ==
  ASSUME NEW r, NEW n, NEW y, NEW s \in Seq(Frames), NEW t \in Seq(Frames),
         \A i \in 1..Len(s) : Told(s[i], r, n) /\ (IsStopped(s[i], r) => Halted(y)),
         \A i \in 1..Len(t) : Told(t[i], r, n) /\ (IsStopped(t[i], r) => Halted(y))
  PROVE  \A k \in 1..Len(s \o t) :
           Told((s \o t)[k], r, n) /\ (IsStopped((s \o t)[k], r) => Halted(y))
<1> SUFFICES ASSUME NEW k \in 1..Len(s \o t)
             PROVE  Told((s \o t)[k], r, n) /\ (IsStopped((s \o t)[k], r) => Halted(y))
  OBVIOUS
<1>1. \/ k \in 1..Len(s) /\ (s \o t)[k] = s[k]
      \/ \E i \in 1..Len(t) : (s \o t)[k] = t[i]
  BY JoinOf
<1> QED BY <1>1

(* Everyone who asked is answered, in any order.                            *)
Asking(asked, r) ==
  /\ asked \in SUBSET Requests /\ IsFiniteSet(asked)
  /\ \A q \in asked : q.method = "abort" /\ q.of = r
AnswersFrom(answer, h, asked, result) ==
  \A f : f \in answer <=> \E q \in asked : f = Answers(h, q, result)

LEMMA OrderedOf ==
  ASSUME NEW S, IsFiniteSet(S), NEW s \in [1..Cardinality(S) -> S]
  PROVE  s \in Seq(S) /\ Len(s) \in Nat /\ \A i \in 1..Len(s) : s[i] \in S
<1>1. Cardinality(S) \in Nat
  BY FS_CardinalityType
<1> QED BY <1>1

LEMMA AnswersTold ==
  ASSUME NEW h, NEW r \in Runs, NEW asked, Asking(asked, r),
         NEW result \in Results, NEW answer, AnswersFrom(answer, h, asked, result)
  PROVE  /\ IsFiniteSet(answer)
         /\ \A f \in answer : f \in Frames /\ Tells(f, r) /\ (IsStopped(f, r) => result = "aborted")
<1>1. IsFiniteSet(answer)
  <2> DEFINE f == [q \in asked |-> Answers(h, q, result)]
  <2>1. f \in Surjection(asked, answer)
    BY DEF Surjection, AnswersFrom
  <2>2. IsFiniteSet(asked)
    BY DEF Asking
  <2> QED BY <2>1, <2>2, FS_Surjection
<1>2. ASSUME NEW f \in answer
      PROVE  f \in Frames /\ Tells(f, r) /\ (IsStopped(f, r) => result = "aborted")
  <2>1. PICK q \in asked : f = Answers(h, q, result)
    BY DEF AnswersFrom
  <2>2. q \in RunRequests /\ q \in Plain /\ q.method = "abort" /\ q.of = r
    BY <2>1 DEF Asking, Requests, Readings, Plain, StartRequests, CallRequests, FenceRequests, OwnRequests
  <2>3. PICK said \in Results : f = Response(q, said) /\ said \in {result, "cleanup"} /\ f \in Frames
    BY <2>1, <2>2, AnswersIs
  <2>4. IsStopped(f, r) => result = "aborted"
    BY <2>3 DEF IsStopped, Response
  <2> QED BY <2>2, <2>3, <2>4 DEF Tells
<1> QED BY <1>1, <1>2

LEMMA AbortSettlesIs ==
  ASSUME HostTypeInv, Places, NEW w \in Workers, NEW r \in Runs, NEW ok \in BOOLEAN,
         AbortSettles(w, r, ok)
  PROVE  HostGoesOn(w)
<1> DEFINE x == host[w].run[r]
           y == [x EXCEPT !.abort = IF ok THEN "aborted" ELSE "idle", !.asked = {},
                          !.promise = IF @ = "none" THEN @ ELSE
                                        IF ok THEN "true" ELSE IF x.late THEN "false" ELSE "none",
                          !.aborted = IF x.promise = "none" \/ x.late THEN @ ELSE ok,
                          !.ask = @ /\ ~ok]
<1>0. PICK result \in Results :
        result = IF x.late THEN "failed" ELSE IF ok THEN "aborted" ELSE "refused"
  BY DEF Results
<1>1. /\ x \in HostRunRecord /\ x.asks \in Nat /\ host[w].up /\ x.abort = "aborting"
      /\ Record(x, r) /\ x.sdk # "none" /\ x.asked \in SUBSET Requests
  <2>1. x \in HostRunRecord /\ x.asks \in Nat /\ host[w].up /\ x.abort = "aborting" /\ Record(x, r)
    BY HostTypes DEF AbortSettles, Places, Place
  <2> QED BY <2>1 DEF Record, NoHostRun, HostRunRecord
<1>c. PICK answer : answer = {Answers(host[w], q, result) : q \in x.asked}
  OBVIOUS
<1>a. AnswersFrom(answer, host[w], x.asked, result)
  BY <1>c DEF AnswersFrom
<1>b. PICK ev : ev = Emits(host[w], r, IF x.ask /\ ok THEN <<"cancelled">> ELSE <<>>)
  OBVIOUS
<1>2. PICK order \in [1..Cardinality(answer) -> answer] : Says(w, ev \o order)
  BY <1>0, <1>c, <1>b DEF AbortSettles
<1>3. host' = [host EXCEPT ![w].run[r] = y] /\ UNCHANGED toWorker
  BY DEF AbortSettles
<1>4. /\ order \in Seq(Frames)
      /\ \A i \in 1..Len(order) : Told(order[i], r, x.asks) /\
           (IsStopped(order[i], r) => result = "aborted")
  <2>1. Asking(x.asked, r)
    BY <1>1 DEF Record, Asking
  <2>2. /\ IsFiniteSet(answer)
        /\ \A f \in answer : /\ f \in Frames /\ Tells(f, r)
                             /\ IsStopped(f, r) => result = "aborted"
    BY <1>a, <2>1, AnswersTold
  <2>3. order \in Seq(answer) /\ \A i \in 1..Len(order) : order[i] \in answer
    BY <2>2, OrderedOf
  <2> QED BY <2>2, <2>3 DEF Told
<1>5. /\ ev \in Seq(Frames)
      /\ \A i \in 1..Len(ev) : Told(ev[i], r, x.asks) /\ ~IsStopped(ev[i], r)
  <2>1. ev = <<>> \/ ev = <<Event(r, "cancelled", x.asks)>>
    BY <1>b DEF Emits
  <2>2. PICK f : f = Event(r, "cancelled", x.asks)
    OBVIOUS
  <2>3. f \in Frames /\ ~IsStopped(f, r) /\ Told(f, r, x.asks)
    BY <1>1, <2>2, FrameIs DEF IsStopped, Event, Told
  <2>4. CASE ev = <<>>
    BY <2>4
  <2>5. CASE ev = <<f>>
    <3>1. ev \in Seq(Frames) /\ \A i \in 1..Len(ev) : ev[i] = f
      BY <2>3, <2>5
    <3> QED BY <2>3, <3>1
  <2> QED BY <2>1, <2>2, <2>4, <2>5
<1>6. PICK fs : fs = ev \o order
  OBVIOUS
<1>7. PICK abort \in {"idle", "aborted"} : abort = IF ok THEN "aborted" ELSE "idle"
  OBVIOUS
<1>8. PICK promise \in {"none", "true", "false"} :
        promise = IF x.promise = "none" THEN x.promise ELSE
                    IF ok THEN "true" ELSE IF x.late THEN "false" ELSE "none"
  OBVIOUS
<1>9. PICK aborted \in BOOLEAN : aborted = IF x.promise = "none" \/ x.late THEN x.aborted ELSE ok
  BY <1>1 DEF HostRunRecord
<1>10. PICK ask \in BOOLEAN : ask = (x.ask /\ ~ok)
  OBVIOUS
<1>11. y = [x EXCEPT !.abort = abort, !.asked = {}, !.promise = promise, !.aborted = aborted, !.ask = ask]
  BY <1>7, <1>8, <1>9, <1>10
<1> HIDE DEF y
<1>12. y \in HostRunRecord /\ y.asks = x.asks /\ y.sdk = x.sdk /\ y.abort = abort /\ y.promise = promise /\ y.asked = {} /\ y.late = x.late
  BY <1>1, <1>11 DEF HostRunRecord
<1>13. (promise = "true" => abort = "aborted") /\ (promise = "false" => x.late)
  BY <1>7, <1>8
<1>14. MayBecome(x, y, r)
  <2>1. IsFiniteSet({})
    BY FS_EmptySet
  <2> QED BY <1>1, <1>12, <1>13, <2>1 DEF MayBecome, Record, Grows, HostRunRecord, Live, Halted, InHost, Finals
<1>15. result = "aborted" => Halted(y)
  BY <1>0, <1>7, <1>12 DEF Halted
<1>16. fs \in Seq(Frames)
  BY <1>4, <1>5, <1>6
<1>17. \A i \in 1..Len(fs) : Told(fs[i], r, x.asks) /\ (IsStopped(fs[i], r) => Halted(y))
  <2>1. \A i \in 1..Len(ev) : Told(ev[i], r, x.asks) /\ (IsStopped(ev[i], r) => Halted(y))
    BY <1>5
  <2>2. \A i \in 1..Len(order) : Told(order[i], r, x.asks) /\ (IsStopped(order[i], r) => Halted(y))
    BY <1>4, <1>15
  <2> QED BY <1>4, <1>5, <1>6, <2>1, <2>2, TalkJoins
<1>18. /\ Fits(x, y, toWorker[w], fs, r)
       /\ \A i \in 1..Len(fs), s \in Runs : s # r => ~Concerns(fs[i], s)
  BY <1>1, <1>12, <1>16, <1>17, TalkFits
<1> QED BY <1>1, <1>2, <1>3, <1>6, <1>12, <1>14, <1>16, <1>18, OneRunMoves

LEMMA AbortDeadlineIs ==
  ASSUME HostTypeInv, Places, NEW w \in Workers, NEW r \in Runs, AbortDeadline(w, r)
  PROVE  HostGoesOn(w)
<1> DEFINE x == host[w].run[r]
           y == [x EXCEPT !.late = TRUE, !.asked = {}]
<1>1. /\ x \in HostRunRecord /\ x.asks \in Nat /\ host[w].up
      /\ Record(x, r) /\ x.sdk # "none" /\ x.asked \in SUBSET Requests
  <2>1. x \in HostRunRecord /\ x.asks \in Nat /\ host[w].up /\ x.promise = "pending" /\ Record(x, r)
    BY HostTypes DEF AbortDeadline, Places, Place
  <2> QED BY <2>1 DEF Record, NoHostRun, HostRunRecord
<1>c. PICK answer : answer = {Answers(host[w], q, "failed") : q \in x.asked}
  OBVIOUS
<1>a. AnswersFrom(answer, host[w], x.asked, "failed")
  BY <1>c DEF AnswersFrom
<1>2. PICK fs \in [1..Cardinality(answer) -> answer] : Says(w, fs)
  BY <1>c DEF AbortDeadline
<1>3. host' = [host EXCEPT ![w].run[r] = y] /\ UNCHANGED toWorker
  BY DEF AbortDeadline
<1>4. /\ fs \in Seq(Frames)
      /\ \A i \in 1..Len(fs) : Told(fs[i], r, x.asks) /\ ~IsStopped(fs[i], r)
  <2>1. "failed" \in Results /\ "failed" # "aborted"
    BY DEF Results
  <2>2. Asking(x.asked, r)
    BY <1>1 DEF Record, Asking
  <2>3. /\ IsFiniteSet(answer)
        /\ \A f \in answer : f \in Frames /\ Tells(f, r) /\ ~IsStopped(f, r)
    <3>1. PICK result \in Results : result = "failed"
      BY <2>1
    <3>2. AnswersFrom(answer, host[w], x.asked, result)
      BY <1>a, <3>1
    <3>3. result # "aborted"
      BY <2>1, <3>1
    <3> QED BY <2>2, <3>2, <3>3, AnswersTold
  <2>4. fs \in Seq(answer) /\ \A i \in 1..Len(fs) : fs[i] \in answer
    BY <2>3, OrderedOf
  <2> QED BY <2>3, <2>4 DEF Told
<1>5. y \in HostRunRecord /\ y.asks = x.asks
  BY <1>1 DEF HostRunRecord
<1>6. MayBecome(x, y, r)
  <2>1. IsFiniteSet({})
    BY FS_EmptySet
  <2> QED BY <1>1, <2>1 DEF MayBecome, Record, Grows, HostRunRecord, Live, Halted, InHost, Finals
<1> HIDE DEF y
<1>7. /\ Fits(x, y, toWorker[w], fs, r)
      /\ \A i \in 1..Len(fs), s \in Runs : s # r => ~Concerns(fs[i], s)
  BY <1>1, <1>4, <1>5, TalkFits
<1> QED BY <1>1, <1>2, <1>3, <1>4, <1>5, <1>6, <1>7, OneRunMoves
-----------------------------------------------------------------------------
(* The steps of the host.                                                   *)
LEMMA OneFrame ==
  ASSUME NEW f \in Frames
  PROVE  <<f>> \in Seq(Frames) /\ Len(<<f>>) = 1 /\ \A i \in 1..Len(<<f>>) : <<f>>[i] = f
OBVIOUS

LEMMA OneFrameFits ==
  ASSUME NEW r, NEW x, NEW y, NEW in, NEW f \in Frames, ~IsTerminal(f, r),
         Concerns(f, r) => x.sdk # "none",
         IsAnswer(f, r) => ~InHost(y), IsStopped(f, r) => Halted(y), ~IsEvent(f, r)
  PROVE  Fits(x, y, in, <<f>>, r)
BY OneFrame DEF Fits

LEMMA ResponseConcerns ==
  ASSUME NEW q, NEW result
  PROVE  /\ Response(q, result).kind = "response"
         /\ Response(q, result).of = q /\ Response(q, result).result = result
         /\ \A r : /\ ~IsEvent(Response(q, result), r) /\ ~IsTerminal(Response(q, result), r)
                   /\ IsAnswer(Response(q, result), r) <=> IsStart(q, r)
                   /\ IsStopped(Response(q, result), r) <=>
                        q.method = "abort" /\ q.of = r /\ result = "aborted"
<1>1. Response(q, result) = [kind |-> "response", of |-> q, result |-> result]
  BY DEF Response
<1> QED BY <1>1 DEF IsEvent, IsTerminal, IsAnswer, IsStopped

LEMMA ClosedIs ==
  ASSUME NEW h \in HostRecord
  PROVE  /\ Closed(h) \in HostRecord /\ Closed(h).up = h.up /\ Closed(h).heard = h.heard
         /\ Closed(h).ops = h.ops
         /\ Poisoned(h) \in HostRecord /\ Poisoned(h).up = h.up /\ Poisoned(h).heard = h.heard
         /\ \A r \in Runs : Closed(h).run[r] = Closing(h.run[r]) /\ Poisoned(h).run[r] = Closing(h.run[r])
<1>1. PICK f : f = [r \in Runs |-> [h.run[r] EXCEPT !.abort = AbortCall(h.run[r])[1]]]
  OBVIOUS
<1>2. \A r \in Runs : h.run[r] \in HostRunRecord
  BY DEF HostRecord
<1>3. \A r \in Runs : f[r] = Closing(h.run[r])
  BY <1>1 DEF Closing
<1>4. \A r \in Runs : f[r] \in HostRunRecord
  BY <1>2, <1>3, ClosingIs
<1>5. f \in [Runs -> HostRunRecord]
  BY <1>1, <1>4
<1>6. Closed(h) = [h EXCEPT !.closed = TRUE, !.run = f]
  BY <1>1 DEF Closed
<1>7. /\ Closed(h) \in HostRecord /\ Closed(h).up = h.up /\ Closed(h).heard = h.heard
      /\ Closed(h).run = f /\ Closed(h).ops = h.ops
  BY <1>5, <1>6 DEF HostRecord
<1>8. Poisoned(h) = [h EXCEPT !.closed = TRUE, !.run = f, !.poisoned = TRUE]
  BY <1>6 DEF Poisoned, HostRecord
<1>9. /\ Poisoned(h) \in HostRecord /\ Poisoned(h).up = h.up /\ Poisoned(h).heard = h.heard
      /\ Poisoned(h).run = f
  BY <1>5, <1>8 DEF HostRecord
<1> QED BY <1>3, <1>7, <1>9

LEMMA OneRunIs ==
  ASSUME NEW h \in HostRecord, NEW r \in Runs, NEW y \in HostRunRecord
  PROVE  LET g == [h EXCEPT !.run[r] = y]
         IN /\ g \in HostRecord /\ g.up = h.up /\ g.heard = h.heard
            /\ \A s \in Runs : g.run[s] = IF s = r THEN y ELSE h.run[s]
<1> DEFINE g == [h EXCEPT !.run[r] = y]
<1>1. h.run \in [Runs -> HostRunRecord]
  BY DEF HostRecord
<1>2. PICK f : f = [h.run EXCEPT ![r] = y]
  OBVIOUS
<1>3. f \in [Runs -> HostRunRecord] /\ \A s \in Runs : f[s] = IF s = r THEN y ELSE h.run[s]
  BY <1>1, <1>2
<1>4. g = [h EXCEPT !.run = f]
  BY <1>2 DEF HostRecord
<1>5. g \in HostRecord /\ g.up = h.up /\ g.heard = h.heard /\ g.run = f
  BY <1>3, <1>4 DEF HostRecord
<1> QED BY <1>3, <1>5

LEMMA DisposalFailsIs ==
  ASSUME HostTypeInv, NEW w \in Workers, NEW r \in Runs, DisposalFails(w, r)
  PROVE  HostGoesOn(w)
<1> DEFINE x == host[w].run[r]
<1>1. PICK h : h = [host[w] EXCEPT !.run[r].sdk = "gone"]
  OBVIOUS
<1>2. /\ x \in HostRunRecord /\ host[w] \in HostRecord /\ host[w].up /\ x.sdk = "settling"
      /\ host' = [host EXCEPT ![w] = Poisoned(h)] /\ UNCHANGED toWorker
      /\ Says(w, <<Response(Request("start", r, 0), "cleanup")>>)
  BY <1>1, HostTypes DEF DisposalFails
<1>3. PICK y : y = [x EXCEPT !.sdk = "gone"]
  OBVIOUS
<1>4. y \in HostRunRecord /\ MayBecome(x, y, r) /\ y.sdk = "gone"
  BY <1>2, <1>3 DEF MayBecome, Record, Grows, HostRunRecord, Live, Halted, InHost, Finals
<1>5. h = [host[w] EXCEPT !.run[r] = y]
  BY <1>1, <1>3
<1>6. /\ h \in HostRecord /\ h.up = host[w].up /\ h.heard = host[w].heard
      /\ \A s \in Runs : h.run[s] = IF s = r THEN y ELSE host[w].run[s]
  BY <1>2, <1>4, <1>5, OneRunIs
<1>7. PICK g : g = Poisoned(h)
  OBVIOUS
<1>8. /\ g \in HostRecord /\ g.up /\ g.heard = host[w].heard
      /\ \A s \in Runs : g.run[s] = Closing(h.run[s])
  BY <1>2, <1>6, <1>7, ClosedIs
<1>9. PICK f : f = Response(Request("start", r, 0), "cleanup")
  OBVIOUS
<1>10. f \in Frames
  <2>1. Request("start", r, 0) \in Plain /\ "cleanup" \in Results
    BY FrameIs DEF Plain, Results
  <2> QED BY <1>9, <2>1, FrameIs
<1>11. \A s \in Runs : /\ ~IsEvent(f, s) /\ ~IsTerminal(f, s) /\ ~IsStopped(f, s)
                       /\ IsAnswer(f, s) <=> s = r
  BY <1>9, ResponseConcerns DEF Request, Asked, IsStart
<1>12. ASSUME NEW s \in Runs
       PROVE  /\ MayBecome(host[w].run[s], g.run[s], s)
              /\ Fits(host[w].run[s], g.run[s], toWorker[w], <<f>>, s)
  <2>1. host[w].run[s] \in HostRunRecord /\ h.run[s] \in HostRunRecord
    BY <1>4, <1>6, HostTypes
  <2>2. MayBecome(host[w].run[s], h.run[s], s)
    BY <1>4, <1>6, <2>1, Stays
  <2>3. g.run[s] \in HostRunRecord /\ MayBecome(h.run[s], g.run[s], s)
    BY <1>8, <2>1, ClosingIs
  <2>4. MayBecome(host[w].run[s], g.run[s], s)
    BY <2>1, <2>2, <2>3, Becomes
  <2>5. s = r => host[w].run[s].sdk # "none" /\ ~InHost(g.run[s])
    <3> SUFFICES ASSUME s = r PROVE host[w].run[s].sdk # "none" /\ ~InHost(g.run[s])
      OBVIOUS
    <3>1. g.run[s] = Closing(y)
      BY <1>6, <1>8
    <3>2. Closing(y).sdk = "gone"
      BY <1>4 DEF Closing, HostRunRecord
    <3> QED BY <1>2, <3>1, <3>2 DEF InHost
  <2>6. Fits(host[w].run[s], g.run[s], toWorker[w], <<f>>, s)
    BY <1>10, <1>11, <2>5, OneFrameFits DEF Concerns
  <2> QED BY <2>4, <2>6
<1>13. <<f>> \in Seq(Frames)
  BY <1>10, OneFrame
<1> QED BY <1>2, <1>7, <1>8, <1>9, <1>12, <1>13, HostMoves

(* An answer that is about no run.                                          *)
LEMMA HostSays ==
  ASSUME HostTypeInv, NEW w \in Workers, host[w].up,
         NEW h \in HostRecord, h.up, h.heard = host[w].heard,
         NEW fs \in Seq(Frames), \A i \in 1..Len(fs), r \in Runs : ~Concerns(fs[i], r),
         host' = [host EXCEPT ![w] = h], Says(w, fs), UNCHANGED toWorker,
         \A r \in Runs : MayBecome(host[w].run[r], h.run[r], r)
  PROVE  HostGoesOn(w)
<1>1. \A r \in Runs : Fits(host[w].run[r], h.run[r], toWorker[w], fs, r)
  BY DEF Fits, Concerns, IsTerminal
<1> QED BY <1>1, HostMoves

LEMMA OperationIs ==
  ASSUME NEW q \in Operations, NEW result \in Results
  PROVE  /\ Response(q, result) \in Frames /\ q \in Plain
         /\ \A r \in Runs : ~Concerns(Response(q, result), r)
<1>1. q \in Plain /\ q.method \notin {"start", "abort"}
  BY DEF Operations, CallRequests, OwnRequests, Plain
<1>2. Response(q, result) \in Frames
  BY <1>1, FrameIs
<1> QED BY <1>1, <1>2, ResponseConcerns DEF Concerns, IsStart

LEMMA InitializedIs ==
  ASSUME HostTypeInv, NEW w \in Workers, Initialized(w)
  PROVE  HostGoesOn(w)
<1>1. host[w] \in HostRecord
  BY HostTypes
<1>2. PICK q \in host[w].ops, ok \in BOOLEAN :
        /\ host[w].up
        /\ host' = [host EXCEPT ![w].initialized = IF ok THEN "yes" ELSE "no", ![w].ops = @ \ {q}]
        /\ Says(w, <<Response(q, IF ok THEN "ok" ELSE "failed")>>) /\ UNCHANGED toWorker
  BY DEF Initialized
<1>3. PICK h : h = [host[w] EXCEPT !.initialized = IF ok THEN "yes" ELSE "no", !.ops = @ \ {q}]
  OBVIOUS
<1>4. /\ h \in HostRecord /\ h.up /\ h.heard = host[w].heard /\ h.run = host[w].run
      /\ q \in Operations
  BY <1>1, <1>2, <1>3 DEF HostRecord
<1>5. host' = [host EXCEPT ![w] = h]
  BY <1>2, <1>3 DEF HostTypeInv
<1>6. PICK result \in Results : result = IF ok THEN "ok" ELSE "failed"
  BY DEF Results
<1>7. PICK f : f = Response(q, result)
  OBVIOUS
<1>8. f \in Frames /\ \A r \in Runs : ~Concerns(f, r)
  BY <1>4, <1>7, OperationIs
<1>9. \A r \in Runs : MayBecome(host[w].run[r], h.run[r], r)
  BY <1>4, HostTypes, Stays
<1>10a. PICK fs : fs = <<f>>
  OBVIOUS
<1>10. fs = <<f>> /\ fs \in Seq(Frames) /\ \A i \in 1..Len(fs), r \in Runs : ~Concerns(fs[i], r)
  BY <1>8, <1>10a, OneFrame
<1>11. Says(w, fs)
  BY <1>2, <1>6, <1>7, <1>10
<1> QED BY <1>2, <1>4, <1>5, <1>9, <1>10, <1>11, HostSays

LEMMA OperationEndsIs ==
  ASSUME HostTypeInv, NEW w \in Workers, OperationEnds(w)
  PROVE  HostGoesOn(w)
<1>1. host[w] \in HostRecord
  BY HostTypes
<1>2. PICK q \in host[w].ops, how \in {"ok", "failed", "cleanup"} :
        /\ host[w].up /\ UNCHANGED toWorker
        /\ LET h == [host[w] EXCEPT !.ops = @ \ {q}]
               next == IF how = "cleanup" THEN Poisoned(h) ELSE h
           IN /\ host' = [host EXCEPT ![w] = next]
              /\ Says(w, <<Answers(next, q, how)>>)
  BY DEF OperationEnds
<1>3. PICK h : h = [host[w] EXCEPT !.ops = @ \ {q}]
  OBVIOUS
<1>4. /\ h \in HostRecord /\ h.up /\ h.heard = host[w].heard /\ h.run = host[w].run
      /\ q \in Operations
  BY <1>1, <1>2, <1>3 DEF HostRecord
<1>5. PICK g : g = IF how = "cleanup" THEN Poisoned(h) ELSE h
  OBVIOUS
<1>6. /\ g \in HostRecord /\ g.up /\ g.heard = host[w].heard
      /\ \A r \in Runs : g.run[r] \in {h.run[r], Closing(h.run[r])}
  BY <1>4, <1>5, ClosedIs
<1>7. host' = [host EXCEPT ![w] = g] /\ Says(w, <<Answers(g, q, how)>>)
  BY <1>2, <1>3, <1>5
<1>8. how \in Results /\ q \in Plain
  BY <1>4 DEF Results, Operations, Plain
<1>9. PICK f : f = Answers(g, q, how)
  OBVIOUS
<1>10. f \in Frames /\ \A r \in Runs : ~Concerns(f, r)
  <2>1. PICK said \in Results : f = Response(q, said)
    BY <1>8, <1>9, AnswersIs
  <2> QED BY <1>4, <2>1, OperationIs
<1>11. \A r \in Runs : MayBecome(host[w].run[r], g.run[r], r)
  BY <1>4, <1>6, HostTypes, Stays, ClosingIs
<1>12a. PICK fs : fs = <<f>>
  OBVIOUS
<1>12. fs = <<f>> /\ fs \in Seq(Frames) /\ \A i \in 1..Len(fs), r \in Runs : ~Concerns(fs[i], r)
  BY <1>10, <1>12a, OneFrame
<1> QED BY <1>2, <1>6, <1>7, <1>9, <1>11, <1>12, HostSays

LEMMA SdkMovesIs ==
  ASSUME HostTypeInv, NEW w \in Workers, SdkMoves(w)
  PROVE  HostGoesOn(w)
<1>1. host[w] \in HostRecord /\ host[w].up /\ UNCHANGED <<toWorker, toApp>>
  BY HostTypes DEF SdkMoves
<1>2. PICK h : h = [host[w] EXCEPT !.rev = @ + 1]
  OBVIOUS
<1>3. /\ h \in HostRecord /\ h.up /\ h.heard = host[w].heard /\ h.run = host[w].run
  BY <1>1, <1>2 DEF HostRecord
<1>4. host' = [host EXCEPT ![w] = h]
  BY <1>2 DEF SdkMoves, HostTypeInv
<1>5. \A r \in Runs : MayBecome(host[w].run[r], h.run[r], r)
  BY <1>3, HostTypes, Stays
<1>6. toApp[w] \o <<>> = toApp[w]
  BY HostTypes
<1>7. Says(w, <<>>)
  BY <1>1, <1>6 DEF Says, HostTypeInv
<1>8a. PICK fs : fs = <<>>
  OBVIOUS
<1>8. fs = <<>> /\ fs \in Seq(Frames) /\ \A i \in 1..Len(fs), r \in Runs : ~Concerns(fs[i], r)
  BY <1>8a, OneFrame
<1> QED BY <1>1, <1>3, <1>4, <1>5, <1>7, <1>8, HostSays
LEMMA AdvanceCleared ==
  ASSUME NEW r, NEW x, x.asks \in Nat, NEW in \in Seq(Requests), NEW out
  PROVE  Advances(x, in, out, x, <<>>, out, r)
<1>1. Len(<<>>) = 0 /\ ~Starts(<<>>, r)
  BY DEF Starts
<1>2. Queued(x, <<>>, out, r)
  BY <1>1 DEF Queued
<1> QED BY <1>1, <1>2 DEF Advances, Place, Untouched, Quiet, Idles, Stops, Spent

LEMMA BlankIs ==
  /\ NoHostRun \in HostRunRecord /\ NewHost \in HostRecord /\ UnbornHost \in HostRecord
  /\ NewHost.up /\ NewHost.heard /\ ~UnbornHost.up /\ ~UnbornHost.heard
  /\ \A r \in Runs : NewHost.run[r] = NoHostRun /\ UnbornHost.run[r] = NoHostRun
<1>1. NoHostRun \in HostRunRecord
  BY DEF NoHostRun, HostRunRecord
<1>2. PICK f \in [Runs -> HostRunRecord] : f = [r \in Runs |-> NoHostRun]
  BY <1>1
<1>3. NewHost = [up |-> TRUE, heard |-> TRUE, initialized |-> "no", closed |-> FALSE, poisoned |-> FALSE,
                 fence |-> None, rev |-> 0, ops |-> {}, run |-> f]
  BY <1>2 DEF NewHost
<1>4. NewHost \in HostRecord
  BY <1>3 DEF HostRecord
<1>5. UnbornHost \in HostRecord /\ ~UnbornHost.up /\ ~UnbornHost.heard /\ UnbornHost.run = NewHost.run
  BY <1>4 DEF UnbornHost, HostRecord
<1> QED BY <1>1, <1>2, <1>3, <1>4, <1>5

LEMMA DiesIs ==
  ASSUME HostTypeInv, NEW w \in Workers, Dies(w)
  PROVE  HostGoesOn(w)
<1>1. /\ host[w].up /\ UNCHANGED toApp /\ toWorker' = [toWorker EXCEPT ![w] = <<>>]
      /\ host[w] \in HostRecord /\ toWorker[w] \in Seq(Requests) /\ toApp[w] \in Seq(Frames)
  BY HostTypes DEF Dies
<1>2. PICK f : f = [r \in Runs |-> Dead(host[w].run[r])]
  OBVIOUS
<1>3. f \in [Runs -> HostRunRecord] /\ \A r \in Runs : f[r] = Dead(host[w].run[r])
  BY <1>2, HostTypes, DeadIs
<1>4. PICK h : h = [UnbornHost EXCEPT !.heard = host[w].heard, !.initialized = "died", !.run = f]
  OBVIOUS
<1>5. h \in HostRecord /\ ~h.up /\ h.heard = host[w].heard /\ h.run = f /\ h.initialized = "died"
  BY <1>1, <1>3, <1>4, BlankIs DEF HostRecord
<1>6. host' = [host EXCEPT ![w] = h]
  BY <1>2, <1>4 DEF Dies
<1>7. host'[w] = h /\ toWorker'[w] = <<>> /\ toApp'[w] = toApp[w] /\ <<>> \in Seq(Requests)
  BY <1>1, <1>6 DEF HostTypeInv
<1>8. Alone(w)
  BY <1>1, <1>5, <1>6, <1>7 DEF Alone, HostTypeInv
<1>9. \A r \in Runs : h.run[r].sdk \in {"none", "gone"}
  BY <1>3, <1>5, HostTypes, DeadIs
<1>10. ASSUME NEW r \in Runs
       PROVE  Advances(host[w].run[r], toWorker[w], toApp[w],
                       host'[w].run[r], toWorker'[w], toApp'[w], r)
  <2> DEFINE x == host[w].run[r]
             y == h.run[r]
  <2>1. x \in HostRunRecord /\ y \in HostRunRecord /\ MayBecome(x, y, r)
    BY <1>3, <1>5, HostTypes, DeadIs
  <2>2. x.asks \in Nat /\ y.asks \in Nat
    BY <2>1 DEF HostRunRecord
  <2>3. Fits(x, y, toWorker[w], <<>>, r) /\ <<>> \in Seq(Frames)
    BY SilenceFits
  <2> HIDE DEF x, y
  <2>4. Advances(x, toWorker[w], toApp[w], y, toWorker[w], toApp[w], r)
    BY <1>1, <2>1, <2>3, AdvanceMoved DEF MayBecome
  <2>5. Advances(y, toWorker[w], toApp[w], y, <<>>, toApp[w], r)
    BY <1>1, <2>2, AdvanceCleared
  <2>6. Advances(x, toWorker[w], toApp[w], y, <<>>, toApp[w], r)
    BY <2>2, <2>4, <2>5, AdvanceFurther
  <2> QED BY <1>7, <2>6 DEF x, y
<1> QED BY <1>1, <1>5, <1>7, <1>8, <1>9, <1>10 DEF HostGoesOn
-----------------------------------------------------------------------------
(* A request is read: the host becomes g, and answers a unless it is None.  *)
Handles(h, q, g, a) ==
  /\ g \in HostRecord /\ g.up = h.up /\ g.heard = h.heard
  /\ a # None => Response(q, a) \in Frames
  /\ \A r \in Runs :
       \/ IsStart(q, r) /\ a = None /\ g.run[r] = [h.run[r] EXCEPT !.sdk = "starting"]
       \/ /\ MayBecome(h.run[r], g.run[r], r)
          /\ IsStart(q, r) => a # None /\ g.run[r] = h.run[r]
          /\ q.method = "abort" /\ q.of = r /\ a = "aborted" /\ Record(h.run[r], r)
               => h.run[r].sdk # "none" /\ Halted(g.run[r])

Scripts == {"ok", "failed", "cleanup", "refused"}

LEMMA NoneIsNone == None \notin Results /\ Scripts \in SUBSET Results /\ "aborted" \notin Scripts
BY HostAssumption DEF Results, Scripts

(* The host is as it was, or only what concerns no run moved.               *)
LEMMA AnsweredIs ==
  ASSUME NEW h \in HostRecord, NEW q \in Requests, NEW g \in HostRecord,
         g.up = h.up, g.heard = h.heard, g.run = h.run,
         NEW a, \/ q \in Plain /\ a \in Scripts
                \/ q \in Readings /\ a \in Observations
  PROVE  Handles(h, q, g, a)
<1>1. Response(q, a) \in Frames
  BY NoneIsNone, FrameIs
<1>2. ASSUME NEW r \in Runs
      PROVE  /\ MayBecome(h.run[r], g.run[r], r)
             /\ IsStart(q, r) => a # None /\ g.run[r] = h.run[r]
             /\ ~(q.method = "abort" /\ a = "aborted")
  <2>1. h.run[r] \in HostRunRecord
    BY DEF HostRecord
  <2>2. q \in Readings => q.method = "activity"
    BY DEF Readings
  <2>3. q \notin Readings => a # None /\ a # "aborted"
    BY NoneIsNone
  <2> QED BY <2>1, <2>2, <2>3, Stays DEF IsStart
<1> QED BY <1>1, <1>2 DEF Handles

LEMMA SilentIs ==
  ASSUME NEW h \in HostRecord, NEW q \in Requests, q.method \notin {"start", "abort"},
         NEW g \in HostRecord, g.up = h.up, g.heard = h.heard,
         \A r \in Runs : MayBecome(h.run[r], g.run[r], r)
  PROVE  Handles(h, q, g, None)
BY DEF Handles, IsStart

LEMMA AdmissionIs ==
  ASSUME NEW h \in HostRecord, NEW q \in FenceRequests
  PROVE  Handles(h, q, Admission(h, q)[1], Admission(h, q)[2])
<1>1. q \in Plain /\ q \in Requests /\ q.of \in Fences
  BY DEF Plain, Requests, FenceRequests
<1>2. "ok" \in Scripts /\ "failed" \in Scripts
  BY DEF Scripts
<1>3. CASE h.initialized # "yes" \/ h.fence \notin {None, q.of}
  <2>1. Admission(h, q) = <<h, "failed">>
    BY <1>3 DEF Admission
  <2> QED BY <1>1, <1>2, <2>1, AnsweredIs
<1>4. CASE ~(h.initialized # "yes" \/ h.fence \notin {None, q.of})
  <2>1. PICK next : next = IF q.method = "close" THEN q.of ELSE None
    OBVIOUS
  <2>2. PICK g : g = [h EXCEPT !.fence = next, !.rev = IF next = h.fence THEN @ ELSE 0]
    OBVIOUS
  <2>3. Admission(h, q) = <<g, "ok">>
    BY <1>4, <2>1, <2>2 DEF Admission
  <2>4. g \in HostRecord /\ g.up = h.up /\ g.heard = h.heard /\ g.run = h.run
    BY <1>1, <2>1, <2>2 DEF HostRecord
  <2> QED BY <1>1, <1>2, <2>3, <2>4, AnsweredIs
<1> QED BY <1>3, <1>4

LEMMA RefusedIs ==
  ASSUME NEW h \in HostRecord, NEW q \in Requests, NEW result \in {"cleanup", "failed"}
  PROVE  Handles(h, q, h, Refusal(q, result))
<1>1. CASE q.method = "activity"
  <2>1. q \in Readings
    BY <1>1 DEF Requests, Plain, StartRequests, RunRequests, CallRequests, FenceRequests, OwnRequests
  <2>2. Refusal(q, result) = Unobserved /\ Unobserved \in Observations
    BY <1>1 DEF Refusal, Unobserved, Observations
  <2> QED BY <2>1, <2>2, AnsweredIs
<1>2. CASE q.method # "activity"
  <2>1. q \in Plain
    BY <1>2, PlainIs
  <2>2. Refusal(q, result) = result /\ result \in Scripts
    BY <1>2 DEF Refusal, Scripts
  <2> QED BY <2>1, <2>2, AnsweredIs
<1> QED BY <1>1, <1>2

LEMMA ObservedIs ==
  ASSUME NEW h \in HostRecord, NEW q \in Requests, q.method = "activity"
  PROVE  Handles(h, q, h, Observed(h))
<1>1. q \in Readings
  BY DEF Requests, Plain, StartRequests, RunRequests, CallRequests, FenceRequests, OwnRequests
<1>2. PICK idle \in BOOLEAN : idle = (h.fence # None /\ Idle(h))
  OBVIOUS
<1>3. Observed(h) = [fence |-> h.fence, rev |-> h.rev, idle |-> idle]
  BY <1>2 DEF Observed
<1>4. Observed(h) \in Observations
  BY <1>3 DEF HostRecord, Observations
<1> QED BY <1>1, <1>4, AnsweredIs
LEMMA OperationBegins ==
  ASSUME NEW h \in HostRecord, NEW q \in Operations,
         NEW initialized \in {"no", "running", "yes", "died"}
  PROVE  Handles(h, q, [h EXCEPT !.initialized = initialized, !.ops = @ \cup {q}], None)
<1>1. PICK g : g = [h EXCEPT !.initialized = initialized, !.ops = @ \cup {q}]
  OBVIOUS
<1>2. g \in HostRecord /\ g.up = h.up /\ g.heard = h.heard /\ g.run = h.run
  BY <1>1 DEF HostRecord
<1>3. q \in Requests /\ q.method \notin {"start", "abort"}
  BY DEF Operations, CallRequests, OwnRequests, Requests, Plain
<1>4. \A r \in Runs : MayBecome(h.run[r], g.run[r], r)
  <2>1. \A r \in Runs : h.run[r] \in HostRunRecord
    BY DEF HostRecord
  <2> QED BY <1>2, <2>1, Stays
<1> QED BY <1>1, <1>2, <1>3, <1>4, SilentIs

LEMMA StartServed ==
  ASSUME NEW h \in HostRecord, NEW q \in Requests, q.method = "start"
  PROVE  Handles(h, q, Served(h, q)[1], Served(h, q)[2])
<1>1. q.of \in Runs /\ h.run[q.of] \in HostRunRecord
  BY DEF HostRecord, Requests, Plain, StartRequests, RunRequests, CallRequests, FenceRequests,
         OwnRequests, Readings
<1>2. PICK y : y = [h.run[q.of] EXCEPT !.sdk = "starting"]
  OBVIOUS
<1>3. y \in HostRunRecord
  BY <1>1, <1>2 DEF HostRunRecord
<1>4. PICK g : g = [h EXCEPT !.run[q.of] = y]
  OBVIOUS
<1>5. Served(h, q) = <<g, None>>
  BY <1>2, <1>4 DEF Served
<1>6. /\ g \in HostRecord /\ g.up = h.up /\ g.heard = h.heard
      /\ \A s \in Runs : g.run[s] = IF s = q.of THEN y ELSE h.run[s]
  BY <1>1, <1>3, <1>4, OneRunIs
<1>7. ASSUME NEW r \in Runs
      PROVE  \/ IsStart(q, r) /\ g.run[r] = [h.run[r] EXCEPT !.sdk = "starting"]
             \/ MayBecome(h.run[r], g.run[r], r) /\ ~IsStart(q, r)
  <2>1. CASE r = q.of
    BY <1>2, <1>6, <2>1 DEF IsStart
  <2>2. CASE r # q.of
    <3>1. h.run[r] \in HostRunRecord /\ g.run[r] = h.run[r]
      BY <1>6, <2>2 DEF HostRecord
    <3> QED BY <2>2, <3>1, Stays DEF IsStart
  <2> QED BY <2>1, <2>2
<1>8. Handles(h, q, g, None)
  BY <1>6, <1>7 DEF Handles
<1> QED BY <1>5, <1>8

LEMMA AbortServed ==
  ASSUME NEW h \in HostRecord, NEW q \in Requests, q.method = "abort"
  PROVE  Handles(h, q, Served(h, q)[1], Served(h, q)[2])
<1>1. q \in Plain /\ q.of \in Runs /\ h.run[q.of] \in HostRunRecord
  BY DEF HostRecord, Requests, Plain, StartRequests, RunRequests, CallRequests, FenceRequests,
         OwnRequests, Readings
<1> DEFINE x == h.run[q.of]
<1>2. CASE ~InHost(x)
  <2>1. Served(h, q) = <<h, "failed">>
    BY <1>2 DEF Served
  <2>2. "failed" \in Scripts
    BY DEF Scripts
  <2> QED BY <1>1, <2>1, <2>2, AnsweredIs
<1>3. CASE InHost(x)
  <2>1. PICK y, a : y = AbortRequested(x, q)[1] /\ a = AbortRequested(x, q)[2]
    OBVIOUS
  <2>2. /\ y \in HostRunRecord /\ MayBecome(x, y, q.of) /\ a \in {None, "failed", "aborted", "refused"}
        /\ Record(x, q.of) /\ a = "aborted" => Halted(y)
    BY <1>1, <1>3, <2>1, AbortRequestedIs
  <2>3. PICK g : g = [h EXCEPT !.run[q.of] = y]
    OBVIOUS
  <2>4. Served(h, q) = <<g, a>>
    BY <1>3, <2>1, <2>3 DEF Served
  <2>5. /\ g \in HostRecord /\ g.up = h.up /\ g.heard = h.heard
        /\ \A s \in Runs : g.run[s] = IF s = q.of THEN y ELSE h.run[s]
    BY <1>1, <2>2, <2>3, OneRunIs
  <2>6. a # None => Response(q, a) \in Frames
    BY <1>1, <2>2, FrameIs DEF Results
  <2>7. ASSUME NEW r \in Runs
        PROVE  /\ MayBecome(h.run[r], g.run[r], r) /\ ~IsStart(q, r)
               /\ q.of = r /\ a = "aborted" /\ Record(h.run[r], r)
                    => h.run[r].sdk # "none" /\ Halted(g.run[r])
    <3>1. CASE r = q.of
      BY <1>3, <2>2, <2>5, <3>1 DEF IsStart, InHost
    <3>2. CASE r # q.of
      <4>1. h.run[r] \in HostRunRecord /\ g.run[r] = h.run[r]
        BY <2>5, <3>2 DEF HostRecord
      <4> QED BY <3>2, <4>1, Stays DEF IsStart
    <3> QED BY <3>1, <3>2
  <2>8. Handles(h, q, g, a)
    BY <2>5, <2>6, <2>7 DEF Handles
  <2> QED BY <2>4, <2>8
<1> QED BY <1>2, <1>3

LEMMA ReplyServed ==
  ASSUME NEW h \in HostRecord, NEW q \in Requests, q.method = "reply"
  PROVE  Handles(h, q, Served(h, q)[1], Served(h, q)[2])
<1>1. q \in Plain /\ q.of \in Runs /\ h.run[q.of] \in HostRunRecord
  BY DEF HostRecord, Requests, Plain, StartRequests, RunRequests, CallRequests, FenceRequests,
         OwnRequests, Readings
<1> DEFINE x == h.run[q.of]
<1>2. "failed" \in Scripts /\ "ok" \in Scripts /\ "refused" \in Scripts
  BY DEF Scripts
<1>3. CASE ~InHost(x)
  <2>1. Served(h, q) = <<h, "failed">>
    BY <1>3 DEF Served
  <2> QED BY <1>1, <1>2, <2>1, AnsweredIs
<1>4. CASE InHost(x) /\ ~(x.ask /\ x.asks = q.ask)
  <2>1. Served(h, q) = <<h, "refused">>
    BY <1>4 DEF Served
  <2> QED BY <1>1, <1>2, <2>1, AnsweredIs
<1>5. CASE InHost(x) /\ x.ask /\ x.asks = q.ask
  <2>1. PICK y : y = [x EXCEPT !.ask = FALSE]
    OBVIOUS
  <2>2. y \in HostRunRecord /\ MayBecome(x, y, q.of)
    <3>1. y \in HostRunRecord
      BY <1>1, <2>1 DEF HostRunRecord
    <3>2. /\ y.sdk = x.sdk /\ y.abort = x.abort /\ y.promise = x.promise /\ y.asked = x.asked /\ y.late = x.late
          /\ y.asks = x.asks /\ x.asks \in Nat
      BY <1>1, <2>1 DEF HostRunRecord
    <3>3. x.sdk # "none"
      BY <1>5 DEF InHost
    <3> QED BY <3>1, <3>2, <3>3 DEF MayBecome, Record, Grows, Live, Halted, InHost, Finals
  <2>3. PICK g : g = [h EXCEPT !.run[q.of] = y]
    OBVIOUS
  <2>4. Served(h, q) = <<g, "ok">>
    BY <1>5, <2>1, <2>3 DEF Served
  <2>5. /\ g \in HostRecord /\ g.up = h.up /\ g.heard = h.heard
        /\ \A s \in Runs : g.run[s] = IF s = q.of THEN y ELSE h.run[s]
    BY <1>1, <2>2, <2>3, OneRunIs
  <2>6. Response(q, "ok") \in Frames
    BY <1>1, FrameIs DEF Results
  <2>7. ASSUME NEW r \in Runs PROVE MayBecome(h.run[r], g.run[r], r)
    <3>1. h.run[r] \in HostRunRecord
      BY DEF HostRecord
    <3> QED BY <2>2, <2>5, <3>1, Stays
  <2>8. Handles(h, q, g, "ok")
    BY <2>5, <2>6, <2>7 DEF Handles, IsStart
  <2> QED BY <2>4, <2>8
<1> QED BY <1>3, <1>4, <1>5

LEMMA ShutdownServed ==
  ASSUME NEW h \in HostRecord, NEW q \in Requests, q.method = "shutdown"
  PROVE  Handles(h, q, Served(h, q)[1], Served(h, q)[2])
<1>1. q \in Operations
  BY DEF Requests, Plain, StartRequests, RunRequests, CallRequests, FenceRequests,
         OwnRequests, Readings, Operations
<1>2. PICK c : c = Closed(h)
  OBVIOUS
<1>3. /\ c \in HostRecord /\ c.up = h.up /\ c.heard = h.heard
      /\ \A r \in Runs : c.run[r] = Closing(h.run[r])
  BY <1>2, ClosedIs
<1>4. PICK g : g = [c EXCEPT !.ops = @ \cup {q}]
  OBVIOUS
<1>5. Served(h, q) = <<g, None>>
  BY <1>2, <1>4 DEF Served
<1>6. g \in HostRecord /\ g.up = h.up /\ g.heard = h.heard /\ g.run = c.run
  BY <1>1, <1>3, <1>4 DEF HostRecord
<1>7. \A r \in Runs : MayBecome(h.run[r], g.run[r], r)
  <2>1. \A r \in Runs : h.run[r] \in HostRunRecord
    BY DEF HostRecord
  <2> QED BY <1>3, <1>6, <2>1, ClosingIs
<1>8. Handles(h, q, g, None)
  BY <1>6, <1>7, SilentIs
<1> QED BY <1>5, <1>8

LEMMA ServedIs ==
  ASSUME NEW h \in HostRecord, NEW q \in Requests, q.method \notin ControlMethods
  PROVE  Handles(h, q, Served(h, q)[1], Served(h, q)[2])
<1>1. CASE q.method = "initialize"
  <2>1. Served(h, q) = <<[h EXCEPT !.initialized = "running", !.ops = @ \cup {q}], None>>
    BY <1>1 DEF Served
  <2>2. q \in Operations
    BY <1>1, SMTT(30) DEF Requests, Plain, StartRequests, RunRequests, CallRequests, FenceRequests,
         OwnRequests, Readings, Operations
  <2>3. Handles(h, q, [h EXCEPT !.initialized = "running", !.ops = @ \cup {q}], None)
    BY <2>2, OperationBegins
  <2> QED BY <2>1, <2>3
<1>2. CASE q.method \in {"query", "follow"}
  <2>1. Served(h, q) = <<[h EXCEPT !.ops = @ \cup {q}], None>>
    BY <1>2 DEF Served
  <2>2. q \in Operations
    BY <1>2 DEF Requests, Plain, StartRequests, RunRequests, CallRequests, FenceRequests,
         OwnRequests, Readings, Operations
  <2>3. [h EXCEPT !.ops = @ \cup {q}] = [h EXCEPT !.initialized = h.initialized, !.ops = @ \cup {q}]
    BY DEF HostRecord
  <2>4. h.initialized \in {"no", "running", "yes", "died"}
    BY DEF HostRecord
  <2>5. Handles(h, q, [h EXCEPT !.initialized = h.initialized, !.ops = @ \cup {q}], None)
    BY <2>2, <2>4, OperationBegins
  <2> QED BY <2>1, <2>3, <2>5
<1>3. q.method \in {"initialize", "query", "follow", "start", "abort", "reply", "shutdown"}
  BY DEF ControlMethods, Requests, Plain, StartRequests, RunRequests, CallRequests, FenceRequests,
         OwnRequests, Readings
<1> QED BY <1>1, <1>2, <1>3, StartServed, AbortServed, ReplyServed, ShutdownServed

LEMMA HandledIs ==
  ASSUME NEW h \in HostRecord, NEW q \in Requests
  PROVE  Handles(h, q, Handled(h, q)[1], Handled(h, q)[2])
<1>1. CASE h.poisoned
  <2>1. Handled(h, q) = <<h, Refusal(q, "cleanup")>>
    BY <1>1 DEF Handled
  <2> QED BY <2>1, RefusedIs
<1>2. CASE ~h.poisoned /\ h.closed
  <2>1. Handled(h, q) = <<h, Refusal(q, "failed")>>
    BY <1>2 DEF Handled
  <2> QED BY <2>1, RefusedIs
<1>3. CASE ~h.poisoned /\ ~h.closed /\ q.method = "activity"
  <2>1. Handled(h, q) = <<h, Observed(h)>>
    BY <1>3 DEF Handled, FencedMethods, ControlMethods
  <2> QED BY <1>3, <2>1, ObservedIs
<1>4. CASE ~h.poisoned /\ ~h.closed /\ q.method \in {"close", "open"}
  <2>1. Handled(h, q) = Admission(h, q)
    BY <1>4 DEF Handled, FencedMethods, ControlMethods
  <2>2. q \in FenceRequests
    BY <1>4 DEF Requests, Plain, StartRequests, RunRequests, CallRequests, OwnRequests, Readings
  <2> QED BY <2>1, <2>2, AdmissionIs
<1>5. ASSUME q.method \notin ControlMethods, ~h.poisoned, ~h.closed
      PROVE  Handles(h, q, Handled(h, q)[1], Handled(h, q)[2])
  <2>1. q \in Plain /\ "failed" \in Scripts
    BY <1>5, PlainIs DEF ControlMethods, Scripts
  <2>2. Handled(h, q) = <<h, "failed">> \/ Handled(h, q) = Served(h, q)
    BY <1>5 DEF Handled, FencedMethods, ControlMethods
  <2>3. Handles(h, q, h, "failed")
    BY <2>1, AnsweredIs
  <2> QED BY <1>5, <2>2, <2>3, ServedIs
<1> QED BY <1>1, <1>2, <1>3, <1>4, <1>5 DEF ControlMethods
(* The start of a run is taken: it begins, or is refused.                   *)
LEMMA AdvanceBegun ==
  ASSUME NEW r \in Runs, NEW x \in HostRunRecord, NEW in \in Seq(Requests), in # <<>>,
         IsStart(Head(in), r), NEW out \in Seq(Frames),
         NEW y \in HostRunRecord, y.asks = x.asks, x = NoHostRun => Record(y, r),
         NEW fs \in Seq(Frames), x = NoHostRun => \A i \in 1..Len(fs) :
           (IsAnswer(fs[i], r) => ~InHost(y)) /\ ~IsStopped(fs[i], r) /\ ~IsEvent(fs[i], r)
  PROVE  /\ Advances(x, in, out, y, Tail(in), out, r)
         /\ Advances(x, in, out, y, Tail(in), out \o fs, r)
<1>1. 1 \in 1..Len(in) /\ Head(in) = in[1]
  BY TailOf
<1>2. Starts(in, r)
  BY <1>1 DEF Starts
<1>3. SUFFICES ASSUME Place(x, in, out, r)
               PROVE  /\ Place(y, Tail(in), out, r) /\ Place(y, Tail(in), out \o fs, r)
  <2>1. x.asks \in Nat
    BY DEF HostRunRecord
  <2> QED BY <1>2, <2>1 DEF Advances, Untouched, Quiet, Idles, Stops, Spent
<1>4. x = NoHostRun /\ ~Starts(Tail(in), r) /\ \A k \in 1..Len(out) : ~Concerns(out[k], r)
  BY <1>3, AdvanceTaken
<1>5. PICK rest : rest = Tail(in)
  OBVIOUS
<1>6. \A any : Queued(y, rest, any, r)
  BY <1>4, <1>5 DEF Queued, Starts
<1>7. PICK all : all = out \o fs
  OBVIOUS
<1>8. \A k \in 1..Len(all) : \/ k \in 1..Len(out) /\ all[k] = out[k]
                             \/ \E i \in 1..Len(fs) : all[k] = fs[i]
  <2> SUFFICES ASSUME NEW k \in 1..Len(all)
               PROVE  \/ k \in 1..Len(out) /\ all[k] = out[k]
                      \/ \E i \in 1..Len(fs) : all[k] = fs[i]
    OBVIOUS
  <2> QED BY <1>7, JoinOf
<1>9. Said(y, out, r)
  BY <1>4 DEF Said, Concerns, IsTerminal
<1>10. Said(y, all, r)
  BY <1>4, <1>8 DEF Said, Concerns, IsTerminal
<1> QED BY <1>4, <1>5, <1>6, <1>7, <1>9, <1>10 DEF Place

LEMMA HandleAdvances ==
  ASSUME NEW r \in Runs, NEW x \in HostRunRecord, NEW in \in Seq(Requests), in # <<>>,
         NEW out \in Seq(Frames), NEW y \in HostRunRecord, NEW fs \in Seq(Frames),
         NEW a, fs = IF a = None THEN <<>> ELSE <<Response(Head(in), a)>>,
         a # None => Response(Head(in), a) \in Frames,
         \/ IsStart(Head(in), r) /\ a = None /\ y = [x EXCEPT !.sdk = "starting"]
         \/ /\ MayBecome(x, y, r)
            /\ IsStart(Head(in), r) => a # None /\ y = x
            /\ Head(in).method = "abort" /\ Head(in).of = r /\ a = "aborted" /\ Record(x, r)
                 => x.sdk # "none" /\ Halted(y)
  PROVE  /\ Advances(x, in, out, y, Tail(in), out, r)
         /\ Advances(x, in, out, y, Tail(in), out \o fs, r)
<1> DEFINE q == Head(in)
<1>1. CASE a = None
  <2>1. fs = <<>> /\ Len(fs) = 0 /\ \A z, v : Fits(z, v, Tail(in), fs, r)
    BY <1>1, SilenceFits
  <2> QED
    <3>1. CASE IsStart(q, r)
      <4>1. y = [x EXCEPT !.sdk = "starting"]
        BY <1>1, <3>1
      <4>2. y.asks = x.asks /\ (x = NoHostRun => Record(y, r))
        <5>1. /\ y.asks = x.asks /\ y.sdk = "starting" /\ y.promise = x.promise
              /\ y.asked = x.asked
          BY <4>1 DEF HostRunRecord
        <5>2. x = NoHostRun => x.promise = "none" /\ x.asked = {}
          BY DEF NoHostRun
        <5> QED BY <5>1, <5>2, FS_EmptySet DEF Record
      <4>3. \A i \in 1..Len(fs) :
              (IsAnswer(fs[i], r) => ~InHost(y)) /\ ~IsStopped(fs[i], r) /\ ~IsEvent(fs[i], r)
        BY <2>1
      <4> QED BY <3>1, <4>2, <4>3, AdvanceBegun
    <3>2. CASE ~IsStart(q, r)
      <4>1. MayBecome(x, y, r)
        BY <3>2
      <4>2. Tail(in) \in Seq(Requests)
        OBVIOUS
      <4>3. /\ Advances(x, Tail(in), out, y, Tail(in), out, r)
            /\ Advances(x, Tail(in), out, y, Tail(in), out \o fs, r)
        BY <2>1, <4>1, <4>2, AdvanceMoved DEF MayBecome
      <4>4. Advances(x, in, out, x, Tail(in), out, r)
        BY AdvanceTaken
      <4>5. x.asks \in Nat /\ y.asks \in Nat
        BY DEF HostRunRecord
      <4> QED BY <4>3, <4>4, <4>5, AdvanceFurther
    <3> QED BY <3>1, <3>2
<1>2. CASE a # None
  <2>0. PICK f : f = Response(q, a)
    OBVIOUS
  <2>1. f = Response(q, a) /\ f \in Frames /\ fs = <<f>>
    BY <1>2, <2>0
  <2>2. /\ ~IsEvent(f, r) /\ ~IsTerminal(f, r) /\ (IsAnswer(f, r) <=> IsStart(q, r))
        /\ IsStopped(f, r) <=> q.method = "abort" /\ q.of = r /\ a = "aborted"
    BY <2>1, ResponseConcerns
  <2>3. Len(fs) = 1 /\ \A i \in 1..Len(fs) : fs[i] = f
    <3>1. PICK only : only = <<f>>
      OBVIOUS
    <3>2. Len(only) = 1 /\ \A i \in 1..Len(only) : only[i] = f
      BY <2>1, <3>1, OneFrame
    <3>3. fs = only
      BY <2>1, <3>1
    <3> QED BY <3>2, <3>3
  <2>4. MayBecome(x, y, r)
    BY <1>2
  <2>5. CASE IsStart(q, r)
    <3>1. y = x /\ ~IsStopped(f, r)
      BY <1>2, <2>2, <2>5 DEF IsStart
    <3>2. x = NoHostRun => Record(y, r) /\ ~InHost(y)
      BY <3>1, FS_EmptySet DEF Record, NoHostRun, InHost
    <3> QED BY <2>2, <2>3, <2>5, <3>1, <3>2, AdvanceBegun
  <2>6. CASE ~IsStart(q, r) /\ Record(x, r)
    <3>1. Tail(in) \in Seq(Requests)
      OBVIOUS
    <3>2. Concerns(f, r) => IsStopped(f, r) /\ x.sdk # "none" /\ Halted(y)
      BY <1>2, <2>2, <2>6 DEF Concerns
    <3>3. Fits(x, y, Tail(in), fs, r)
      BY <2>1, <2>2, <2>6, <3>2, OneFrameFits DEF Concerns
    <3>4. /\ Advances(x, Tail(in), out, y, Tail(in), out, r)
          /\ Advances(x, Tail(in), out, y, Tail(in), out \o fs, r)
      BY <2>4, <3>1, <3>3, AdvanceMoved DEF MayBecome
    <3>5. Advances(x, in, out, x, Tail(in), out, r)
      BY AdvanceTaken
    <3>6. x.asks \in Nat /\ y.asks \in Nat
      BY DEF HostRunRecord
    <3> QED BY <3>4, <3>5, <3>6, AdvanceFurther
  <2>7. CASE ~Record(x, r)
    BY <2>7 DEF Advances, Place
  <2> QED BY <2>5, <2>6, <2>7
<1> QED BY <1>1, <1>2

LEMMA HandleIs ==
  ASSUME HostTypeInv, NEW w \in Workers, Handle(w)
  PROVE  HostGoesOn(w)
<1>1. /\ host[w].up /\ toWorker[w] # <<>> /\ toWorker' = [toWorker EXCEPT ![w] = Tail(toWorker[w])]
      /\ host[w] \in HostRecord /\ toWorker[w] \in Seq(Requests) /\ toApp[w] \in Seq(Frames)
  BY HostTypes DEF Handle, HostTypeInv
<1>2. PICK q, in, out : q = Head(toWorker[w]) /\ in = toWorker[w] /\ out = toApp[w]
  OBVIOUS
<1>3. /\ in \in Seq(Requests) /\ in # <<>> /\ out \in Seq(Frames) /\ q = Head(in)
      /\ q \in Requests /\ Tail(in) \in Seq(Requests)
  BY <1>1, <1>2
<1>4. PICK g, a : g = Handled(host[w], q)[1] /\ a = Handled(host[w], q)[2]
  OBVIOUS
<1>5. Handles(host[w], q, g, a)
  BY <1>1, <1>3, <1>4, HandledIs
<1>6. PICK fs : fs = IF a = None THEN <<>> ELSE <<Response(q, a)>>
  OBVIOUS
<1>7. host' = [host EXCEPT ![w] = g] /\ Says(w, fs)
  BY <1>2, <1>4, <1>6 DEF Handle
<1>8. fs \in Seq(Frames)
  <2>1. CASE a = None
    BY <1>6, <2>1
  <2>2. CASE a # None
    <3>1. Response(q, a) \in Frames
      BY <1>5, <2>2 DEF Handles
    <3> QED BY <1>6, <2>2, <3>1
  <2> QED BY <2>1, <2>2
<1>9. g \in HostRecord /\ g.up = host[w].up /\ g.heard = host[w].heard
  BY <1>5 DEF Handles
<1>10. /\ toApp' = [toApp EXCEPT ![w] = IF host[w].heard THEN out \o fs ELSE out]
       /\ out \o fs \in Seq(Frames)
  BY <1>2, <1>3, <1>7, <1>8 DEF Says, HostTypeInv
<1>11. /\ host'[w] = g /\ toWorker'[w] = Tail(in)
       /\ toApp'[w] = IF host[w].heard THEN out \o fs ELSE out
  BY <1>1, <1>2, <1>7, <1>10 DEF HostTypeInv
<1>12. Alone(w)
  BY <1>1, <1>2, <1>3, <1>7, <1>9, <1>10 DEF Alone, HostTypeInv
<1>13. ASSUME NEW r \in Runs
       PROVE  Advances(host[w].run[r], toWorker[w], toApp[w],
                       host'[w].run[r], toWorker'[w], toApp'[w], r)
  <2>1. host[w].run[r] \in HostRunRecord /\ g.run[r] \in HostRunRecord
    BY <1>1, <1>9 DEF HostRecord
  <2>2. /\ a # None => Response(q, a) \in Frames
        /\ \/ IsStart(q, r) /\ a = None /\ g.run[r] = [host[w].run[r] EXCEPT !.sdk = "starting"]
           \/ /\ MayBecome(host[w].run[r], g.run[r], r)
              /\ IsStart(q, r) => a # None /\ g.run[r] = host[w].run[r]
              /\ q.method = "abort" /\ q.of = r /\ a = "aborted" /\ Record(host[w].run[r], r)
                   => host[w].run[r].sdk # "none" /\ Halted(g.run[r])
    BY <1>5 DEF Handles
  <2>3. PICK x, y : x = host[w].run[r] /\ y = g.run[r]
    OBVIOUS
  <2>4. /\ Advances(x, in, out, y, Tail(in), out, r)
        /\ Advances(x, in, out, y, Tail(in), out \o fs, r)
    BY <1>3, <1>6, <1>8, <2>1, <2>2, <2>3, HandleAdvances
  <2> QED BY <1>2, <1>11, <2>3, <2>4
<1> QED BY <1>1, <1>2, <1>9, <1>11, <1>12, <1>13 DEF HostGoesOn

LEMMA HostStepIs ==
  ASSUME HostTypeInv, Places, NEW w \in Workers, HostStep(w)
  PROVE  HostGoesOn(w)
<1>1. ASSUME NEW r \in Runs, HostRunStep(w, r)
      PROVE  HostGoesOn(w)
  BY <1>1, SessionStartsIs, StartFailsIs, AskPresentedIs, AskCancelledIs, TurnEndsIs, DisposedIs,
     DisposalFailsIs, AbortSettlesIs, AbortDeadlineIs, SettleStartIs DEF HostRunStep
<1> QED BY <1>1, HandleIs, InitializedIs, OperationEndsIs, SdkMovesIs, DiesIs DEF HostStep
-----------------------------------------------------------------------------
(* The supervisor.                                                         *)
RunRecord ==
  [phase : {"none", "registered", "issued", "over"},
   at : {"none", "starting", "termination", "ready", "options", "reply", "replied", "done"},
   under : Workers \cup {None}, aborted : BOOLEAN, byRuntime : BOOLEAN, doubtful : BOOLEAN,
   stopping : {"none", "asked", "yes", "no"}, answer : Results \cup {"none"},
   forwarded : BOOLEAN,
   outcome : {"none", "not_started", "aborted", "completed", "reaped", "unconfirmed"},
   ask : {"none", "offered", "answering"}, question : Nat, terminals : Nat,
   told : {"none", "aborted", "not_started", "unconfirmed"}]

TypeInv ==
  /\ HostTypeInv
  /\ child \in Workers \cup {None} /\ terminating \in Workers \cup {None}
  /\ ready \in BOOLEAN /\ starting \in BOOLEAN /\ failure \in BOOLEAN
  /\ affected \in SUBSET Runs /\ pending \in SUBSET Requests /\ run \in [Runs -> RunRecord]
-----------------------------------------------------------------------------
(* The processes.                                                          *)
Processes ==
  /\ child # None => terminating = None /\ ~failure
  /\ terminating # None => ~failure
  /\ terminating = None => affected = {}
  /\ child = None => pending = {}
  /\ (ready \/ starting) <=> child # None
  /\ \A w \in Workers : w # child => ~host[w].heard /\ toApp[w] = <<>>
  /\ \A w \in Workers : host[w].up => w \in {child, terminating} \/ failure
  /\ \A v, w \in Workers : host[v].up /\ host[w].up => v = w
  /\ \A w \in Workers : ~host[w].up =>
       toWorker[w] = <<>> /\ \A r \in Runs : host[w].run[r].sdk \in {"none", "gone"}

(* What the supervisor knows of a run, from its record x of it.            *)
AllUntouched(r) == \A w \in Workers : Untouched(host[w].run[r], toWorker[w], toApp[w], r)
AllQuiet(r) == \A w \in Workers : Quiet(host[w].run[r], toWorker[w], r)
AllStopped(r) == \A w \in Workers : Stops(host[w].run[r], toWorker[w], r)
AllSpent(r) == \A w \in Workers : Spent(host[w].run[r], toWorker[w], toApp[w], r)

Early == {"starting", "termination", "ready", "options"}
NotSent(x) ==
  x.phase \in {"none", "registered"} \/ x.at \in Early \/ x.told = "not_started"
Judged(x) == x.outcome \notin {"none", "unconfirmed"} \/ x.at = "replied"

Knows(x, r) ==
  /\ NotSent(x) => AllUntouched(r)
  /\ Judged(x) => AllQuiet(r)
  /\ x.stopping = "yes" \/ x.told = "aborted" => AllStopped(r)
  /\ x.forwarded => AllSpent(r)

(* The record alone.                                                       *)
Consistent(x) ==
  /\ x.at \in Early => x.phase # "issued"
  /\ x.told = "not_started" => x.phase # "issued" /\ (x.phase = "registered" => x.doubtful)
  /\ x.stopping = "yes" \/ x.told = "aborted" => x.phase \notin {"none", "registered"}
  /\ x.phase \in {"none", "registered", "issued"} => x.outcome \in {"none", "unconfirmed"}
  /\ x.phase \in {"none", "registered"} => ~x.forwarded /\ x.question = 0
  /\ x.phase \in {"none", "registered", "issued"} => x.terminals = IF x.forwarded THEN 1 ELSE 0
  /\ x.terminals <= 1
  /\ x.phase = "over" /\ x.terminals = 0 => x.aborted \/ x.outcome = "not_started"
  /\ x.ask # "none" => x.phase = "issued"

(* A run that was issued belongs to the worker there is, or to the one     *)
(* that is reaped, or was.                                                 *)
Owned(x, r) ==
  x.phase = "issued" =>
    /\ child # None => x.under = child
    /\ child = None => r \in affected \/ failure
    /\ x.under \in Workers /\ x.question <= host[x.under].run[r].asks

KnownOf(r) == Knows(run[r], r) /\ Consistent(run[r]) /\ Owned(run[r], r)
Known == \A r \in Runs : KnownOf(r)

WorkerInv == TypeInv /\ Processes /\ Places /\ Known
-----------------------------------------------------------------------------
(* What the supervisor does to the pipes.                                   *)
LEMMA AppendOf ==
  ASSUME NEW S, NEW s \in Seq(S), NEW e \in S
  PROVE  /\ Append(s, e) \in Seq(S) /\ Len(Append(s, e)) = Len(s) + 1 /\ Len(s) \in Nat
         /\ \A i \in 1..Len(s) : i \in 1..Len(Append(s, e)) /\ Append(s, e)[i] = s[i]
         /\ Append(s, e)[Len(s) + 1] = e /\ Len(s) + 1 \in 1..Len(Append(s, e))
         /\ \A i \in 1..Len(Append(s, e)) : i \in 1..Len(s) \/ i = Len(s) + 1
OBVIOUS

LEMMA AdvanceAsked ==
  ASSUME NEW r \in Runs, NEW x \in HostRunRecord, NEW in \in Seq(Requests), NEW out,
         NEW q \in Requests, ~IsStart(q, r)
  PROVE  Advances(x, in, out, x, Append(in, q), out, r)
<1>1. PICK more : more = Append(in, q)
  OBVIOUS
<1>2. /\ Len(in) \in Nat
      /\ \A i \in 1..Len(in) : i \in 1..Len(more) /\ more[i] = in[i]
      /\ \A i \in 1..Len(more) : IsStart(more[i], r) => i \in 1..Len(in) /\ more[i] = in[i]
  BY <1>1, AppendOf
<1>3. Starts(more, r) <=> Starts(in, r)
  BY <1>2 DEF Starts
<1>4. Queued(x, in, out, r) => Queued(x, more, out, r)
  BY <1>2 DEF Queued
<1>5. x.asks \in Nat
  BY DEF HostRunRecord
<1> QED BY <1>1, <1>3, <1>4, <1>5 DEF Advances, Place, Untouched, Quiet, Idles, Stops, Spent

LEMMA AdvanceSilenced ==
  ASSUME NEW r, NEW x, x.asks \in Nat, NEW in, NEW out
  PROVE  Advances(x, in, out, x, in, <<>>, r)
<1>1. PICK none : none = <<>> /\ \A i : i \notin 1..Len(none)
  OBVIOUS
<1>2. Said(x, none, r) /\ (Queued(x, in, out, r) => Queued(x, in, none, r))
  BY <1>1 DEF Said, Queued
<1> QED BY <1>1, <1>2 DEF Advances, Place, Untouched, Quiet, Idles, Stops, Spent

LEMMA AdvanceRead ==
  ASSUME NEW r, NEW x, x.asks \in Nat, NEW in, NEW out \in Seq(Frames), out # <<>>
  PROVE  /\ Advances(x, in, out, x, in, Tail(out), r)
         /\ Place(x, in, out, r) /\ Concerns(Head(out), r) => ~Starts(in, r)
         /\ Place(x, in, out, r) /\ IsAnswer(Head(out), r) => Quiet(x, in, r)
         /\ Place(x, in, out, r) /\ IsStopped(Head(out), r) => Stops(x, in, r)
         /\ Place(x, in, out, r) /\ IsEvent(Head(out), r) => Head(out).ask <= x.asks
         /\ Place(x, in, out, r) /\ IsTerminal(Head(out), r) => Spent(x, in, Tail(out), r)
<1>1. PICK rest : rest = Tail(out)
  OBVIOUS
<1>2. /\ Len(rest) = Len(out) - 1 /\ Len(out) \in Nat \ {0}
      /\ \A i \in 1..Len(rest) : i + 1 \in 1..Len(out) /\ rest[i] = out[i + 1]
      /\ 1 \in 1..Len(out) /\ Head(out) = out[1]
  BY <1>1, TailOf
<1>3. Queued(x, in, out, r) => Queued(x, in, rest, r)
  BY <1>2 DEF Queued
<1>4. ASSUME Said(x, out, r) PROVE Said(x, rest, r)
  <2> SUFFICES ASSUME NEW i \in 1..Len(rest)
               PROVE  /\ IsAnswer(rest[i], r) => ~InHost(x)
                      /\ IsStopped(rest[i], r) => Halted(x) /\ x.sdk # "none"
                      /\ IsEvent(rest[i], r) => rest[i].ask <= x.asks /\ x.sdk # "none"
                      /\ IsTerminal(rest[i], r) =>
                           /\ x.sdk \in {"ended", "failed", "gone"}
                           /\ \A j \in 1..Len(rest) : IsTerminal(rest[j], r) => i = j
    BY DEF Said
  <2>1. /\ IsAnswer(rest[i], r) => ~InHost(x)
        /\ IsStopped(rest[i], r) => Halted(x) /\ x.sdk # "none"
        /\ IsEvent(rest[i], r) => rest[i].ask <= x.asks /\ x.sdk # "none"
        /\ IsTerminal(rest[i], r) => x.sdk \in {"ended", "failed", "gone"}
    BY <1>2, <1>4 DEF Said
  <2>2. ASSUME NEW j \in 1..Len(rest), IsTerminal(rest[i], r), IsTerminal(rest[j], r) PROVE i = j
    <3>1. /\ i + 1 \in 1..Len(out) /\ j + 1 \in 1..Len(out)
          /\ IsTerminal(out[i + 1], r) /\ IsTerminal(out[j + 1], r)
      BY <1>2, <2>2
    <3>2. i + 1 = j + 1
      BY <1>4, <3>1 DEF Said
    <3> QED BY <3>2
  <2> QED BY <2>1, <2>2
<1>5. /\ Untouched(x, in, out, r) => Untouched(x, in, rest, r)
      /\ Spent(x, in, out, r) => Spent(x, in, rest, r)
  BY <1>2 DEF Untouched, Spent
<1>6. Advances(x, in, out, x, in, rest, r)
  BY <1>3, <1>4, <1>5 DEF Advances, Place
<1>7. ASSUME Place(x, in, out, r), Concerns(Head(out), r) PROVE ~Starts(in, r)
  BY <1>2, <1>7 DEF Place, Queued, Starts
<1>8. ASSUME Place(x, in, out, r), IsAnswer(Head(out), r) PROVE ~InHost(x)
  BY <1>2, <1>8 DEF Place, Said
<1>9. ASSUME Place(x, in, out, r), IsStopped(Head(out), r) PROVE Halted(x) /\ x.sdk # "none"
  BY <1>2, <1>9 DEF Place, Said
<1>10. ASSUME Place(x, in, out, r), IsEvent(Head(out), r) PROVE Head(out).ask <= x.asks /\ x.sdk # "none"
  BY <1>2, <1>10 DEF Place, Said
<1>11. ASSUME Place(x, in, out, r), IsTerminal(Head(out), r)
       PROVE  x.sdk \in Finals /\ \A i \in 1..Len(rest) : ~IsTerminal(rest[i], r)
  <2>1. x.sdk \in Finals /\ \A j \in 1..Len(out) : IsTerminal(out[j], r) => 1 = j
    BY <1>2, <1>11 DEF Place, Said, Finals
  <2>2. ASSUME NEW i \in 1..Len(rest), IsTerminal(rest[i], r) PROVE FALSE
    <3>1. i + 1 \in 1..Len(out) /\ IsTerminal(out[i + 1], r)
      BY <1>2, <2>2
    <3>2. 1 = i + 1
      BY <2>1, <3>1
    <3> QED BY <3>2
  <2> QED BY <2>1, <2>2
<1>12. IsTerminal(Head(out), r) => IsEvent(Head(out), r)
  BY DEF IsTerminal
<1>13. ~InHost(x) => ~Live(x)
  BY DEF InHost, Live
<1>14. x.sdk \in Finals => ~Live(x)
  BY DEF Finals, Live
<1> QED BY <1>1, <1>6, <1>7, <1>8, <1>9, <1>10, <1>11, <1>12, <1>13, <1>14
        DEF Quiet, Stops, Spent, Concerns
-----------------------------------------------------------------------------
(* Every worker goes on: what is known of a run stays known.                *)
AdvanceAll ==
  \A w \in Workers, r \in Runs :
    Advances(host[w].run[r], toWorker[w], toApp[w], host'[w].run[r], toWorker'[w], toApp'[w], r)

Kept(r) ==
  /\ AllUntouched(r) => AllUntouched(r)'
  /\ AllQuiet(r) => AllQuiet(r)'
  /\ AllStopped(r) => AllStopped(r)'
  /\ AllSpent(r) => AllSpent(r)'
  /\ \A w \in Workers : host[w].run[r].asks <= host'[w].run[r].asks

LEMMA WhatIsKept ==
  ASSUME Places, AdvanceAll
  PROVE  Places' /\ \A r \in Runs : Kept(r)
<1>1. ASSUME NEW w \in Workers, NEW r \in Runs
      PROVE  /\ Place(host'[w].run[r], toWorker'[w], toApp'[w], r)
             /\ host[w].run[r].asks <= host'[w].run[r].asks
             /\ Untouched(host[w].run[r], toWorker[w], toApp[w], r) =>
                  Untouched(host'[w].run[r], toWorker'[w], toApp'[w], r)
             /\ Quiet(host[w].run[r], toWorker[w], r) => Quiet(host'[w].run[r], toWorker'[w], r)
             /\ Stops(host[w].run[r], toWorker[w], r) => Stops(host'[w].run[r], toWorker'[w], r)
             /\ Spent(host[w].run[r], toWorker[w], toApp[w], r) =>
                  Spent(host'[w].run[r], toWorker'[w], toApp'[w], r)
  BY DEF Places, AdvanceAll, Advances
<1>2. Places'
  BY <1>1 DEF Places, Workers
<1>3. ASSUME NEW r \in Runs PROVE Kept(r)
  BY <1>1 DEF Kept, AllUntouched, AllQuiet, AllStopped, AllSpent, Workers
<1> QED BY <1>2, <1>3

(* What is known of a run that no worker has seen.                          *)
LEMMA UntouchedIs ==
  ASSUME NEW r
  PROVE  /\ AllUntouched(r) => AllQuiet(r) /\ AllStopped(r) /\ AllSpent(r)
         /\ AllQuiet(r) => AllStopped(r)
         /\ AllSpent(r) => AllQuiet(r)
<1>1. ~Live(NoHostRun)
  BY DEF Live, NoHostRun
<1> QED BY <1>1 DEF AllUntouched, AllQuiet, AllStopped, AllSpent, Untouched, Quiet, Stops, Spent,
                    Halted, Concerns, IsTerminal
-----------------------------------------------------------------------------
(* A step of the supervisor, as it concerns its record of one run: nothing  *)
(* is claimed that was not known, unless `quiet` says that every worker is  *)
(* done with it.                                                            *)
SaysStopped(x) == x.stopping = "yes" \/ x.told = "aborted"
Moves(x, y, quiet) ==
  /\ y \in RunRecord /\ Consistent(y)
  /\ NotSent(y) => NotSent(x)
  /\ Judged(y) => Judged(x) \/ NotSent(x) \/ quiet
  /\ SaysStopped(y) => SaysStopped(x)
  /\ y.forwarded => x.forwarded
  /\ y.phase = "issued" => x.phase = "issued" /\ y.under = x.under /\ y.question = x.question

LEMMA MoveNot ==
  ASSUME NEW x \in RunRecord, Consistent(x), NEW quiet \in BOOLEAN
  PROVE  Moves(x, x, quiet)
BY DEF Moves

LEMMA MoveFurther ==
  ASSUME NEW x, NEW y, NEW z, NEW quiet \in BOOLEAN, Moves(x, y, quiet), Moves(y, z, quiet)
  PROVE  Moves(x, z, quiet)
BY DEF Moves

LEMMA MoveKnown ==
  ASSUME NEW r \in Runs, KnownOf(r), Kept(r), NEW quiet \in BOOLEAN, Moves(run[r], run'[r], quiet),
         quiet => AllQuiet(r)', host \in [Workers -> HostRecord], host' \in [Workers -> HostRecord],
         run'[r].phase = "issued" =>
           /\ child' # None => child = child'
           /\ child' = None => r \in affected' \/ failure'
  PROVE  KnownOf(r)'
<1> DEFINE x == run[r]
           y == run'[r]
<1>1. /\ NotSent(x) => AllUntouched(r) /\ AllQuiet(r) /\ AllStopped(r)
      /\ Judged(x) => AllQuiet(r)
      /\ SaysStopped(x) => AllStopped(r)
      /\ x.forwarded => AllSpent(r)
  BY UntouchedIs DEF KnownOf, Knows, SaysStopped
<1>2. /\ NotSent(y) => AllUntouched(r)'
      /\ Judged(y) => AllQuiet(r)'
      /\ SaysStopped(y) => AllStopped(r)'
      /\ y.forwarded => AllSpent(r)'
  BY <1>1 DEF Moves, Kept
<1>3. Knows(run[r], r)'
  BY <1>2 DEF Knows, SaysStopped
<1>4. Consistent(run[r])'
  BY DEF Moves
<1>5. ASSUME y.phase = "issued"
      PROVE  /\ child' # None => y.under = child'
             /\ y.under \in Workers /\ y.question <= host'[y.under].run[r].asks
  <2>1. /\ x.phase = "issued" /\ y.under = x.under /\ y.question = x.question
        /\ x.under \in Workers /\ x.question <= host[x.under].run[r].asks
        /\ child # None => x.under = child
    BY <1>5 DEF Moves, KnownOf, Owned
  <2>2. host[x.under].run[r].asks <= host'[x.under].run[r].asks
    BY <2>1 DEF Kept
  <2>3. /\ x.question \in Nat /\ host[x.under].run[r].asks \in Nat
        /\ host'[x.under].run[r].asks \in Nat
    <3>1. host[x.under] \in HostRecord /\ host'[x.under] \in HostRecord
      BY <2>1
    <3>2. host[x.under].run[r] \in HostRunRecord /\ host'[x.under].run[r] \in HostRunRecord
      BY <3>1 DEF HostRecord
    <3>3. y.question \in Nat
      BY DEF Moves, RunRecord
    <3> QED BY <2>1, <3>2, <3>3 DEF HostRunRecord
  <2> QED BY <1>5, <2>1, <2>2, <2>3
<1>6. Owned(run[r], r)'
  BY <1>5 DEF Owned, Workers
<1> QED BY <1>3, <1>4, <1>6 DEF KnownOf
-----------------------------------------------------------------------------
(* The steps of a record.                                                   *)
(* A field of the record is set.                                            *)
LEMMA FieldIsSet ==
  ASSUME NEW x \in RunRecord
  PROVE  /\ \A v \in {"none", "registered", "issued", "over"} : [x EXCEPT !.phase = v] \in RunRecord
         /\ \A v \in Workers \cup {None} : [x EXCEPT !.under = v] \in RunRecord
         /\ \A v \in BOOLEAN : [x EXCEPT !.aborted = v] \in RunRecord
         /\ \A v \in BOOLEAN : [x EXCEPT !.byRuntime = v] \in RunRecord
         /\ \A v \in BOOLEAN : [x EXCEPT !.doubtful = v] \in RunRecord
         /\ \A v \in Results \cup {"none"} : [x EXCEPT !.answer = v] \in RunRecord
         /\ \A v \in {"none", "not_started", "aborted", "completed", "reaped", "unconfirmed"} : [x EXCEPT !.outcome = v] \in RunRecord
         /\ \A v \in {"none", "offered", "answering"} : [x EXCEPT !.ask = v] \in RunRecord
         /\ \A v \in Nat : [x EXCEPT !.terminals = v] \in RunRecord
         /\ \A v \in Nat : [x EXCEPT !.question = v] \in RunRecord
         /\ \A v \in BOOLEAN : [x EXCEPT !.forwarded = v] \in RunRecord
<1>1. \A v \in {"none", "registered", "issued", "over"} : [x EXCEPT !.phase = v] \in RunRecord
  BY DEF RunRecord
<1>2. \A v \in Workers \cup {None} : [x EXCEPT !.under = v] \in RunRecord
  BY DEF RunRecord
<1>3. \A v \in BOOLEAN : [x EXCEPT !.aborted = v] \in RunRecord
  BY DEF RunRecord
<1>4. \A v \in BOOLEAN : [x EXCEPT !.byRuntime = v] \in RunRecord
  BY DEF RunRecord
<1>5. \A v \in BOOLEAN : [x EXCEPT !.doubtful = v] \in RunRecord
  BY DEF RunRecord
<1>6. \A v \in Results \cup {"none"} : [x EXCEPT !.answer = v] \in RunRecord
  BY DEF RunRecord
<1>7. \A v \in {"none", "not_started", "aborted", "completed", "reaped", "unconfirmed"} : [x EXCEPT !.outcome = v] \in RunRecord
  BY DEF RunRecord
<1>8. \A v \in {"none", "offered", "answering"} : [x EXCEPT !.ask = v] \in RunRecord
  BY DEF RunRecord
<1>9. \A v \in Nat : [x EXCEPT !.terminals = v] \in RunRecord
  BY DEF RunRecord
<1>10. \A v \in Nat : [x EXCEPT !.question = v] \in RunRecord
  BY DEF RunRecord
<1>11. \A v \in BOOLEAN : [x EXCEPT !.forwarded = v] \in RunRecord
  BY DEF RunRecord
<1> QED BY <1>1, <1>2, <1>3, <1>4, <1>5, <1>6, <1>7, <1>8, <1>9, <1>10, <1>11

Endings == {"not_started", "aborted", "completed", "reaped"}

LEMMA FinishedMoves ==
  ASSUME NEW x \in RunRecord, Consistent(x), NEW outcome \in Endings, NEW quiet \in BOOLEAN,
         x.phase = "registered" \/ x.at = "replied" \/ quiet
  PROVE  /\ Moves(x, Finished(x, outcome), quiet)
         /\ Finished(x, outcome).at = x.at /\ Finished(x, outcome).told = x.told
         /\ Finished(x, outcome).stopping = x.stopping /\ Finished(x, outcome).answer = x.answer
         /\ Active(x) /\ (x.doubtful => outcome = "reaped") => Finished(x, outcome).phase = "over"
         /\ Finished(x, outcome).phase \in {x.phase, "over"}
         /\ Finished(x, outcome).doubtful = x.doubtful
         /\ Finished(x, outcome).phase = "registered" => x.doubtful
<1>1. CASE ~(Active(x) /\ (x.doubtful => outcome = "reaped"))
  <2>1. Finished(x, outcome) = x
    BY <1>1 DEF Finished
  <2> QED BY <1>1, <2>1, MoveNot DEF Active
<1>2. CASE Active(x) /\ (x.doubtful => outcome = "reaped")
  <2>1. Finished(x, outcome) = Ends(x, outcome)
    BY <1>2 DEF Finished
  <2>2. PICK aborted \in BOOLEAN, byRuntime \in BOOLEAN :
          /\ aborted = (x.aborted /\ ~(x.doubtful /\ ~x.forwarded))
          /\ byRuntime = (x.byRuntime /\ ~(x.doubtful /\ ~x.forwarded))
    OBVIOUS
  <2>3. PICK said \in {x.outcome, outcome} : said = IF x.outcome = "none" THEN outcome ELSE x.outcome
    OBVIOUS
  <2>4. PICK n : n = IF ~x.forwarded /\ (~aborted \/ byRuntime) THEN x.terminals + 1 ELSE x.terminals
    OBVIOUS
  <2>5. PICK y : y = [x EXCEPT !.aborted = aborted, !.byRuntime = byRuntime, !.phase = "over",
                               !.ask = "none", !.outcome = said, !.terminals = n]
    OBVIOUS
  <2>6. Ends(x, outcome) = y
    BY <2>2, <2>3, <2>4, <2>5 DEF Ends, RunRecord
  <2>7. /\ x.phase \in {"registered", "issued"} /\ x.terminals = IF x.forwarded THEN 1 ELSE 0
        /\ x.phase = "registered" => ~x.forwarded
    BY <1>2 DEF Active, Consistent
  <2>8. n \in Nat /\ n <= 1 /\ (n = 0 => aborted)
    BY <2>4, <2>7
  <2>9. /\ y \in RunRecord /\ y.phase = "over" /\ y.aborted = aborted /\ y.ask = "none"
        /\ y.outcome = said /\ y.terminals = n /\ y.at = x.at /\ y.told = x.told
        /\ y.stopping = x.stopping /\ y.answer = x.answer /\ y.forwarded = x.forwarded
        /\ y.doubtful = x.doubtful
    <3>1. said \in {"none", "not_started", "aborted", "completed", "reaped", "unconfirmed"}
      BY DEF RunRecord, Endings
    <3>2. y \in RunRecord
      <4>1. PICK x1 : x1 = [x EXCEPT !.aborted = aborted]
        OBVIOUS
      <4>2. PICK x2 : x2 = [x1 EXCEPT !.byRuntime = byRuntime]
        OBVIOUS
      <4>3. PICK x3 : x3 = [x2 EXCEPT !.phase = "over"]
        OBVIOUS
      <4>4. PICK x4 : x4 = [x3 EXCEPT !.ask = "none"]
        OBVIOUS
      <4>5. PICK x5 : x5 = [x4 EXCEPT !.outcome = said]
        OBVIOUS
      <4>6. y = [x5 EXCEPT !.terminals = n]
        BY <2>5, <4>1, <4>2, <4>3, <4>4, <4>5
      <4>7. x2 \in RunRecord
        BY <4>1, <4>2, FieldIsSet
      <4>8. x4 \in RunRecord
        BY <4>7, <4>3, <4>4, FieldIsSet
      <4>9. x5 \in RunRecord
        BY <4>5, <4>8, <3>1, FieldIsSet
      <4> QED BY <2>8, <4>6, <4>9, FieldIsSet
    <3>3. /\ y.phase = "over" /\ y.aborted = aborted /\ y.ask = "none"
          /\ y.outcome = said /\ y.terminals = n
      BY <2>5 DEF RunRecord
    <3>4. /\ y.at = x.at /\ y.told = x.told /\ y.stopping = x.stopping /\ y.answer = x.answer
          /\ y.forwarded = x.forwarded /\ y.doubtful = x.doubtful
      BY <2>5 DEF RunRecord
    <3> QED BY <3>2, <3>3, <3>4
  <2>10. Consistent(y)
    BY <2>8, <2>9 DEF Consistent
  <2>11. Moves(x, y, quiet)
    <3>1. NotSent(y) => NotSent(x)
      BY <2>9 DEF NotSent
    <3>2. NotSent(x) \/ Judged(x) \/ quiet
      BY DEF NotSent, Judged
    <3> QED BY <2>9, <2>10, <3>1, <3>2 DEF Moves, SaysStopped
  <2> QED BY <2>1, <2>6, <2>9, <2>11
<1> QED BY <1>1, <1>2

LEMMA DefaultOutcomeIs ==
  ASSUME NEW x
  PROVE  DefaultOutcome(x) \in Endings
BY DEF DefaultOutcome, Endings

(* startRun gets somewhere else.                                            *)
LEMMA AtMoves ==
  ASSUME NEW x \in RunRecord, Consistent(x), NEW quiet \in BOOLEAN,
         NEW for \in {"starting", "termination", "ready", "options", "reply", "done"},
         for \in Early => x.at \in Early \/ x.phase \in {"none", "registered"}
  PROVE  Moves(x, [x EXCEPT !.at = for], quiet) /\ [x EXCEPT !.at = for].at = for
<1>1. PICK y : y = [x EXCEPT !.at = for]
  OBVIOUS
<1>2. /\ y \in RunRecord /\ y.at = for /\ y.phase = x.phase /\ y.told = x.told
      /\ y.stopping = x.stopping /\ y.outcome = x.outcome /\ y.forwarded = x.forwarded
      /\ y.terminals = x.terminals /\ y.aborted = x.aborted /\ y.ask = x.ask
      /\ y.doubtful = x.doubtful /\ y.under = x.under /\ y.question = x.question
  BY <1>1 DEF RunRecord
<1>3. Consistent(y)
  BY <1>2 DEF Consistent, Early
<1> QED BY <1>1, <1>2, <1>3 DEF Moves, NotSent, Judged, SaysStopped, Early
(* Where an abort() or a reply is, and what was noted of the run.           *)
LEMMA NoteMoves ==
  ASSUME NEW x \in RunRecord, Consistent(x), NEW quiet \in BOOLEAN,
         NEW aborted \in BOOLEAN, x.aborted => aborted, NEW byRuntime \in BOOLEAN,
         NEW doubtful \in BOOLEAN, x.doubtful => doubtful,
         NEW answer \in Results \cup {"none"}
  PROVE  Moves(x, [x EXCEPT !.aborted = aborted, !.byRuntime = byRuntime, !.doubtful = doubtful,
                            !.answer = answer], quiet)
<1>1. PICK y : y = [x EXCEPT !.aborted = aborted, !.byRuntime = byRuntime, !.doubtful = doubtful,
                             !.answer = answer]
  OBVIOUS
<1>2. y \in RunRecord
  <2>1. PICK v : v = [x EXCEPT !.aborted = aborted, !.byRuntime = byRuntime]
    OBVIOUS
  <2>2. v \in RunRecord
    BY <2>1, FieldIsSet
  <2>3. y = [v EXCEPT !.doubtful = doubtful, !.answer = answer]
    BY <1>1, <2>1
  <2> QED BY <2>2, <2>3, FieldIsSet
<1>3. /\ y.at = x.at /\ y.phase = x.phase /\ y.told = x.told
      /\ y.stopping = x.stopping /\ y.outcome = x.outcome /\ y.forwarded = x.forwarded
      /\ y.terminals = x.terminals /\ y.aborted = aborted /\ y.ask = x.ask
      /\ y.doubtful = doubtful /\ y.under = x.under /\ y.question = x.question
  BY <1>1 DEF RunRecord
<1>4. Consistent(y)
  BY <1>3 DEF Consistent
<1> QED BY <1>1, <1>2, <1>3, <1>4 DEF Moves, NotSent, Judged, SaysStopped

LEMMA StoppingMoves ==
  ASSUME NEW x \in RunRecord, Consistent(x), NEW quiet \in BOOLEAN,
         NEW stopping \in {"none", "asked", "no"}, NEW told \in {"none", "unconfirmed", "aborted", "not_started"},
         told = "aborted" => SaysStopped(x),
         told = "not_started" => x.told = "not_started"
  PROVE  Moves(x, [x EXCEPT !.stopping = stopping, !.told = told], quiet)
<1>1. PICK y : y = [x EXCEPT !.stopping = stopping, !.told = told]
  OBVIOUS
<1>2. y \in RunRecord
  <2>1. PICK v : v = [x EXCEPT !.stopping = stopping]
    OBVIOUS
  <2>2. v \in RunRecord
    BY <2>1 DEF RunRecord
  <2>3. y = [v EXCEPT !.told = told]
    BY <1>1, <2>1
  <2> QED BY <2>2, <2>3 DEF RunRecord
<1>3. /\ y.at = x.at /\ y.phase = x.phase /\ y.told = told
      /\ y.stopping = stopping /\ y.outcome = x.outcome /\ y.forwarded = x.forwarded
      /\ y.terminals = x.terminals /\ y.aborted = x.aborted /\ y.ask = x.ask
      /\ y.doubtful = x.doubtful /\ y.under = x.under /\ y.question = x.question
  BY <1>1 DEF RunRecord
<1>4. told = "aborted" => x.phase \notin {"none", "registered"}
  BY DEF Consistent, SaysStopped
<1>5. Consistent(y)
  BY <1>3, <1>4 DEF Consistent
<1> QED BY <1>1, <1>2, <1>3, <1>5 DEF Moves, NotSent, Judged, SaysStopped

LEMMA AskMoves ==
  ASSUME NEW x \in RunRecord, Consistent(x), NEW quiet \in BOOLEAN,
         NEW ask \in {"none", "offered", "answering"}, ask # "none" => x.phase = "issued"
  PROVE  Moves(x, [x EXCEPT !.ask = ask], quiet)
<1>1. PICK y : y = [x EXCEPT !.ask = ask]
  OBVIOUS
<1>2. y \in RunRecord
  BY <1>1 DEF RunRecord
<1>3. /\ y.at = x.at /\ y.phase = x.phase /\ y.told = x.told
      /\ y.stopping = x.stopping /\ y.outcome = x.outcome /\ y.forwarded = x.forwarded
      /\ y.terminals = x.terminals /\ y.aborted = x.aborted /\ y.ask = ask
      /\ y.doubtful = x.doubtful /\ y.under = x.under /\ y.question = x.question
  BY <1>1 DEF RunRecord
<1>4. Consistent(y)
  BY <1>3 DEF Consistent
<1> QED BY <1>1, <1>2, <1>3, <1>4 DEF Moves, NotSent, Judged, SaysStopped

LEMMA RestoredMoves ==
  ASSUME NEW x \in RunRecord, Consistent(x), NEW quiet \in BOOLEAN, NEW question
  PROVE  /\ Moves(x, Restored(x, question), quiet)
         /\ Restored(x, question).at = x.at /\ Restored(x, question).phase = x.phase
         /\ Restored(x, question).stopping = x.stopping
<1>1. CASE x.ask = "answering" /\ x.question = question /\ Active(x) /\ ~x.doubtful
  <2>1. Restored(x, question) = [x EXCEPT !.ask = "offered"]
    BY <1>1 DEF Restored
  <2>2. x.phase = "issued"
    BY <1>1 DEF Consistent
  <2>3. /\ [x EXCEPT !.ask = "offered"].at = x.at /\ [x EXCEPT !.ask = "offered"].phase = x.phase
        /\ [x EXCEPT !.ask = "offered"].stopping = x.stopping
    BY DEF RunRecord
  <2> QED BY <2>1, <2>2, <2>3, AskMoves
<1>2. CASE ~(x.ask = "answering" /\ x.question = question /\ Active(x) /\ ~x.doubtful)
  <2>1. Restored(x, question) = x
    BY <1>2 DEF Restored
  <2> QED BY <2>1, MoveNot
<1> QED BY <1>1, <1>2

LEMMA RejectedMoves ==
  ASSUME NEW x \in RunRecord, Consistent(x)
  PROVE  Moves(x, RequestsRejected(x), FALSE)
<1>1. PICK y : y = Restored(x, x.question)
  OBVIOUS
<1>2. Moves(x, y, FALSE) /\ y \in RunRecord /\ Consistent(y)
  BY <1>1, RestoredMoves DEF Moves
<1>3. PICK z : z = [y EXCEPT !.at = IF @ \in {"starting", "reply"} THEN "done" ELSE @]
  OBVIOUS
<1>4. Moves(y, z, FALSE) /\ z \in RunRecord /\ Consistent(z)
  <2>1. CASE y.at \in {"starting", "reply"}
    <3>1. z = [y EXCEPT !.at = "done"]
      BY <1>3, <2>1
    <3>2. "done" \notin Early
      BY DEF Early
    <3>3. Moves(y, z, FALSE)
      BY <1>2, <3>1, <3>2, AtMoves
    <3> QED BY <3>3 DEF Moves
  <2>2. CASE y.at \notin {"starting", "reply"}
    <3>1. z = y
      BY <1>2, <1>3, <2>2 DEF RunRecord
    <3> QED BY <1>2, <3>1, MoveNot
  <2> QED BY <2>1, <2>2
<1>5. PICK stopping \in {"none", "no"} : stopping = IF z.stopping = "none" THEN z.stopping ELSE "no"
  OBVIOUS
<1>6. PICK told \in {"none", "unconfirmed", "aborted", "not_started"} : told = z.told
  BY <1>4, SMTT(30) DEF RunRecord
<1>7. Moves(z, [z EXCEPT !.stopping = stopping, !.told = told], FALSE)
  BY <1>4, <1>5, <1>6, StoppingMoves DEF SaysStopped
<1>8. RequestsRejected(x) = [z EXCEPT !.stopping = stopping, !.told = told]
  <2>1. RequestsRejected(x) = [y EXCEPT !.at = IF @ \in {"starting", "reply"} THEN "done" ELSE @,
                                        !.stopping = IF @ = "none" THEN @ ELSE "no"]
    BY <1>1 DEF RequestsRejected
  <2>2. z.stopping = y.stopping
    BY <1>2, <1>3 DEF RunRecord
  <2>3. RequestsRejected(x) = [z EXCEPT !.stopping = stopping]
    BY <1>3, <1>5, <2>1, <2>2
  <2>4. [z EXCEPT !.stopping = stopping] = [z EXCEPT !.stopping = stopping, !.told = told]
    BY <1>4, <1>6 DEF RunRecord
  <2> QED BY <2>3, <2>4
<1> QED BY <1>2, <1>4, <1>7, <1>8, MoveFurther
-----------------------------------------------------------------------------
(* A step of the supervisor while its worker stays.                         *)
LEMMA RunTypes ==
  ASSUME WorkerInv, NEW r \in Runs
  PROVE  run[r] \in RunRecord /\ Consistent(run[r]) /\ KnownOf(r)
BY DEF WorkerInv, TypeInv, HostTypeInv, Known, KnownOf

PipesMove ==
  /\ toWorker' \in [Workers -> Seq(Requests)] /\ toApp' \in [Workers -> Seq(Frames)]
  /\ pending' \in SUBSET Requests /\ (child = None => pending' = {})
  /\ \A w \in Workers : (w # child => toApp'[w] = <<>>) /\ (~host[w].up => toWorker'[w] = <<>>)
  /\ \A w \in Workers, r \in Runs :
       Advances(host[w].run[r], toWorker[w], toApp[w], host[w].run[r], toWorker'[w], toApp'[w], r)

RunsMove ==
  run' \in [Runs -> RunRecord] /\ \A r \in Runs : Moves(run[r], run'[r], FALSE) \/ KnownOf(r)'

LEMMA AppStep ==
  ASSUME WorkerInv, UNCHANGED <<child, terminating, affected, failure, host>>,
         ready' \in BOOLEAN, starting' \in BOOLEAN, (ready' \/ starting') <=> (ready \/ starting),
         PipesMove, RunsMove
  PROVE  WorkerInv'
<1>1. TypeInv'
  BY DEF WorkerInv, TypeInv, HostTypeInv, PipesMove, RunsMove, Workers
<1>2. Processes'
  BY DEF WorkerInv, Processes, PipesMove, Workers
<1>3. AdvanceAll
  BY DEF PipesMove, AdvanceAll
<1>4. Places' /\ \A r \in Runs : Kept(r)
  BY <1>3, WhatIsKept DEF WorkerInv
<1>5. ASSUME NEW r \in Runs PROVE KnownOf(r)'
  <2>1. CASE Moves(run[r], run'[r], FALSE)
    <3>1. KnownOf(r) /\ Kept(r) /\ host \in [Workers -> HostRecord] /\ host' \in [Workers -> HostRecord]
      BY <1>1, <1>4, RunTypes DEF WorkerInv, TypeInv, HostTypeInv, Workers
    <3>2. run'[r].phase = "issued" => (child' = None => r \in affected' \/ failure')
      <4>1. run'[r].phase = "issued" => run[r].phase = "issued"
        BY <2>1 DEF Moves
      <4> QED BY <3>1, <4>1 DEF KnownOf, Owned
    <3> QED BY <2>1, <3>1, <3>2, MoveKnown
  <2> QED BY <2>1 DEF RunsMove
<1> QED BY <1>1, <1>2, <1>4, <1>5 DEF WorkerInv, Known

LEMMA RunsStay ==
  ASSUME WorkerInv, UNCHANGED run
  PROVE  RunsMove
<1>1. \A r \in Runs : Moves(run[r], run'[r], FALSE)
  BY RunTypes, MoveNot
<1> QED BY <1>1 DEF RunsMove, WorkerInv, TypeInv, HostTypeInv

LEMMA OneRunGoes ==
  ASSUME WorkerInv, NEW r \in Runs, NEW y, run' = [run EXCEPT ![r] = y],
         Moves(run[r], y, FALSE)
  PROVE  RunsMove
<1>1. y \in RunRecord
  BY DEF Moves
<1>2. run' \in [Runs -> RunRecord] /\ run'[r] = y /\ \A s \in Runs : s # r => run'[s] = run[s]
  BY <1>1 DEF WorkerInv, TypeInv, HostTypeInv
<1>3. \A s \in Runs : Moves(run[s], run'[s], FALSE)
  BY <1>2, RunTypes, MoveNot
<1> QED BY <1>2, <1>3 DEF RunsMove

(* Nothing is written or read.                                              *)
LEMMA PipesStay ==
  ASSUME WorkerInv, UNCHANGED <<toWorker, toApp>>, pending' \in SUBSET pending
  PROVE  PipesMove
<1>1. \A w \in Workers, r \in Runs :
        Advances(host[w].run[r], toWorker[w], toApp[w], host[w].run[r], toWorker'[w], toApp'[w], r)
  BY AdvanceNot, HostTypes DEF WorkerInv, TypeInv
<1> QED BY <1>1 DEF PipesMove, WorkerInv, TypeInv, HostTypeInv, Processes

(* A request is written.                                                    *)
LEMMA PipesWrite ==
  ASSUME WorkerInv, child # None, NEW q \in Requests, q.method # "start", Writes(q), UNCHANGED toApp,
         pending' \in SUBSET (pending \cup {q})
  PROVE  PipesMove
<1>1. child \in Workers /\ host[child] \in HostRecord /\ toWorker[child] \in Seq(Requests)
  BY HostTypes DEF WorkerInv, TypeInv, HostTypeInv
<1>2. toWorker' = [toWorker EXCEPT ![child] = IF host[child].up THEN Append(toWorker[child], q) ELSE toWorker[child]]
  BY <1>1 DEF Writes, WorkerInv, TypeInv, HostTypeInv
<1>3. Append(toWorker[child], q) \in Seq(Requests)
  BY <1>1, AppendOf
<1>4. toWorker' \in [Workers -> Seq(Requests)]
  BY <1>1, <1>2, <1>3 DEF WorkerInv, TypeInv, HostTypeInv
<1>5. ASSUME NEW w \in Workers
      PROVE  toWorker'[w] = toWorker[w] \/ (host[w].up /\ toWorker'[w] = Append(toWorker[w], q))
  BY <1>1, <1>2 DEF WorkerInv, TypeInv, HostTypeInv
<1>6. ASSUME NEW w \in Workers, NEW r \in Runs
      PROVE  Advances(host[w].run[r], toWorker[w], toApp[w], host[w].run[r], toWorker'[w], toApp'[w], r)
  <2>1. host[w].run[r] \in HostRunRecord /\ host[w].run[r].asks \in Nat /\ toWorker[w] \in Seq(Requests)
    BY HostTypes DEF WorkerInv, TypeInv
  <2>2. ~IsStart(q, r)
    BY DEF IsStart
  <2> QED BY <1>5, <2>1, <2>2, AdvanceAsked, AdvanceNot
<1>7. pending' \in SUBSET Requests
  BY DEF WorkerInv, TypeInv, HostTypeInv
<1> QED BY <1>4, <1>5, <1>6, <1>7 DEF PipesMove, WorkerInv, TypeInv, HostTypeInv, Processes

LEMMA SmallestOf ==
  ASSUME NEW S, S \subseteq Nat, S # {}
  PROVE  Min(S) \in S
<1>1. IsWellFoundedOn(OpToRel(<, Nat), Nat)
  BY NatLessThanWellFounded
<1>2. PICK x \in S : \A y \in S : ~(<<y, x>> \in OpToRel(<, Nat))
  BY <1>1, WFMin
<1>3. \A y \in S : x =< y
  <2> SUFFICES ASSUME NEW y \in S PROVE x =< y
    OBVIOUS
  <2>1. x \in Nat /\ y \in Nat
    OBVIOUS
  <2>2. ~(y < x)
    BY <1>2, <2>1 DEF OpToRel
  <2> QED BY <2>1, <2>2
<1> QED BY <1>3 DEF Min

LEMMA PipesSend ==
  ASSUME WorkerInv, child # None, NEW method, NEW of, NEW ask \in Nat, CanAsk(method, of, ask),
         Sends(method, of, ask), UNCHANGED toApp,
         \/ method \in {"abort", "reply"} /\ of \in Runs
         \/ method \in {"query", "follow"} /\ of \in Calls
         \/ method \in {"close", "open"} /\ of \in Fences
         \/ method = "shutdown" /\ of = None
  PROVE  PipesMove
<1>1. FreshOf(method, of, ask) \subseteq Nat /\ FreshOf(method, of, ask) # {}
  BY SupervisorAssumption DEF FreshOf, CanAsk
<1>2. PICK n \in Nat : n = Min(FreshOf(method, of, ask))
  BY <1>1, SmallestOf
<1>3. PICK q : q = Asked(method, of, n, ask)
  OBVIOUS
<1>4. q \in Requests /\ q.method # "start"
  BY <1>3 DEF Asked, Requests, Plain, RunRequests, CallRequests, FenceRequests, OwnRequests
<1>5. pending' = pending \cup {q} /\ Writes(q)
  BY <1>2, <1>3 DEF Sends
<1> QED BY <1>4, <1>5, PipesWrite
-----------------------------------------------------------------------------
(* The steps of the workers.                                                *)
LEMMA WorkerGoesOn ==
  ASSUME WorkerInv, NEW w \in Workers, HostStep(w), UNCHANGED appVars
  PROVE  WorkerInv'
<1>1. HostGoesOn(w)
  BY HostStepIs DEF WorkerInv, TypeInv
<1>2. UNCHANGED <<child, ready, starting, terminating, affected, failure, pending, run>>
  BY DEF appVars
<1>3. TypeInv'
  BY <1>1, <1>2 DEF WorkerInv, TypeInv, HostTypeInv, HostGoesOn, Alone, Workers
<1>4. AdvanceAll
  <2> SUFFICES ASSUME NEW v \in Workers, NEW r \in Runs
               PROVE  Advances(host[v].run[r], toWorker[v], toApp[v], host'[v].run[r], toWorker'[v], toApp'[v], r)
    BY DEF AdvanceAll
  <2>1. CASE v = w
    BY <1>1, <2>1 DEF HostGoesOn
  <2>2. CASE v # w
    <3>1. host'[v] = host[v] /\ toWorker'[v] = toWorker[v] /\ toApp'[v] = toApp[v]
      BY <1>1, <2>2 DEF HostGoesOn, Alone
    <3>2. host[v].run[r].asks \in Nat
      BY HostTypes DEF WorkerInv, TypeInv
    <3> QED BY <3>1, <3>2, AdvanceNot
  <2> QED BY <2>1, <2>2
<1>5. Places' /\ \A r \in Runs : Kept(r)
  BY <1>4, WhatIsKept DEF WorkerInv
<1>6. ASSUME NEW v \in Workers
      PROVE  /\ host'[v].up => host[v].up
             /\ host'[v].heard = host[v].heard
             /\ ~host[v].heard => toApp'[v] = toApp[v]
             /\ ~host'[v].up =>
                  toWorker'[v] = <<>> /\ \A r \in Runs : host'[v].run[r].sdk \in {"none", "gone"}
  <2>1. CASE v = w
    BY <1>1, <2>1 DEF HostGoesOn
  <2>2. CASE v # w
    <3>1. host'[v] = host[v] /\ toWorker'[v] = toWorker[v] /\ toApp'[v] = toApp[v]
      BY <1>1, <2>2 DEF HostGoesOn, Alone
    <3> QED BY <3>1 DEF WorkerInv, Processes
  <2> QED BY <2>1, <2>2
<1>7. Processes'
  BY <1>2, <1>6 DEF WorkerInv, Processes, Workers
<1>8. ASSUME NEW r \in Runs PROVE KnownOf(r)'
  <2>1. Moves(run[r], run'[r], FALSE)
    BY <1>2, RunTypes, MoveNot
  <2>2. KnownOf(r) /\ Kept(r) /\ host \in [Workers -> HostRecord] /\ host' \in [Workers -> HostRecord]
    BY <1>3, <1>5, RunTypes DEF WorkerInv, TypeInv, HostTypeInv, Workers
  <2>3. run'[r].phase = "issued" => (child' = None => r \in affected' \/ failure')
    BY <1>2, <2>2 DEF KnownOf, Owned
  <2> QED BY <1>2, <2>1, <2>2, <2>3, MoveKnown
<1> QED BY <1>3, <1>5, <1>7, <1>8 DEF WorkerInv, Known
-----------------------------------------------------------------------------
(* The steps of the supervisor that concern one run.                        *)
SameWorker == UNCHANGED <<child, ready, starting, terminating, affected, failure, host>>

LEMMA QuietStep ==
  ASSUME WorkerInv, SameWorker, PipesMove, RunsMove
  PROVE  WorkerInv'
BY AppStep DEF SameWorker, WorkerInv, TypeInv, HostTypeInv

LEMMA RunOnlyIs ==
  RunOnly => SameWorker /\ UNCHANGED toApp
BY DEF RunOnly, SameWorker, current, reaping

(* startRun goes on, if it can.                                             *)
LEMMA ContinueMoves ==
  ASSUME NEW x \in RunRecord, Consistent(x), NEW under, NEW next,
         \/ x.phase = "registered" /\ CanStart(x, under) => Moves(x, next, FALSE)
         \/ ~(x.phase = "registered" /\ ~x.aborted /\ ~ShuttingDown /\ CanStart(x, under))
  PROVE  Moves(x, StartContinues(x, under, next), FALSE)
<1>1. Moves(x, [x EXCEPT !.at = "done"], FALSE)
  BY AtMoves DEF Early
<1>2. CASE x.phase # "registered"
  BY <1>1, <1>2 DEF StartContinues
<1>3. CASE x.phase = "registered" /\ (x.aborted \/ ShuttingDown)
  <2>1. PICK y : y = [x EXCEPT !.aborted = TRUE]
    OBVIOUS
  <2>2. Moves(x, y, FALSE) /\ y.phase = "registered"
    <3>1. PICK byRuntime \in BOOLEAN, doubtful \in BOOLEAN, answer \in Results \cup {"none"} :
            byRuntime = x.byRuntime /\ doubtful = x.doubtful /\ answer = x.answer
      BY DEF RunRecord
    <3>2. y = [x EXCEPT !.aborted = TRUE, !.byRuntime = byRuntime, !.doubtful = doubtful, !.answer = answer]
      BY <2>1, <3>1 DEF RunRecord
    <3>3. Moves(x, [x EXCEPT !.aborted = TRUE, !.byRuntime = byRuntime, !.doubtful = doubtful, !.answer = answer], FALSE)
      BY <3>1, NoteMoves
    <3> QED BY <1>3, <2>1, <3>2, <3>3 DEF RunRecord
  <2>3. PICK z : z = Finished(y, "not_started")
    OBVIOUS
  <2>4. Moves(y, z, FALSE)
    BY <2>2, <2>3, FinishedMoves DEF Moves, Endings
  <2>5. Moves(z, [z EXCEPT !.at = "done"], FALSE)
    BY <2>4, AtMoves DEF Moves, Early
  <2>6. StartContinues(x, under, next) = [z EXCEPT !.at = "done"]
    BY <1>3, <2>1, <2>3 DEF StartContinues
  <2> QED BY <2>2, <2>4, <2>5, <2>6, MoveFurther
<1>4. CASE x.phase = "registered" /\ ~(x.aborted \/ ShuttingDown)
  <2>1. StartContinues(x, under, next) = IF CanStart(x, under) THEN next ELSE [x EXCEPT !.at = "done"]
    BY <1>4 DEF StartContinues
  <2> QED BY <1>1, <1>4, <2>1
<1> QED BY <1>2, <1>3, <1>4

LEMMA CaughtMoves ==
  ASSUME NEW x \in RunRecord, Consistent(x), x.phase # "issued"
  PROVE  Moves(x, Caught(x), FALSE)
<1>1. PICK y : y = IF terminating # None \/ (failure /\ x.phase = "issued") THEN x
                   ELSE Finished(x, DefaultOutcome(x))
  OBVIOUS
<1>2. Moves(x, y, FALSE)
  <2>1. CASE x.phase = "registered"
    BY <1>1, <2>1, FinishedMoves, DefaultOutcomeIs, MoveNot
  <2>2. CASE x.phase # "registered"
    <3>1. y = x
      BY <1>1, <2>2 DEF Finished, Active
    <3> QED BY <3>1, MoveNot
  <2> QED BY <2>1, <2>2
<1>3. Moves(y, [y EXCEPT !.at = "done"], FALSE)
  BY <1>2, AtMoves DEF Moves, Early
<1>4. Caught(x) = [y EXCEPT !.at = "done"]
  BY <1>1 DEF Caught
<1> QED BY <1>2, <1>3, <1>4, MoveFurther

LEMMA WorkerReadyForStep ==
  ASSUME WorkerInv, NEW r \in Runs, WorkerReadyFor(r)
  PROVE  WorkerInv'
<1> DEFINE x == run[r]
<1>1. x \in RunRecord /\ Consistent(x) /\ x.at = "ready" /\ child \in Workers \cup {None}
  BY RunTypes DEF WorkerReadyFor, WorkerInv, TypeInv, HostTypeInv
<1>2. PICK next : next = [x EXCEPT !.at = "options", !.under = child]
  OBVIOUS
<1>3. Moves(x, next, FALSE)
  <2>1. PICK y : y = [x EXCEPT !.at = "options"]
    OBVIOUS
  <2>2. Moves(x, y, FALSE) /\ y \in RunRecord /\ Consistent(y) /\ y.phase # "issued" /\ y.phase = x.phase
    <3>1. Moves(x, y, FALSE)
      BY <1>1, <2>1, AtMoves DEF Early
    <3>2. x.phase # "issued" /\ y.phase = x.phase
      BY <1>1, <2>1 DEF Consistent, Early, RunRecord
    <3> QED BY <3>1, <3>2 DEF Moves
  <2>3. next = [y EXCEPT !.under = child]
    BY <1>2, <2>1
  <2>4. next \in RunRecord
    BY <1>1, <2>2, <2>3, FieldIsSet
  <2>5. /\ next.at = y.at /\ next.phase = y.phase /\ next.told = y.told
        /\ next.stopping = y.stopping /\ next.outcome = y.outcome /\ next.forwarded = y.forwarded
        /\ next.terminals = y.terminals /\ next.aborted = y.aborted /\ next.ask = y.ask
        /\ next.doubtful = y.doubtful /\ next.question = y.question
    BY <2>2, <2>3 DEF RunRecord
  <2>6. Consistent(next)
    BY <2>2, <2>5 DEF Consistent
  <2>7. Moves(y, next, FALSE)
    BY <2>2, <2>4, <2>5, <2>6 DEF Moves, NotSent, Judged, SaysStopped
  <2> QED BY <2>2, <2>7, MoveFurther
<1>4. Moves(x, StartContinues(x, child, next), FALSE)
  BY <1>1, <1>3, ContinueMoves
<1>5. run' = [run EXCEPT ![r] = StartContinues(x, child, next)]
  BY <1>2 DEF WorkerReadyFor
<1>6. RunsMove
  BY <1>4, <1>5, OneRunGoes
<1>7. SameWorker /\ UNCHANGED <<toWorker, toApp, pending>>
  BY RunOnlyIs DEF WorkerReadyFor, requests
<1>8. PipesMove
  BY <1>7, PipesStay
<1> QED BY <1>6, <1>7, <1>8, QuietStep

LEMMA OptionsRejectedStep ==
  ASSUME WorkerInv, NEW r \in Runs, OptionsRejected(r)
  PROVE  WorkerInv'
<1>1. run[r] \in RunRecord /\ Consistent(run[r]) /\ run[r].at = "options"
  BY RunTypes DEF OptionsRejected
<1>2. run[r].phase # "issued"
  BY <1>1 DEF Consistent, Early
<1>3. run' = [run EXCEPT ![r] = Caught(run[r])]
  BY DEF OptionsRejected, WorkerInv, TypeInv, HostTypeInv
<1>4. Moves(run[r], Caught(run[r]), FALSE)
  BY <1>1, <1>2, CaughtMoves
<1>5. RunsMove
  BY <1>3, <1>4, OneRunGoes
<1>6. SameWorker /\ UNCHANGED <<toWorker, toApp, pending>>
  BY RunOnlyIs DEF OptionsRejected, requests
<1>7. PipesMove
  BY <1>6, PipesStay
<1> QED BY <1>5, <1>6, <1>7, QuietStep
LEMMA RunRepliedStep ==
  ASSUME WorkerInv, NEW r \in Runs, RunReplied(r)
  PROVE  WorkerInv'
<1> DEFINE x == run[r]
<1>1. x \in RunRecord /\ Consistent(x) /\ x.at = "replied"
  BY RunTypes DEF RunReplied
<1>2. PICK byRuntime \in BOOLEAN, aborted \in BOOLEAN :
        /\ byRuntime = IF x.answer = "aborted" THEN ~x.aborted /\ x.stopping = "none" ELSE x.byRuntime
        /\ aborted = (x.aborted \/ x.answer = "aborted")
  <2>1. PICK byRuntime \in BOOLEAN :
          byRuntime = IF x.answer = "aborted" THEN ~x.aborted /\ x.stopping = "none" ELSE x.byRuntime
    BY <1>1 DEF RunRecord
  <2>2. PICK aborted \in BOOLEAN : aborted = (x.aborted \/ x.answer = "aborted")
    OBVIOUS
  <2> QED BY <2>1, <2>2
<1>3. PICK y : y = [x EXCEPT !.byRuntime = byRuntime, !.aborted = aborted]
  OBVIOUS
<1>4. Moves(x, y, FALSE) /\ y \in RunRecord /\ Consistent(y) /\ y.at = "replied"
  <2>1. PICK doubtful \in BOOLEAN, answer \in Results \cup {"none"} :
          doubtful = x.doubtful /\ answer = x.answer
    BY <1>1 DEF RunRecord
  <2>2. Moves(x, [x EXCEPT !.aborted = aborted, !.byRuntime = byRuntime, !.doubtful = doubtful, !.answer = answer], FALSE)
    BY <1>1, <1>2, <2>1, NoteMoves
  <2>3. y = [x EXCEPT !.aborted = aborted, !.byRuntime = byRuntime, !.doubtful = doubtful, !.answer = answer]
    BY <1>1, <1>3, <2>1 DEF RunRecord
  <2>4. y.at = x.at
    BY <1>1, <1>3 DEF RunRecord
  <2> QED BY <1>1, <2>2, <2>3, <2>4 DEF Moves
<1>5. PICK z : z = Finished(y, DefaultOutcome(y))
  OBVIOUS
<1>6. Moves(y, z, FALSE) /\ z \in RunRecord /\ Consistent(z)
  BY <1>4, <1>5, FinishedMoves, DefaultOutcomeIs DEF Moves
<1>7. PICK u : u = [z EXCEPT !.at = "done"]
  OBVIOUS
<1>8. Moves(z, u, FALSE) /\ u \in RunRecord /\ Consistent(u)
  BY <1>6, <1>7, AtMoves DEF Moves, Early
<1>9. PICK v : v = [u EXCEPT !.answer = "none"]
  OBVIOUS
<1>10. Moves(u, v, FALSE)
  <2>1. PICK byRuntime2 \in BOOLEAN, doubtful \in BOOLEAN, aborted2 \in BOOLEAN :
          byRuntime2 = u.byRuntime /\ doubtful = u.doubtful /\ aborted2 = u.aborted
    BY <1>8 DEF RunRecord
  <2>2. Moves(u, [u EXCEPT !.aborted = aborted2, !.byRuntime = byRuntime2, !.doubtful = doubtful, !.answer = "none"], FALSE)
    BY <1>8, <2>1, NoteMoves
  <2>3. v = [u EXCEPT !.aborted = aborted2, !.byRuntime = byRuntime2, !.doubtful = doubtful, !.answer = "none"]
    BY <1>8, <1>9, <2>1 DEF RunRecord
  <2> QED BY <2>2, <2>3
<1>11. Moves(x, v, FALSE)
  BY <1>4, <1>6, <1>8, <1>10, MoveFurther
<1>12. run' = [run EXCEPT ![r] = v]
  <2>1. y = [x EXCEPT !.byRuntime = IF x.answer = "aborted" THEN ~x.aborted /\ x.stopping = "none" ELSE @,
                      !.aborted = @ \/ x.answer = "aborted"]
    BY <1>2, <1>3
  <2>2. v = [z EXCEPT !.at = "done", !.answer = "none"]
    BY <1>7, <1>9
  <2> QED BY <1>5, <2>1, <2>2 DEF RunReplied
<1>13. SameWorker /\ UNCHANGED <<toWorker, toApp, pending>>
  BY RunOnlyIs DEF RunReplied, requests
<1> QED BY <1>11, <1>12, <1>13, OneRunGoes, PipesStay, QuietStep

LEMMA AbortRepliedStep ==
  ASSUME WorkerInv, NEW r \in Runs, AbortReplied(r)
  PROVE  WorkerInv'
<1> DEFINE x == run[r]
           stopped == x.stopping = "yes" /\ x.phase # "over"
<1>1. x \in RunRecord /\ Consistent(x)
  BY RunTypes
<1>2. PICK told \in {"aborted", "unconfirmed"} : told = IF stopped THEN "aborted" ELSE "unconfirmed"
  OBVIOUS
<1>3. PICK aborted \in BOOLEAN : aborted = (x.aborted \/ stopped)
  OBVIOUS
<1>4. PICK y : y = [x EXCEPT !.stopping = "none", !.told = told]
  OBVIOUS
<1>5. Moves(x, y, FALSE) /\ y \in RunRecord /\ Consistent(y) /\ y.aborted = x.aborted
  <2>1. told = "aborted" => SaysStopped(x)
    BY <1>2 DEF SaysStopped
  <2>2. Moves(x, y, FALSE)
    BY <1>1, <1>4, <2>1, StoppingMoves
  <2>3. y.aborted = x.aborted
    BY <1>1, <1>4 DEF RunRecord
  <2> QED BY <2>2, <2>3 DEF Moves
<1>6. PICK z : z = [y EXCEPT !.aborted = aborted]
  OBVIOUS
<1>7. Moves(y, z, FALSE)
  <2>1. PICK byRuntime \in BOOLEAN, doubtful \in BOOLEAN, answer \in Results \cup {"none"} :
          byRuntime = y.byRuntime /\ doubtful = y.doubtful /\ answer = y.answer
    BY <1>5 DEF RunRecord
  <2>2. Moves(y, [y EXCEPT !.aborted = aborted, !.byRuntime = byRuntime, !.doubtful = doubtful, !.answer = answer], FALSE)
    BY <1>3, <1>5, <2>1, NoteMoves
  <2>3. z = [y EXCEPT !.aborted = aborted, !.byRuntime = byRuntime, !.doubtful = doubtful, !.answer = answer]
    BY <1>5, <1>6, <2>1 DEF RunRecord
  <2> QED BY <2>2, <2>3
<1>8. Moves(x, z, FALSE)
  BY <1>5, <1>7, MoveFurther
<1>9. run' = [run EXCEPT ![r] = z]
  <2>1. z = [x EXCEPT !.stopping = "none", !.aborted = @ \/ stopped, !.told = IF stopped THEN "aborted" ELSE "unconfirmed"]
    BY <1>2, <1>3, <1>4, <1>6
  <2> QED BY <2>1 DEF AbortReplied
<1>10. SameWorker /\ UNCHANGED <<toWorker, toApp, pending>>
  BY RunOnlyIs DEF AbortReplied, requests
<1> QED BY <1>8, <1>9, <1>10, OneRunGoes, PipesStay, QuietStep

LEMMA ApproveStep ==
  ASSUME WorkerInv, NEW r \in Runs, Approve(r)
  PROVE  WorkerInv'
<1>1. run[r] \in RunRecord /\ Consistent(run[r]) /\ run[r].ask = "offered" /\ child # None
  BY RunTypes DEF Approve
<1>2. run[r].phase = "issued" /\ run[r].question \in Nat
  BY <1>1 DEF Consistent, RunRecord
<1>3. Moves(run[r], [run[r] EXCEPT !.ask = "answering"], FALSE)
  BY <1>1, <1>2, AskMoves
<1>4. RunsMove
  <2>1. run' = [run EXCEPT ![r] = [run[r] EXCEPT !.ask = "answering"]]
    BY DEF Approve, WorkerInv, TypeInv, HostTypeInv
  <2> QED BY <1>3, <2>1, OneRunGoes
<1>5. SameWorker /\ UNCHANGED toApp
  BY RunOnlyIs DEF Approve
<1>6. CanAsk("reply", r, run[r].question) /\ Sends("reply", r, run[r].question)
  BY DEF Approve
<1>7. PipesMove
  BY <1>1, <1>2, <1>5, <1>6, PipesSend
<1> QED BY <1>4, <1>5, <1>7, QuietStep
LEMMA AbortStep ==
  ASSUME WorkerInv, NEW r \in Runs, Abort(r)
  PROVE  WorkerInv'
<1> DEFINE x == run[r]
<1>1. x \in RunRecord /\ Consistent(x) /\ x.stopping = "none" /\ SameWorker /\ UNCHANGED toApp
  BY RunTypes, RunOnlyIs DEF Abort
<1>2. ASSUME x.phase = "registered", UNCHANGED requests,
             run' = [run EXCEPT ![r] = [Finished([x EXCEPT !.aborted = TRUE], "not_started") EXCEPT !.told = "not_started"]]
      PROVE  WorkerInv'
  <2>1. PICK y : y = [x EXCEPT !.aborted = TRUE]
    OBVIOUS
  <2>2. Moves(x, y, FALSE) /\ y \in RunRecord /\ Consistent(y) /\ y.phase = "registered" /\ y.stopping = "none"
    <3>1. PICK byRuntime \in BOOLEAN, doubtful \in BOOLEAN, answer \in Results \cup {"none"} :
            byRuntime = x.byRuntime /\ doubtful = x.doubtful /\ answer = x.answer
      BY <1>1 DEF RunRecord
    <3>2. Moves(x, [x EXCEPT !.aborted = TRUE, !.byRuntime = byRuntime, !.doubtful = doubtful, !.answer = answer], FALSE)
      BY <1>1, <3>1, NoteMoves
    <3>3. y = [x EXCEPT !.aborted = TRUE, !.byRuntime = byRuntime, !.doubtful = doubtful, !.answer = answer]
      BY <1>1, <2>1, <3>1 DEF RunRecord
    <3>4. y.phase = x.phase /\ y.stopping = x.stopping
      BY <1>1, <2>1 DEF RunRecord
    <3> QED BY <1>1, <1>2, <3>2, <3>3, <3>4 DEF Moves
  <2>3. PICK z : z = Finished(y, "not_started")
    OBVIOUS
  <2>4. Moves(y, z, FALSE) /\ z \in RunRecord /\ Consistent(z) /\ z.stopping = "none"
        /\ z.phase \in {"registered", "over"} /\ (z.phase = "registered" => z.doubtful)
    <3>1. /\ Moves(y, z, FALSE) /\ z.stopping = y.stopping /\ z.phase \in {y.phase, "over"}
          /\ Active(y) /\ (y.doubtful => FALSE) => z.phase = "over"
      BY <2>2, <2>3, FinishedMoves DEF Endings
    <3>2. ~(Active(y) /\ ~y.doubtful) => z = y
      BY <2>3 DEF Finished
    <3>3. Active(y)
      BY <2>2 DEF Active
    <3>4. y.doubtful \in BOOLEAN
      BY <2>2 DEF RunRecord
    <3> QED BY <2>2, <3>1, <3>2, <3>3, <3>4 DEF Moves
  <2>5. PICK u : u = [z EXCEPT !.told = "not_started"]
    OBVIOUS
  <2>6. /\ u \in RunRecord /\ u.at = z.at /\ u.phase = z.phase /\ u.told = "not_started"
        /\ u.stopping = z.stopping /\ u.outcome = z.outcome /\ u.forwarded = z.forwarded
        /\ u.terminals = z.terminals /\ u.aborted = z.aborted /\ u.ask = z.ask
        /\ u.doubtful = z.doubtful /\ u.under = z.under /\ u.question = z.question
    BY <2>4, <2>5 DEF RunRecord
  <2>7. Consistent(u)
    BY <2>4, <2>6 DEF Consistent
  <2>8. Moves(x, z, FALSE)
    BY <2>2, <2>4, MoveFurther
  <2>9. Moves(x, u, FALSE)
    <3>1. NotSent(x)
      BY <1>2 DEF NotSent
    <3>2. SaysStopped(u) => FALSE
      BY <2>4, <2>6 DEF SaysStopped
    <3> QED BY <2>4, <2>6, <2>7, <2>8, <3>1, <3>2 DEF Moves
  <2>10. run' = [run EXCEPT ![r] = u]
    BY <1>2, <2>1, <2>3, <2>5
  <2>11. UNCHANGED <<toWorker, pending>>
    BY <1>2 DEF requests
  <2> QED BY <1>1, <2>9, <2>10, <2>11, OneRunGoes, PipesStay, QuietStep
<1>3. ASSUME x.phase = "issued", NEW stopping \in {"none", "asked"}, NEW told \in {"none", "unconfirmed"},
             run' = [run EXCEPT ![r] = [x EXCEPT !.stopping = stopping, !.told = told]]
      PROVE  RunsMove
  <2>1. Moves(x, [x EXCEPT !.stopping = stopping, !.told = told], FALSE)
    BY <1>1, <1>3, StoppingMoves
  <2> QED BY <1>3, <2>1, OneRunGoes
<1>4. ASSUME x.phase = "issued", child # None, CanAsk("abort", r, 0), Sends("abort", r, 0),
             run' = [run EXCEPT ![r].stopping = "asked", ![r].told = "none"]
      PROVE  WorkerInv'
  <2>1. run' = [run EXCEPT ![r] = [x EXCEPT !.stopping = "asked", !.told = "none"]]
    BY <1>4 DEF WorkerInv, TypeInv, HostTypeInv
  <2>2. RunsMove
    BY <1>3, <1>4, <2>1
  <2>3. PipesMove
    BY <1>1, <1>4, PipesSend
  <2> QED BY <1>1, <2>2, <2>3, QuietStep
<1>5. ASSUME x.phase = "issued", UNCHANGED requests, run' = [run EXCEPT ![r].told = "unconfirmed"]
      PROVE  WorkerInv'
  <2>1. run' = [run EXCEPT ![r] = [x EXCEPT !.stopping = "none", !.told = "unconfirmed"]]
    <3>1. [x EXCEPT !.told = "unconfirmed"] = [x EXCEPT !.stopping = "none", !.told = "unconfirmed"]
      BY <1>1 DEF RunRecord
    <3> QED BY <1>5, <3>1 DEF WorkerInv, TypeInv, HostTypeInv
  <2>2. RunsMove
    BY <1>3, <1>5, <2>1
  <2>3. PipesMove
    BY <1>1, <1>5, PipesStay DEF requests
  <2> QED BY <1>1, <2>2, <2>3, QuietStep
<1> QED BY <1>2, <1>4, <1>5 DEF Abort

(* session.start is written to the worker the options were asked from.      *)
LEMMA KeptOf ==
  ASSUME NEW r \in Runs, Places,
         \A w \in Workers : Advances(host[w].run[r], toWorker[w], toApp[w], host'[w].run[r], toWorker'[w], toApp'[w], r)
  PROVE  /\ \A w \in Workers : Place(host'[w].run[r], toWorker'[w], toApp'[w], r)
         /\ Kept(r)
<1>1. ASSUME NEW w \in Workers
      PROVE  /\ Place(host'[w].run[r], toWorker'[w], toApp'[w], r)
             /\ host[w].run[r].asks <= host'[w].run[r].asks
             /\ Untouched(host[w].run[r], toWorker[w], toApp[w], r) =>
                  Untouched(host'[w].run[r], toWorker'[w], toApp'[w], r)
             /\ Quiet(host[w].run[r], toWorker[w], r) => Quiet(host'[w].run[r], toWorker'[w], r)
             /\ Stops(host[w].run[r], toWorker[w], r) => Stops(host'[w].run[r], toWorker'[w], r)
             /\ Spent(host[w].run[r], toWorker[w], toApp[w], r) =>
                  Spent(host'[w].run[r], toWorker'[w], toApp'[w], r)
  BY DEF Places, Advances
<1> QED BY <1>1 DEF Kept, AllUntouched, AllQuiet, AllStopped, AllSpent, Workers

LEMMA StartPlaced ==
  ASSUME NEW r \in Runs, NEW x, NEW in \in Seq(Requests), NEW out,
         Place(x, in, out, r), Untouched(x, in, out, r)
  PROVE  Place(x, Append(in, Request("start", r, 0)), out, r)
<1>1. PICK q : q = Request("start", r, 0)
  OBVIOUS
<1>2. q \in Requests
  BY <1>1 DEF Request, Asked, Requests, Plain, StartRequests
<1>3. PICK more : more = Append(in, q)
  OBVIOUS
<1>4. \A i \in 1..Len(more) : (i \in 1..Len(in) /\ more[i] = in[i]) \/ i = Len(in) + 1
  BY <1>2, <1>3, AppendOf
<1>5. \A i \in 1..Len(more) : IsStart(more[i], r) => i = Len(in) + 1
  BY <1>4 DEF Untouched, Starts
<1>6. x.sdk = "none" /\ \A k \in 1..Len(out) : ~Concerns(out[k], r)
  BY DEF Untouched, NoHostRun
<1>7. Queued(x, more, out, r)
  BY <1>5, <1>6 DEF Queued
<1> QED BY <1>1, <1>3, <1>7 DEF Place

LEMMA OptionsKnownStep ==
  ASSUME WorkerInv, NEW r \in Runs, OptionsKnown(r)
  PROVE  WorkerInv'
<1> DEFINE x == run[r]
           q == Request("start", r, 0)
           goes == x.phase = "registered" /\ ~x.aborted /\ ~ShuttingDown /\ CanStart(x, x.under)
<1>1. x \in RunRecord /\ Consistent(x) /\ x.at = "options" /\ SameWorker /\ UNCHANGED toApp /\ KnownOf(r)
  BY RunTypes, RunOnlyIs DEF OptionsKnown
<1>2. PICK issued : issued = [x EXCEPT !.at = "reply", !.phase = "issued"]
  OBVIOUS
<1>3. run' = [run EXCEPT ![r] = StartContinues(x, x.under, issued)] /\ run \in [Runs -> RunRecord]
  BY <1>2 DEF OptionsKnown, WorkerInv, TypeInv, HostTypeInv
<1>4. IF run'[r] = issued THEN pending' = pending \cup {q} /\ Writes(q) ELSE UNCHANGED requests
  BY <1>2 DEF OptionsKnown
<1>5. CASE ~goes
  <2>1. Moves(x, StartContinues(x, x.under, issued), FALSE)
    BY <1>1, <1>5, ContinueMoves
  <2>2. run'[r] # issued
    <3>1. issued.phase = "issued"
      BY <1>1, <1>2 DEF RunRecord
    <3>2. x.phase # "issued"
      BY <1>1 DEF Consistent, Early
    <3>3. run'[r].phase # "issued"
      BY <1>3, <2>1, <3>2 DEF Moves
    <3> QED BY <3>1, <3>3
  <2>3. UNCHANGED <<toWorker, pending>>
    BY <1>4, <2>2 DEF requests
  <2> QED BY <1>1, <1>3, <2>1, <2>3, OneRunGoes, PipesStay, QuietStep
<1>6. CASE goes
  <2>1. run'[r] = issued /\ \A s \in Runs \ {r} : run'[s] = run[s]
    BY <1>3, <1>6 DEF StartContinues
  <2>2. /\ child \in Workers /\ x.under = child /\ ~x.doubtful /\ child # None
        /\ pending' = pending \cup {q} /\ Writes(q)
    BY <1>4, <1>6, <2>1 DEF CanStart, WorkerInv, TypeInv, HostTypeInv
  <2>3. /\ issued \in RunRecord /\ issued.at = "reply" /\ issued.phase = "issued" /\ issued.told = x.told
        /\ issued.stopping = x.stopping /\ issued.outcome = x.outcome /\ issued.forwarded = x.forwarded
        /\ issued.terminals = x.terminals /\ issued.aborted = x.aborted /\ issued.ask = x.ask
        /\ issued.doubtful = x.doubtful /\ issued.under = x.under /\ issued.question = x.question
    BY <1>1, <1>2 DEF RunRecord
  <2>4. q \in Requests /\ q.method = "start" /\ q.of = r
    BY DEF Request, Asked, Requests, Plain, StartRequests
  <2>5. host' = host /\ toApp' = toApp /\ toWorker \in [Workers -> Seq(Requests)] /\ host \in [Workers -> HostRecord]
    BY <1>1 DEF SameWorker, WorkerInv, TypeInv, HostTypeInv
  <2>6. toWorker' = [toWorker EXCEPT ![child] = IF host[child].up THEN Append(toWorker[child], q) ELSE toWorker[child]]
    BY <2>2, <2>5 DEF Writes
  <2>7. Append(toWorker[child], q) \in Seq(Requests)
    BY <2>2, <2>4, <2>5, AppendOf
  <2>8. toWorker' \in [Workers -> Seq(Requests)]
    BY <2>2, <2>5, <2>6, <2>7
  <2>9. ASSUME NEW w \in Workers
        PROVE  toWorker'[w] = toWorker[w] \/ (host[w].up /\ w = child /\ toWorker'[w] = Append(toWorker[w], q))
    BY <2>2, <2>5, <2>6
  <2>10. TypeInv'
    <3>1. run' \in [Runs -> RunRecord]
      BY <1>3, <2>1, <2>3
    <3>2. pending' \in SUBSET Requests
      BY <2>2, <2>4 DEF WorkerInv, TypeInv, HostTypeInv
    <3> QED BY <1>1, <2>5, <2>8, <3>1, <3>2 DEF SameWorker, WorkerInv, TypeInv, HostTypeInv, Workers
  <2>11. Processes'
    BY <1>1, <2>2, <2>5, <2>9 DEF SameWorker, WorkerInv, Processes, Workers
  <2>12. ASSUME NEW s \in Runs, s # r, NEW w \in Workers
         PROVE  Advances(host[w].run[s], toWorker[w], toApp[w], host'[w].run[s], toWorker'[w], toApp'[w], s)
    <3>1. host[w].run[s] \in HostRunRecord /\ host[w].run[s].asks \in Nat /\ toWorker[w] \in Seq(Requests)
      BY HostTypes DEF WorkerInv, TypeInv
    <3>2. ~IsStart(q, s)
      BY <2>4, <2>12 DEF IsStart
    <3>3. Advances(host[w].run[s], toWorker[w], toApp[w], host[w].run[s], Append(toWorker[w], q), toApp[w], s)
      BY <2>4, <3>1, <3>2, AdvanceAsked
    <3>4. Advances(host[w].run[s], toWorker[w], toApp[w], host[w].run[s], toWorker[w], toApp[w], s)
      BY <3>1, AdvanceNot
    <3>5. host'[w].run[s] = host[w].run[s] /\ toApp'[w] = toApp[w]
      BY <2>5
    <3> QED BY <2>9, <3>3, <3>4, <3>5
  <2>13. AllUntouched(r)
    BY <1>1 DEF KnownOf, Knows, NotSent, Early
  <2>14. ASSUME NEW w \in Workers PROVE Place(host'[w].run[r], toWorker'[w], toApp'[w], r)
    <3>1. Place(host[w].run[r], toWorker[w], toApp[w], r) /\ Untouched(host[w].run[r], toWorker[w], toApp[w], r)
      BY <2>13 DEF AllUntouched, WorkerInv, Places
    <3>2. toWorker[w] \in Seq(Requests)
      BY <2>5
    <3>3. Place(host[w].run[r], Append(toWorker[w], q), toApp[w], r)
      BY <3>1, <3>2, StartPlaced
    <3> QED BY <2>5, <2>9, <3>1, <3>3
  <2>15. Places'
    <3>1. ASSUME NEW s \in Runs, s # r
          PROVE  \A w \in Workers : Place(host'[w].run[s], toWorker'[w], toApp'[w], s)
      BY <2>12, <3>1, KeptOf DEF WorkerInv
    <3> QED BY <2>14, <3>1 DEF Places, Workers
  <2>16. ASSUME NEW s \in Runs, s # r PROVE KnownOf(s)'
    <3>1. Kept(s) /\ KnownOf(s) /\ run[s] \in RunRecord /\ Consistent(run[s])
      BY <2>12, <2>16, KeptOf, RunTypes DEF WorkerInv
    <3>2. Moves(run[s], run'[s], FALSE)
      BY <2>1, <2>16, <3>1, MoveNot
    <3>3. child' = child /\ child' # None
      BY <1>1, <2>2 DEF SameWorker
    <3> QED BY <2>5, <3>1, <3>2, <3>3, MoveKnown
  <2>17. KnownOf(r)'
    <3>1. x.told # "not_started" /\ x.told # "aborted" /\ x.stopping # "yes" /\ ~x.forwarded
          /\ x.outcome \in {"none", "unconfirmed"} /\ x.ask = "none" /\ x.question = 0 /\ x.terminals = 0
      BY <1>1, <1>6, <2>2 DEF Consistent
    <3>2. Knows(issued, r)'
      BY <2>3, <3>1 DEF Knows, NotSent, Judged, Early
    <3>3. Consistent(issued)
      BY <2>3, <3>1 DEF Consistent, Early
    <3>4. host'[child].run[r].asks \in Nat
      BY <2>2, <2>5, HostTypes DEF WorkerInv, TypeInv
    <3>5. child' = child
      BY <1>1 DEF SameWorker
    <3>6. Owned(issued, r)'
      BY <2>2, <2>3, <3>1, <3>4, <3>5 DEF Owned, Workers
    <3> QED BY <2>1, <3>2, <3>3, <3>6 DEF KnownOf
  <2>18. Known'
    BY <2>16, <2>17 DEF Known
  <2> QED BY <2>10, <2>11, <2>15, <2>18 DEF WorkerInv
<1> QED BY <1>5, <1>6
-----------------------------------------------------------------------------
(* The steps that leave the runs alone, but for shutdown().                 *)
LEMMA CallStep ==
  ASSUME WorkerInv, NEW c \in Calls, CallSends(c) \/ FollowUp(c)
  PROVE  WorkerInv'
<1>1. SameWorker /\ UNCHANGED <<toApp, run>>
  BY DEF CallSends, FollowUp, SameWorker, current, reaping
<1>2. \/ UNCHANGED requests
      \/ child # None /\ CanAsk("query", c, 0) /\ Sends("query", c, 0)
      \/ child # None /\ CanAsk("follow", c, 0) /\ Sends("follow", c, 0)
  BY DEF CallSends, FollowUp
<1>3. PipesMove
  BY <1>1, <1>2, PipesSend, PipesStay DEF requests
<1> QED BY <1>1, <1>3, RunsStay, QuietStep

LEMMA FenceStep ==
  ASSUME WorkerInv, NEW f \in Fences, FenceForRestart(f) \/ ReleaseFence(f)
  PROVE  WorkerInv'
<1>1. SameWorker /\ UNCHANGED <<toApp, run>>
  BY DEF FenceForRestart, ReleaseFence, SameWorker, current, reaping
<1>2. f # None
  BY HostAssumption
<1>3. \/ UNCHANGED requests
      \/ child # None /\ CanAsk("close", f, 0) /\ Sends("close", f, 0)
      \/ child # None /\ CanAsk("open", f, 0) /\ Sends("open", f, 0)
  <2>1. CASE FenceForRestart(f)
    BY <2>1 DEF FenceForRestart
  <2>2. CASE ReleaseFence(f)
    BY <2>2 DEF ReleaseFence
  <2> QED BY <2>1, <2>2
<1>4. PipesMove
  BY <1>1, <1>3, PipesSend, PipesStay DEF requests
<1> QED BY <1>1, <1>4, RunsStay, QuietStep

LEMMA WatchStep ==
  ASSUME WorkerInv, ReadActivity \/ ReadTimesOut
  PROVE  WorkerInv'
<1>1. SameWorker /\ UNCHANGED <<toApp, run, pending>>
  BY DEF ReadActivity, ReadTimesOut, SameWorker, current, reaping, hostVars
<1>2. UNCHANGED toWorker \/ (child # None /\ Writes(Request("activity", None, 0)))
  BY DEF ReadActivity, ReadTimesOut, hostVars
<1>3. PICK q : q = Request("activity", None, 0)
  OBVIOUS
<1>4. q \in Requests /\ q.method # "start"
  BY <1>3 DEF Request, Asked, Requests, Readings
<1>5. PipesMove
  BY <1>1, <1>2, <1>3, <1>4, PipesWrite, PipesStay
<1> QED BY <1>1, <1>5, RunsStay, QuietStep

LEMMA ShutdownStep ==
  ASSUME WorkerInv, Shutdown
  PROVE  WorkerInv'
<1>1. SameWorker /\ UNCHANGED toApp
  BY DEF Shutdown, SameWorker, current, reaping
<1>2. CASE UNCHANGED <<run, requests>>
  BY <1>1, <1>2, PipesStay, RunsStay, QuietStep DEF requests
<1>3. CASE /\ child # None /\ CanAsk("shutdown", None, 0) /\ Sends("shutdown", None, 0)
           /\ run' = [r \in Runs |-> [run[r] EXCEPT !.aborted = @ \/ Active(run[r])]]
  <2>1. ASSUME NEW r \in Runs PROVE Moves(run[r], run'[r], FALSE)
    <3>1. PICK x : x = run[r]
      OBVIOUS
    <3>2. x \in RunRecord /\ Consistent(x)
      BY <3>1, RunTypes
    <3>3. PICK aborted \in BOOLEAN, byRuntime \in BOOLEAN, doubtful \in BOOLEAN, answer \in Results \cup {"none"} :
            aborted = (x.aborted \/ Active(x)) /\ byRuntime = x.byRuntime /\ doubtful = x.doubtful /\ answer = x.answer
      BY <3>2 DEF RunRecord
    <3>4. Moves(x, [x EXCEPT !.aborted = aborted, !.byRuntime = byRuntime, !.doubtful = doubtful, !.answer = answer], FALSE)
      BY <3>2, <3>3, NoteMoves
    <3>5. [x EXCEPT !.aborted = @ \/ Active(x)] =
            [x EXCEPT !.aborted = aborted, !.byRuntime = byRuntime, !.doubtful = doubtful, !.answer = answer]
      BY <3>2, <3>3 DEF RunRecord
    <3> QED BY <1>3, <3>1, <3>4, <3>5
  <2>2. RunsMove
    <3>1. \A r \in Runs : run'[r] \in RunRecord
      BY <2>1 DEF Moves
    <3> QED BY <1>3, <2>1, <3>1 DEF RunsMove
  <2>3. PipesMove
    BY <1>1, <1>3, PipesSend
  <2>4. QED
    BY <1>1, <2>2, <2>3, QuietStep
<1> QED BY <1>2, <1>3 DEF Shutdown
-----------------------------------------------------------------------------
(* A frame of the current worker is read.                                   *)
LEMMA OthersAreDone ==
  ASSUME WorkerInv, child # None, NEW w \in Workers, w # child, NEW r \in Runs
  PROVE  /\ Quiet(host[w].run[r], toWorker[w], r) /\ Stops(host[w].run[r], toWorker[w], r)
         /\ Spent(host[w].run[r], toWorker[w], toApp[w], r)
<1>0. w # None /\ terminating = None /\ ~failure
  BY HostAssumption DEF Workers, WorkerInv, Processes
<1>1. ~host[w].up /\ toWorker[w] = <<>> /\ toApp[w] = <<>> /\ host[w].run[r].sdk \in {"none", "gone"}
  BY <1>0 DEF WorkerInv, Processes
<1>2. ~Live(host[w].run[r])
  BY <1>1 DEF Live
<1>3. PICK none : none = <<>> /\ \A i : i \notin 1..Len(none)
  OBVIOUS
<1> QED BY <1>1, <1>2, <1>3 DEF Quiet, Stops, Spent, Halted, Starts

LEMMA PipesRead ==
  ASSUME WorkerInv, child # None, toApp[child] # <<>>, FrameRead, UNCHANGED <<toWorker, host>>,
         pending' \in SUBSET pending, NEW f, f = Head(toApp[child])
  PROVE  /\ PipesMove /\ f \in Frames
         /\ \A r \in Runs :
              /\ Concerns(f, r) => ~NotSent(run[r])
              /\ IsAnswer(f, r) => AllQuiet(r)'
              /\ IsStopped(f, r) => AllStopped(r)'
              /\ IsEvent(f, r) => f.ask <= host[child].run[r].asks
              /\ IsTerminal(f, r) => AllSpent(r)' /\ ~run[r].forwarded
<1>1. /\ child \in Workers /\ toApp \in [Workers -> Seq(Frames)] /\ toWorker' = toWorker /\ host' = host
      /\ toWorker \in [Workers -> Seq(Requests)]
  BY DEF WorkerInv, TypeInv, HostTypeInv
<1>2. PICK out \in Seq(Frames) : out = toApp[child]
  BY <1>1
<1>3. PICK rest : rest = Tail(out)
  OBVIOUS
<1>4. rest \in Seq(Frames) /\ f \in Frames /\ 1 \in 1..Len(out) /\ out[1] = f /\ Head(out) = f
  BY <1>2, <1>3, TailOf
<1>5. toApp' = [toApp EXCEPT ![child] = rest]
  BY <1>2, <1>3 DEF FrameRead
<1>6. /\ toApp' \in [Workers -> Seq(Frames)] /\ toApp'[child] = rest
      /\ \A w \in Workers : w # child => toApp'[w] = toApp[w]
  BY <1>1, <1>4, <1>5
<1>7. ASSUME NEW r \in Runs
      PROVE  /\ Advances(host[child].run[r], toWorker[child], out, host[child].run[r], toWorker[child], rest, r)
             /\ IsAnswer(f, r) => Quiet(host[child].run[r], toWorker[child], r)
             /\ IsStopped(f, r) => Stops(host[child].run[r], toWorker[child], r)
             /\ IsEvent(f, r) => f.ask <= host[child].run[r].asks
             /\ IsTerminal(f, r) => Spent(host[child].run[r], toWorker[child], rest, r)
  <2>1. PICK x : x = host[child].run[r]
    OBVIOUS
  <2>2. x.asks \in Nat /\ Place(x, toWorker[child], out, r)
    BY <1>1, <1>2, <2>1, HostTypes DEF WorkerInv, TypeInv, Places
  <2> QED BY <1>2, <1>3, <1>4, <2>1, <2>2, AdvanceRead
<1>8. PipesMove
  <2>1. ASSUME NEW w \in Workers, NEW r \in Runs
        PROVE  Advances(host[w].run[r], toWorker[w], toApp[w], host[w].run[r], toWorker'[w], toApp'[w], r)
    <3>1. CASE w = child
      BY <1>1, <1>2, <1>6, <1>7, <3>1
    <3>2. CASE w # child
      <4>1. host[w].run[r].asks \in Nat /\ toApp'[w] = toApp[w]
        BY <1>6, <3>2, HostTypes DEF WorkerInv, TypeInv
      <4> QED BY <1>1, <4>1, AdvanceNot
    <3> QED BY <3>1, <3>2
  <2> QED BY <1>1, <1>6, <2>1 DEF PipesMove, WorkerInv, TypeInv, HostTypeInv, Processes
<1>9. ASSUME NEW r \in Runs
      PROVE  /\ Concerns(f, r) => ~NotSent(run[r])
             /\ IsTerminal(f, r) => ~run[r].forwarded
  <2>1. KnownOf(r)
    BY RunTypes
  <2>2. NotSent(run[r]) => ~Concerns(f, r)
    BY <1>1, <1>2, <1>4, <2>1 DEF KnownOf, Knows, AllUntouched, Untouched
  <2>3. run[r].forwarded => ~IsTerminal(f, r)
    BY <1>1, <1>2, <1>4, <2>1 DEF KnownOf, Knows, AllSpent, Spent
  <2> QED BY <2>2, <2>3
<1>10. ASSUME NEW r \in Runs
       PROVE  /\ IsAnswer(f, r) => AllQuiet(r)'
              /\ IsStopped(f, r) => AllStopped(r)'
              /\ IsTerminal(f, r) => AllSpent(r)'
  <2>1. \A w \in Workers : w # child =>
          /\ Quiet(host[w].run[r], toWorker[w], r) /\ Stops(host[w].run[r], toWorker[w], r)
          /\ Spent(host[w].run[r], toWorker[w], toApp[w], r)
    BY OthersAreDone
  <2>2. IsAnswer(f, r) => AllQuiet(r)'
    BY <1>1, <1>7, <2>1 DEF AllQuiet, Workers
  <2>3. IsStopped(f, r) => AllStopped(r)'
    BY <1>1, <1>7, <2>1 DEF AllStopped, Workers
  <2>4. IsTerminal(f, r) => AllSpent(r)'
    BY <1>1, <1>6, <1>7, <2>1 DEF AllSpent, Workers
  <2> QED BY <2>2, <2>3, <2>4
<1> QED BY <1>4, <1>7, <1>8, <1>9, <1>10

(* A run that is issued stays so.                                           *)
LEMMA KnownAgain ==
  ASSUME NEW r \in Runs, KnownOf(r), Kept(r), NEW x, x = run[r], NEW y, y = run'[r], x.phase = "issued",
         y.phase = x.phase, y.at = x.at, y.told = x.told, y.stopping = x.stopping \/ (y.stopping = "yes" /\ AllStopped(r)'),
         y.outcome = x.outcome, y.under = x.under, y.forwarded => x.forwarded \/ AllSpent(r)',
         Consistent(y), child' = child, child # None, host' = host,
         y.question = x.question \/ y.question <= host[child].run[r].asks
  PROVE  KnownOf(r)'
<1>1. /\ NotSent(x) => AllUntouched(r)
      /\ Judged(x) => AllQuiet(r)
      /\ SaysStopped(x) => AllStopped(r)
      /\ x.forwarded => AllSpent(r)
  BY DEF KnownOf, Knows, SaysStopped
<1>2. Knows(y, r)'
  BY <1>1 DEF Knows, NotSent, Judged, SaysStopped, Kept
<1>3. x.under = child /\ x.under \in Workers /\ x.question <= host[x.under].run[r].asks
  BY DEF KnownOf, Owned
<1>4. Owned(y, r)'
  BY <1>3 DEF Owned, Workers
<1> QED BY <1>2, <1>4 DEF KnownOf

LEMMA KeptHere ==
  ASSUME WorkerInv, PipesMove, UNCHANGED host, NEW r \in Runs
  PROVE  Kept(r) /\ KnownOf(r)
<1>1. AdvanceAll
  BY DEF PipesMove, AdvanceAll
<1> QED BY <1>1, RunTypes, WhatIsKept DEF WorkerInv

LEMMA EventReadStep ==
  ASSUME WorkerInv, child # None, toApp[child] # <<>>, NEW e, e = Head(toApp[child]), e.kind = "event",
         EventRead(e)
  PROVE  WorkerInv'
<1>1. SameWorker /\ FrameRead /\ UNCHANGED <<toWorker, pending, host>>
  BY DEF EventRead, SameWorker, current, reaping, requests
<1>2. /\ PipesMove /\ e \in Frames
      /\ \A r \in Runs :
              /\ Concerns(e, r) => ~NotSent(run[r])
              /\ IsEvent(e, r) => e.ask <= host[child].run[r].asks
              /\ IsTerminal(e, r) => AllSpent(r)' /\ ~run[r].forwarded
  BY <1>1, PipesRead
<1>3. e \in Events
  BY <1>2 DEF Frames, Responses
<1>4. PICK r \in Runs : r = e.of
  BY <1>3 DEF Events
<1>5. e.ask \in Nat /\ IsEvent(e, r) /\ Concerns(e, r) /\ e.ask <= host[child].run[r].asks
      /\ e.result \in {"ask", "cancelled", "completed", "failed"}
  BY <1>2, <1>3, <1>4 DEF Events, IsEvent, Concerns
<1>6. PICK x : x = run[r] /\ x \in RunRecord /\ Consistent(x)
  BY RunTypes
<1>7. x.phase \notin {"none", "registered"}
  BY <1>2, <1>5, <1>6 DEF NotSent
<1>8. CASE ~Active(x)
  <2>1. UNCHANGED run
    BY <1>4, <1>6, <1>8 DEF EventRead
  <2> QED BY <1>1, <1>2, <2>1, RunsStay, QuietStep
<1>9. CASE Active(x)
  <2>1. x.phase = "issued"
    BY <1>7, <1>9 DEF Active
  <2>2. Kept(r) /\ KnownOf(r)
    BY <1>1, <1>2, KeptHere
  <2>3. child' = child /\ host' = host
    BY <1>1 DEF SameWorker
  <2>4. ASSUME NEW y \in RunRecord, run' = [run EXCEPT ![r] = y], Consistent(y),
               y.phase = x.phase, y.at = x.at, y.told = x.told, y.stopping = x.stopping,
               y.outcome = x.outcome, y.under = x.under, y.forwarded => x.forwarded \/ AllSpent(r)',
               y.question = x.question \/ y.question <= host[child].run[r].asks
        PROVE  WorkerInv'
    <3>1. run' \in [Runs -> RunRecord] /\ run'[r] = y /\ \A s \in Runs : s # r => run'[s] = run[s]
      BY <2>4 DEF WorkerInv, TypeInv, HostTypeInv
    <3>2. KnownOf(r)'
      BY <1>6, <2>1, <2>2, <2>3, <2>4, <3>1, KnownAgain
    <3>3. \A s \in Runs : Moves(run[s], run'[s], FALSE) \/ KnownOf(s)'
      BY <3>1, <3>2, RunTypes, MoveNot
    <3>4. RunsMove
      BY <3>1, <3>3 DEF RunsMove
    <3> QED BY <1>1, <1>2, <3>4, QuietStep
  <2>5. CASE e.result = "ask"
    <3>1. PICK v : v = [x EXCEPT !.ask = "offered"]
      OBVIOUS
    <3>2. v \in RunRecord
      BY <1>6, <3>1, FieldIsSet
    <3>3. PICK y : y = [v EXCEPT !.question = e.ask]
      OBVIOUS
    <3>4. y \in RunRecord
      BY <1>5, <3>2, <3>3, FieldIsSet
    <3>5. /\ y.phase = x.phase /\ y.at = x.at /\ y.told = x.told /\ y.stopping = x.stopping
          /\ y.outcome = x.outcome /\ y.under = x.under /\ y.forwarded = x.forwarded
          /\ y.terminals = x.terminals /\ y.aborted = x.aborted /\ y.doubtful = x.doubtful
          /\ y.question = e.ask
      BY <1>5, <1>6, <3>1, <3>3 DEF RunRecord
    <3>6. Consistent(y)
      BY <1>6, <2>1, <3>5 DEF Consistent
    <3>7. run' = [run EXCEPT ![r] = y]
      BY <1>4, <1>6, <1>9, <2>5, <3>1, <3>3 DEF EventRead
    <3> QED BY <1>5, <2>4, <3>4, <3>5, <3>6, <3>7
  <2>6. CASE e.result = "cancelled" /\ x.question = e.ask
    <3>1. PICK y : y = [x EXCEPT !.ask = "none"]
      OBVIOUS
    <3>2. Moves(x, y, FALSE)
      BY <1>6, <3>1, AskMoves
    <3>3. run' = [run EXCEPT ![r] = y]
      BY <1>4, <1>6, <1>9, <2>6, <3>1 DEF EventRead
    <3> QED BY <1>1, <1>2, <1>6, <3>2, <3>3, OneRunGoes, QuietStep
  <2>7. CASE e.result = "cancelled" /\ x.question # e.ask
    <3>1. run' = [run EXCEPT ![r] = x]
      BY <1>4, <1>6, <1>9, <2>7 DEF EventRead
    <3> QED BY <1>1, <1>2, <1>6, <3>1, MoveNot, OneRunGoes, QuietStep
  <2>8. CASE e.result \in {"completed", "failed"}
    <3>1. AllSpent(r)' /\ ~x.forwarded
      BY <1>2, <1>5, <1>6, <2>8 DEF IsTerminal
    <3>2. x.terminals = 0
      BY <1>6, <2>1, <3>1 DEF Consistent
    <3>3. PICK v : v = [x EXCEPT !.forwarded = TRUE]
      OBVIOUS
    <3>4. v \in RunRecord /\ v.terminals = 0
      <4>1. v \in RunRecord
        BY <1>6, <3>3, FieldIsSet
      <4> QED BY <1>6, <3>2, <3>3, <4>1 DEF RunRecord
    <3>5. PICK y : y = [v EXCEPT !.terminals = 1]
      OBVIOUS
    <3>6. y \in RunRecord
      BY <3>4, <3>5, FieldIsSet
    <3>7. /\ y.phase = x.phase /\ y.at = x.at /\ y.told = x.told /\ y.stopping = x.stopping
          /\ y.outcome = x.outcome /\ y.under = x.under /\ y.forwarded
          /\ y.terminals = 1 /\ y.aborted = x.aborted /\ y.doubtful = x.doubtful
          /\ y.question = x.question /\ y.ask = x.ask
      BY <1>6, <3>3, <3>5 DEF RunRecord
    <3>8. Consistent(y)
      BY <1>6, <2>1, <3>7 DEF Consistent
    <3>9. run' = [run EXCEPT ![r] = y]
      <4>1. y = [x EXCEPT !.forwarded = TRUE, !.terminals = @ + 1]
        BY <3>2, <3>3, <3>4, <3>5
      <4> QED BY <1>4, <1>6, <1>9, <2>8, <4>1 DEF EventRead
    <3> QED BY <2>4, <3>1, <3>6, <3>7, <3>8, <3>9
  <2> QED BY <1>5, <2>5, <2>6, <2>7, <2>8
<1> QED BY <1>8, <1>9
(* What a settled request does to the one who waits for it.                 *)
LEMMA RunAfterMoves ==
  ASSUME WorkerInv, PipesMove, UNCHANGED <<child, host>>, child # None, NEW q \in Plain, NEW result,
         UNCHANGED <<affected, failure>>,
         run' = RunAfter(q, result),
         q.method = "start" => result \in Results /\ AllQuiet(q.of)',
         q.method = "abort" /\ result = "aborted" =>
           AllStopped(q.of)' /\ run[q.of].phase \notin {"none", "registered"}
  PROVE  RunsMove
<1>1. /\ run \in [Runs -> RunRecord] /\ child' = child /\ host' = host
      /\ host \in [Workers -> HostRecord]
  BY DEF WorkerInv, TypeInv, HostTypeInv
<1>2. \A r \in Runs : Kept(r) /\ KnownOf(r) /\ run[r] \in RunRecord /\ Consistent(run[r])
  BY KeptHere, RunTypes
<1>3. ASSUME NEW r \in Runs, NEW y \in RunRecord, run' = [run EXCEPT ![r] = y],
             Moves(run[r], y, FALSE) \/ KnownOf(r)'
      PROVE  RunsMove
  <2>1. run' \in [Runs -> RunRecord] /\ run'[r] = y /\ \A s \in Runs : s # r => run'[s] = run[s]
    BY <1>1, <1>3
  <2>2. \A s \in Runs : Moves(run[s], run'[s], FALSE) \/ KnownOf(s)'
    BY <1>2, <1>3, <2>1, MoveNot
  <2> QED BY <2>1, <2>2 DEF RunsMove
<1>4. CASE q.method = "start"
  <2>1. PICK r \in Runs : r = q.of
    BY <1>4 DEF Plain, StartRequests, RunRequests, CallRequests, FenceRequests, OwnRequests
  <2>2. PICK x \in RunRecord : x = run[r] /\ Consistent(x)
    BY <1>2
  <2>3. PICK y : y = [x EXCEPT !.at = "replied", !.answer = result]
    OBVIOUS
  <2>4. result \in Results
    BY <1>4
  <2>5. y \in RunRecord
    BY <2>3, <2>4 DEF RunRecord
  <2>6. /\ y.phase = x.phase /\ y.at = "replied" /\ y.told = x.told /\ y.stopping = x.stopping
        /\ y.outcome = x.outcome /\ y.under = x.under /\ y.forwarded = x.forwarded
        /\ y.terminals = x.terminals /\ y.aborted = x.aborted /\ y.doubtful = x.doubtful
        /\ y.question = x.question /\ y.ask = x.ask
    BY <2>3 DEF RunRecord
  <2>7. Consistent(y)
    BY <2>2, <2>6 DEF Consistent, Early
  <2>8. Moves(x, y, TRUE)
    BY <2>5, <2>6, <2>7 DEF Moves, NotSent, Judged, SaysStopped, Early
  <2>9. run' = [run EXCEPT ![r] = y]
    BY <1>1, <1>4, <2>1, <2>2, <2>3 DEF RunAfter
  <2>10. run'[r] = y
    BY <1>1, <2>9
  <2>11. AllQuiet(r)'
    BY <1>4, <2>1
  <2>12. KnownOf(r)'
    BY <1>1, <1>2, <2>2, <2>8, <2>10, <2>11, MoveKnown
  <2> QED BY <1>3, <2>5, <2>9, <2>12
<1>5. CASE q.method = "abort"
  <2>1. PICK r \in Runs : r = q.of
    BY <1>5 DEF Plain, StartRequests, RunRequests, CallRequests, FenceRequests, OwnRequests
  <2>2. PICK x \in RunRecord : x = run[r] /\ Consistent(x)
    BY <1>2
  <2>3. run' = [run EXCEPT ![r] = [x EXCEPT !.stopping = AbortAnswer(result)]]
    BY <1>1, <1>5, <2>1, <2>2 DEF RunAfter
  <2>4. PICK told \in {"none", "unconfirmed", "aborted", "not_started"} : told = x.told
    BY DEF RunRecord
  <2>5. CASE result # "aborted"
    <3>1. [x EXCEPT !.stopping = AbortAnswer(result)] = [x EXCEPT !.stopping = "no", !.told = told]
      BY <2>4, <2>5 DEF RunRecord, AbortAnswer
    <3>2. Moves(x, [x EXCEPT !.stopping = "no", !.told = told], FALSE)
      BY <2>2, <2>4, StoppingMoves DEF SaysStopped
    <3> QED BY <2>2, <2>3, <3>1, <3>2, OneRunGoes
  <2>6. CASE result = "aborted"
    <3>1. PICK y : y = [x EXCEPT !.stopping = "yes"]
      OBVIOUS
    <3>2. /\ y \in RunRecord
          /\ y.phase = x.phase /\ y.at = x.at /\ y.told = x.told /\ y.stopping = "yes"
          /\ y.outcome = x.outcome /\ y.under = x.under /\ y.forwarded = x.forwarded
          /\ y.terminals = x.terminals /\ y.aborted = x.aborted /\ y.doubtful = x.doubtful
          /\ y.question = x.question /\ y.ask = x.ask
      BY <3>1 DEF RunRecord
    <3>3. x.phase \notin {"none", "registered"} /\ AllStopped(r)'
      BY <1>5, <2>1, <2>2, <2>6
    <3>4. Consistent(y)
      BY <2>2, <3>2, <3>3 DEF Consistent
    <3>5. run' = [run EXCEPT ![r] = y]
      BY <2>3, <2>6, <3>1 DEF AbortAnswer
    <3>6. run'[r] = y
      BY <1>1, <3>5
    <3>7. /\ NotSent(x) => AllUntouched(r)
          /\ Judged(x) => AllQuiet(r)
          /\ x.forwarded => AllSpent(r)
          /\ Owned(x, r)
      BY <1>2, <2>2 DEF KnownOf, Knows
    <3>8. Knows(y, r)'
      BY <1>2, <3>2, <3>3, <3>7 DEF Knows, NotSent, Judged, Kept
    <3>9. Owned(y, r)'
      BY <1>1, <3>2, <3>7 DEF Owned, Workers
    <3>10. KnownOf(r)'
      BY <3>4, <3>6, <3>8, <3>9 DEF KnownOf
    <3> QED BY <1>3, <3>2, <3>5, <3>10
  <2> QED BY <2>5, <2>6
<1>6. CASE q.method = "reply" /\ result # "ok"
  <2>1. PICK r \in Runs : r = q.of
    BY <1>6 DEF Plain, StartRequests, RunRequests, CallRequests, FenceRequests, OwnRequests
  <2>2. run' = [run EXCEPT ![r] = Restored(run[r], q.ask)]
    BY <1>1, <1>6, <2>1 DEF RunAfter
  <2>3. Moves(run[r], Restored(run[r], q.ask), FALSE)
    BY <1>2, RestoredMoves
  <2> QED BY <2>2, <2>3, OneRunGoes
<1>7. CASE q.method = "initialize"
  <2>1. run' = [r \in Runs |-> IF run[r].at = "starting" THEN [run[r] EXCEPT !.at = "ready"] ELSE run[r]]
    BY <1>7 DEF RunAfter
  <2>2. ASSUME NEW r \in Runs PROVE Moves(run[r], run'[r], FALSE)
    <3>1. PICK x : x = run[r] /\ x \in RunRecord /\ Consistent(x)
      BY <1>2
    <3>2. CASE x.at = "starting"
      <4>1. run'[r] = [x EXCEPT !.at = "ready"]
        BY <2>1, <3>1, <3>2
      <4>2. Moves(x, [x EXCEPT !.at = "ready"], FALSE)
        BY <3>1, <3>2, AtMoves DEF Early
      <4> QED BY <3>1, <4>1, <4>2
    <3>3. CASE x.at # "starting"
      <4>1. run'[r] = x
        BY <2>1, <3>1, <3>3
      <4> QED BY <3>1, <4>1, MoveNot
    <3> QED BY <3>2, <3>3
  <2>3. run' \in [Runs -> RunRecord]
    <3>1. \A r \in Runs : run'[r] \in RunRecord
      BY <2>2 DEF Moves
    <3> QED BY <2>1, <3>1
  <2> QED BY <2>2, <2>3 DEF RunsMove
<1>8. CASE q.method \notin {"start", "abort", "initialize"} /\ ~(q.method = "reply" /\ result # "ok")
  <2>1. run' = run
    BY <1>8 DEF RunAfter
  <2> QED BY <2>1, RunsStay
<1> QED BY <1>4, <1>5, <1>6, <1>7, <1>8

LEMMA AnsweredStep ==
  ASSUME WorkerInv, PipesMove, child # None, NEW q \in Plain, NEW result, Answered(q, result),
         q.method = "start" => result \in Results /\ AllQuiet(q.of)',
         q.method = "abort" /\ result = "aborted" =>
           AllStopped(q.of)' /\ run[q.of].phase \notin {"none", "registered"}
  PROVE  WorkerInv'
<1>1. UNCHANGED <<child, terminating, affected, failure, host>>
  BY DEF Answered, reaping
<1>2. run' = RunAfter(q, result)
  BY DEF Answered
<1>3. RunsMove
  BY <1>1, <1>2, RunAfterMoves
<1>4. ready \in BOOLEAN /\ starting \in BOOLEAN /\ (ready \/ starting)
  BY DEF WorkerInv, TypeInv, HostTypeInv, Processes
<1>5. ready' = (ready \/ q.method = "initialize") /\ starting' = (starting /\ q.method # "initialize")
  BY DEF Answered
<1>6. ready' \in BOOLEAN /\ starting' \in BOOLEAN /\ ((ready' \/ starting') <=> (ready \/ starting))
  BY <1>4, <1>5
<1> QED BY <1>1, <1>3, <1>6, AppStep
-----------------------------------------------------------------------------
(* The worker is given up.                                                  *)
LEMMA WorkerFailsStep ==
  ASSUME WorkerInv, child # None, NEW X \in [Runs -> RunRecord],
         \A r \in Runs : Moves(run[r], X[r], FALSE), WorkerFails(X)
  PROVE  WorkerInv'
<1>1. /\ child \in Workers /\ terminating = None /\ ~failure /\ None \notin Workers
      /\ host \in [Workers -> HostRecord] /\ toApp \in [Workers -> Seq(Frames)]
      /\ run \in [Runs -> RunRecord]
  BY HostAssumption DEF Workers, WorkerInv, TypeInv, HostTypeInv, Processes
<1>2. /\ child' = None /\ ready' = FALSE /\ starting' = FALSE /\ terminating' = child
      /\ affected' = {r \in Runs : Active(X[r])} /\ failure' = failure /\ pending' = {}
      /\ run' = [r \in Runs |-> RequestsRejected(X[r])]
      /\ toApp' = [toApp EXCEPT ![child] = <<>>] /\ toWorker' = toWorker
      /\ host' = [host EXCEPT ![child].heard = FALSE]
  BY DEF WorkerFails
<1>3. ASSUME NEW r \in Runs PROVE Moves(X[r], run'[r], FALSE) /\ Moves(run[r], run'[r], FALSE)
  <2>1. X[r] \in RunRecord /\ Consistent(X[r])
    BY DEF Moves
  <2>2. Moves(X[r], RequestsRejected(X[r]), FALSE)
    BY <2>1, RejectedMoves
  <2>3. run'[r] = RequestsRejected(X[r])
    BY <1>2
  <2> QED BY <2>2, <2>3, MoveFurther
<1>4. run' \in [Runs -> RunRecord]
  <2>1. \A r \in Runs : run'[r] \in RunRecord
    BY <1>3 DEF Moves
  <2> QED BY <1>2, <2>1
<1>5. PICK h : h = [host[child] EXCEPT !.heard = FALSE]
  OBVIOUS
<1>6. host[child] \in HostRecord
  BY <1>1
<1>7. h \in HostRecord /\ h.run = host[child].run /\ h.up = host[child].up /\ ~h.heard
  BY <1>5, <1>6 DEF HostRecord
<1>8. host' = [host EXCEPT ![child] = h]
  BY <1>1, <1>2, <1>5
<1>9. /\ host' \in [Workers -> HostRecord] /\ host'[child] = h
      /\ \A w \in Workers : w # child => host'[w] = host[w]
  BY <1>1, <1>7, <1>8
<1>10. \A w \in Workers : host'[w].run = host[w].run /\ host'[w].up = host[w].up
  BY <1>7, <1>9
<1>11. /\ toApp' \in [Workers -> Seq(Frames)] /\ toApp'[child] = <<>>
       /\ \A w \in Workers : w # child => toApp'[w] = toApp[w]
  <2>1. <<>> \in Seq(Frames)
    OBVIOUS
  <2> QED BY <1>1, <1>2, <2>1
<1>12. TypeInv'
  <2>1. affected' \in SUBSET Runs /\ pending' \in SUBSET Requests
    BY <1>2
  <2> QED BY <1>1, <1>2, <1>4, <1>9, <1>11, <2>1 DEF WorkerInv, TypeInv, HostTypeInv, Workers
<1>13. Processes'
  <2>1. ASSUME NEW w \in Workers PROVE ~host'[w].heard /\ toApp'[w] = <<>>
    BY <1>7, <1>9, <1>11 DEF WorkerInv, Processes
  <2>2. ASSUME NEW w \in Workers, host'[w].up PROVE w = child
    BY <1>1, <1>10, <2>2 DEF WorkerInv, Processes
  <2>3. ASSUME NEW w \in Workers, ~host'[w].up
        PROVE  toWorker'[w] = <<>> /\ \A r \in Runs : host'[w].run[r].sdk \in {"none", "gone"}
    BY <1>2, <1>10, <2>3 DEF WorkerInv, Processes
  <2> QED BY <1>1, <1>2, <2>1, <2>2, <2>3 DEF Processes, Workers
<1>14. AdvanceAll
  <2> SUFFICES ASSUME NEW w \in Workers, NEW r \in Runs
               PROVE  Advances(host[w].run[r], toWorker[w], toApp[w], host'[w].run[r], toWorker'[w], toApp'[w], r)
    BY DEF AdvanceAll
  <2>1. host[w].run[r].asks \in Nat /\ host'[w].run[r] = host[w].run[r] /\ toWorker'[w] = toWorker[w]
    BY <1>2, <1>10, HostTypes DEF WorkerInv, TypeInv
  <2>2. toApp'[w] = <<>> \/ toApp'[w] = toApp[w]
    BY <1>11
  <2> QED BY <2>1, <2>2, AdvanceSilenced, AdvanceNot
<1>15. Places' /\ \A r \in Runs : Kept(r)
  BY <1>14, WhatIsKept DEF WorkerInv
<1>16. ASSUME NEW r \in Runs PROVE KnownOf(r)'
  <2>1. run'[r].phase = "issued" => r \in affected'
    <3>1. run'[r].phase = "issued" => X[r].phase = "issued"
      BY <1>3 DEF Moves
    <3> QED BY <1>2, <3>1 DEF Active
  <2>2. KnownOf(r) /\ Kept(r)
    BY <1>15, RunTypes
  <2> QED BY <1>1, <1>2, <1>3, <1>9, <2>1, <2>2, MoveKnown
<1> QED BY <1>12, <1>13, <1>15, <1>16 DEF WorkerInv, Known

LEMMA WorkerFailedStep ==
  ASSUME WorkerInv, child # None, WorkerFails(run)
  PROVE  WorkerInv'
<1>1. run \in [Runs -> RunRecord] /\ \A r \in Runs : Moves(run[r], run[r], FALSE)
  BY RunTypes, MoveNot DEF WorkerInv, TypeInv, HostTypeInv
<1> QED BY <1>1, WorkerFailsStep

LEMMA DoubtStep ==
  ASSUME WorkerInv, child # None, NEW result, WorkerFails(Doubtful(result))
  PROVE  WorkerInv'
<1>1. PICK X : X = Doubtful(result)
  OBVIOUS
<1>2. CASE result # "cleanup"
  <2>1. run \in [Runs -> RunRecord]
    BY DEF WorkerInv, TypeInv, HostTypeInv
  <2>2. X = run
    BY <1>1, <1>2, <2>1 DEF Doubtful
  <2> QED BY <1>1, <2>2, WorkerFailedStep
<1>3. CASE result = "cleanup"
  <2>1. X = [r \in Runs |-> [run[r] EXCEPT !.doubtful = @ \/ Active(run[r])]]
    BY <1>1, <1>3 DEF Doubtful
  <2>2. ASSUME NEW r \in Runs PROVE Moves(run[r], X[r], FALSE)
    <3>1. PICK x : x = run[r] /\ x \in RunRecord /\ Consistent(x)
      BY RunTypes
    <3>2. PICK doubtful \in BOOLEAN, aborted \in BOOLEAN, byRuntime \in BOOLEAN, answer \in Results \cup {"none"} :
            doubtful = (x.doubtful \/ Active(x)) /\ aborted = x.aborted /\ byRuntime = x.byRuntime /\ answer = x.answer
      BY <3>1 DEF RunRecord
    <3>3. Moves(x, [x EXCEPT !.aborted = aborted, !.byRuntime = byRuntime, !.doubtful = doubtful, !.answer = answer], FALSE)
      BY <3>1, <3>2, NoteMoves
    <3>4. [x EXCEPT !.doubtful = @ \/ Active(x)] =
            [x EXCEPT !.aborted = aborted, !.byRuntime = byRuntime, !.doubtful = doubtful, !.answer = answer]
      BY <3>1, <3>2 DEF RunRecord
    <3> QED BY <2>1, <3>1, <3>3, <3>4
  <2>3. X \in [Runs -> RunRecord]
    <3>1. \A r \in Runs : X[r] \in RunRecord
      BY <2>2 DEF Moves
    <3> QED BY <2>1, <3>1
  <2>4. WorkerFails(X)
    BY <1>1
  <2> QED BY <2>2, <2>3, <2>4, WorkerFailsStep
<1> QED BY <1>2, <1>3

LEMMA ReceiveStep ==
  ASSUME WorkerInv, Receive
  PROVE  WorkerInv'
<1>1. PICK f : f = Head(toApp[child])
  OBVIOUS
<1>2. child # None /\ toApp[child] # <<>> /\ child \in Workers /\ toApp[child] \in Seq(Frames)
  BY DEF Receive, WorkerInv, TypeInv, HostTypeInv
<1>3. f \in Frames
  BY <1>1, <1>2, TailOf
<1>4. CASE f.kind = "event"
  <2>1. EventRead(f)
    BY <1>1, <1>4 DEF Receive
  <2> QED BY <1>1, <1>2, <1>4, <2>1, EventReadStep
<1>5. CASE f.kind # "event"
  <2>1. PICK q, result : q = f.of /\ result = f.result
    OBVIOUS
  <2>2. f.kind = "response" /\ ((q \in Plain /\ result \in Results) \/ q.method = "activity")
    BY <1>3, <1>5, <2>1 DEF Frames, Responses, Events, Readings
  <2>3. ResponseRead(q, result)
    BY <1>1, <1>5, <2>1 DEF Receive
  <2>4. ASSUME FrameRead, SameWorker, UNCHANGED <<toWorker, pending, run>>
        PROVE  WorkerInv'
    <3>1. UNCHANGED <<toWorker, host>> /\ pending' \in SUBSET pending
      BY <2>4 DEF SameWorker
    <3>2. PipesMove
      BY <1>1, <1>2, <2>4, <3>1, PipesRead
    <3> QED BY <2>4, <3>2, RunsStay, QuietStep
  <2>5. CASE q.method = "activity" /\ ObservationRead(result)
    <3>1. FrameRead /\ SameWorker /\ UNCHANGED <<toWorker, pending, run>>
      BY <2>5 DEF ObservationRead, SameWorker, current, reaping, requests
    <3> QED BY <2>4, <3>1
  <2>6. CASE WorkerFails(Doubtful(result))
    BY <1>2, <2>6, DoubtStep
  <2>7. CASE FrameRead /\ UNCHANGED <<current, reaping, run, requests, host>>
    <3>1. SameWorker /\ UNCHANGED <<toWorker, pending, run>>
      BY <2>7 DEF SameWorker, current, reaping, requests
    <3> QED BY <2>4, <2>7, <3>1
  <2>8. CASE q.method # "activity" /\ Settles(q) /\ Answered(q, result) /\ FrameRead
    <3>1. q \in Plain /\ result \in Results
      BY <2>2, <2>8
    <3>2. UNCHANGED <<toWorker, host>> /\ pending' \in SUBSET pending
      BY <2>8 DEF Answered, Settles
    <3>3. /\ PipesMove
          /\ \A r \in Runs :
              /\ Concerns(f, r) => ~NotSent(run[r])
              /\ IsAnswer(f, r) => AllQuiet(r)'
              /\ IsStopped(f, r) => AllStopped(r)'
      BY <1>1, <1>2, <2>8, <3>2, PipesRead
    <3>4. ASSUME q.method \in {"start", "abort"} PROVE q.of \in Runs
      BY <3>1, <3>4 DEF Plain, StartRequests, RunRequests, CallRequests, FenceRequests, OwnRequests
    <3>5. ASSUME q.method = "start" PROVE result \in Results /\ AllQuiet(q.of)'
      <4>1. PICK r \in Runs : r = q.of
        BY <3>4, <3>5
      <4>2. IsAnswer(f, r)
        BY <2>1, <2>2, <3>5, <4>1 DEF IsAnswer, IsStart
      <4> QED BY <3>1, <3>3, <4>1, <4>2
    <3>6. ASSUME q.method = "abort", result = "aborted"
          PROVE  AllStopped(q.of)' /\ run[q.of].phase \notin {"none", "registered"}
      <4>1. PICK r \in Runs : r = q.of
        BY <3>4, <3>6
      <4>2. IsStopped(f, r)
        BY <2>1, <2>2, <3>6, <4>1 DEF IsStopped
      <4>3. AllStopped(r)' /\ ~NotSent(run[r])
        BY <3>3, <4>2 DEF Concerns
      <4> QED BY <4>1, <4>3 DEF NotSent
    <3> QED BY <1>2, <2>8, <3>1, <3>3, <3>5, <3>6, AnsweredStep
  <2> QED BY <2>3, <2>5, <2>6, <2>7, <2>8 DEF ResponseRead
<1> QED BY <1>4, <1>5

LEMMA TimesOutStep ==
  ASSUME WorkerInv, NEW q \in pending, TimesOut(q)
  PROVE  WorkerInv'
<1>1. child # None /\ q \in Requests /\ q.method # "start"
  BY DEF WorkerInv, Processes, TypeInv, HostTypeInv, TimesOut
<1>2. CASE WorkerFails(run)
  BY <1>1, <1>2, WorkerFailedStep
<1>3. CASE pending' = pending \ {q} /\ Answered(q, "late") /\ UNCHANGED toApp
  <2>1. UNCHANGED toWorker /\ pending' \in SUBSET pending
    BY <1>3 DEF Answered
  <2>2. PipesMove
    BY <1>3, <2>1, PipesStay
  <2>3. CASE q \in Plain
    <3>1. PICK p \in Plain : p = q
      BY <2>3
    <3>2. "late" # "aborted"
      OBVIOUS
    <3> QED BY <1>1, <1>3, <2>2, <3>1, <3>2, AnsweredStep
  <2>4. CASE q \notin Plain
    <3>1. q.method = "activity"
      BY <1>1, <2>4 DEF Requests, Readings
    <3>2. run' = run /\ ready' = (ready \/ FALSE) /\ starting' = (starting /\ TRUE)
          /\ UNCHANGED <<child, terminating, affected, failure, host>>
      BY <1>3, <3>1 DEF Answered, RunAfter, reaping
    <3>3. SameWorker
      BY <3>2 DEF SameWorker, WorkerInv, TypeInv, HostTypeInv
    <3> QED BY <2>2, <3>2, <3>3, RunsStay, QuietStep
  <2> QED BY <2>3, <2>4
<1> QED BY <1>2, <1>3 DEF TimesOut
-----------------------------------------------------------------------------
(* Somebody needs a worker.                                                 *)
LEMMA AwaitedIs ==
  ASSUME NEW reaped \in BOOLEAN, Awaited(reaped) = "none"
  PROVE  ~failure /\ (terminating = None \/ reaped) /\ ~ready /\ ~starting
BY DEF Awaited

(* What becomes of the runs that ask for one.                               *)
LEMMA EnsureRuns ==
  ASSUME WorkerInv, NEW reaped \in BOOLEAN, NEW X \in [Runs -> RunRecord],
         \A r \in Runs : Moves(run[r], X[r], reaped), NEW R \in SUBSET Runs, NEW C,
         \A r \in R : /\ X[r].at \in Early \/ X[r].phase \in {"none", "registered"}
                      /\ X[r].phase = "registered" \/ reaped,
         Ensure(X, R, C, reaped)
  PROVE  /\ run' \in [Runs -> RunRecord]
         /\ \A r \in Runs : Moves(X[r], run'[r], reaped) /\ Moves(run[r], run'[r], reaped)
<1>1. \/ \E for \in {"termination", "ready", "starting"} :
           run' = [r \in Runs |-> IF r \in R THEN [X[r] EXCEPT !.at = for] ELSE X[r]]
      \/ run' = [r \in Runs |-> IF r \notin R THEN X[r]
                                ELSE [Finished(X[r], DefaultOutcome(X[r])) EXCEPT !.at = "done"]]
  BY DEF Ensure
<1>2. ASSUME NEW r \in Runs PROVE Moves(X[r], run'[r], reaped)
  <2>1. PICK x : x = X[r] /\ x \in RunRecord /\ Consistent(x)
    BY DEF Moves
  <2>2. CASE r \notin R
    <3>1. run'[r] = x
      BY <1>1, <2>1, <2>2
    <3> QED BY <2>1, <3>1, MoveNot
  <2>3. ASSUME r \in R, NEW for \in {"termination", "ready", "starting"},
               run' = [s \in Runs |-> IF s \in R THEN [X[s] EXCEPT !.at = for] ELSE X[s]]
        PROVE  Moves(x, run'[r], reaped)
    <3>1. run'[r] = [x EXCEPT !.at = for]
      BY <2>1, <2>3
    <3>2. x.at \in Early \/ x.phase \in {"none", "registered"}
      BY <2>1, <2>3
    <3>3. for \in {"starting", "termination", "ready", "options", "reply", "done"}
      OBVIOUS
    <3>4. Moves(x, [x EXCEPT !.at = for], reaped)
      BY <2>1, <3>2, <3>3, AtMoves
    <3> QED BY <3>1, <3>4
  <2>4. ASSUME r \in R,
               run' = [s \in Runs |-> IF s \notin R THEN X[s]
                                      ELSE [Finished(X[s], DefaultOutcome(X[s])) EXCEPT !.at = "done"]]
        PROVE  Moves(x, run'[r], reaped)
    <3>1. PICK z : z = Finished(x, DefaultOutcome(x))
      OBVIOUS
    <3>2. x.phase = "registered" \/ reaped
      BY <2>1, <2>4
    <3>3. Moves(x, z, reaped)
      BY <2>1, <3>1, <3>2, FinishedMoves, DefaultOutcomeIs
    <3>4. Moves(z, [z EXCEPT !.at = "done"], reaped)
      BY <3>3, AtMoves DEF Moves, Early
    <3>5. run'[r] = [z EXCEPT !.at = "done"]
      BY <2>1, <2>4, <3>1
    <3> QED BY <3>3, <3>4, <3>5, MoveFurther
  <2> QED BY <1>1, <2>1, <2>2, <2>3, <2>4
<1>3. run' \in [Runs -> RunRecord]
  <2>1. \A r \in Runs : run'[r] \in RunRecord
    BY <1>2 DEF Moves
  <2> QED BY <1>1, <2>1
<1> QED BY <1>2, <1>3, MoveFurther

(* What becomes of the worker: it stays, or the next one is started.        *)
Spawned(w) ==
  /\ w \in Workers /\ host[w] = UnbornHost
  /\ child' = w /\ ready' = FALSE /\ starting' = TRUE
  /\ pending' = pending \cup {Request("initialize", None, 1)}
  /\ host' = [host EXCEPT ![w] = NewHost]
  /\ toWorker' = [toWorker EXCEPT ![w] = <<Request("initialize", None, 1)>>]

LEMMA EnsureWorker ==
  ASSUME NEW reaped \in BOOLEAN, NEW X, NEW R, NEW C, Ensure(X, R, C, reaped)
  PROVE  \/ UNCHANGED <<child, ready, starting, pending, toWorker, host>>
         \/ /\ ~failure /\ (terminating = None \/ reaped) /\ ~ready /\ ~starting
            /\ \E w : Spawned(w)
<1>1. \/ UNCHANGED <<current, requests, host>>
      \/ /\ Awaited(reaped) = "none" /\ Unborn # {}
         /\ \E rest : StartsWorker(Min(Unborn), rest)
  BY DEF Ensure
<1>2. CASE UNCHANGED <<current, requests, host>>
  BY <1>2 DEF current, requests
<1>3. CASE Awaited(reaped) = "none" /\ Unborn # {} /\ \E rest : StartsWorker(Min(Unborn), rest)
  <2>1. PICK w : w = Min(Unborn)
    OBVIOUS
  <2>2. Unborn \subseteq Nat
    BY HostAssumption DEF Unborn, Workers
  <2>3. w \in Workers /\ host[w] = UnbornHost
    BY <1>3, <2>1, <2>2, SmallestOf DEF Unborn
  <2>4. Spawned(w)
    BY <1>3, <2>1, <2>3 DEF StartsWorker, Spawned
  <2> QED BY <1>3, <2>4, AwaitedIs
<1> QED BY <1>1, <1>2, <1>3

LEMMA NoneIsUp ==
  ASSUME WorkerInv, child = None, ~failure, terminating = None \/ ~host[terminating].up
  PROVE  \A w \in Workers :
           /\ ~host[w].up /\ ~host[w].heard /\ toWorker[w] = <<>> /\ toApp[w] = <<>>
           /\ \A r \in Runs : Quiet(host[w].run[r], toWorker[w], r)
<1> SUFFICES ASSUME NEW w \in Workers
             PROVE  /\ ~host[w].up /\ ~host[w].heard /\ toWorker[w] = <<>> /\ toApp[w] = <<>>
                    /\ \A r \in Runs : Quiet(host[w].run[r], toWorker[w], r)
  OBVIOUS
<1>1. w # None
  BY HostAssumption DEF Workers
<1>2. ~host[w].up /\ ~host[w].heard /\ toApp[w] = <<>>
  BY <1>1 DEF WorkerInv, Processes
<1>3. toWorker[w] = <<>> /\ \A r \in Runs : host[w].run[r].sdk \in {"none", "gone"}
  BY <1>2 DEF WorkerInv, Processes
<1>4. ~\E i \in 1..Len(<<>>) : TRUE
  OBVIOUS
<1> QED BY <1>2, <1>3, <1>4 DEF Quiet, Starts, Live

LEMMA EnsureStep ==
  ASSUME WorkerInv, NEW reaped \in BOOLEAN, NEW X \in [Runs -> RunRecord],
         \A r \in Runs : Moves(run[r], X[r], reaped), NEW R \in SUBSET Runs, NEW C,
         \A r \in R : /\ X[r].at \in Early \/ X[r].phase \in {"none", "registered"}
                      /\ X[r].phase = "registered" \/ reaped,
         Ensure(X, R, C, reaped), UNCHANGED <<toApp, failure>>,
         IF reaped
         THEN /\ terminating # None /\ ~host[terminating].up /\ terminating' = None /\ affected' = {}
              /\ \A r \in affected : X[r].phase # "issued"
         ELSE UNCHANGED <<terminating, affected>>
  PROVE  WorkerInv'
<1>1. /\ run' \in [Runs -> RunRecord]
      /\ \A r \in Runs : Moves(X[r], run'[r], reaped) /\ Moves(run[r], run'[r], reaped)
  BY EnsureRuns
<1>2. /\ host \in [Workers -> HostRecord] /\ toWorker \in [Workers -> Seq(Requests)]
      /\ toApp \in [Workers -> Seq(Frames)] /\ None \notin Workers /\ pending \in SUBSET Requests
  BY HostAssumption DEF WorkerInv, TypeInv, HostTypeInv, Workers
<1>3. reaped => child = None /\ ~failure
  BY DEF WorkerInv, Processes
<1>4. ASSUME NEW r \in Runs, reaped \/ (child = None /\ terminating = None /\ ~failure)
      PROVE  run'[r].phase # "issued"
  <2>1. run'[r].phase = "issued" => X[r].phase = "issued" /\ run[r].phase = "issued"
    BY <1>1 DEF Moves
  <2>2. run[r].phase = "issued" => r \in affected
    BY <1>3, <1>4, RunTypes DEF KnownOf, Owned
  <2>3. reaped => ~(X[r].phase = "issued" /\ run[r].phase = "issued")
    BY <2>2
  <2>4. ~reaped => affected = {}
    BY <1>4 DEF WorkerInv, Processes
  <2> QED BY <2>1, <2>2, <2>3, <2>4
<1>5. ASSUME reaped, NEW r \in Runs PROVE AllQuiet(r)
  BY <1>3, <1>5, NoneIsUp DEF AllQuiet
<1>6. ASSUME AdvanceAll, TypeInv', Processes',
             \A r \in Runs : run'[r].phase = "issued" => 
                /\ child' # None => child = child'
                /\ child' = None => r \in affected' \/ failure'
      PROVE  WorkerInv'
  <2>1. Places' /\ \A r \in Runs : Kept(r)
    BY <1>6, WhatIsKept DEF WorkerInv
  <2>2. ASSUME NEW r \in Runs PROVE KnownOf(r)'
    <3>1. KnownOf(r) /\ Kept(r) /\ Moves(run[r], run'[r], reaped)
      BY <1>1, <2>1, RunTypes
    <3>2. reaped => AllQuiet(r)'
      BY <1>5, <3>1 DEF Kept
    <3>3. host' \in [Workers -> HostRecord]
      BY <1>6 DEF TypeInv, HostTypeInv, Workers
    <3> QED BY <1>2, <1>6, <3>1, <3>2, <3>3, MoveKnown
  <2> QED BY <1>6, <2>1, <2>2 DEF WorkerInv, Known
<1>7. CASE UNCHANGED <<child, ready, starting, pending, toWorker, host>>
  <2>1. terminating' \in {None, terminating} /\ affected' \in SUBSET Runs
    BY DEF WorkerInv, TypeInv, HostTypeInv
  <2>2. TypeInv'
    BY <1>1, <1>7, <2>1 DEF WorkerInv, TypeInv, HostTypeInv, Workers
  <2>3. Processes'
    <3>1. CASE reaped
      <4>1. \A w \in Workers : ~host[w].up
        BY <1>3, <3>1, NoneIsUp
      <4> QED BY <1>3, <1>7, <3>1, <4>1 DEF WorkerInv, Processes, Workers
    <3>2. CASE ~reaped
      BY <1>7, <3>2 DEF WorkerInv, Processes, Workers
    <3> QED BY <3>1, <3>2
  <2>4. AdvanceAll
    BY <1>7, AdvanceNot, HostTypes DEF AdvanceAll, WorkerInv, TypeInv
  <2>5. ASSUME NEW r \in Runs, run'[r].phase = "issued"
        PROVE  /\ child' # None => child = child'
               /\ child' = None => r \in affected' \/ failure'
    <3>1. ~reaped
      BY <1>4, <2>5
    <3>2. run[r].phase = "issued"
      BY <1>1, <2>5 DEF Moves
    <3> QED BY <1>7, <3>1, <3>2, RunTypes DEF KnownOf, Owned
  <2> QED BY <1>6, <2>2, <2>3, <2>4, <2>5
<1>8. ASSUME ~failure, terminating = None \/ reaped, ~ready, ~starting, NEW w, Spawned(w)
      PROVE  WorkerInv'
  <2>1. child = None /\ pending = {} /\ terminating' = None /\ affected' = {}
        /\ (terminating = None \/ ~host[terminating].up)
    BY <1>8 DEF WorkerInv, Processes
  <2>2. \A v \in Workers :
           /\ ~host[v].up /\ ~host[v].heard /\ toWorker[v] = <<>> /\ toApp[v] = <<>>
    BY <1>8, <2>1, NoneIsUp
  <2>3. PICK q : q = Request("initialize", None, 1)
    OBVIOUS
  <2>4. q \in Requests /\ q.method = "initialize"
    BY <2>3 DEF Request, Asked, Requests, Plain, OwnRequests
  <2>5. w \in Workers /\ w # None /\ host[w] = UnbornHost
    BY <1>2, <1>8 DEF Spawned
  <2>6. /\ host' = [host EXCEPT ![w] = NewHost] /\ toWorker' = [toWorker EXCEPT ![w] = <<q>>]
        /\ pending' = {q} /\ child' = w /\ ready' = FALSE /\ starting' = TRUE
    BY <1>8, <2>1, <2>3 DEF Spawned
  <2>7. <<q>> = Append(<<>>, q) /\ <<q>> \in Seq(Requests) /\ <<>> \in Seq(Requests)
    BY <2>4
  <2>8. /\ host' \in [Workers -> HostRecord] /\ host'[w] = NewHost
        /\ \A v \in Workers : v # w => host'[v] = host[v]
    BY <1>2, <2>5, <2>6, BlankIs
  <2>9. /\ toWorker' \in [Workers -> Seq(Requests)] /\ toWorker'[w] = <<q>>
        /\ \A v \in Workers : v # w => toWorker'[v] = toWorker[v]
    BY <1>2, <2>5, <2>6, <2>7
  <2>10. TypeInv'
    <3>1. pending' \in SUBSET Requests /\ affected' \in SUBSET Runs
      BY <2>1, <2>4, <2>6
    <3>2. /\ child' \in Workers \cup {None} /\ terminating' \in Workers \cup {None}
          /\ ready' \in BOOLEAN /\ starting' \in BOOLEAN /\ failure' \in BOOLEAN
      BY <2>1, <2>5, <2>6 DEF WorkerInv, TypeInv, HostTypeInv
    <3>3. host' \in [Workers -> HostRecord] /\ toWorker' \in [Workers -> Seq(Requests)]
          /\ toApp' \in [Workers -> Seq(Frames)] /\ run' \in [Runs -> RunRecord]
      BY <1>1, <1>2, <2>8, <2>9
    <3> QED BY <3>1, <3>2, <3>3 DEF TypeInv, HostTypeInv, Workers
  <2>11. Processes'
    <3>1. \A v \in Workers : v # w => ~host'[v].up /\ ~host'[v].heard
      BY <2>2, <2>8
    <3>2. host'[w].up
      BY <2>8, BlankIs
    <3>3. ASSUME NEW v \in Workers, ~host'[v].up
          PROVE  toWorker'[v] = <<>> /\ \A r \in Runs : host'[v].run[r].sdk \in {"none", "gone"}
      <4>1. v # w
        BY <3>2, <3>3
      <4> QED BY <2>2, <2>8, <2>9, <4>1 DEF WorkerInv, Processes
    <3> QED BY <1>8, <2>1, <2>2, <2>5, <2>6, <3>1, <3>3 DEF Processes, Workers
  <2>12. AdvanceAll
    <3> SUFFICES ASSUME NEW v \in Workers, NEW r \in Runs
                 PROVE  Advances(host[v].run[r], toWorker[v], toApp[v], host'[v].run[r], toWorker'[v], toApp'[v], r)
      BY DEF AdvanceAll
    <3>1. CASE v # w
      <4>1. host'[v] = host[v] /\ toWorker'[v] = toWorker[v] /\ toApp'[v] = toApp[v] /\ host[v].run[r].asks \in Nat
        BY <2>8, <2>9, <3>1, HostTypes DEF WorkerInv, TypeInv
      <4> QED BY <4>1, AdvanceNot
    <3>2. CASE v = w
      <4>1. /\ host'[v].run[r] = NoHostRun /\ host[v].run[r] = NoHostRun /\ toWorker[v] = <<>>
            /\ toWorker'[v] = Append(<<>>, q) /\ toApp'[v] = toApp[v]
        BY <2>2, <2>5, <2>7, <2>8, <2>9, <3>2, BlankIs
      <4>2. ~IsStart(q, r)
        BY <2>4 DEF IsStart
      <4>3. Advances(NoHostRun, <<>>, toApp[v], NoHostRun, Append(<<>>, q), toApp[v], r)
        BY <2>4, <2>7, <4>2, BlankIs, AdvanceAsked
      <4> QED BY <4>1, <4>3
    <3> QED BY <3>1, <3>2
  <2>13. \A r \in Runs : run'[r].phase # "issued"
    BY <1>4, <1>8, <2>1
  <2> QED BY <1>6, <2>10, <2>11, <2>12, <2>13
<1> QED BY <1>7, <1>8, EnsureWorker
LEMMA NoRunIs ==
  /\ NoRun \in RunRecord /\ Consistent(NoRun)
  /\ NotSent(NoRun) /\ ~Judged(NoRun) /\ ~SaysStopped(NoRun) /\ ~NoRun.forwarded
  /\ NoRun.outcome = "none" /\ NoRun.phase = "none" /\ NoRun.told = "none" /\ NoRun.stopping = "none"
  /\ NoRun.question = 0 /\ NoRun.terminals = 0 /\ NoRun.ask = "none" /\ NoRun.at = "none"
BY DEF NoRun, RunRecord, Consistent, NotSent, Judged, SaysStopped, Early

LEMMA SpawnRunStep ==
  ASSUME WorkerInv, NEW r \in Runs, SpawnRun(r)
  PROVE  WorkerInv'
<1>1. run[r] = NoRun /\ run \in [Runs -> RunRecord]
  BY DEF SpawnRun, WorkerInv, TypeInv, HostTypeInv
<1>2. UNCHANGED <<terminating, affected, failure, toApp>>
  BY DEF SpawnRun, reaping
<1>3. PICK x : x = [NoRun EXCEPT !.phase = "registered"]
  OBVIOUS
<1>4. /\ x \in RunRecord /\ x.phase = "registered" /\ x.at = "none" /\ x.told = "none" /\ x.stopping = "none"
      /\ x.outcome = "none" /\ ~x.forwarded /\ x.question = 0 /\ x.terminals = 0 /\ x.ask = "none"
  BY <1>3, NoRunIs DEF RunRecord
<1>5. Consistent(x)
  BY <1>4 DEF Consistent, Early
<1>6. Moves(NoRun, x, FALSE)
  BY <1>4, <1>5, NoRunIs DEF Moves, Judged, SaysStopped
<1>7. ASSUME Ensure([run EXCEPT ![r] = x], {r}, {}, FALSE)
      PROVE  WorkerInv'
  <2>1. PICK X : X = [run EXCEPT ![r] = x]
    OBVIOUS
  <2>2. X \in [Runs -> RunRecord] /\ X[r] = x /\ \A s \in Runs : s # r => X[s] = run[s]
    BY <1>1, <1>4, <2>1
  <2>3. \A s \in Runs : Moves(run[s], X[s], FALSE)
    BY <1>1, <1>6, <2>2, RunTypes, MoveNot
  <2>4. \A s \in {r} : /\ X[s].at \in Early \/ X[s].phase \in {"none", "registered"}
                       /\ X[s].phase = "registered" \/ FALSE
    BY <1>4, <2>2
  <2>5. Ensure(X, {r}, {}, FALSE) /\ {r} \in SUBSET Runs
    BY <1>7, <2>1
  <2> QED BY <1>2, <2>2, <2>3, <2>4, <2>5, EnsureStep
<1>8. ASSUME UNCHANGED <<current, requests, host>>,
             run' = [run EXCEPT ![r] = [x EXCEPT !.phase = "over", !.at = "done", !.outcome = "not_started"]]
      PROVE  WorkerInv'
  <2>1. PICK y : y = [x EXCEPT !.phase = "over", !.at = "done", !.outcome = "not_started"]
    OBVIOUS
  <2>2. y \in RunRecord
    <3>1. PICK u : u = [x EXCEPT !.phase = "over"]
      OBVIOUS
    <3>2. u \in RunRecord
      BY <1>4, <3>1, FieldIsSet
    <3>3. PICK v : v = [u EXCEPT !.at = "done"]
      OBVIOUS
    <3>4. v \in RunRecord
      BY <3>2, <3>3 DEF RunRecord
    <3>5. y = [v EXCEPT !.outcome = "not_started"]
      BY <2>1, <3>1, <3>3
    <3> QED BY <3>4, <3>5, FieldIsSet
  <2>3. /\ y.phase = "over" /\ y.at = "done" /\ y.told = "none" /\ y.stopping = "none"
        /\ y.outcome = "not_started" /\ ~y.forwarded /\ y.question = 0 /\ y.terminals = 0 /\ y.ask = "none"
    BY <1>4, <2>1 DEF RunRecord
  <2>4. Consistent(y)
    BY <2>3 DEF Consistent, Early
  <2>5. Moves(NoRun, y, FALSE)
    BY <2>2, <2>3, <2>4, NoRunIs DEF Moves, SaysStopped
  <2>6. RunsMove
    BY <1>1, <1>8, <2>1, <2>5, OneRunGoes
  <2>7. SameWorker /\ UNCHANGED <<toWorker, toApp, pending>>
    BY <1>2, <1>8 DEF SameWorker, current, requests
  <2> QED BY <2>6, <2>7, PipesStay, QuietStep
<1> QED BY <1>1, <1>3, <1>7, <1>8 DEF SpawnRun

LEMMA MakeCallStep ==
  ASSUME WorkerInv, NEW c \in Calls, MakeCall(c)
  PROVE  WorkerInv'
<1>1. UNCHANGED <<terminating, affected, failure, toApp>> /\ Ensure(run, {}, {c}, FALSE)
  BY DEF MakeCall, reaping
<1>2. run \in [Runs -> RunRecord] /\ \A r \in Runs : Moves(run[r], run[r], FALSE)
  BY RunTypes, MoveNot DEF WorkerInv, TypeInv, HostTypeInv
<1>3. {} \in SUBSET Runs
  OBVIOUS
<1>4. \A r \in {} : /\ run[r].at \in Early \/ run[r].phase \in {"none", "registered"}
                    /\ run[r].phase = "registered" \/ FALSE
  OBVIOUS
<1> QED BY <1>1, <1>2, <1>3, <1>4, EnsureStep

(* The process tree is gone: nothing can be at work on its runs.            *)
LEMMA ReapedStep ==
  ASSUME WorkerInv, Reaped
  PROVE  WorkerInv'
<1>1. /\ terminating # None /\ ~host[terminating].up /\ terminating' = None /\ affected' = {}
      /\ UNCHANGED <<toApp, failure>>
  BY DEF Reaped
<1>2. PICK X : X = [r \in Runs |-> IF r \in affected THEN Finished(run[r], "reaped") ELSE run[r]]
  OBVIOUS
<1>3. Ensure(X, WaitingRuns, WaitingCalls, TRUE)
  BY <1>2 DEF Reaped
<1>4. ASSUME NEW r \in Runs
      PROVE  /\ Moves(run[r], X[r], TRUE) /\ X[r].at = run[r].at
             /\ r \in affected => X[r].phase # "issued"
  <2>1. PICK x : x = run[r] /\ x \in RunRecord /\ Consistent(x)
    BY RunTypes
  <2>2. CASE r \in affected
    <3>1. X[r] = Finished(x, "reaped")
      BY <1>2, <2>1, <2>2
    <3>2. /\ Moves(x, Finished(x, "reaped"), TRUE) /\ Finished(x, "reaped").at = x.at
          /\ Active(x) => Finished(x, "reaped").phase = "over"
          /\ Finished(x, "reaped").phase \in {x.phase, "over"}
      BY <2>1, FinishedMoves DEF Endings
    <3>3. x.phase = "issued" => Active(x)
      BY DEF Active
    <3> QED BY <2>1, <3>1, <3>2, <3>3
  <2>3. CASE r \notin affected
    <3>1. X[r] = x
      BY <1>2, <2>1, <2>3
    <3> QED BY <2>1, <2>3, <3>1, MoveNot
  <2> QED BY <2>2, <2>3
<1>5. X \in [Runs -> RunRecord]
  <2>1. \A r \in Runs : X[r] \in RunRecord
    BY <1>4 DEF Moves
  <2> QED BY <1>2, <2>1
<1>6. WaitingRuns \in SUBSET Runs
  BY DEF WaitingRuns
<1>7. \A r \in WaitingRuns : /\ X[r].at \in Early \/ X[r].phase \in {"none", "registered"}
                             /\ X[r].phase = "registered" \/ TRUE
  BY <1>4 DEF WaitingRuns, Early
<1>8. \A r \in affected : X[r].phase # "issued"
  BY <1>4 DEF WorkerInv, TypeInv, HostTypeInv
<1>9. \A r \in Runs : Moves(run[r], X[r], TRUE)
  BY <1>4
<1>10. IF TRUE
       THEN /\ terminating # None /\ ~host[terminating].up /\ terminating' = None /\ affected' = {}
            /\ \A r \in affected : X[r].phase # "issued"
       ELSE UNCHANGED <<terminating, affected>>
  BY <1>1, <1>8
<1> HIDE DEF WaitingRuns
<1> QED BY <1>1, <1>3, <1>5, <1>6, <1>7, <1>9, <1>10, EnsureStep

LEMMA ReapFailsStep ==
  ASSUME WorkerInv, ReapFails
  PROVE  WorkerInv'
<1>1. /\ terminating # None /\ child = None /\ failure' = TRUE /\ terminating' = None /\ affected' = {}
      /\ UNCHANGED <<child, ready, starting, pending, toWorker, host, toApp>>
  BY DEF ReapFails, WorkerInv, Processes, current, requests
<1>2. ASSUME NEW r \in Runs PROVE Moves(run[r], run'[r], FALSE)
  <2>1. PICK x : x = run[r] /\ x \in RunRecord /\ Consistent(x)
    BY RunTypes
  <2>2. PICK y : y = IF r \in affected /\ x.outcome = "none" THEN [x EXCEPT !.outcome = "unconfirmed"] ELSE x
    OBVIOUS
  <2>3. run'[r] = IF r \in WaitingRuns THEN [Finished(y, DefaultOutcome(y)) EXCEPT !.at = "done"] ELSE y
    BY <2>1, <2>2 DEF ReapFails
  <2>4. Moves(x, y, FALSE) /\ y \in RunRecord /\ Consistent(y) /\ y.at = x.at /\ y.phase = x.phase
    <3>1. CASE y = x
      BY <2>1, <3>1, MoveNot
    <3>2. CASE x.outcome = "none" /\ y = [x EXCEPT !.outcome = "unconfirmed"]
      <4>1. y \in RunRecord
        BY <2>1, <3>2, FieldIsSet
      <4>2. /\ y.phase = x.phase /\ y.at = x.at /\ y.told = x.told /\ y.stopping = x.stopping
            /\ y.outcome = "unconfirmed" /\ y.under = x.under /\ y.forwarded = x.forwarded
            /\ y.terminals = x.terminals /\ y.aborted = x.aborted /\ y.doubtful = x.doubtful
            /\ y.question = x.question /\ y.ask = x.ask
        BY <2>1, <3>2 DEF RunRecord
      <4>3. Consistent(y)
        BY <2>1, <3>2, <4>2 DEF Consistent
      <4> QED BY <4>1, <4>2, <4>3 DEF Moves, NotSent, Judged, SaysStopped
    <3> QED BY <2>2, <3>1, <3>2
  <2>5. CASE r \notin WaitingRuns
    BY <2>1, <2>3, <2>4, <2>5
  <2>6. CASE r \in WaitingRuns
    <3>1. y.at = "termination" /\ y.phase # "issued"
      BY <2>1, <2>4, <2>6 DEF WaitingRuns, Consistent, Early
    <3>2. PICK z : z = Finished(y, DefaultOutcome(y))
      OBVIOUS
    <3>3. Moves(y, z, FALSE)
      <4>1. CASE y.phase = "registered"
        BY <2>4, <3>2, <4>1, FinishedMoves, DefaultOutcomeIs
      <4>2. CASE y.phase # "registered"
        <5>1. z = y
          BY <3>1, <3>2, <4>2 DEF Finished, Active
        <5> QED BY <2>4, <5>1, MoveNot
      <4> QED BY <4>1, <4>2
    <3>4. Moves(z, [z EXCEPT !.at = "done"], FALSE)
      BY <3>3, AtMoves DEF Moves, Early
    <3>5. run'[r] = [z EXCEPT !.at = "done"]
      BY <2>3, <2>6, <3>2
    <3>6. Moves(x, z, FALSE)
      BY <2>4, <3>3, MoveFurther
    <3> QED BY <2>1, <3>4, <3>5, <3>6, MoveFurther
  <2> QED BY <2>5, <2>6
<1>3. run' \in [Runs -> RunRecord]
  <2>1. \A r \in Runs : run'[r] \in RunRecord
    BY <1>2 DEF Moves
  <2>2. DOMAIN run' = Runs /\ run' = [r \in Runs |-> run'[r]]
    BY DEF ReapFails
  <2> QED BY <2>1, <2>2
<1>4. TypeInv'
  BY <1>1, <1>3 DEF WorkerInv, TypeInv, HostTypeInv, Workers
<1>5. Processes'
  BY <1>1 DEF WorkerInv, Processes, Workers
<1>6. AdvanceAll
  BY <1>1, AdvanceNot, HostTypes DEF AdvanceAll, WorkerInv, TypeInv
<1>7. Places' /\ \A r \in Runs : Kept(r)
  BY <1>6, WhatIsKept DEF WorkerInv
<1>8. ASSUME NEW r \in Runs PROVE KnownOf(r)'
  <2>1. KnownOf(r) /\ Kept(r) /\ host \in [Workers -> HostRecord] /\ host' \in [Workers -> HostRecord]
    BY <1>1, <1>7, RunTypes DEF WorkerInv, TypeInv, HostTypeInv
  <2> QED BY <1>1, <1>2, <2>1, MoveKnown
<1> QED BY <1>4, <1>5, <1>7, <1>8 DEF WorkerInv, Known
-----------------------------------------------------------------------------
(* The invariant is one.                                                    *)
LEMMA InitKnows ==
  ASSUME Init
  PROVE  WorkerInv
<1>1. /\ host = [w \in Workers |-> UnbornHost] /\ toWorker = [w \in Workers |-> <<>>]
      /\ toApp = [w \in Workers |-> <<>>] /\ child = None /\ ready = FALSE /\ starting = FALSE
      /\ terminating = None /\ affected = {} /\ failure = FALSE
      /\ run = [r \in Runs |-> NoRun] /\ pending = {}
  BY DEF Init, HostInit
<1>2. \A r \in Runs : run[r] = NoRun
  BY <1>1
<1>3. ASSUME NEW w \in Workers
      PROVE  /\ host[w] = UnbornHost /\ toWorker[w] = <<>> /\ toApp[w] = <<>>
             /\ ~host[w].up /\ ~host[w].heard /\ \A r \in Runs : host[w].run[r] = NoHostRun
  BY <1>1, BlankIs
<1>4. TypeInv
  <2>1. host \in [Workers -> HostRecord] /\ run \in [Runs -> RunRecord]
    BY <1>1, BlankIs, NoRunIs
  <2>2. toWorker \in [Workers -> Seq(Requests)] /\ toApp \in [Workers -> Seq(Frames)]
    BY <1>1
  <2> QED BY <1>1, <2>1, <2>2 DEF TypeInv, HostTypeInv
<1>5. Processes
  <2>1. NoHostRun.sdk = "none"
    BY DEF NoHostRun
  <2> QED BY <1>1, <1>3, <2>1 DEF Processes
<1>6. PICK none : none = <<>> /\ \A i : i \notin 1..Len(none)
  OBVIOUS
<1>7. ASSUME NEW r PROVE Place(NoHostRun, none, none, r) /\ Untouched(NoHostRun, none, none, r)
  <2>1. Record(NoHostRun, r)
    BY FS_EmptySet DEF Record, NoHostRun
  <2>2. Queued(NoHostRun, none, none, r) /\ Said(NoHostRun, none, r)
    BY <1>6 DEF Queued, Said
  <2> QED BY <1>6, <2>1, <2>2 DEF Place, Untouched, Starts
<1>8. Places
  BY <1>3, <1>6, <1>7 DEF Places
<1>9. ASSUME NEW r \in Runs PROVE KnownOf(r)
  <2>1. AllUntouched(r)
    BY <1>3, <1>6, <1>7 DEF AllUntouched
  <2>2. Knows(NoRun, r)
    BY <2>1, NoRunIs DEF Knows, SaysStopped
  <2>3. Owned(NoRun, r)
    BY NoRunIs DEF Owned
  <2> QED BY <1>2, <2>2, <2>3, NoRunIs DEF KnownOf
<1> QED BY <1>4, <1>5, <1>8, <1>9 DEF WorkerInv, Known

LEMMA NextKnows ==
  ASSUME WorkerInv, Next
  PROVE  WorkerInv'
<1>1. ASSUME NEW r \in Runs, RunStep(r) PROVE WorkerInv'
  BY <1>1, SpawnRunStep, WorkerReadyForStep, OptionsKnownStep, OptionsRejectedStep, RunRepliedStep,
     AbortStep, AbortRepliedStep, ApproveStep DEF RunStep
<1>2. ASSUME NEW c \in Calls, MakeCall(c) \/ CallSends(c) \/ FollowUp(c) PROVE WorkerInv'
  BY <1>2, MakeCallStep, CallStep
<1>3. ASSUME NEW f \in Fences, FenceForRestart(f) \/ ReleaseFence(f) PROVE WorkerInv'
  BY <1>3, FenceStep
<1>4. ASSUME ReadActivity \/ ReadTimesOut PROVE WorkerInv'
  BY <1>4, WatchStep
<1>5. ASSUME NEW q \in pending, TimesOut(q) PROVE WorkerInv'
  BY <1>5, TimesOutStep
<1>6. ASSUME WorkerFailed PROVE WorkerInv'
  BY <1>6, WorkerFailedStep DEF WorkerFailed
<1>7. ASSUME NEW w \in Workers, HostStep(w), UNCHANGED appVars PROVE WorkerInv'
  BY <1>7, WorkerGoesOn
<1> QED BY <1>1, <1>2, <1>3, <1>4, <1>5, <1>6, <1>7, ReceiveStep, ReapedStep, ReapFailsStep, ShutdownStep
        DEF Next

LEMMA StutterKnows ==
  ASSUME WorkerInv, UNCHANGED vars
  PROVE  WorkerInv'
<1>1. SameWorker /\ UNCHANGED <<toWorker, toApp, pending, run>>
  BY DEF vars, appVars, hostVars, SameWorker
<1> QED BY <1>1, PipesStay, RunsStay, QuietStep

(* Whatever the supervisor's record, the pipes and the workers go through,  *)
(* what is known of each run agrees (WorkerInv).                            *)
THEOREM WorkerInvHolds == Spec => []WorkerInv
<1>1. WorkerInv /\ [Next]_vars => WorkerInv'
  BY NextKnows, StutterKnows
<1> QED BY <1>1, InitKnows, PTL DEF Spec
-----------------------------------------------------------------------------
(* What follows from it.                                                    *)
LEMMA OneIsAlive ==
  ASSUME WorkerInv
  PROVE  OneWorkerAlive
<1>1. PICK alive : alive = {w \in Workers : host[w].up}
  OBVIOUS
<1>2. alive = {} \/ \E w : alive = {w}
  <2>1. \A v, w \in alive : v = w
    BY <1>1 DEF WorkerInv, Processes
  <2>2. ASSUME NEW w \in alive PROVE alive = {w}
    BY <2>1
  <2> QED BY <2>2
<1>3. Cardinality(alive) <= 1
  <2>1. Cardinality({}) = 0 /\ \A w : Cardinality({w}) = 1
    BY FS_EmptySet, FS_Singleton
  <2>2. Cardinality(alive) \in {0, 1}
    BY <1>2, <2>1
  <2> QED BY <2>2
<1> QED BY <1>1, <1>3 DEF OneWorkerAlive

LEMMA VerdictsFollow ==
  ASSUME WorkerInv
  PROVE  VerdictsAreTrue
<1>1. ASSUME NEW w \in Workers, NEW r \in Runs
      PROVE  /\ StartQueued(w, r) => Starts(toWorker[w], r)
             /\ Executes(w, r) => Live(host[w].run[r])
  <2>1. DOMAIN toWorker[w] = 1..Len(toWorker[w])
    <3>1. toWorker[w] \in Seq(Requests)
      BY DEF WorkerInv, TypeInv, HostTypeInv
    <3> QED BY <3>1
  <2> QED BY <2>1 DEF StartQueued, Starts, IsStart, Request, Asked, Executes, Live
<1>2. OutcomeIsTrue
  <2> SUFFICES ASSUME NEW r \in Runs, NEW w \in Workers, StartQueued(w, r) \/ Executes(w, r),
                      run[r].outcome \notin {"none", "unconfirmed"}
               PROVE  FALSE
    BY DEF OutcomeIsTrue
  <2>1. Quiet(host[w].run[r], toWorker[w], r)
    BY RunTypes DEF KnownOf, Knows, Judged, AllQuiet
  <2> QED BY <1>1, <2>1 DEF Quiet
<1>3. AbortIsTrue
  <2> SUFFICES ASSUME NEW r \in Runs, NEW w \in Workers
               PROVE  /\ run[r].told = "aborted" => Stopped(w, r)
                      /\ run[r].told = "not_started" => ~StartQueued(w, r) /\ host[w].run[r] = NoHostRun
    BY DEF AbortIsTrue
  <2>1. run[r].told = "aborted" => Stops(host[w].run[r], toWorker[w], r)
    BY RunTypes DEF KnownOf, Knows, AllStopped
  <2>2. run[r].told = "not_started" => Untouched(host[w].run[r], toWorker[w], toApp[w], r)
    BY RunTypes DEF KnownOf, Knows, NotSent, AllUntouched
  <2> QED BY <1>1, <2>1, <2>2 DEF Stops, Halted, Stopped, Untouched
<1> QED BY <1>2, <1>3, OneIsAlive DEF VerdictsAreTrue

LEMMA BrowserFollows ==
  ASSUME WorkerInv
  PROVE  BrowserIsTold
<1>1. TerminalOnce
  BY RunTypes DEF TerminalOnce, Consistent
<1>2. ApprovalsAreCurrent
  <2>1. \A r \in Runs : run[r].ask # "none" => run[r].phase = "issued"
    BY RunTypes DEF Consistent
  <2>2. ASSUME NEW r \in Offered
        PROVE  run[r].under = child /\ host[child].run[r].asks >= run[r].question
    <3>1. r \in Runs /\ child # None /\ run[r].ask = "offered"
      BY <2>2 DEF Offered
    <3>2. /\ run[r].under = child /\ child \in Workers
          /\ run[r].question <= host[child].run[r].asks
      BY <2>1, <3>1, RunTypes DEF KnownOf, Owned
    <3>3. run[r].question \in Nat
      BY <3>1, RunTypes DEF RunRecord
    <3>4. host[child].run[r].asks \in Nat
      BY <3>1, <3>2, HostTypes DEF WorkerInv, TypeInv
    <3> QED BY <3>2, <3>3, <3>4
  <2> QED BY <2>1, <2>2 DEF ApprovalsAreCurrent
<1> QED BY <1>1, <1>2 DEF BrowserIsTold

(* One worker lives at a time, an outcome is given only when no live worker *)
(* has or will have the run at work, and a run said to be stopped or not    *)
(* started is (finishRun, abort, workerFailed), for any number of runs,     *)
(* workers, questions, stops and failures.                                  *)
THEOREM VerdictsAlwaysTrue == Spec => []VerdictsAreTrue
<1>1. WorkerInv => VerdictsAreTrue
  BY VerdictsFollow
<1> QED BY <1>1, WorkerInvHolds, PTL

(* The browser gets one terminal message for a run, and is asked only the   *)
(* questions of a run the current worker has (handleEvent, finishRun,       *)
(* pendingApprovals).                                                       *)
THEOREM BrowserAlwaysTold == Spec => []BrowserIsTold
<1>1. WorkerInv => BrowserIsTold
  BY BrowserFollows
<1> QED BY <1>1, WorkerInvHolds, PTL
=============================================================================
