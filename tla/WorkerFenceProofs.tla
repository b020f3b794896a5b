-------------------------- MODULE WorkerFenceProofs --------------------------
(***************************************************************************)
(* The admission fence of the worker, and the proof that it is idle, for   *)
(* any number of runs, calls, fences and workers.                          *)
(*                                                                         *)
(* Both are about requests on their way, late ones among them.  Line says  *)
(* what the pipes of a worker may hold: every request has one place, what  *)
(* closes and opens the worker belongs to the fence the server holds, and  *)
(* nothing a fence refuses comes behind a request to close.                *)
(***************************************************************************)
EXTENDS WorkerSupervisorProofs

IsAdmission(q) == q.method \in {"close", "open"}
IsFenced(q) == q.method \in FencedMethods
IsTracked(q) == q.method \notin {"start", "abort", "reply"}
IsReply(f, q) == f.kind = "response" /\ f.of = q
IsOpened(f) == f.kind = "response" /\ f.of.method = "open" /\ f.result = "ok"
Admits(f) == f.kind = "response" /\ IsAdmission(f.of)

(* The pipes in and out of a worker and its operations.  known: what the   *)
(* server has not seen answered; pend: what somebody waits for; own: the   *)
(* fence the server holds on this worker; shut: it was acknowledged; held: *)
(* the worker's fence.                                                     *)
OnePlace(known, ops, in, out) ==
  /\ \A i \in 1..Len(in) : IsTracked(in[i]) =>
       /\ in[i] \in known /\ in[i] \notin ops
       /\ \A k \in 1..Len(out) : ~IsReply(out[k], in[i])
       /\ \A j \in 1..Len(in) : in[j] = in[i] => i = j
  /\ \A q \in ops : IsTracked(q) /\ q \in known /\ \A k \in 1..Len(out) : ~IsReply(out[k], q)
  /\ \A k \in 1..Len(out) : out[k].kind = "response" /\ IsTracked(out[k].of) =>
       /\ out[k].of \in known
       /\ \A l \in 1..Len(out) : IsReply(out[l], out[k].of) => k = l

OfOneFence(own, held, in, out) ==
  /\ \A i \in 1..Len(in) : IsAdmission(in[i]) => in[i].of = own
  /\ \A k \in 1..Len(out) : Admits(out[k]) => out[k].of.of = own
  /\ held \in {None, own}

(* Who waits for an admission request waits for the last one.              *)
LastWord(pend, held, in, out) ==
  \A q \in pend : IsAdmission(q) =>
    /\ \A i, j \in 1..Len(in) : in[i] = q /\ IsAdmission(in[j]) => j =< i
    /\ \A k \in 1..Len(out) : IsReply(out[k], q) =>
         /\ \A j \in 1..Len(in) : ~IsAdmission(in[j])
         /\ \A l \in 1..Len(out) : Admits(out[l]) => l =< k
         /\ IsOpened(out[k]) => held = None

Shielded(shut, in, out) ==
  /\ \A i, j \in 1..Len(in) : in[i].method = "close" /\ IsFenced(in[j]) => j =< i
  /\ \A k \in 1..Len(out), j \in 1..Len(in) :
       out[k].kind = "response" /\ out[k].of.method = "close" => ~IsFenced(in[j])
  /\ shut => \A j \in 1..Len(in) : ~IsFenced(in[j])

Line(known, pend, own, shut, ops, held, in, out) ==
  /\ OnePlace(known, ops, in, out) /\ OfOneFence(own, held, in, out)
  /\ LastWord(pend, held, in, out) /\ Shielded(shut, in, out)
-----------------------------------------------------------------------------
(* What the worker does to its line.                                       *)
LEMMA LineTaken ==
  ASSUME NEW known, NEW pend, NEW own, NEW shut, NEW ops, NEW held,
         NEW in \in Seq(Requests), in # <<>>, NEW out \in Seq(Frames),
         Line(known, pend, own, shut, ops, held, in, out)
  PROVE  /\ Line(known, pend, own, shut, ops, held, Tail(in), out)
         /\ IsTracked(Head(in)) =>
              /\ Head(in) \in known /\ Head(in) \notin ops
              /\ \A i \in 1..Len(Tail(in)) : Tail(in)[i] # Head(in)
              /\ \A k \in 1..Len(out) : ~IsReply(out[k], Head(in))
              /\ Line(known, pend, own, shut, ops \cup {Head(in)}, held, Tail(in), out)
<1>1. PICK rest : rest = Tail(in)
  OBVIOUS
<1>2. /\ Len(rest) = Len(in) - 1 /\ Len(in) \in Nat \ {0} /\ 1 \in 1..Len(in) /\ Head(in) = in[1]
      /\ \A i \in 1..Len(rest) : i + 1 \in 1..Len(in) /\ rest[i] = in[i + 1]
  BY <1>1, TailOf
<1>3. OnePlace(known, ops, rest, out)
  <2>1. ASSUME NEW i \in 1..Len(rest), IsTracked(rest[i])
        PROVE  /\ rest[i] \in known /\ rest[i] \notin ops
               /\ \A k \in 1..Len(out) : ~IsReply(out[k], rest[i])
               /\ \A j \in 1..Len(rest) : rest[j] = rest[i] => i = j
    <3>1. i + 1 \in 1..Len(in) /\ rest[i] = in[i + 1]
      BY <1>2
    <3>2. \A j \in 1..Len(in) : in[j] = in[i + 1] => i + 1 = j
      BY <2>1, <3>1 DEF Line, OnePlace
    <3>3. \A j \in 1..Len(rest) : rest[j] = rest[i] => i = j
      BY <1>2, <3>1, <3>2
    <3> QED BY <2>1, <3>1, <3>3 DEF Line, OnePlace
  <2> QED BY <2>1 DEF Line, OnePlace
<1>4. OfOneFence(own, held, rest, out)
  BY <1>2 DEF Line, OfOneFence
<1>5. LastWord(pend, held, rest, out)
  <2> SUFFICES ASSUME NEW q \in pend, IsAdmission(q)
               PROVE  /\ \A i, j \in 1..Len(rest) : rest[i] = q /\ IsAdmission(rest[j]) => j =< i
                      /\ \A k \in 1..Len(out) : IsReply(out[k], q) =>
                           /\ \A j \in 1..Len(rest) : ~IsAdmission(rest[j])
                           /\ \A l \in 1..Len(out) : Admits(out[l]) => l =< k
                           /\ IsOpened(out[k]) => held = None
    BY DEF LastWord
  <2>1. /\ \A i, j \in 1..Len(in) : in[i] = q /\ IsAdmission(in[j]) => j =< i
        /\ \A k \in 1..Len(out) : IsReply(out[k], q) =>
             /\ \A j \in 1..Len(in) : ~IsAdmission(in[j])
             /\ \A l \in 1..Len(out) : Admits(out[l]) => l =< k
             /\ IsOpened(out[k]) => held = None
    BY DEF Line, LastWord
  <2>2. ASSUME NEW i \in 1..Len(rest), NEW j \in 1..Len(rest), rest[i] = q, IsAdmission(rest[j])
        PROVE  j =< i
    <3>1. j + 1 =< i + 1
      BY <1>2, <2>1, <2>2
    <3> QED BY <3>1
  <2> QED BY <1>2, <2>1, <2>2
<1>6. Shielded(shut, rest, out)
  <2>1. ASSUME NEW i \in 1..Len(rest), NEW j \in 1..Len(rest), rest[i].method = "close", IsFenced(rest[j])
        PROVE  j =< i
    <3>1. j + 1 =< i + 1
      BY <1>2, <2>1 DEF Line, Shielded
    <3> QED BY <3>1
  <2> QED BY <1>2, <2>1 DEF Line, Shielded
<1>7. ASSUME IsTracked(Head(in))
      PROVE  /\ Head(in) \in known /\ Head(in) \notin ops
             /\ \A i \in 1..Len(rest) : rest[i] # Head(in)
             /\ \A k \in 1..Len(out) : ~IsReply(out[k], Head(in))
  <2>1. \A j \in 1..Len(in) : in[j] = in[1] => 1 = j
    BY <1>2, <1>7 DEF Line, OnePlace
  <2>2. \A i \in 1..Len(rest) : rest[i] # Head(in)
    BY <1>2, <2>1
  <2> QED BY <1>2, <1>7, <2>2 DEF Line, OnePlace
<1>8. IsTracked(Head(in)) => OnePlace(known, ops \cup {Head(in)}, rest, out)
  BY <1>3, <1>7 DEF OnePlace
<1> QED BY <1>1, <1>3, <1>4, <1>5, <1>6, <1>7, <1>8 DEF Line

(* A request that is in no other place is answered.                        *)
LEMMA LineAnswered ==
  ASSUME NEW known, NEW pend, NEW own, NEW shut, NEW ops, NEW held,
         NEW in \in Seq(Requests), NEW out \in Seq(Frames), NEW f \in Frames, f.kind = "response",
         Line(known, pend, own, shut, ops, held, in, out), ~IsAdmission(f.of),
         IsTracked(f.of) =>
           /\ f.of \in known /\ f.of \notin ops
           /\ \A i \in 1..Len(in) : in[i] # f.of
           /\ \A k \in 1..Len(out) : ~IsReply(out[k], f.of)
  PROVE  Line(known, pend, own, shut, ops, held, in, Append(out, f))
<1>1. PICK more : more = Append(out, f)
  OBVIOUS
<1>2. /\ Len(out) \in Nat /\ Len(more) = Len(out) + 1 /\ more[Len(out) + 1] = f
      /\ \A k \in 1..Len(out) : k \in 1..Len(more) /\ more[k] = out[k]
      /\ \A k \in 1..Len(more) : k \in 1..Len(out) \/ k = Len(out) + 1
      /\ Len(out) + 1 \in 1..Len(more)
  BY <1>1, AppendOf
<1>3. OnePlace(known, ops, in, more)
  <2>1. ASSUME NEW i \in 1..Len(in), IsTracked(in[i]), NEW k \in 1..Len(more) PROVE ~IsReply(more[k], in[i])
    BY <1>2, <2>1 DEF Line, OnePlace, IsReply
  <2>2. ASSUME NEW q \in ops, NEW k \in 1..Len(more) PROVE ~IsReply(more[k], q)
    <3>1. CASE k \in 1..Len(out)
      BY <1>2, <3>1 DEF Line, OnePlace
    <3>2. CASE k = Len(out) + 1
      <4>1. q # f.of
        BY DEF Line, OnePlace
      <4>2. more[k] = f
        BY <1>2, <3>2
      <4> QED BY <4>1, <4>2 DEF IsReply
    <3> QED BY <1>2, <3>1, <3>2
  <2>3. ASSUME NEW k \in 1..Len(more), more[k].kind = "response", IsTracked(more[k].of)
        PROVE  /\ more[k].of \in known
               /\ \A l \in 1..Len(more) : IsReply(more[l], more[k].of) => k = l
    BY <1>2, <2>3 DEF Line, OnePlace, IsReply
  <2> QED BY <2>1, <2>2, <2>3 DEF Line, OnePlace
<1>4. ~Admits(f) /\ ~IsOpened(f) /\ (\A q : IsAdmission(q) => ~IsReply(f, q)) /\ f.of.method # "close"
  BY DEF Admits, IsOpened, IsAdmission, IsReply
<1>5. OfOneFence(own, held, in, more)
  BY <1>2, <1>4 DEF Line, OfOneFence
<1>6. LastWord(pend, held, in, more)
  BY <1>2, <1>4 DEF Line, LastWord
<1>7. Shielded(shut, in, more)
  BY <1>2, <1>4 DEF Line, Shielded
<1> QED BY <1>1, <1>3, <1>5, <1>6, <1>7 DEF Line

(* An admission request is answered; the worker's fence follows it.        *)
LEMMA LineAdmission ==
  ASSUME NEW known, NEW pend, NEW own, NEW shut, NEW ops, NEW held, NEW held2,
         NEW in \in Seq(Requests), in # <<>>, NEW out \in Seq(Frames), NEW f \in Frames,
         f.kind = "response", f.of = Head(in), IsAdmission(f.of), held2 \in {held, None, f.of.of},
         IsOpened(f) => held2 = None,
         Line(known, pend, own, shut, ops, held, in, out)
  PROVE  Line(known, pend, own, shut, ops, held2, Tail(in), Append(out, f))
<1>1. PICK more, rest : more = Append(out, f) /\ rest = Tail(in)
  OBVIOUS
<1>2. /\ Len(out) \in Nat /\ Len(more) = Len(out) + 1 /\ more[Len(out) + 1] = f
      /\ \A k \in 1..Len(out) : k \in 1..Len(more) /\ more[k] = out[k]
      /\ \A k \in 1..Len(more) : k \in 1..Len(out) \/ k = Len(out) + 1
      /\ Len(out) + 1 \in 1..Len(more)
  BY <1>1, AppendOf
<1>3. /\ Len(rest) = Len(in) - 1 /\ Len(in) \in Nat \ {0} /\ 1 \in 1..Len(in) /\ f.of = in[1]
      /\ \A i \in 1..Len(rest) : i + 1 \in 1..Len(in) /\ rest[i] = in[i + 1]
  BY <1>1, TailOf
<1>4. /\ OnePlace(known, ops, rest, out) /\ Shielded(shut, rest, out)
      /\ OfOneFence(own, held, rest, out) /\ LastWord(pend, held, rest, out)
      /\ f.of \in known /\ f.of \notin ops
      /\ \A i \in 1..Len(rest) : rest[i] # f.of
      /\ \A k \in 1..Len(out) : ~IsReply(out[k], f.of)
  <2>1. Line(known, pend, own, shut, ops, held, Tail(in), out)
    BY LineTaken
  <2>2. IsTracked(Head(in)) =>
          /\ Head(in) \in known /\ Head(in) \notin ops
          /\ \A i \in 1..Len(Tail(in)) : Tail(in)[i] # Head(in)
          /\ \A k \in 1..Len(out) : ~IsReply(out[k], Head(in))
    BY LineTaken
  <2>3. IsTracked(f.of)
    BY DEF IsTracked, IsAdmission
  <2> QED BY <1>1, <2>1, <2>2, <2>3 DEF Line
<1>5. OnePlace(known, ops, rest, more)
  <2>1. ASSUME NEW i \in 1..Len(rest), IsTracked(rest[i]), NEW k \in 1..Len(more) PROVE ~IsReply(more[k], rest[i])
    BY <1>2, <1>4, <2>1 DEF OnePlace, IsReply
  <2>2. ASSUME NEW q \in ops, NEW k \in 1..Len(more) PROVE ~IsReply(more[k], q)
    BY <1>2, <1>4 DEF OnePlace, IsReply
  <2>3. ASSUME NEW k \in 1..Len(more), more[k].kind = "response", IsTracked(more[k].of)
        PROVE  /\ more[k].of \in known
               /\ \A l \in 1..Len(more) : IsReply(more[l], more[k].of) => k = l
    BY <1>2, <1>4, <2>3 DEF OnePlace, IsReply
  <2> QED BY <1>4, <2>1, <2>2, <2>3 DEF OnePlace
<1>6. f.of.of = own /\ Admits(f)
  BY <1>3 DEF Line, OfOneFence, Admits
<1>7. OfOneFence(own, held2, rest, more)
  BY <1>2, <1>4, <1>6 DEF OfOneFence
<1>8. LastWord(pend, held2, rest, more)
  <2> SUFFICES ASSUME NEW q \in pend, IsAdmission(q)
               PROVE  /\ \A i, j \in 1..Len(rest) : rest[i] = q /\ IsAdmission(rest[j]) => j =< i
                      /\ \A k \in 1..Len(more) : IsReply(more[k], q) =>
                           /\ \A j \in 1..Len(rest) : ~IsAdmission(rest[j])
                           /\ \A l \in 1..Len(more) : Admits(more[l]) => l =< k
                           /\ IsOpened(more[k]) => held2 = None
    BY DEF LastWord
  <2>1. /\ \A i, j \in 1..Len(in) : in[i] = q /\ IsAdmission(in[j]) => j =< i
        /\ \A k \in 1..Len(out) : IsReply(out[k], q) => \A j \in 1..Len(in) : ~IsAdmission(in[j])
    BY DEF Line, LastWord
  <2>2. \A k \in 1..Len(out) : ~IsReply(out[k], q)
    BY <1>3, <2>1
  <2>3. ASSUME NEW k \in 1..Len(more), IsReply(more[k], q)
        PROVE  /\ \A j \in 1..Len(rest) : ~IsAdmission(rest[j])
               /\ \A l \in 1..Len(more) : Admits(more[l]) => l =< k
               /\ IsOpened(more[k]) => held2 = None
    <3>1. k = Len(out) + 1 /\ more[k] = f /\ q = f.of
      BY <1>2, <2>2, <2>3 DEF IsReply
    <3>2. ASSUME NEW j \in 1..Len(rest), IsAdmission(rest[j]) PROVE FALSE
      <4>1. j + 1 \in 1..Len(in) /\ IsAdmission(in[j + 1]) /\ in[1] = q
        BY <1>3, <3>1, <3>2
      <4>2. j + 1 =< 1
        BY <1>3, <2>1, <4>1
      <4> QED BY <4>2
    <3>3. \A l \in 1..Len(more) : l =< k
      BY <1>2, <3>1
    <3> QED BY <3>1, <3>2, <3>3
  <2> QED BY <1>4, <2>3 DEF LastWord
<1>9. Shielded(shut, rest, more)
  <2>1. ASSUME f.of.method = "close", NEW j \in 1..Len(rest), IsFenced(rest[j]) PROVE FALSE
    <3>1. j + 1 \in 1..Len(in) /\ IsFenced(in[j + 1]) /\ in[1].method = "close"
      BY <1>3, <2>1
    <3>2. j + 1 =< 1
      BY <1>3, <3>1 DEF Line, Shielded
    <3> QED BY <3>2
  <2> QED BY <1>2, <1>4, <2>1 DEF Shielded
<1> QED BY <1>1, <1>5, <1>7, <1>8, <1>9 DEF Line

(* What is no tracked request's answer changes nothing.                     *)
IsAside(f, r) ==
  f.kind = "event" \/ (f.kind = "response" /\ ~IsTracked(f.of) /\ (f.of.method = "start" => f.of.of = r))
LEMMA LineSays ==
  ASSUME NEW known, NEW pend, NEW own, NEW shut, NEW ops, NEW held,
         NEW in \in Seq(Requests), NEW out \in Seq(Frames), NEW fs \in Seq(Frames),
         NEW r, \A i \in 1..Len(fs) : IsAside(fs[i], r),
         Line(known, pend, own, shut, ops, held, in, out)
  PROVE  Line(known, pend, own, shut, ops, held, in, out \o fs)
<1>1. PICK more : more = out \o fs
  OBVIOUS
<1>2. ASSUME NEW k \in 1..Len(more)
      PROVE  (k \in 1..Len(out) /\ more[k] = out[k]) \/ \E i \in 1..Len(fs) : more[k] = fs[i]
  BY <1>1, JoinOf
<1>3. \A k \in 1..Len(more) : (k \in 1..Len(out) /\ more[k] = out[k]) \/ IsAside(more[k], r)
  BY <1>2
<1>4. \A k \in 1..Len(more) : IsAside(more[k], r) =>
        /\ ~Admits(more[k]) /\ ~IsOpened(more[k])
        /\ ~(more[k].kind = "response" /\ (IsTracked(more[k].of) \/ more[k].of.method = "close"))
        /\ \A q : IsTracked(q) \/ IsAdmission(q) => ~IsReply(more[k], q)
  BY DEF IsAside, Admits, IsOpened, IsTracked, IsAdmission, IsReply
<1>5. OnePlace(known, ops, in, more)
  <2>1. ASSUME NEW i \in 1..Len(in), IsTracked(in[i]), NEW k \in 1..Len(more) PROVE ~IsReply(more[k], in[i])
    BY <1>3, <1>4, <2>1 DEF Line, OnePlace
  <2>2. ASSUME NEW q \in ops, NEW k \in 1..Len(more) PROVE ~IsReply(more[k], q)
    BY <1>3, <1>4 DEF Line, OnePlace
  <2>3. ASSUME NEW k \in 1..Len(more), more[k].kind = "response", IsTracked(more[k].of)
        PROVE  /\ more[k].of \in known
               /\ \A l \in 1..Len(more) : IsReply(more[l], more[k].of) => k = l
    BY <1>3, <1>4, <2>3 DEF Line, OnePlace
  <2> QED BY <2>1, <2>2, <2>3 DEF Line, OnePlace
<1>6. OfOneFence(own, held, in, more)
  BY <1>3, <1>4 DEF Line, OfOneFence
<1>7. LastWord(pend, held, in, more)
  BY <1>3, <1>4 DEF Line, LastWord
<1>8. Shielded(shut, in, more)
  BY <1>3, <1>4 DEF Line, Shielded
<1> QED BY <1>1, <1>5, <1>6, <1>7, <1>8 DEF Line

LEMMA LineDropped ==
  ASSUME NEW known, NEW pend, NEW own, NEW shut, NEW ops, NEW ops2, ops2 \subseteq ops, NEW held,
         NEW in, NEW out, Line(known, pend, own, shut, ops, held, in, out)
  PROVE  /\ Line(known, pend, own, shut, ops2, held, in, out)
         /\ Line(known, pend, own, shut, {}, None, <<>>, out)
<1>1. \A i : i \notin 1..Len(<<>>)
  OBVIOUS
<1>2. OnePlace(known, ops2, in, out) /\ OnePlace(known, {}, <<>>, out)
  BY <1>1 DEF Line, OnePlace
<1>3. OfOneFence(own, None, <<>>, out) /\ LastWord(pend, None, <<>>, out) /\ Shielded(shut, <<>>, out)
  BY <1>1 DEF Line, OfOneFence, LastWord, Shielded
<1> QED BY <1>2, <1>3 DEF Line
-----------------------------------------------------------------------------
(* What the supervisor does to the line of its worker.                     *)
(* A request is written, or would be if the worker were up.                *)
LEMMA LineSent ==
  ASSUME NEW known, NEW known2, NEW pend, NEW own, NEW shut, NEW ops, NEW held,
         NEW in \in Seq(Requests), NEW out \in Seq(Frames), NEW q \in Requests,
         q \in known2, known \subseteq known2, IsTracked(q) => q \notin known,
         IsFenced(q) => ~shut /\ own = None, own \notin Fences => own = None, None \notin Fences,
         IsAdmission(q) => q.of = own /\ \A p \in pend : ~IsAdmission(p),
         Line(known, pend, own, shut, ops, held, in, out)
  PROVE  /\ Line(known2, pend \cup {q}, own, shut, ops, held, in, out)
         /\ Line(known2, pend \cup {q}, own, shut, ops, held, Append(in, q), out)
<1>1. PICK more : more = Append(in, q)
  OBVIOUS
<1>2. /\ Len(in) \in Nat /\ Len(more) = Len(in) + 1 /\ more[Len(in) + 1] = q
      /\ \A k \in 1..Len(in) : k \in 1..Len(more) /\ more[k] = in[k]
      /\ \A k \in 1..Len(more) : k \in 1..Len(in) \/ k = Len(in) + 1
      /\ Len(in) + 1 \in 1..Len(more)
  BY <1>1, AppendOf
<1>3. IsTracked(q) =>
        /\ q \notin ops /\ \A k \in 1..Len(out) : ~IsReply(out[k], q)
        /\ \A i \in 1..Len(in) : in[i] # q
  BY DEF Line, OnePlace, IsReply
<1>4. OnePlace(known2, ops, in, out)
  BY DEF Line, OnePlace
<1>5. OnePlace(known2, ops, more, out)
  <2> SUFFICES ASSUME NEW i \in 1..Len(more), IsTracked(more[i])
               PROVE  /\ more[i] \in known2 /\ more[i] \notin ops
                      /\ \A k \in 1..Len(out) : ~IsReply(out[k], more[i])
                      /\ \A j \in 1..Len(more) : more[j] = more[i] => i = j
    BY <1>4 DEF OnePlace
  <2>1. CASE i \in 1..Len(in)
    <3>1. more[i] = in[i] /\ \A j \in 1..Len(in) : more[j] = more[i] => i = j
      BY <1>2, <2>1 DEF Line, OnePlace
    <3>2. \A j \in 1..Len(more) : more[j] = more[i] => i = j
      BY <1>2, <1>3, <2>1, <3>1
    <3> QED BY <1>4, <2>1, <3>1, <3>2 DEF OnePlace
  <2>2. CASE i = Len(in) + 1
    BY <1>2, <1>3, <2>2
  <2> QED BY <1>2, <2>1, <2>2
<1>6. OfOneFence(own, held, in, out) /\ OfOneFence(own, held, more, out)
  BY <1>2 DEF Line, OfOneFence
<1>7. IsAdmission(q) => IsTracked(q)
  BY DEF IsAdmission, IsTracked
<1>8. ASSUME NEW p \in pend \cup {q}, IsAdmission(p)
      PROVE  /\ \A i, j \in 1..Len(in) : in[i] = p /\ IsAdmission(in[j]) => j =< i
             /\ \A i, j \in 1..Len(more) : more[i] = p /\ IsAdmission(more[j]) => j =< i
             /\ \A k \in 1..Len(out) : IsReply(out[k], p) =>
                  /\ \A j \in 1..Len(in) : ~IsAdmission(in[j])
                  /\ \A j \in 1..Len(more) : ~IsAdmission(more[j])
                  /\ \A l \in 1..Len(out) : Admits(out[l]) => l =< k
                  /\ IsOpened(out[k]) => held = None
  <2>1. CASE p \in pend
    <3>1. ~IsAdmission(q)
      BY <1>8, <2>1
    <3> QED BY <1>2, <1>8, <2>1, <3>1 DEF Line, LastWord
  <2>2. CASE p = q
    <3>1. \A i \in 1..Len(more) : more[i] = p => i = Len(in) + 1
      BY <1>2, <1>3, <1>7, <1>8, <2>2
    <3>2. \A j \in 1..Len(more) : j =< Len(in) + 1
      BY <1>2
    <3> QED BY <1>2, <1>3, <1>7, <1>8, <2>2, <3>1, <3>2
  <2> QED BY <2>1, <2>2
<1>9. LastWord(pend \cup {q}, held, in, out) /\ LastWord(pend \cup {q}, held, more, out)
  BY <1>8 DEF LastWord
<1>10. Shielded(shut, in, out) /\ Shielded(shut, more, out)
  <2>1. CASE ~IsFenced(q)
    <3>1. ASSUME NEW i \in 1..Len(more), NEW j \in 1..Len(more), more[i].method = "close", IsFenced(more[j])
          PROVE  j =< i
      BY <1>2, <2>1, <3>1 DEF Line, Shielded
    <3> QED BY <1>2, <2>1, <3>1 DEF Line, Shielded
  <2>2. CASE IsFenced(q)
    <3>1. own = None /\ ~shut /\ q.method # "close"
      BY <2>2 DEF IsFenced, FencedMethods
    <3>2. \A i \in 1..Len(in) : in[i].method # "close"
      <4>1. \A i \in 1..Len(in) : IsAdmission(in[i]) => in[i].of \in Fences
        BY DEF IsAdmission, Requests, Plain, StartRequests, RunRequests, CallRequests, FenceRequests,
               OwnRequests, Readings
      <4> QED BY <3>1, <4>1 DEF Line, OfOneFence, IsAdmission
    <3>3. \A k \in 1..Len(out) : ~(out[k].kind = "response" /\ out[k].of.method = "close")
      <4>1. ASSUME NEW k \in 1..Len(out), out[k].kind = "response", out[k].of.method = "close"
            PROVE  out[k].of.of \in Fences
        <5>1. out[k] \in Frames
          OBVIOUS
        <5>2. out[k].of \in Requests
          BY <4>1, <5>1 DEF Frames, Responses, Events, Requests
        <5> QED BY <4>1, <5>2 DEF Requests, Plain, StartRequests, RunRequests, CallRequests,
                 FenceRequests, OwnRequests, Readings
      <4> QED BY <3>1, <4>1 DEF Line, OfOneFence, Admits, IsAdmission
    <3> QED BY <1>2, <3>1, <3>2, <3>3 DEF Shielded
  <2> QED BY <2>1, <2>2
<1> QED BY <1>1, <1>4, <1>5, <1>6, <1>9, <1>10 DEF Line

(* An admission request is about a fence.                                   *)
LEMMA AdmissionOf ==
  /\ \A q \in Requests : IsAdmission(q) => q.of \in Fences
  /\ \A f \in Frames : f.kind = "response" => f.of \in Requests
<1>1. ASSUME NEW q \in Requests, IsAdmission(q) PROVE q.of \in Fences
  BY <1>1 DEF IsAdmission, Requests, Plain, StartRequests, RunRequests, CallRequests, FenceRequests,
     OwnRequests, Readings
<1>2. ASSUME NEW f \in Frames, f.kind = "response" PROVE f.of \in Requests
  BY <1>2 DEF Frames, Responses, Events, Requests
<1> QED BY <1>1, <1>2

(* Less is waited for, more is known.                                       *)
LEMMA LineForgets ==
  ASSUME NEW known, NEW known2, NEW pend, NEW pend2, NEW own, NEW shut, NEW ops, NEW held,
         NEW in, NEW out, known \subseteq known2, pend2 \subseteq pend,
         Line(known, pend, own, shut, ops, held, in, out)
  PROVE  Line(known2, pend2, own, shut, ops, held, in, out)
<1>1. OnePlace(known2, ops, in, out)
  BY DEF Line, OnePlace
<1>2. LastWord(pend2, held, in, out)
  BY DEF Line, LastWord
<1> QED BY <1>1, <1>2 DEF Line

(* The server fences a worker on which it held no fence.                    *)
LEMMA LineOwned ==
  ASSUME NEW known, NEW pend, NEW own, NEW shut, NEW ops, NEW held,
         NEW in \in Seq(Requests), NEW out \in Seq(Frames), None \notin Fences,
         Line(known, pend, None, shut, ops, held, in, out)
  PROVE  Line(known, pend, own, FALSE, ops, held, in, out)
<1>1. \A i \in 1..Len(in) : ~IsAdmission(in[i])
  <2> SUFFICES ASSUME NEW i \in 1..Len(in), IsAdmission(in[i]) PROVE FALSE
    OBVIOUS
  <2>1. in[i] \in Requests /\ in[i].of = None
    BY DEF Line, OfOneFence
  <2> QED BY <2>1, AdmissionOf
<1>2. \A k \in 1..Len(out) : ~Admits(out[k])
  <2> SUFFICES ASSUME NEW k \in 1..Len(out), Admits(out[k]) PROVE FALSE
    OBVIOUS
  <2>1. out[k] \in Frames /\ out[k].of.of = None
    BY DEF Line, OfOneFence
  <2>2. out[k].of \in Requests /\ IsAdmission(out[k].of)
    BY <2>1, AdmissionOf DEF Admits
  <2> QED BY <2>1, <2>2, AdmissionOf
<1>3. OfOneFence(own, held, in, out)
  BY <1>1, <1>2 DEF Line, OfOneFence
<1>4. Shielded(FALSE, in, out)
  BY DEF Line, Shielded
<1> QED BY <1>3, <1>4 DEF Line

(* A frame is read.  Once a request to close is answered, nothing a fence  *)
(* refuses is on its way; once the awaited one to open is, no admission is.*)
Forgets(known, known2, f) == \A q \in known : q \in known2 \/ IsReply(f, q)
Behind(known2, pend, pend2, own, shut, ops, held, in, f, rest) ==
  /\ Line(known2, pend2, own, shut, ops, held, in, rest)
  /\ f.kind = "response" /\ f.of.method = "close" => Line(known2, pend2, own, TRUE, ops, held, in, rest)
  /\ IsOpened(f) /\ f.of \in pend => Line(known2, pend2, None, FALSE, ops, held, in, rest)
  /\ Admits(f) => f.of.of = own

LEMMA LineRead ==
  ASSUME NEW known, NEW known2, NEW pend, NEW pend2, NEW own, NEW shut, NEW ops, NEW held,
         NEW in \in Seq(Requests), NEW out \in Seq(Frames), out # <<>>,
         NEW f, f = Head(out), NEW rest, rest = Tail(out),
         Forgets(known, known2, f), pend2 \subseteq pend,
         Line(known, pend, own, shut, ops, held, in, out)
  PROVE  Behind(known2, pend, pend2, own, shut, ops, held, in, f, rest)
<1>1. rest = Tail(out) /\ f = Head(out) /\ \A q \in known : q \in known2 \/ IsReply(f, q)
  BY DEF Forgets
<1>2. /\ Len(rest) = Len(out) - 1 /\ Len(out) \in Nat \ {0} /\ 1 \in 1..Len(out) /\ f = out[1]
      /\ \A k \in 1..Len(rest) : k + 1 \in 1..Len(out) /\ rest[k] = out[k + 1]
  BY <1>1, TailOf
<1>3. OnePlace(known2, ops, in, rest)
  <2>1. ASSUME NEW i \in 1..Len(in), IsTracked(in[i])
        PROVE  in[i] \in known2 /\ \A k \in 1..Len(rest) : ~IsReply(rest[k], in[i])
    <3>1. in[i] \in known /\ \A k \in 1..Len(out) : ~IsReply(out[k], in[i])
      BY <2>1 DEF Line, OnePlace
    <3> QED BY <1>1, <1>2, <3>1
  <2>2. ASSUME NEW q \in ops
        PROVE  q \in known2 /\ \A k \in 1..Len(rest) : ~IsReply(rest[k], q)
    <3>1. q \in known /\ \A k \in 1..Len(out) : ~IsReply(out[k], q)
      BY DEF Line, OnePlace
    <3> QED BY <1>1, <1>2, <3>1
  <2>3. ASSUME NEW k \in 1..Len(rest), rest[k].kind = "response", IsTracked(rest[k].of)
        PROVE  /\ rest[k].of \in known2
               /\ \A l \in 1..Len(rest) : IsReply(rest[l], rest[k].of) => k = l
    <3>1. k + 1 \in 1..Len(out) /\ rest[k] = out[k + 1]
      BY <1>2
    <3>2. /\ rest[k].of \in known
          /\ \A l \in 1..Len(out) : IsReply(out[l], rest[k].of) => k + 1 = l
      BY <2>3, <3>1 DEF Line, OnePlace
    <3>3. ~IsReply(f, rest[k].of)
      BY <1>2, <3>2
    <3>4. \A l \in 1..Len(rest) : IsReply(rest[l], rest[k].of) => k = l
      BY <1>2, <3>2
    <3> QED BY <1>1, <3>2, <3>3, <3>4
  <2>4. /\ \A i \in 1..Len(in) : IsTracked(in[i]) =>
             in[i] \notin ops /\ \A j \in 1..Len(in) : in[j] = in[i] => i = j
        /\ \A q \in ops : IsTracked(q)
    BY DEF Line, OnePlace
  <2> QED BY <2>1, <2>2, <2>3, <2>4 DEF OnePlace
<1>4. OfOneFence(own, held, in, rest)
  BY <1>2 DEF Line, OfOneFence
<1>5. LastWord(pend2, held, in, rest)
  <2> SUFFICES ASSUME NEW q \in pend2, IsAdmission(q)
               PROVE  /\ \A i, j \in 1..Len(in) : in[i] = q /\ IsAdmission(in[j]) => j =< i
                      /\ \A k \in 1..Len(rest) : IsReply(rest[k], q) =>
                           /\ \A j \in 1..Len(in) : ~IsAdmission(in[j])
                           /\ \A l \in 1..Len(rest) : Admits(rest[l]) => l =< k
                           /\ IsOpened(rest[k]) => held = None
    BY DEF LastWord
  <2>1. /\ \A i, j \in 1..Len(in) : in[i] = q /\ IsAdmission(in[j]) => j =< i
        /\ \A k \in 1..Len(out) : IsReply(out[k], q) =>
             /\ \A j \in 1..Len(in) : ~IsAdmission(in[j])
             /\ \A l \in 1..Len(out) : Admits(out[l]) => l =< k
             /\ IsOpened(out[k]) => held = None
    BY DEF Line, LastWord
  <2>2. ASSUME NEW k \in 1..Len(rest), IsReply(rest[k], q)
        PROVE  /\ \A j \in 1..Len(in) : ~IsAdmission(in[j])
               /\ \A l \in 1..Len(rest) : Admits(rest[l]) => l =< k
               /\ IsOpened(rest[k]) => held = None
    <3>1. k + 1 \in 1..Len(out) /\ rest[k] = out[k + 1] /\ IsReply(out[k + 1], q)
      BY <1>2, <2>2
    <3>2. ASSUME NEW l \in 1..Len(rest), Admits(rest[l]) PROVE l =< k
      <4>1. l + 1 \in 1..Len(out) /\ Admits(out[l + 1])
        BY <1>2, <3>2
      <4>2. l + 1 =< k + 1
        BY <2>1, <3>1, <4>1
      <4> QED BY <4>2
    <3> QED BY <2>1, <3>1, <3>2
  <2> QED BY <2>1, <2>2
<1>6. Shielded(shut, in, rest)
  BY <1>2 DEF Line, Shielded
<1>7. f.kind = "response" /\ f.of.method = "close" => Shielded(TRUE, in, rest)
  BY <1>2, <1>6 DEF Line, Shielded
<1>8. Admits(f) => f.of.of = own
  BY <1>2 DEF Line, OfOneFence
<1>9. ASSUME IsOpened(f), f.of \in pend
      PROVE  OfOneFence(None, held, in, rest) /\ Shielded(FALSE, in, rest)
  <2>1. IsReply(f, f.of) /\ IsAdmission(f.of)
    BY <1>9 DEF IsOpened, IsReply, IsAdmission
  <2>2. /\ \A j \in 1..Len(in) : ~IsAdmission(in[j])
        /\ \A l \in 1..Len(out) : Admits(out[l]) => l =< 1
        /\ held = None
    BY <1>2, <1>9, <2>1 DEF Line, LastWord
  <2>3. ASSUME NEW k \in 1..Len(rest), Admits(rest[k]) PROVE FALSE
    <3>1. k + 1 \in 1..Len(out) /\ Admits(out[k + 1])
      BY <1>2, <2>3
    <3>2. k + 1 =< 1
      BY <2>2, <3>1
    <3> QED BY <3>2
  <2>4. Shielded(FALSE, in, rest)
    BY <1>6 DEF Shielded
  <2> QED BY <2>2, <2>3, <2>4 DEF OfOneFence
<1> QED BY <1>1, <1>3, <1>4, <1>5, <1>6, <1>7, <1>8, <1>9 DEF Line, Behind
-----------------------------------------------------------------------------
(* What a worker does with its line.                                       *)
Resting(h) == h.ops = {} /\ \A r \in Runs : ~InHost(h.run[r])
SaysIdle(f) == f.kind = "response" /\ f.of.method = "activity" /\ f.result.idle

(* A request is read: it is kept, answered, or an admission.               *)
Takes(h, q, g, a) ==
  /\ a = None => g.fence = h.fence /\ (g.ops = h.ops \/ (q \in Operations /\ g.ops = h.ops \cup {q}))
  /\ a # None => /\ g.ops = h.ops /\ Response(q, a) \in Frames
                 /\ q.method = "activity" /\ a.idle => Resting(h)
                 /\ IF IsAdmission(q)
                    THEN /\ g.fence \in {h.fence, None, q.of}
                         /\ q.method = "open" /\ a = "ok" => g.fence = None
                    ELSE g.fence = h.fence

LEMMA RefusalTakes ==
  ASSUME NEW h \in HostRecord, NEW q \in Requests, NEW result \in {"cleanup", "failed"}
  PROVE  Takes(h, q, h, Refusal(q, result))
<1>1. PICK a : a = Refusal(q, result)
  OBVIOUS
<1>2. Handles(h, q, h, a)
  BY <1>1, RefusedIs
<1>3. q.method = "activity" => ~a.idle
  BY <1>1 DEF Refusal, Unobserved
<1>4. q.method = "open" => a # "ok"
  BY <1>1 DEF Refusal
<1> QED BY <1>1, <1>2, <1>3, <1>4 DEF Takes, Handles

LEMMA ServedTakes ==
  ASSUME NEW h \in HostRecord, NEW q \in Requests, q.method \notin ControlMethods
  PROVE  Takes(h, q, Served(h, q)[1], Served(h, q)[2])
<1>1. PICK g, a : g = Served(h, q)[1] /\ a = Served(h, q)[2]
  OBVIOUS
<1>2. Handles(h, q, g, a)
  BY <1>1, ServedIs
<1>3. ~IsAdmission(q) /\ q.method # "activity" /\ q.method \in
        {"initialize", "query", "follow", "start", "abort", "reply", "shutdown"}
  BY DEF ControlMethods, Requests, Plain, StartRequests, RunRequests, CallRequests, FenceRequests,
         OwnRequests, Readings, IsAdmission
<1>4. g.fence = h.fence /\ (g.ops = h.ops \/ (a = None /\ q \in Operations /\ g.ops = h.ops \cup {q}))
  <2>1. CASE q.method = "initialize"
    <3>1. Served(h, q) = <<[h EXCEPT !.initialized = "running", !.ops = @ \cup {q}], None>>
      BY <2>1 DEF Served
    <3>2. g = [h EXCEPT !.initialized = "running", !.ops = @ \cup {q}] /\ a = None
      BY <1>1, <3>1
    <3> QED BY <2>1, <3>2 DEF HostRecord, Operations, Requests, Plain, StartRequests, RunRequests,
          CallRequests, FenceRequests, OwnRequests, Readings
  <2>2. CASE q.method \in {"query", "follow"}
    <3>1. Served(h, q) = <<[h EXCEPT !.ops = @ \cup {q}], None>>
      BY <2>2 DEF Served
    <3>2. g = [h EXCEPT !.ops = @ \cup {q}] /\ a = None
      BY <1>1, <3>1
    <3> QED BY <2>2, <3>2 DEF HostRecord, Operations, Requests, Plain, StartRequests, RunRequests,
          CallRequests, FenceRequests, OwnRequests, Readings
  <2>3. CASE q.method = "shutdown"
    <3>1. Served(h, q) = <<[Closed(h) EXCEPT !.ops = @ \cup {q}], None>>
      BY <2>3 DEF Served
    <3>2. PICK c : c = Closed(h)
      OBVIOUS
    <3>3. c \in HostRecord /\ c.ops = h.ops
      BY <3>2, ClosedIs
    <3>4. c.fence = h.fence
      BY <3>2 DEF Closed, HostRecord
    <3>5. g = [c EXCEPT !.ops = @ \cup {q}] /\ a = None
      BY <1>1, <3>1, <3>2
    <3>6. g.ops = c.ops \cup {q} /\ g.fence = c.fence
      BY <3>3, <3>5 DEF HostRecord
    <3>7. q \in Operations
      BY <2>3 DEF Operations, Requests, Plain, StartRequests, RunRequests,
          CallRequests, FenceRequests, OwnRequests, Readings
    <3> QED BY <3>3, <3>4, <3>5, <3>6, <3>7
  <2>4. ASSUME q.method \in {"start", "abort", "reply"}
        PROVE  g.ops = h.ops /\ g.fence = h.fence
    <3>1. g = h \/ \E y : g = [h EXCEPT !.run[q.of] = y]
      <4>1. CASE q.method = "start"
        BY <1>1, <4>1 DEF Served
      <4>2. CASE q.method = "abort"
        BY <1>1, <4>2 DEF Served
      <4>3. CASE q.method = "reply"
        BY <1>1, <4>3 DEF Served
      <4> QED BY <2>4, <4>1, <4>2, <4>3
    <3> QED BY <3>1 DEF HostRecord
  <2> QED BY <1>3, <2>1, <2>2, <2>3, <2>4
<1>5. a # None => g.ops = h.ops /\ Response(q, a) \in Frames
  BY <1>2, <1>4 DEF Handles
<1> QED BY <1>1, <1>3, <1>4, <1>5 DEF Takes

LEMMA AdmissionTakes ==
  ASSUME NEW h \in HostRecord, NEW q \in FenceRequests
  PROVE  Takes(h, q, Admission(h, q)[1], Admission(h, q)[2])
<1>1. IsAdmission(q) /\ q.method # "activity"
  BY DEF FenceRequests, IsAdmission
<1>2. PICK g, a : g = Admission(h, q)[1] /\ a = Admission(h, q)[2]
  OBVIOUS
<1>3. Handles(h, q, g, a)
  BY <1>2, AdmissionIs
<1>4. CASE h.initialized # "yes" \/ h.fence \notin {None, q.of}
  <2>1. g = h /\ a = "failed"
    BY <1>2, <1>4 DEF Admission
  <2> QED BY <1>1, <1>2, <1>3, <2>1 DEF Takes, Handles
<1>5. CASE ~(h.initialized # "yes" \/ h.fence \notin {None, q.of})
  <2>1. PICK next : next = IF q.method = "close" THEN q.of ELSE None
    OBVIOUS
  <2>2. g = [h EXCEPT !.fence = next, !.rev = IF next = h.fence THEN @ ELSE 0] /\ a = "ok"
    BY <1>2, <1>5, <2>1 DEF Admission
  <2>3. g.ops = h.ops /\ g.fence = next
    BY <2>2 DEF HostRecord
  <2>4. "ok" # None
    BY HostAssumption
  <2> QED BY <1>1, <1>2, <1>3, <2>1, <2>2, <2>3, <2>4 DEF Takes, Handles
<1> QED BY <1>4, <1>5

LEMMA HandledTakes ==
  ASSUME NEW h \in HostRecord, NEW q \in Requests
  PROVE  Takes(h, q, Handled(h, q)[1], Handled(h, q)[2])
<1>1. CASE h.poisoned
  <2>1. Handled(h, q) = <<h, Refusal(q, "cleanup")>>
    BY <1>1 DEF Handled
  <2> QED BY <2>1, RefusalTakes
<1>2. CASE ~h.poisoned /\ h.closed
  <2>1. Handled(h, q) = <<h, Refusal(q, "failed")>>
    BY <1>2 DEF Handled
  <2> QED BY <2>1, RefusalTakes
<1>3. CASE ~h.poisoned /\ ~h.closed /\ q.method = "activity"
  <2>1. Handled(h, q) = <<h, Observed(h)>>
    BY <1>3 DEF Handled, FencedMethods, ControlMethods
  <2>2. Handles(h, q, h, Observed(h)) /\ ~IsAdmission(q) /\ q.method # "open"
    BY <1>3, ObservedIs DEF IsAdmission
  <2>3. Observed(h).idle => Resting(h)
    BY DEF Observed, Idle, Resting
  <2> QED BY <2>1, <2>2, <2>3 DEF Takes, Handles
<1>4. CASE ~h.poisoned /\ ~h.closed /\ q.method \in {"close", "open"}
  <2>1. Handled(h, q) = Admission(h, q)
    BY <1>4 DEF Handled, FencedMethods, ControlMethods
  <2>2. q \in FenceRequests
    BY <1>4 DEF Requests, Plain, StartRequests, RunRequests, CallRequests, OwnRequests, Readings
  <2> QED BY <2>1, <2>2, AdmissionTakes
<1>5. ASSUME q.method \notin ControlMethods, ~h.poisoned, ~h.closed
      PROVE  Takes(h, q, Handled(h, q)[1], Handled(h, q)[2])
  <2>1. q.method \notin {"activity", "close", "open"} /\ ~IsAdmission(q)
    BY <1>5 DEF ControlMethods, IsAdmission
  <2>2. Handled(h, q) = <<h, "failed">> \/ Handled(h, q) = Served(h, q)
    BY <1>5 DEF Handled, FencedMethods, ControlMethods
  <2>3. Takes(h, q, h, "failed")
    <3>1. Refusal(q, "failed") = "failed"
      BY <2>1 DEF Refusal
    <3> QED BY <3>1, RefusalTakes
  <2> QED BY <1>5, <2>2, <2>3, ServedTakes
<1> QED BY <1>1, <1>2, <1>3, <1>4, <1>5 DEF ControlMethods

(* A run moves: what is said is no answer to a tracked request.            *)
Mutters(w, r) ==
  \E fs \in Seq(Frames) :
    /\ Says(w, fs) /\ UNCHANGED toWorker /\ \A i \in 1..Len(fs) : IsAside(fs[i], r)
    /\ host'[w].ops = host[w].ops /\ host'[w].fence = host[w].fence

LEMMA MuttersIf ==
  ASSUME HostTypeInv, NEW w \in Workers, NEW r, NEW y, host' = [host EXCEPT ![w].run[r] = y],
         NEW fs \in Seq(Frames), Says(w, fs), UNCHANGED toWorker, \A i \in 1..Len(fs) : IsAside(fs[i], r)
  PROVE  Mutters(w, r)
<1>1. host[w] \in HostRecord
  BY HostTypes
<1>2. host'[w] = [host[w] EXCEPT !.run[r] = y]
  BY DEF HostTypeInv
<1>3. host'[w].ops = host[w].ops /\ host'[w].fence = host[w].fence
  BY <1>1, <1>2 DEF HostRecord
<1> QED BY <1>3 DEF Mutters

LEMMA AsideIs ==
  ASSUME NEW f \in Frames, NEW r, IsAside(f, r)
  PROVE  <<>> \in Seq(Frames) /\ <<f>> \in Seq(Frames)
         /\ (\A i \in 1..Len(<<>>) : IsAside(<<>>[i], r)) /\ \A i \in 1..Len(<<f>>) : IsAside(<<f>>[i], r)
OBVIOUS

LEMMA SilenceAside ==
  ASSUME NEW fs, fs = <<>>, NEW r
  PROVE  fs \in Seq(Frames) /\ \A i \in 1..Len(fs) : IsAside(fs[i], r)
OBVIOUS

LEMMA EventAside ==
  ASSUME NEW r \in Runs, NEW what \in {"ask", "cancelled", "completed", "failed"}, NEW n \in Nat
  PROVE  Event(r, what, n) \in Frames /\ IsAside(Event(r, what, n), r)
BY FrameIs DEF Event, IsAside

LEMMA EmitsAside ==
  ASSUME HostTypeInv, NEW w \in Workers, NEW r \in Runs,
         NEW whats \in {<<>>, <<"cancelled">>, <<"completed">>, <<"failed">>}
  PROVE  /\ Emits(host[w], r, whats) \in Seq(Frames)
         /\ \A i \in 1..Len(Emits(host[w], r, whats)) : IsAside(Emits(host[w], r, whats)[i], r)
<1>1. PICK n \in Nat : n = host[w].run[r].asks
  BY HostTypes
<1>2. PICK fs : fs = Emits(host[w], r, whats)
  OBVIOUS
<1>3. \/ fs = <<>>
      \/ \E what \in {"cancelled", "completed", "failed"} : fs = <<Event(r, what, n)>>
  BY <1>1, <1>2 DEF Emits
<1>4. ASSUME NEW what \in {"cancelled", "completed", "failed"}, fs = <<Event(r, what, n)>>
      PROVE  fs \in Seq(Frames) /\ \A i \in 1..Len(fs) : IsAside(fs[i], r)
  <2>1. PICK f : f = Event(r, what, n)
    OBVIOUS
  <2>2. f \in Frames /\ IsAside(f, r)
    BY <2>1, EventAside
  <2>3. PICK one : one = <<f>>
    OBVIOUS
  <2>4. one \in Seq(Frames) /\ \A i \in 1..Len(one) : IsAside(one[i], r)
    BY <2>2, <2>3, AsideIs
  <2>5. fs = one
    BY <1>4, <2>1, <2>3
  <2> QED BY <2>4, <2>5
<1>5. CASE fs = <<>>
  BY <1>2, <1>5, SilenceAside
<1> QED BY <1>2, <1>3, <1>4, <1>5

LEMMA MovesAside ==
  ASSUME HostTypeInv, NEW w \in Workers, NEW r \in Runs, NEW y,
         NEW whats \in {<<>>, <<"cancelled">>, <<"completed">>, <<"failed">>}, RunMoves(w, r, y, whats)
  PROVE  Mutters(w, r)
BY EmitsAside, MuttersIf DEF RunMoves

LEMMA StartAside ==
  ASSUME NEW r \in Runs, NEW h, NEW result \in Results
  PROVE  /\ Answers(h, Request("start", r, 0), result) \in Frames
         /\ IsAside(Answers(h, Request("start", r, 0), result), r)
<1>1. Request("start", r, 0) \in Plain /\ ~IsTracked(Request("start", r, 0)) /\ Request("start", r, 0).of = r
  BY FrameIs DEF Plain, IsTracked, Request, Asked
<1>2. PICK said \in Results : /\ Answers(h, Request("start", r, 0), result) \in Frames
                              /\ Answers(h, Request("start", r, 0), result) =
                                   [kind |-> "response", of |-> Request("start", r, 0), result |-> said]
  BY <1>1, AnswersIs
<1> QED BY <1>1, <1>2 DEF IsAside

(* Everyone who asked for a stop is answered, in any order.                *)
LEMMA OrderAside ==
  ASSUME HostTypeInv, Places, NEW w \in Workers, NEW r \in Runs, NEW result \in Results, NEW answer,
         answer = {Answers(host[w], q, result) : q \in host[w].run[r].asked},
         NEW order \in [1..Cardinality(answer) -> answer]
  PROVE  order \in Seq(Frames) /\ \A i \in 1..Len(order) : IsAside(order[i], r)
<1>1. host[w].run[r] \in HostRunRecord /\ Record(host[w].run[r], r)
  BY HostTypes DEF Places, Place
<1>2. Asking(host[w].run[r].asked, r)
  BY <1>1 DEF Record, Asking, HostRunRecord
<1>3. AnswersFrom(answer, host[w], host[w].run[r].asked, result)
  BY DEF AnswersFrom
<1>4. IsFiniteSet(answer) /\ \A f \in answer : f \in Frames /\ Tells(f, r)
  BY <1>2, <1>3, AnswersTold
<1>5. order \in Seq(answer) /\ \A i \in 1..Len(order) : order[i] \in answer
  BY <1>4, OrderedOf
<1>6. \A f \in answer : IsAside(f, r)
  BY <1>4 DEF Tells, Response, IsAside, IsTracked
<1> QED BY <1>4, <1>5, <1>6

LEMMA JoinAside ==
  ASSUME NEW s \in Seq(Frames), NEW t \in Seq(Frames), NEW r,
         \A i \in 1..Len(s) : IsAside(s[i], r), \A i \in 1..Len(t) : IsAside(t[i], r)
  PROVE  s \o t \in Seq(Frames) /\ \A k \in 1..Len(s \o t) : IsAside((s \o t)[k], r)
<1> SUFFICES ASSUME NEW k \in 1..Len(s \o t) PROVE IsAside((s \o t)[k], r)
  BY JoinOf
<1>1. \/ k \in 1..Len(s) /\ (s \o t)[k] = s[k]
      \/ \E i \in 1..Len(t) : (s \o t)[k] = t[i]
  BY JoinOf
<1> QED BY <1>1

LEMMA AbortMutters ==
  ASSUME HostTypeInv, Places, NEW w \in Workers, NEW r \in Runs, NEW ok \in BOOLEAN
  PROVE  AbortSettles(w, r, ok) \/ AbortDeadline(w, r) => Mutters(w, r)
<1> DEFINE x == host[w].run[r]
<1>1. ASSUME AbortSettles(w, r, ok) PROVE Mutters(w, r)
  <2>1. PICK result \in Results :
          result = IF x.late THEN "failed" ELSE IF ok THEN "aborted" ELSE "refused"
    BY DEF Results
  <2>2. PICK answer : answer = {Answers(host[w], q, result) : q \in x.asked}
    OBVIOUS
  <2>3. PICK ev : ev = Emits(host[w], r, IF x.ask /\ ok THEN <<"cancelled">> ELSE <<>>)
    OBVIOUS
  <2>4. PICK order \in [1..Cardinality(answer) -> answer] : Says(w, ev \o order)
    BY <1>1, <2>1, <2>2, <2>3 DEF AbortSettles
  <2>5. PICK y : host' = [host EXCEPT ![w].run[r] = y]
    BY <1>1 DEF AbortSettles
  <2>6. UNCHANGED toWorker
    BY <1>1 DEF AbortSettles
  <2>7. ev \in Seq(Frames) /\ \A i \in 1..Len(ev) : IsAside(ev[i], r)
    BY <2>3, EmitsAside
  <2>8. order \in Seq(Frames) /\ \A i \in 1..Len(order) : IsAside(order[i], r)
    BY <2>2, OrderAside
  <2>9. ev \o order \in Seq(Frames) /\ \A k \in 1..Len(ev \o order) : IsAside((ev \o order)[k], r)
    BY <2>7, <2>8, JoinAside
  <2> QED BY <2>4, <2>5, <2>6, <2>9, MuttersIf
<1>2. ASSUME AbortDeadline(w, r) PROVE Mutters(w, r)
  <2>1. PICK result \in Results : result = "failed"
    BY DEF Results
  <2>2. PICK answer : answer = {Answers(host[w], q, result) : q \in x.asked}
    OBVIOUS
  <2>3. PICK order \in [1..Cardinality(answer) -> answer] : Says(w, order)
    BY <1>2, <2>1, <2>2 DEF AbortDeadline
  <2>4. PICK y : host' = [host EXCEPT ![w].run[r] = y]
    BY <1>2 DEF AbortDeadline
  <2>5. UNCHANGED toWorker
    BY <1>2 DEF AbortDeadline
  <2>6. order \in Seq(Frames) /\ \A i \in 1..Len(order) : IsAside(order[i], r)
    BY <2>2, OrderAside
  <2> QED BY <2>3, <2>4, <2>5, <2>6, MuttersIf
<1> QED BY <1>1, <1>2

LEMMA DisposalMutters ==
  ASSUME HostTypeInv, NEW w \in Workers, NEW r \in Runs, DisposalFails(w, r)
  PROVE  Mutters(w, r)
<1>1. PICK h : h = [host[w] EXCEPT !.run[r].sdk = "gone"]
  OBVIOUS
<1>2. host[w] \in HostRecord
  BY HostTypes
<1>3. h.ops = host[w].ops /\ h.fence = host[w].fence /\ DOMAIN h = DOMAIN host[w]
  BY <1>1, <1>2 DEF HostRecord
<1>4. Poisoned(h).ops = h.ops /\ Poisoned(h).fence = h.fence
  BY <1>1, <1>2 DEF Poisoned, Closed, HostRecord
<1>5. host'[w] = Poisoned(h)
  BY <1>1 DEF DisposalFails, HostTypeInv
<1>6. PICK f : f = Response(Request("start", r, 0), "cleanup")
  OBVIOUS
<1>7. f \in Frames /\ IsAside(f, r)
  <2>1. /\ Request("start", r, 0) \in Plain /\ Request("start", r, 0).of = r
        /\ "cleanup" \in Results /\ ~IsTracked(Request("start", r, 0))
    BY FrameIs DEF Plain, Results, IsTracked, Request, Asked
  <2> QED BY <1>6, <2>1, FrameIs DEF IsAside, Response
<1>8. <<f>> \in Seq(Frames) /\ \A i \in 1..Len(<<f>>) : IsAside(<<f>>[i], r)
  BY <1>7, AsideIs
<1>9. Says(w, <<f>>) /\ UNCHANGED toWorker
  BY <1>6 DEF DisposalFails
<1> QED BY <1>3, <1>4, <1>5, <1>8, <1>9 DEF Mutters

LEMMA RunMutters ==
  ASSUME HostTypeInv, Places, NEW w \in Workers, NEW r \in Runs, HostRunStep(w, r)
  PROVE  Mutters(w, r)
<1> DEFINE x == host[w].run[r]
<1>1. SessionStarts(w, r) \/ StartFails(w, r) \/ AskCancelled(w, r) \/ TurnEnds(w, r) => Mutters(w, r)
  BY MovesAside DEF SessionStarts, StartFails, AskCancelled, TurnEnds
<1>2. ASSUME NEW how \in {"completed", "failed"}, Disposed(w, r, how) PROVE Mutters(w, r)
  <2>1. (IF x.abort = "aborted" THEN <<>> ELSE <<how>>) \in {<<>>, <<"cancelled">>, <<"completed">>, <<"failed">>}
    OBVIOUS
  <2> QED BY <1>2, <2>1, MovesAside DEF Disposed
<1>3. ASSUME AskPresented(w, r) PROVE Mutters(w, r)
  <2>1. x.asks \in Nat
    BY HostTypes
  <2>2. PICK y : host' = [host EXCEPT ![w].run[r] = y]
    BY <1>3 DEF AskPresented
  <2>3. Event(r, "ask", x.asks + 1) \in Frames /\ IsAside(Event(r, "ask", x.asks + 1), r)
    BY <2>1, EventAside
  <2>4. PICK fs \in Seq(Frames) : Says(w, fs) /\ \A i \in 1..Len(fs) : IsAside(fs[i], r)
    BY <1>3, <2>3, AsideIs DEF AskPresented
  <2>5. UNCHANGED toWorker
    BY <1>3 DEF AskPresented
  <2> QED BY <2>2, <2>4, <2>5, MuttersIf
<1>4. ASSUME SettleStart(w, r) PROVE Mutters(w, r)
  <2>1. PICK result \in Results : Says(w, <<Answers(host[w], Request("start", r, 0), result)>>)
    BY <1>4 DEF SettleStart, Results
  <2>2. PICK f \in Frames : Says(w, <<f>>) /\ IsAside(f, r)
    BY <2>1, StartAside
  <2>3. <<f>> \in Seq(Frames) /\ \A i \in 1..Len(<<f>>) : IsAside(<<f>>[i], r)
    BY <2>2, AsideIs
  <2>4. PICK y : host' = [host EXCEPT ![w].run[r] = y]
    BY <1>4 DEF SettleStart
  <2>5. UNCHANGED toWorker
    BY <1>4 DEF SettleStart
  <2> QED BY <2>2, <2>3, <2>4, <2>5, MuttersIf
<1> QED BY <1>1, <1>2, <1>3, <1>4, AbortMutters, DisposalMutters DEF HostRunStep

(* An operation of the runtime ended.                                      *)
Finishes(w) ==
  \E q \in host[w].ops, result \in Results :
    /\ q \in Operations /\ Response(q, result) \in Frames
    /\ Says(w, <<Response(q, result)>>) /\ UNCHANGED toWorker
    /\ host'[w].ops = host[w].ops \ {q} /\ host'[w].fence = host[w].fence

LEMMA OperationFinishes ==
  ASSUME HostTypeInv, NEW w \in Workers, Initialized(w) \/ OperationEnds(w)
  PROVE  Finishes(w)
<1>1. host[w] \in HostRecord /\ host[w].ops \in SUBSET Operations
  BY HostTypes DEF HostRecord
<1>2. ASSUME Initialized(w) PROVE Finishes(w)
  <2>1. PICK q \in host[w].ops, ok \in BOOLEAN :
          /\ host' = [host EXCEPT ![w].initialized = IF ok THEN "yes" ELSE "no", ![w].ops = @ \ {q}]
          /\ Says(w, <<Response(q, IF ok THEN "ok" ELSE "failed")>>) /\ UNCHANGED toWorker
    BY <1>2 DEF Initialized
  <2>2. host'[w] = [host[w] EXCEPT !.initialized = IF ok THEN "yes" ELSE "no", !.ops = @ \ {q}]
    BY <2>1 DEF HostTypeInv
  <2>3. host'[w].ops = host[w].ops \ {q} /\ host'[w].fence = host[w].fence
    BY <1>1, <2>2 DEF HostRecord
  <2>4. PICK result \in Results : result = IF ok THEN "ok" ELSE "failed"
    BY DEF Results
  <2>5. q \in Operations /\ Response(q, result) \in Frames
    BY <1>1, OperationIs
  <2> QED BY <2>1, <2>3, <2>4, <2>5 DEF Finishes
<1>3. ASSUME OperationEnds(w) PROVE Finishes(w)
  <2>1. PICK q \in host[w].ops, how \in {"ok", "failed", "cleanup"} :
          /\ UNCHANGED toWorker
          /\ LET h == [host[w] EXCEPT !.ops = @ \ {q}]
                 next == IF how = "cleanup" THEN Poisoned(h) ELSE h
             IN /\ host' = [host EXCEPT ![w] = next]
                /\ Says(w, <<Answers(next, q, how)>>)
    BY <1>3 DEF OperationEnds
  <2>2. PICK h : h = [host[w] EXCEPT !.ops = @ \ {q}]
    OBVIOUS
  <2>3. h.ops = host[w].ops \ {q} /\ h.fence = host[w].fence /\ h \in HostRecord
    BY <1>1, <2>2 DEF HostRecord
  <2>4. Poisoned(h).ops = h.ops /\ Poisoned(h).fence = h.fence
    BY <2>3 DEF Poisoned, Closed, HostRecord
  <2>5. PICK g : g = IF how = "cleanup" THEN Poisoned(h) ELSE h
    OBVIOUS
  <2>6. host' = [host EXCEPT ![w] = g] /\ Says(w, <<Answers(g, q, how)>>)
    BY <2>1, <2>2, <2>5
  <2>7. host'[w] = g
    BY <2>6 DEF HostTypeInv
  <2>8. q \in Operations /\ q \in Plain /\ how \in Results
    BY <1>1 DEF Operations, Plain, Results
  <2>9. PICK said \in Results : Answers(g, q, how) = Response(q, said) /\ Response(q, said) \in Frames
    BY <2>8, AnswersIs
  <2>10. Says(w, <<Response(q, said)>>)
    BY <2>6, <2>9
  <2>11. host'[w].ops = host[w].ops \ {q} /\ host'[w].fence = host[w].fence
    BY <2>3, <2>4, <2>5, <2>7
  <2> QED BY <2>1, <2>8, <2>9, <2>10, <2>11 DEF Finishes
<1> QED BY <1>2, <1>3

LEMMA SaysIs ==
  ASSUME HostTypeInv, NEW w \in Workers, host[w].heard, NEW fs, Says(w, fs)
  PROVE  toApp'[w] = toApp[w] \o fs
BY DEF Says, HostTypeInv

LEMMA AppendIs ==
  ASSUME NEW s \in Seq(Frames), NEW f \in Frames
  PROVE  s \o <<f>> = Append(s, f)
OBVIOUS

LEMMA ResponseIs ==
  ASSUME NEW q, NEW a
  PROVE  Response(q, a).kind = "response" /\ Response(q, a).of = q /\ Response(q, a).result = a
BY DEF Response

(* Whatever the worker does, its line stays in order, it goes on resting   *)
(* unless it is given work, and it says so only when it does.              *)
LineOf(w, known, pend, own, shut) ==
  Line(known, pend, own, shut, host[w].ops, host[w].fence, toWorker[w], toApp[w])
Rests(w) ==
  Resting(host[w]) /\ \A i \in 1..Len(toWorker[w]) :
    toWorker[w][i] \notin Operations /\ toWorker[w][i].method # "start"
SaysSo(w) == \E k \in 1..Len(toApp[w]) : SaysIdle(toApp[w][k])
HostKeeps(w, known, pend, own, shut) ==
  /\ LineOf(w, known, pend, own, shut)'
  /\ Rests(w) => Resting(host'[w])
  /\ SaysSo(w)' => SaysSo(w) \/ Resting(host[w])

LEMMA FrameSaid ==
  ASSUME HostTypeInv, NEW w \in Workers, NEW fs \in Seq(Frames), toApp'[w] = toApp[w] \o fs,
         \A i \in 1..Len(fs) : SaysIdle(fs[i]) => Resting(host[w])
  PROVE  SaysSo(w)' => SaysSo(w) \/ Resting(host[w])
<1>1. PICK out, more : out = toApp[w] /\ more = toApp'[w] /\ out \in Seq(Frames)
  BY HostTypes
<1>2. ASSUME NEW k \in 1..Len(more), SaysIdle(more[k])
      PROVE  (\E i \in 1..Len(out) : SaysIdle(out[i])) \/ Resting(host[w])
  <2>1. (k \in 1..Len(out) /\ more[k] = out[k]) \/ \E i \in 1..Len(fs) : more[k] = fs[i]
    BY <1>1, JoinOf
  <2> QED BY <1>2, <2>1
<1> QED BY <1>1, <1>2 DEF SaysSo

LEMMA HandleKeeps ==
  ASSUME HostTypeInv, NEW w \in Workers, Handle(w), host[w].heard,
         NEW known, NEW pend, NEW own, NEW shut, LineOf(w, known, pend, own, shut)
  PROVE  /\ LineOf(w, known, pend, own, shut)'
         /\ Rests(w) => host'[w].ops = {}
         /\ SaysSo(w)' => SaysSo(w) \/ Resting(host[w])
<1>1. /\ toWorker[w] # <<>> /\ toWorker'[w] = Tail(toWorker[w])
      /\ host[w] \in HostRecord /\ toWorker[w] \in Seq(Requests) /\ toApp[w] \in Seq(Frames)
  BY HostTypes DEF Handle, HostTypeInv
<1>2. PICK in, out, h : in = toWorker[w] /\ out = toApp[w] /\ h = host[w]
  OBVIOUS
<1>3. PICK q : q = Head(in)
  OBVIOUS
<1>4. /\ in \in Seq(Requests) /\ in # <<>> /\ out \in Seq(Frames) /\ h \in HostRecord
      /\ q = Head(in) /\ q \in Requests /\ Tail(in) \in Seq(Requests) /\ q = in[1] /\ 1 \in 1..Len(in)
  BY <1>1, <1>2, <1>3, TailOf
<1>5. PICK g, a : g = Handled(h, q)[1] /\ a = Handled(h, q)[2]
  OBVIOUS
<1>6. Takes(h, q, g, a)
  BY <1>4, <1>5, HandledTakes
<1>7. PICK fs : fs = IF a = None THEN <<>> ELSE <<Response(q, a)>>
  OBVIOUS
<1>8. host'[w] = g /\ toApp'[w] = out \o fs
  <2>1. host' = [host EXCEPT ![w] = g] /\ Says(w, fs)
    BY <1>2, <1>3, <1>5, <1>7 DEF Handle
  <2> QED BY <1>2, <2>1, SaysIs DEF HostTypeInv
<1>9. Line(known, pend, own, shut, h.ops, h.fence, in, out)
  BY <1>2 DEF LineOf
<1>10. /\ Line(known, pend, own, shut, h.ops, h.fence, Tail(in), out)
       /\ IsTracked(q) =>
            /\ q \in known /\ q \notin h.ops
            /\ \A i \in 1..Len(Tail(in)) : Tail(in)[i] # q
            /\ \A k \in 1..Len(out) : ~IsReply(out[k], q)
            /\ Line(known, pend, own, shut, h.ops \cup {q}, h.fence, Tail(in), out)
  <2>1. /\ Line(known, pend, own, shut, h.ops, h.fence, Tail(in), out)
        /\ IsTracked(Head(in)) =>
             /\ Head(in) \in known /\ Head(in) \notin h.ops
             /\ \A i \in 1..Len(Tail(in)) : Tail(in)[i] # Head(in)
             /\ \A k \in 1..Len(out) : ~IsReply(out[k], Head(in))
             /\ Line(known, pend, own, shut, h.ops \cup {Head(in)}, h.fence, Tail(in), out)
    BY <1>4, <1>9, LineTaken
  <2> QED BY <1>4, <2>1
<1>11. CASE a = None
  <2>1. g.fence = h.fence /\ (g.ops = h.ops \/ (q \in Operations /\ g.ops = h.ops \cup {q}))
    BY <1>6, <1>11 DEF Takes
  <2>2. toApp'[w] = out
    BY <1>4, <1>7, <1>8, <1>11
  <2>3. q \in Operations => IsTracked(q)
    BY DEF Operations, CallRequests, OwnRequests, IsTracked
  <2>4. Line(known, pend, own, shut, g.ops, g.fence, Tail(in), out)
    BY <1>10, <2>1, <2>3
  <2>5. LineOf(w, known, pend, own, shut)'
    BY <1>1, <1>2, <1>8, <2>2, <2>4 DEF LineOf
  <2>6. Rests(w) => g.ops = {}
    BY <1>2, <1>4, <2>1 DEF Rests, Resting
  <2>7. SaysSo(w)' => SaysSo(w)
    BY <1>2, <2>2 DEF SaysSo
  <2> QED BY <1>8, <2>5, <2>6, <2>7
<1>12. CASE a # None
  <2>1. PICK f : f = Response(q, a)
    OBVIOUS
  <2>2. /\ f \in Frames /\ f.kind = "response" /\ f.of = q /\ f.result = a /\ g.ops = h.ops
        /\ q.method = "activity" /\ a.idle => Resting(h)
    BY <1>6, <1>12, <2>1, ResponseIs DEF Takes
  <2>3. fs = <<f>> /\ toApp'[w] = Append(out, f)
    BY <1>4, <1>7, <1>8, <1>12, <2>1, <2>2, AppendIs
  <2>4. Line(known, pend, own, shut, g.ops, g.fence, Tail(in), Append(out, f))
    <3>1. CASE IsAdmission(q)
      <4>1. g.fence \in {h.fence, None, f.of.of} /\ (IsOpened(f) => g.fence = None)
        BY <1>6, <1>12, <2>2, <3>1 DEF Takes, IsOpened
      <4>2. f.of = Head(in) /\ IsAdmission(f.of)
        BY <1>4, <2>2, <3>1
      <4>3. Line(known, pend, own, shut, h.ops, g.fence, Tail(in), Append(out, f))
        BY <1>4, <1>9, <2>2, <4>1, <4>2, LineAdmission
      <4> QED BY <2>2, <4>3
    <3>2. CASE ~IsAdmission(q)
      <4>1. g.fence = h.fence
        BY <1>6, <1>12, <3>2 DEF Takes
      <4>2. IsTracked(f.of) =>
              /\ f.of \in known /\ f.of \notin h.ops
              /\ \A i \in 1..Len(Tail(in)) : Tail(in)[i] # f.of
              /\ \A k \in 1..Len(out) : ~IsReply(out[k], f.of)
        BY <1>10, <2>2
      <4>3. ~IsAdmission(f.of)
        BY <2>2, <3>2
      <4>4. Line(known, pend, own, shut, h.ops, h.fence, Tail(in), Append(out, f))
        BY <1>4, <1>10, <2>2, <4>2, <4>3, LineAnswered
      <4> QED BY <2>2, <4>1, <4>4
    <3> QED BY <3>1, <3>2
  <2>5. LineOf(w, known, pend, own, shut)'
    BY <1>1, <1>2, <1>8, <2>3, <2>4 DEF LineOf
  <2>6. Rests(w) => g.ops = {}
    BY <1>2, <2>2 DEF Rests, Resting
  <2>7. SaysSo(w)' => SaysSo(w) \/ Resting(host[w])
    <3>1. SaysIdle(f) => Resting(host[w])
      BY <1>2, <2>2 DEF SaysIdle
    <3>2. PICK one : one = <<f>>
      OBVIOUS
    <3>3. one \in Seq(Frames) /\ \A i \in 1..Len(one) : one[i] = f
      BY <2>2, <3>2, OneFrame
    <3>4. toApp'[w] = toApp[w] \o one
      BY <1>2, <1>8, <2>3, <3>2
    <3> QED BY <3>1, <3>3, <3>4, FrameSaid
  <2> QED BY <1>8, <2>5, <2>6, <2>7
<1> QED BY <1>11, <1>12

LEMMA MuttersKeeps ==
  ASSUME HostTypeInv, NEW w \in Workers, NEW r, Mutters(w, r), host[w].heard,
         NEW known, NEW pend, NEW own, NEW shut, LineOf(w, known, pend, own, shut)
  PROVE  /\ LineOf(w, known, pend, own, shut)'
         /\ Rests(w) => host'[w].ops = {}
         /\ SaysSo(w)' => SaysSo(w) \/ Resting(host[w])
<1>1. toWorker[w] \in Seq(Requests) /\ toApp[w] \in Seq(Frames)
  BY HostTypes
<1>2. PICK fs \in Seq(Frames) :
        /\ Says(w, fs) /\ UNCHANGED toWorker /\ \A i \in 1..Len(fs) : IsAside(fs[i], r)
        /\ host'[w].ops = host[w].ops /\ host'[w].fence = host[w].fence
  BY DEF Mutters
<1>3. toApp'[w] = toApp[w] \o fs
  BY <1>2, SaysIs
<1>4. Line(known, pend, own, shut, host[w].ops, host[w].fence, toWorker[w], toApp[w] \o fs)
  BY <1>1, <1>2, LineSays DEF LineOf
<1>5. LineOf(w, known, pend, own, shut)'
  BY <1>2, <1>3, <1>4 DEF LineOf
<1>6. \A i \in 1..Len(fs) : ~SaysIdle(fs[i])
  BY <1>2 DEF IsAside, SaysIdle, IsTracked
<1>7. SaysSo(w)' => SaysSo(w) \/ Resting(host[w])
  BY <1>2, <1>3, <1>6, FrameSaid
<1> QED BY <1>2, <1>5, <1>7 DEF Rests, Resting

LEMMA FinishesKeeps ==
  ASSUME HostTypeInv, NEW w \in Workers, Finishes(w), host[w].heard,
         NEW known, NEW pend, NEW own, NEW shut, LineOf(w, known, pend, own, shut)
  PROVE  /\ LineOf(w, known, pend, own, shut)'
         /\ Rests(w) => host'[w].ops = {}
         /\ SaysSo(w)' => SaysSo(w) \/ Resting(host[w])
<1>1. toWorker[w] \in Seq(Requests) /\ toApp[w] \in Seq(Frames)
  BY HostTypes
<1>2. PICK q \in host[w].ops, result \in Results :
        /\ q \in Operations /\ Response(q, result) \in Frames
        /\ Says(w, <<Response(q, result)>>) /\ UNCHANGED toWorker
        /\ host'[w].ops = host[w].ops \ {q} /\ host'[w].fence = host[w].fence
  BY DEF Finishes
<1>3. PICK f : f = Response(q, result)
  OBVIOUS
<1>4. f \in Frames /\ f.kind = "response" /\ f.of = q
  BY <1>2, <1>3, ResponseIs
<1>5. ~IsAdmission(q) /\ q.method # "activity"
  BY <1>2 DEF Operations, CallRequests, OwnRequests, IsAdmission
<1>6. PICK one : one = <<f>>
  OBVIOUS
<1>7. one \in Seq(Frames) /\ \A i \in 1..Len(one) : one[i] = f
  BY <1>4, <1>6, OneFrame
<1>8. toApp'[w] = toApp[w] \o one /\ toApp'[w] = Append(toApp[w], f)
  BY <1>1, <1>2, <1>3, <1>4, <1>6, SaysIs, AppendIs
<1>9. PICK ops : ops = host[w].ops \ {q}
  OBVIOUS
<1>10. Line(known, pend, own, shut, ops, host[w].fence, toWorker[w], toApp[w])
  BY <1>9, LineDropped DEF LineOf
<1>11. /\ q \in known /\ q \notin ops /\ \A k \in 1..Len(toApp[w]) : ~IsReply(toApp[w][k], q)
       /\ IsTracked(q) => \A i \in 1..Len(toWorker[w]) : toWorker[w][i] # q
  BY <1>9 DEF LineOf, Line, OnePlace
<1>12. Line(known, pend, own, shut, ops, host[w].fence, toWorker[w], Append(toApp[w], f))
  BY <1>1, <1>4, <1>5, <1>10, <1>11, LineAnswered
<1>13. LineOf(w, known, pend, own, shut)'
  BY <1>2, <1>8, <1>9, <1>12 DEF LineOf
<1>14. SaysSo(w)' => SaysSo(w) \/ Resting(host[w])
  <2>1. \A i \in 1..Len(one) : ~SaysIdle(one[i])
    BY <1>4, <1>5, <1>7 DEF SaysIdle
  <2> QED BY <1>7, <1>8, <2>1, FrameSaid
<1> QED BY <1>2, <1>13, <1>14 DEF Rests, Resting

LEMMA HostStepKeeps ==
  ASSUME HostTypeInv, Places, NEW w \in Workers, HostStep(w), host[w].heard,
         NEW known, NEW pend, NEW own, NEW shut, LineOf(w, known, pend, own, shut)
  PROVE  HostKeeps(w, known, pend, own, shut)
<1>1. toWorker[w] \in Seq(Requests) /\ toApp[w] \in Seq(Frames) /\ host[w] \in HostRecord
  BY HostTypes
<1>2. HostGoesOn(w)
  BY HostStepIs
<1>3. ASSUME Rests(w), NEW r \in Runs PROVE ~InHost(host'[w].run[r])
  <2>1. Advances(host[w].run[r], toWorker[w], toApp[w], host'[w].run[r], toWorker'[w], toApp'[w], r)
    BY <1>2 DEF HostGoesOn
  <2>2. ~Starts(toWorker[w], r) /\ ~InHost(host[w].run[r])
    BY <1>3 DEF Rests, Resting, Starts, IsStart
  <2> QED BY <2>1, <2>2 DEF Advances, Idles, Places
<1>4. /\ LineOf(w, known, pend, own, shut)'
      /\ Rests(w) => host'[w].ops = {}
      /\ SaysSo(w)' => SaysSo(w) \/ Resting(host[w])
  <2>1. CASE Handle(w)
    BY <2>1, HandleKeeps
  <2>2. CASE Initialized(w) \/ OperationEnds(w)
    BY <2>2, OperationFinishes, FinishesKeeps
  <2>3. CASE \E r \in Runs : HostRunStep(w, r)
    BY <2>3, RunMutters, MuttersKeeps
  <2>4. CASE SdkMoves(w)
    <3>1. host'[w] = [host[w] EXCEPT !.rev = @ + 1] /\ UNCHANGED <<toWorker, toApp>>
      BY <2>4 DEF SdkMoves, HostTypeInv
    <3>2. host'[w].ops = host[w].ops /\ host'[w].fence = host[w].fence
      BY <1>1, <3>1 DEF HostRecord
    <3> QED BY <3>1, <3>2 DEF LineOf, Rests, Resting, SaysSo
  <2>5. CASE Dies(w)
    <3>1. UNCHANGED toApp /\ toWorker'[w] = <<>>
      BY <2>5 DEF Dies, HostTypeInv
    <3>2. PICK heard, runs : host'[w] = [UnbornHost EXCEPT !.heard = heard, !.initialized = "died", !.run = runs]
      BY <2>5 DEF Dies, HostTypeInv
    <3>3. UnbornHost \in HostRecord /\ UnbornHost.ops = {} /\ UnbornHost.fence = None
      BY BlankIs DEF UnbornHost, NewHost
    <3>4. host'[w].ops = {} /\ host'[w].fence = None
      BY <3>2, <3>3 DEF HostRecord
    <3>5. Line(known, pend, own, shut, {}, None, <<>>, toApp[w])
      BY LineDropped DEF LineOf
    <3> QED BY <3>1, <3>4, <3>5 DEF LineOf, SaysSo
  <2> QED BY <2>1, <2>2, <2>3, <2>4, <2>5 DEF HostStep
<1> QED BY <1>3, <1>4 DEF HostKeeps, Resting
-----------------------------------------------------------------------------
(* What the supervisor holds against the line.                             *)
FenceRecord ==
  [id : Fences \cup {None}, child : Workers \cup {None}, acknowledged : BOOLEAN,
   waits : {"none", "close", "open"}, baseline : Int, invalid : BOOLEAN]
WatchRecord == [slot : BOOLEAN, reading : BOOLEAN, changed : BOOLEAN, idle : BOOLEAN, proof : BOOLEAN]
CallStates == {"idle", "starting", "termination", "ready", "reply"}
FenceTypes ==
  /\ fence \in FenceRecord /\ watch \in WatchRecord
  /\ call \in [Calls -> CallStates] /\ expired \in SUBSET Requests

(* The requests that are not answered yet, the fence on the worker there   *)
(* is, and whether it was acknowledged.                                     *)
Observes == Request("activity", None, 0)
Outstanding == pending \cup expired \cup (IF watch.slot THEN {Observes} ELSE {})
Own == IF fence.child = child THEN fence.id ELSE None
Shut == fence.acknowledged /\ fence.child = child

Tables ==
  /\ \A q \in pending :
       /\ q.method = "start" => run[q.of].at = "reply"
       /\ IsAdmission(q) => fence.waits = q.method /\ \A p \in pending : IsAdmission(p) => p = q
       /\ q.method # "activity"
  /\ \A q \in expired :
       q.method \notin {"start", "initialize", "shutdown", "activity"} /\ (uncertain \/ IsAdmission(q))
  /\ child = None => expired = {}

(* A worker is fenced when nothing accepted is on its way, and none is      *)
(* accepted until the fence is released.                                    *)
Free ==
  /\ ActiveRuns = {} /\ ~starting
  /\ \A r \in Runs : run[r].at \in {"none", "done"}
  /\ \A c \in Calls : call[c] \in {"idle", "reply"}
Fenced == fence.acknowledged \/ (child # None /\ fence.child = child)
Drained == Fenced => fence.id # None /\ Free /\ (fence.acknowledged => child \in {None, fence.child})

Settled(x) == (x.phase = "over" => x.outcome # "none") /\ (x.outcome = "unconfirmed" => failure)
Decided == \A r \in Runs : Settled(run[r])

(* A report that is not out of date, or the reading of it, vouches for the  *)
(* supervisor, and an idle answer for the worker.                           *)
Still == pending = {} /\ ActiveRuns = {} /\ ~uncertain /\ terminating = None /\ ~failure
Reading == watch.reading /\ watch.idle /\ ~watch.changed
Vouched ==
  /\ watch.reading => watch.slot
  /\ watch.proof \/ Reading => Still
  /\ child # None /\ (watch.proof \/ (Reading /\ SaysSo(child))) => Resting(host[child])

Born(w) == host[w].up \/ host[w].initialized = "died"
Births ==
  /\ child # None => Born(child) /\ host[child].heard
  /\ fence.child # None => Born(fence.child)

Ordered == child # None => LineOf(child, Outstanding, pending, Own, Shut)

FenceInv == FenceTypes /\ Tables /\ Drained /\ Decided /\ Vouched /\ Births /\ Ordered
-----------------------------------------------------------------------------
(* The parts, one by one.                                                  *)
LEMMA NoneElse ==
  None \notin Fences /\ None \notin Workers /\ None \notin Runs /\ None \notin Calls
BY HostAssumption DEF Workers

LEMMA OrderedIf ==
  ASSUME NEW w, child' = w, NEW known, NEW pend, NEW own, NEW shut,
         known = Outstanding', pend = pending', own = Own', shut = Shut',
         LineOf(w, known, pend, own, shut)'
  PROVE  Ordered'
<1>1. Line(known, pend, own, shut, host'[w].ops, host'[w].fence, toWorker'[w], toApp'[w])
  BY DEF LineOf
<1> QED BY <1>1 DEF Ordered, LineOf

LEMMA TouchIs ==
  ASSUME watch \in WatchRecord, Touch
  PROVE  /\ watch' \in WatchRecord /\ watch'.slot = watch.slot /\ watch'.reading = watch.reading
         /\ ~watch'.proof /\ ~Reading'
<1>1. watch' = [watch EXCEPT !.changed = watch.reading, !.proof = FALSE]
  BY DEF Touch, Touched
<1>2. watch' \in WatchRecord /\ watch'.slot = watch.slot /\ watch'.reading = watch.reading
      /\ watch'.proof = FALSE /\ watch'.changed = watch.reading
  BY <1>1 DEF WatchRecord
<1> QED BY <1>2 DEF Reading

LEMMA VouchedTouch ==
  ASSUME FenceInv, Touch
  PROVE  Vouched' /\ watch' \in WatchRecord /\ watch'.slot = watch.slot
<1>1. watch \in WatchRecord
  BY DEF FenceInv, FenceTypes
<1> QED BY <1>1, TouchIs DEF FenceInv, Vouched

(* A request is written to the worker.                                      *)
LEMMA LineWritten ==
  ASSUME WorkerInv, NEW w \in Workers, w = child, child' = w, UNCHANGED <<host, toApp>>,
         NEW known, NEW known2, NEW pend, NEW own, NEW shut, NEW q \in Requests, Writes(q),
         q \in known2, known \subseteq known2, IsTracked(q) => q \notin known,
         IsFenced(q) => ~shut /\ own = None, own \notin Fences => own = None,
         IsAdmission(q) => q.of = own /\ \A p \in pend : ~IsAdmission(p),
         LineOf(w, known, pend, own, shut)
  PROVE  LineOf(w, known2, pend \cup {q}, own, shut)'
<1>1. /\ toWorker[w] \in Seq(Requests) /\ toApp[w] \in Seq(Frames) /\ None \notin Fences
      /\ toWorker \in [Workers -> Seq(Requests)]
  BY HostTypes, NoneElse DEF WorkerInv, TypeInv, HostTypeInv
<1>2. toWorker'[w] = toWorker[w] \/ toWorker'[w] = Append(toWorker[w], q)
  BY <1>1 DEF Writes
<1>3. /\ Line(known2, pend \cup {q}, own, shut, host[w].ops, host[w].fence, toWorker[w], toApp[w])
      /\ Line(known2, pend \cup {q}, own, shut, host[w].ops, host[w].fence, Append(toWorker[w], q), toApp[w])
  <2>1. PICK in, out, ops, held : in = toWorker[w] /\ out = toApp[w] /\ ops = host[w].ops /\ held = host[w].fence
    OBVIOUS
  <2>2. Line(known, pend, own, shut, ops, held, in, out) /\ in \in Seq(Requests) /\ out \in Seq(Frames)
    BY <1>1, <2>1 DEF LineOf
  <2>3. /\ Line(known2, pend \cup {q}, own, shut, ops, held, in, out)
        /\ Line(known2, pend \cup {q}, own, shut, ops, held, Append(in, q), out)
    BY <1>1, <2>2, LineSent
  <2> QED BY <2>1, <2>3
<1> QED BY <1>2, <1>3 DEF LineOf

LEMMA RequestIs ==
  ASSUME WorkerInv, child # None, NEW method, NEW of, NEW ask \in Nat, CanAsk(method, of, ask),
         Sends(method, of, ask),
         \/ method \in {"abort", "reply"} /\ of \in Runs
         \/ method \in {"query", "follow"} /\ of \in Calls
         \/ method \in {"close", "open"} /\ of \in Fences
         \/ method = "shutdown" /\ of = None
  PROVE  \E q \in Requests :
           /\ q.method = method /\ q.of = of /\ q \notin pending \cup expired
           /\ pending' = pending \cup {q} /\ Writes(q)
<1>1. FreshOf(method, of, ask) \subseteq Nat /\ FreshOf(method, of, ask) # {}
  BY SupervisorAssumption DEF FreshOf, CanAsk
<1>2. PICK n \in FreshOf(method, of, ask) : n = Min(FreshOf(method, of, ask))
  BY <1>1, SmallestOf
<1>3. PICK q : q = Asked(method, of, n, ask)
  OBVIOUS
<1>4. q \in Requests /\ q.method = method /\ q.of = of
  BY <1>1, <1>2, <1>3 DEF Asked, Requests, Plain, RunRequests, CallRequests, FenceRequests, OwnRequests
<1>5. pending' = pending \cup {q} /\ Writes(q)
  BY <1>2, <1>3 DEF Sends
<1>6. q \notin pending \cup expired
  BY <1>2, <1>3 DEF FreshOf, InUse
<1> QED BY <1>4, <1>5, <1>6
-----------------------------------------------------------------------------
(* A step of the supervisor that leaves its worker and its fence alone.     *)
Goes(x, y) ==
  /\ Active(y) => Active(x)
  /\ x.at \in {"none", "done"} => y.at \in {"none", "done"}
  /\ x.at = "reply" => y.at = "reply"
  /\ Settled(x) => Settled(y)

GoesOn ==
  /\ fence.id = None \/ (Free => Free')
  /\ Decided'
  /\ \A q \in pending : q.method = "start" => run'[q.of].at = "reply"

LEMMA AllGo ==
  ASSUME WorkerInv, FenceInv, \A r \in Runs : Goes(run[r], run'[r]), UNCHANGED <<starting, failure>>,
         \A c \in Calls : call[c] \in {"idle", "reply"} => call'[c] \in {"idle", "reply"}
  PROVE  GoesOn
<1>1. Free => Free'
  BY DEF Free, ActiveRuns, Goes
<1>2. Decided'
  BY DEF FenceInv, Decided, Goes, Settled
<1>3. ASSUME NEW q \in pending, q.method = "start" PROVE run'[q.of].at = "reply"
  <2>1. q \in Requests
    BY DEF WorkerInv, TypeInv, HostTypeInv
  <2>2. q.of \in Runs
    BY <1>3, <2>1 DEF Requests, Plain, StartRequests, RunRequests, CallRequests, FenceRequests,
       OwnRequests, Readings
  <2>3. run[q.of].at = "reply"
    BY <1>3 DEF FenceInv, Tables
  <2> QED BY <2>2, <2>3 DEF Goes
<1> QED BY <1>1, <1>2, <1>3 DEF GoesOn

Asks(q) ==
  /\ child # None /\ pending' = pending \cup {q} /\ Writes(q)
  /\ ~IsAdmission(q) /\ q.method # "activity"
  /\ IsTracked(q) => q \notin pending \cup expired
  /\ IsFenced(q) => ~Free
  /\ q.method = "start" => run'[q.of].at = "reply"

LEMMA CalmStep ==
  ASSUME WorkerInv, FenceInv, GoesOn, Touch, call' \in [Calls -> CallStates],
         UNCHANGED <<child, fence, host, toApp, expired, uncertain>>,
         UNCHANGED <<pending, toWorker>> \/ \E q \in Requests : Asks(q)
  PROVE  FenceInv'
<1>1. Vouched' /\ watch' \in WatchRecord /\ watch'.slot = watch.slot
  BY VouchedTouch
<1>2. FenceTypes'
  BY <1>1 DEF FenceInv, FenceTypes, Workers
<1>3. Tables'
  <2>1. CASE pending' = pending
    BY <2>1 DEF FenceInv, Tables, GoesOn
  <2>2. ASSUME NEW q \in Requests, Asks(q) PROVE Tables'
    <3>1. \A p \in pending' : p \in pending \/ p = q
      BY <2>2 DEF Asks
    <3>2. \A p \in pending' :
            /\ p.method = "start" => run'[p.of].at = "reply"
            /\ IsAdmission(p) => p \in pending
            /\ p.method # "activity"
      BY <2>2, <3>1 DEF FenceInv, Tables, GoesOn, Asks
    <3>3. \A p \in expired :
            p.method \notin {"start", "initialize", "shutdown", "activity"} /\ (uncertain \/ IsAdmission(p))
      BY DEF FenceInv, Tables
    <3>4. \A p \in pending : IsAdmission(p) => fence.waits = p.method /\ \A o \in pending : IsAdmission(o) => o = p
      BY DEF FenceInv, Tables
    <3>5. child = None => expired = {}
      BY DEF FenceInv, Tables
    <3> QED BY <3>2, <3>3, <3>4, <3>5 DEF Tables
  <2> QED BY <2>1, <2>2
<1>4. Drained'
  BY DEF FenceInv, Drained, Fenced, GoesOn
<1>5. Births'
  BY DEF FenceInv, Births, Born
<1>6. Ordered'
  <2>1. SUFFICES ASSUME child # None PROVE Ordered'
    BY DEF Ordered
  <2>2. PICK w, known, pend, own, shut :
          w \in Workers /\ w = child /\ known = Outstanding /\ pend = pending /\ own = Own /\ shut = Shut
    BY <2>1 DEF WorkerInv, TypeInv, HostTypeInv
  <2>3. own = Own' /\ shut = Shut' /\ LineOf(w, known, pend, own, shut)
    BY <2>1, <2>2 DEF FenceInv, Ordered, Own, Shut
  <2>4. CASE UNCHANGED <<pending, toWorker>>
    <3>1. known = Outstanding' /\ pend = pending'
      BY <1>1, <2>2, <2>4 DEF Outstanding
    <3>2. LineOf(w, known, pend, own, shut)'
      BY <2>3, <2>4 DEF LineOf
    <3> QED BY <2>2, <2>3, <3>1, <3>2, OrderedIf
  <2>5. ASSUME NEW q \in Requests, Asks(q) PROVE Ordered'
    <3>1. PICK known2 : known2 = known \cup {q}
      OBVIOUS
    <3>2. known2 = Outstanding' /\ pend \cup {q} = pending' /\ q \in known2 /\ known \subseteq known2
      BY <1>1, <2>2, <2>5, <3>1 DEF Outstanding, Asks
    <3>3. IsTracked(q) => q \notin known
      BY <2>2, <2>5 DEF Outstanding, Asks, Observes, Request, Asked
    <3>4. IsFenced(q) => ~shut /\ own = None
      <4>1. IsFenced(q) => ~Fenced
        BY <2>5 DEF Asks, FenceInv, Drained
      <4> QED BY <2>1, <2>2, <4>1 DEF Fenced, Own, Shut
    <3>5. own \notin Fences => own = None
      BY <2>2 DEF Own, FenceInv, FenceTypes, FenceRecord
    <3>6. ~IsAdmission(q) /\ Writes(q)
      BY <2>5 DEF Asks
    <3>7. LineOf(w, known2, pend \cup {q}, own, shut)'
      BY <2>2, <2>3, <3>2, <3>3, <3>4, <3>5, <3>6, LineWritten
    <3>8. PICK pend2 : pend2 = pend \cup {q}
      OBVIOUS
    <3> QED BY <2>2, <2>3, <3>2, <3>7, <3>8, OrderedIf
  <2> QED BY <2>4, <2>5
<1> QED BY <1>1, <1>2, <1>3, <1>4, <1>5, <1>6 DEF FenceInv, GoesOn

(* What the supervisor's record of a run becomes.                           *)
RunFields ==
  {"phase", "at", "under", "aborted", "byRuntime", "doubtful", "stopping", "answer", "forwarded",
   "outcome", "ask", "question", "terminals", "told"}
IsRun(x) == DOMAIN x = RunFields /\ x = [f \in RunFields |-> x[f]]
Alike(x, y) == IsRun(y) /\ y.at = x.at /\ y.phase = x.phase /\ y.outcome = x.outcome

LEMMA RunIs ==
  ASSUME NEW x \in RunRecord
  PROVE  IsRun(x)
BY DEF IsRun, RunFields, RunRecord

LEMMA GoesFurther ==
  ASSUME NEW x, NEW y, NEW z, Goes(x, y), Goes(y, z)
  PROVE  Goes(x, z)
BY DEF Goes

LEMMA AlikeGoes ==
  ASSUME NEW x, NEW y, Alike(x, y)
  PROVE  Goes(x, y)
BY DEF Alike, Goes, Active, Settled

LEMMA NotedGoes ==
  ASSUME NEW x, IsRun(x), NEW v
  PROVE  /\ Alike(x, x)
         /\ Alike(x, [x EXCEPT !.aborted = v])
         /\ Alike(x, [x EXCEPT !.doubtful = v])
         /\ Alike(x, [x EXCEPT !.answer = v])
         /\ Alike(x, [x EXCEPT !.ask = v])
         /\ Alike(x, [x EXCEPT !.stopping = v])
         /\ Alike(x, [x EXCEPT !.told = v])
BY DEF Alike, IsRun, RunFields

LEMMA AtGoes ==
  ASSUME NEW x, IsRun(x), x.at # "reply", NEW at \in {"done", x.at}
  PROVE  /\ Goes(x, [x EXCEPT !.at = at]) /\ IsRun([x EXCEPT !.at = at]) /\ [x EXCEPT !.at = at].at = at
<1>1. PICK y : y = [x EXCEPT !.at = at]
  OBVIOUS
<1>2. IsRun(y) /\ y.at = at /\ y.phase = x.phase /\ y.outcome = x.outcome
  BY <1>1 DEF IsRun, RunFields
<1> QED BY <1>1, <1>2 DEF Goes, Active, Settled

LEMMA FinishedIs ==
  ASSUME NEW x, IsRun(x), NEW outcome
  PROVE  \/ Finished(x, outcome) = x
         \/ /\ IsRun(Finished(x, outcome)) /\ Finished(x, outcome).at = x.at
            /\ Finished(x, outcome).phase = "over"
            /\ Finished(x, outcome).outcome = IF x.outcome = "none" THEN outcome ELSE x.outcome
<1>1. CASE Finished(x, outcome) = x
  BY <1>1
<1>2. CASE Finished(x, outcome) = Ends(x, outcome)
  <2>1. PICK lost : lost = (x.doubtful /\ ~x.forwarded)
    OBVIOUS
  <2>2. PICK a, b : a = (x.aborted /\ ~lost) /\ b = (x.byRuntime /\ ~lost)
    OBVIOUS
  <2>3. PICK y : y = [x EXCEPT !.aborted = a, !.byRuntime = b]
    OBVIOUS
  <2>4. Alike(x, y)
    BY <2>3 DEF Alike, IsRun, RunFields
  <2>5. PICK n, o : n = (IF ~y.forwarded /\ (~y.aborted \/ y.byRuntime) THEN y.terminals + 1 ELSE y.terminals)
                    /\ o = IF y.outcome = "none" THEN outcome ELSE y.outcome
    OBVIOUS
  <2>6. PICK z : z = [y EXCEPT !.phase = "over", !.ask = "none", !.outcome = o, !.terminals = n]
    OBVIOUS
  <2>7. Ends(x, outcome) = z
    BY <2>1, <2>2, <2>3, <2>5, <2>6 DEF Ends
  <2>8. IsRun(z) /\ z.at = y.at /\ z.phase = "over" /\ z.outcome = o
    BY <2>4, <2>6 DEF Alike, IsRun, RunFields
  <2> QED BY <1>2, <2>4, <2>5, <2>7, <2>8 DEF Alike
<1> QED BY <1>1, <1>2 DEF Finished

LEMMA FinishedGoes ==
  ASSUME NEW x, IsRun(x), NEW outcome \in Endings
  PROVE  /\ Goes(x, Finished(x, outcome)) /\ IsRun(Finished(x, outcome))
         /\ Finished(x, outcome).at = x.at
<1>1. PICK z : z = Finished(x, outcome)
  OBVIOUS
<1>2. z = x \/ /\ IsRun(z) /\ z.at = x.at /\ z.phase = "over"
               /\ z.outcome = IF x.outcome = "none" THEN outcome ELSE x.outcome
  BY <1>1, FinishedIs
<1>3. Goes(x, z) /\ IsRun(z) /\ z.at = x.at
  BY <1>2 DEF Goes, Active, Settled, Endings
<1> QED BY <1>1, <1>3

LEMMA OneGoes ==
  ASSUME WorkerInv, FenceInv, NEW r \in Runs, NEW y, Goes(run[r], y), run' = [run EXCEPT ![r] = y],
         UNCHANGED <<call, starting, failure>>
  PROVE  GoesOn /\ call' \in [Calls -> CallStates]
<1>1. run' \in [Runs -> {run[s] : s \in Runs} \cup {y}] /\ \A s \in Runs : run'[s] = IF s = r THEN y ELSE run[s]
  BY DEF WorkerInv, TypeInv, HostTypeInv
<1>2. \A s \in Runs : Goes(run[s], run'[s])
  BY <1>1 DEF Goes
<1> QED BY <1>2, AllGo DEF FenceInv, FenceTypes

(* startRun goes on, if it can.                                             *)
LEMMA ContinueGoes ==
  ASSUME NEW x, IsRun(x), x.at # "reply", NEW under, NEW next,
         x.phase = "registered" /\ CanStart(x, under) => Goes(x, next)
  PROVE  Goes(x, StartContinues(x, under, next))
<1>1. Goes(x, [x EXCEPT !.at = "done"])
  BY AtGoes
<1>2. CASE x.phase # "registered"
  BY <1>1, <1>2 DEF StartContinues
<1>3. CASE x.phase = "registered" /\ (x.aborted \/ ShuttingDown)
  <2>1. PICK y : y = [x EXCEPT !.aborted = TRUE]
    OBVIOUS
  <2>2. Goes(x, y) /\ IsRun(y) /\ y.at = x.at
    BY <2>1, NotedGoes, AlikeGoes DEF Alike
  <2>3. PICK z : z = Finished(y, "not_started")
    OBVIOUS
  <2>4. Goes(y, z) /\ IsRun(z) /\ z.at = y.at
    BY <2>2, <2>3, FinishedGoes DEF Endings
  <2>5. Goes(z, [z EXCEPT !.at = "done"])
    BY <2>2, <2>4, AtGoes
  <2>6. StartContinues(x, under, next) = [z EXCEPT !.at = "done"]
    BY <1>3, <2>1, <2>3 DEF StartContinues
  <2> QED BY <2>2, <2>4, <2>5, <2>6, GoesFurther
<1>4. CASE x.phase = "registered" /\ ~(x.aborted \/ ShuttingDown)
  <2>1. StartContinues(x, under, next) = IF CanStart(x, under) THEN next ELSE [x EXCEPT !.at = "done"]
    BY <1>4 DEF StartContinues
  <2> QED BY <1>1, <1>4, <2>1
<1> QED BY <1>2, <1>3, <1>4

LEMMA CaughtGoes ==
  ASSUME NEW x, IsRun(x), x.at # "reply"
  PROVE  Goes(x, Caught(x))
<1>1. PICK y : y = IF terminating # None \/ (failure /\ x.phase = "issued") THEN x
                   ELSE Finished(x, DefaultOutcome(x))
  OBVIOUS
<1>2. Goes(x, y) /\ IsRun(y) /\ y.at = x.at
  <2>1. DefaultOutcome(x) \in Endings
    BY DefaultOutcomeIs
  <2>2. Goes(x, x)
    BY DEF Goes
  <2> QED BY <1>1, <2>1, <2>2, FinishedGoes
<1>3. Goes(y, [y EXCEPT !.at = "done"])
  BY <1>2, AtGoes
<1>4. Caught(x) = [y EXCEPT !.at = "done"]
  BY <1>1 DEF Caught
<1> QED BY <1>2, <1>3, <1>4, GoesFurther
-----------------------------------------------------------------------------
(* The steps of the supervisor that concern one run.                        *)
RunKeeps == UNCHANGED <<child, fence, host, toApp, expired, uncertain, call, starting, failure>>

LEMMA KeepsRun ==
  RunOnly => RunKeeps
BY DEF RunOnly, RunKeeps, current, reaping

LEMMA WorkerReadyForFence ==
  ASSUME WorkerInv, FenceInv, NEW r \in Runs, WorkerReadyFor(r)
  PROVE  FenceInv'
<1>1. PICK x : x = run[r]
  OBVIOUS
<1>2. IsRun(x) /\ x.at = "ready"
  BY <1>1, RunTypes, RunIs DEF WorkerReadyFor
<1>3. PICK next : next = [x EXCEPT !.at = "options", !.under = child]
  OBVIOUS
<1>4. Goes(x, next)
  <2>1. next.at = "options" /\ next.phase = x.phase /\ next.outcome = x.outcome
    BY <1>2, <1>3 DEF IsRun, RunFields
  <2> QED BY <1>2, <2>1 DEF Goes, Active, Settled
<1>5. Goes(x, StartContinues(x, child, next))
  BY <1>2, <1>4, ContinueGoes
<1>6. run' = [run EXCEPT ![r] = StartContinues(x, child, next)] /\ Touch /\ RunKeeps /\ UNCHANGED <<pending, toWorker>>
  BY <1>1, <1>3, KeepsRun DEF WorkerReadyFor, requests
<1> QED BY <1>1, <1>5, <1>6, OneGoes, CalmStep DEF RunKeeps

LEMMA OptionsRejectedFence ==
  ASSUME WorkerInv, FenceInv, NEW r \in Runs, OptionsRejected(r)
  PROVE  FenceInv'
<1>1. IsRun(run[r]) /\ run[r].at = "options"
  BY RunTypes, RunIs DEF OptionsRejected
<1>2. Goes(run[r], Caught(run[r]))
  BY <1>1, CaughtGoes
<1>3. run' = [run EXCEPT ![r] = Caught(run[r])] /\ Touch /\ RunKeeps /\ UNCHANGED <<pending, toWorker>>
  BY KeepsRun DEF OptionsRejected, requests, WorkerInv, TypeInv, HostTypeInv
<1> QED BY <1>2, <1>3, OneGoes, CalmStep DEF RunKeeps

LEMMA RunRepliedFence ==
  ASSUME WorkerInv, FenceInv, NEW r \in Runs, RunReplied(r)
  PROVE  FenceInv'
<1>1. PICK x : x = run[r]
  OBVIOUS
<1>2. IsRun(x) /\ x.at = "replied"
  BY <1>1, RunTypes, RunIs DEF RunReplied
<1>3. PICK b, a : /\ b = (IF x.answer = "aborted" THEN ~x.aborted /\ x.stopping = "none" ELSE x.byRuntime)
                  /\ a = (x.aborted \/ x.answer = "aborted")
  OBVIOUS
<1>4. PICK y : y = [x EXCEPT !.byRuntime = b, !.aborted = a]
  OBVIOUS
<1>5. Goes(x, y) /\ IsRun(y) /\ y.at = "replied"
  <2>1. Alike(x, y)
    BY <1>2, <1>4 DEF Alike, IsRun, RunFields
  <2> QED BY <1>2, <2>1, AlikeGoes DEF Alike
<1>6. PICK z : z = Finished(y, DefaultOutcome(y))
  OBVIOUS
<1>7. Goes(y, z) /\ IsRun(z) /\ z.at = "replied"
  <2>1. DefaultOutcome(y) \in Endings
    BY DefaultOutcomeIs
  <2> QED BY <1>5, <1>6, <2>1, FinishedGoes
<1>8. PICK u : u = [z EXCEPT !.at = "done"]
  OBVIOUS
<1>9. Goes(z, u) /\ IsRun(u)
  BY <1>7, <1>8, AtGoes
<1>10. PICK v : v = [u EXCEPT !.answer = "none"]
  OBVIOUS
<1>11. Goes(u, v)
  BY <1>9, <1>10, NotedGoes, AlikeGoes
<1>12. Goes(x, v)
  BY <1>5, <1>7, <1>9, <1>11, GoesFurther
<1>13. run' = [run EXCEPT ![r] = v]
  <2>1. y = [x EXCEPT !.byRuntime = IF x.answer = "aborted" THEN ~x.aborted /\ x.stopping = "none" ELSE @,
                      !.aborted = @ \/ x.answer = "aborted"]
    BY <1>3, <1>4
  <2>2. v = [z EXCEPT !.at = "done", !.answer = "none"]
    BY <1>8, <1>10
  <2> QED BY <1>1, <1>6, <2>1, <2>2 DEF RunReplied
<1>14. Touch /\ RunKeeps /\ UNCHANGED <<pending, toWorker>>
  BY KeepsRun DEF RunReplied, requests
<1> QED BY <1>1, <1>12, <1>13, <1>14, OneGoes, CalmStep DEF RunKeeps

LEMMA AbortRepliedFence ==
  ASSUME WorkerInv, FenceInv, NEW r \in Runs, AbortReplied(r)
  PROVE  FenceInv'
<1>1. PICK x, stopped : x = run[r] /\ stopped = (x.stopping = "yes" /\ x.phase # "over")
  OBVIOUS
<1>2. PICK a, t : a = (x.aborted \/ stopped) /\ t = IF stopped THEN "aborted" ELSE "unconfirmed"
  OBVIOUS
<1>3. PICK y : y = [x EXCEPT !.stopping = "none", !.aborted = a, !.told = t]
  OBVIOUS
<1>4. Goes(x, y)
  <2>1. IsRun(x)
    BY <1>1, RunTypes, RunIs
  <2>2. Alike(x, y)
    BY <1>3, <2>1 DEF Alike, IsRun, RunFields
  <2> QED BY <2>2, AlikeGoes
<1>5. run' = [run EXCEPT ![r] = y] /\ Touch /\ RunKeeps /\ UNCHANGED <<pending, toWorker>>
  BY <1>1, <1>2, <1>3, KeepsRun DEF AbortReplied, requests
<1> QED BY <1>1, <1>4, <1>5, OneGoes, CalmStep DEF RunKeeps

(* A request is written, which no fence refuses unless none can be there.   *)
LEMMA SendAsks ==
  ASSUME WorkerInv, child # None, NEW method, NEW of, NEW ask \in Nat, CanAsk(method, of, ask),
         Sends(method, of, ask),
         \/ method \in {"abort", "reply"} /\ of \in Runs
         \/ method \in {"query", "follow"} /\ of \in Calls /\ (method = "query" => ~Free)
         \/ method = "shutdown" /\ of = None
  PROVE  \E q \in Requests : Asks(q)
<1>1. PICK q \in Requests :
        /\ q.method = method /\ q.of = of /\ q \notin pending \cup expired
        /\ pending' = pending \cup {q} /\ Writes(q)
  BY RequestIs
<1>2. ~IsAdmission(q) /\ q.method \notin {"activity", "start"} /\ (IsFenced(q) => ~Free)
  BY <1>1 DEF IsAdmission, IsFenced, FencedMethods
<1> QED BY <1>1, <1>2 DEF Asks

LEMMA ApproveFence ==
  ASSUME WorkerInv, FenceInv, NEW r \in Runs, Approve(r)
  PROVE  FenceInv'
<1>1. /\ child # None /\ CanAsk("reply", r, run[r].question) /\ Sends("reply", r, run[r].question)
      /\ run' = [run EXCEPT ![r].ask = "answering"] /\ Touch /\ RunKeeps /\ run[r].question \in Nat
  BY KeepsRun, RunTypes DEF Approve, RunRecord
<1>2. \E q \in Requests : Asks(q)
  BY <1>1, SendAsks
<1>3. PICK y : y = [run[r] EXCEPT !.ask = "answering"]
  OBVIOUS
<1>4. Goes(run[r], y)
  BY <1>3, RunTypes, RunIs, NotedGoes, AlikeGoes
<1>5. run' = [run EXCEPT ![r] = y]
  BY <1>1, <1>3
<1> QED BY <1>1, <1>2, <1>4, <1>5, OneGoes, CalmStep DEF RunKeeps

LEMMA AbortFence ==
  ASSUME WorkerInv, FenceInv, NEW r \in Runs, Abort(r)
  PROVE  FenceInv'
<1>1. Touch /\ RunKeeps /\ IsRun(run[r])
  BY KeepsRun, RunTypes, RunIs DEF Abort
<1>2. ASSUME NEW y, Goes(run[r], y), run' = [run EXCEPT ![r] = y],
             UNCHANGED <<pending, toWorker>> \/ \E q \in Requests : Asks(q)
      PROVE  FenceInv'
  BY <1>1, <1>2, OneGoes, CalmStep DEF RunKeeps
<1>3. CASE /\ run' = [run EXCEPT ![r] = [Finished([run[r] EXCEPT !.aborted = TRUE], "not_started")
                                         EXCEPT !.told = "not_started"]]
           /\ UNCHANGED requests
  <2>1. PICK x : x = [run[r] EXCEPT !.aborted = TRUE]
    OBVIOUS
  <2>2. Goes(run[r], x) /\ IsRun(x)
    BY <1>1, <2>1, NotedGoes, AlikeGoes DEF Alike
  <2>3. PICK z : z = Finished(x, "not_started")
    OBVIOUS
  <2>4. Goes(x, z) /\ IsRun(z)
    BY <2>2, <2>3, FinishedGoes DEF Endings
  <2>5. PICK y : y = [z EXCEPT !.told = "not_started"]
    OBVIOUS
  <2>6. Goes(z, y)
    BY <2>4, <2>5, NotedGoes, AlikeGoes
  <2>7. Goes(run[r], y)
    BY <2>2, <2>4, <2>6, GoesFurther
  <2>8. run' = [run EXCEPT ![r] = y]
    BY <1>3, <2>1, <2>3, <2>5
  <2> QED BY <1>2, <1>3, <2>7, <2>8 DEF requests
<1>4. CASE /\ child # None /\ CanAsk("abort", r, 0) /\ Sends("abort", r, 0)
           /\ run' = [run EXCEPT ![r].stopping = "asked", ![r].told = "none"]
  <2>1. PICK y : y = [run[r] EXCEPT !.stopping = "asked", !.told = "none"]
    OBVIOUS
  <2>2. Alike(run[r], y)
    BY <1>1, <2>1 DEF Alike, IsRun, RunFields
  <2>3. run' = [run EXCEPT ![r] = y]
    BY <1>4, <2>1 DEF WorkerInv, TypeInv, HostTypeInv
  <2>4. \E q \in Requests : Asks(q)
    BY <1>4, SendAsks
  <2> QED BY <1>2, <2>2, <2>3, <2>4, AlikeGoes
<1>5. CASE run' = [run EXCEPT ![r].told = "unconfirmed"] /\ UNCHANGED requests
  <2>1. PICK y : y = [run[r] EXCEPT !.told = "unconfirmed"]
    OBVIOUS
  <2>2. Goes(run[r], y)
    BY <1>1, <2>1, NotedGoes, AlikeGoes
  <2>3. run' = [run EXCEPT ![r] = y]
    BY <1>5, <2>1
  <2> QED BY <1>2, <1>5, <2>2, <2>3 DEF requests
<1> QED BY <1>3, <1>4, <1>5 DEF Abort

LEMMA OptionsKnownFence ==
  ASSUME WorkerInv, FenceInv, NEW r \in Runs, OptionsKnown(r)
  PROVE  FenceInv'
<1>1. PICK x : x = run[r]
  OBVIOUS
<1>2. x \in RunRecord /\ Consistent(x) /\ KnownOf(r) /\ IsRun(x) /\ x.at = "options"
  BY <1>1, RunTypes, RunIs DEF OptionsKnown
<1>3. PICK issued, y : issued = [x EXCEPT !.at = "reply", !.phase = "issued"] /\ y = StartContinues(x, x.under, issued)
  OBVIOUS
<1>4. issued.at = "reply" /\ issued.phase = "issued" /\ issued.outcome = x.outcome
  BY <1>2, <1>3 DEF IsRun, RunFields
<1>5. x.phase = "registered" => Goes(x, issued)
  BY <1>2, <1>4 DEF Goes, Active, Settled
<1>6. Goes(x, y)
  BY <1>2, <1>3, <1>5, ContinueGoes
<1>7. PICK q : q = Request("start", r, 0)
  OBVIOUS
<1>8. /\ run' = [run EXCEPT ![r] = y] /\ run'[r] = y /\ Touch /\ RunKeeps
      /\ IF y = issued THEN pending' = pending \cup {q} /\ Writes(q) ELSE UNCHANGED <<pending, toWorker>>
  <2>1. run' = [run EXCEPT ![r] = y] /\ run'[r] = y
    BY <1>1, <1>3 DEF OptionsKnown, WorkerInv, TypeInv, HostTypeInv
  <2> QED BY <1>1, <1>3, <1>7, <2>1, KeepsRun DEF OptionsKnown, requests
<1>9. ASSUME y = issued PROVE q \in Requests /\ Asks(q)
  <2>1. q \in Requests /\ q.method = "start" /\ q.of = r
    BY <1>7 DEF Request, Asked, Requests, Plain, StartRequests
  <2>2. child # None
    <3>1. x.phase # "issued"
      BY <1>2 DEF Consistent, Early
    <3>2. x.phase = "registered"
      <4>1. CASE x.phase # "registered"
        <5>1. y = [x EXCEPT !.at = "done"]
          BY <1>3, <4>1 DEF StartContinues
        <5>2. y.at = "done"
          BY <1>2, <5>1 DEF IsRun, RunFields
        <5> QED BY <1>4, <1>9, <5>2
      <4> QED BY <4>1
    <3>3. CASE x.aborted \/ ShuttingDown
      <4>1. y = [Finished([x EXCEPT !.aborted = TRUE], "not_started") EXCEPT !.at = "done"]
        BY <1>3, <3>2, <3>3 DEF StartContinues
      <4>2. PICK u, z : u = [x EXCEPT !.aborted = TRUE] /\ z = Finished(u, "not_started")
        OBVIOUS
      <4>3. IsRun(u)
        BY <1>2, <4>2, NotedGoes DEF Alike
      <4>4. IsRun(z)
        BY <4>2, <4>3, FinishedGoes DEF Endings
      <4>5. y.at = "done"
        BY <4>1, <4>2, <4>4 DEF IsRun, RunFields
      <4> QED BY <1>4, <1>9, <4>5
    <3>4. CASE ~(x.aborted \/ ShuttingDown) /\ ~CanStart(x, x.under)
      <4>1. y = [x EXCEPT !.at = "done"]
        BY <1>3, <3>2, <3>4 DEF StartContinues
      <4>2. y.at = "done"
        BY <1>2, <4>1 DEF IsRun, RunFields
      <4> QED BY <1>4, <1>9, <4>2
    <3>5. CASE CanStart(x, x.under)
      BY <3>5 DEF CanStart
    <3> QED BY <3>3, <3>4, <3>5
  <2>3. ~Free
    BY <1>1, <1>2 DEF Free
  <2>4. ~IsAdmission(q) /\ ~IsTracked(q)
    BY <2>1 DEF IsAdmission, IsTracked
  <2> QED BY <1>4, <1>8, <1>9, <2>1, <2>2, <2>3, <2>4 DEF Asks
<1>10. GoesOn /\ call' \in [Calls -> CallStates]
  BY <1>1, <1>6, <1>8, OneGoes DEF RunKeeps
<1> QED BY <1>8, <1>9, <1>10, CalmStep DEF RunKeeps
-----------------------------------------------------------------------------
(* Calls, and the shutdown.                                                 *)
LEMMA CallSendsFence ==
  ASSUME WorkerInv, FenceInv, NEW c \in Calls, CallSends(c)
  PROVE  FenceInv'
<1>1. call \in [Calls -> CallStates] /\ call[c] = "ready"
  BY DEF CallSends, FenceInv, FenceTypes
<1>2. ~Free
  BY <1>1 DEF Free
<1>3. call' \in [Calls -> CallStates] /\ \A d \in Calls : call[d] \in {"idle", "reply"} => call'[d] \in {"idle", "reply"}
  BY <1>1 DEF CallSends, CallStates
<1>4. Touch /\ UNCHANGED <<child, fence, host, toApp, expired, uncertain, run, starting, failure>>
  BY DEF CallSends, current, reaping
<1>5. \A r \in Runs : Goes(run[r], run'[r])
  BY <1>4 DEF Goes
<1>6. GoesOn
  BY <1>3, <1>4, <1>5, AllGo
<1>7. UNCHANGED <<pending, toWorker>> \/ \E q \in Requests : Asks(q)
  BY <1>2, SendAsks DEF CallSends, requests
<1> QED BY <1>3, <1>4, <1>6, <1>7, CalmStep

LEMMA FollowUpFence ==
  ASSUME WorkerInv, FenceInv, NEW c \in Calls, FollowUp(c)
  PROVE  FenceInv'
<1>1. call' \in [Calls -> CallStates] /\ \A d \in Calls : call[d] \in {"idle", "reply"} => call'[d] \in {"idle", "reply"}
  BY DEF FollowUp, CallStates, FenceInv, FenceTypes
<1>2. Touch /\ UNCHANGED <<child, fence, host, toApp, expired, uncertain, run, starting, failure>>
  BY DEF FollowUp, current, reaping
<1>3. \A r \in Runs : Goes(run[r], run'[r])
  BY <1>2 DEF Goes
<1>4. GoesOn
  BY <1>1, <1>2, <1>3, AllGo
<1>5. \E q \in Requests : Asks(q)
  BY SendAsks DEF FollowUp
<1> QED BY <1>1, <1>2, <1>4, <1>5, CalmStep

LEMMA ShutdownFence ==
  ASSUME WorkerInv, FenceInv, Shutdown
  PROVE  FenceInv'
<1>1. Touch /\ UNCHANGED <<child, fence, host, toApp, expired, uncertain, call, starting, failure>>
  BY DEF Shutdown, current, reaping
<1>2. \A r \in Runs : Goes(run[r], run'[r])
  <2>1. CASE UNCHANGED run
    BY <2>1 DEF Goes
  <2>2. CASE run' = [r \in Runs |-> [run[r] EXCEPT !.aborted = @ \/ Active(run[r])]]
    <3> SUFFICES ASSUME NEW r \in Runs PROVE Goes(run[r], run'[r])
      OBVIOUS
    <3>1. PICK a : a = (run[r].aborted \/ Active(run[r]))
      OBVIOUS
    <3>2. run'[r] = [run[r] EXCEPT !.aborted = a]
      BY <2>2, <3>1
    <3>3. PICK y : y = [run[r] EXCEPT !.aborted = a]
      OBVIOUS
    <3>4. IsRun(run[r])
      BY RunTypes, RunIs
    <3>5. Alike(run[r], y)
      BY <3>3, <3>4 DEF Alike, IsRun, RunFields
    <3> QED BY <3>2, <3>3, <3>5, AlikeGoes
  <2> QED BY <2>1, <2>2 DEF Shutdown
<1>3. GoesOn /\ call' \in [Calls -> CallStates]
  <2>1. GoesOn
    BY <1>1, <1>2, AllGo
  <2> QED BY <1>1, <2>1 DEF FenceInv, FenceTypes
<1>4. UNCHANGED <<pending, toWorker>> \/ \E q \in Requests : Asks(q)
  BY SendAsks DEF Shutdown, requests
<1> QED BY <1>1, <1>3, <1>4, CalmStep
-----------------------------------------------------------------------------
(* The fence itself.                                                        *)
FenceKeeps ==
  /\ Touch /\ UNCHANGED <<child, ready, starting, terminating, failure, uncertain, run, call, expired, host, toApp>>

(* What a step that concerns the fence alone leaves as it was.              *)
LEMMA FenceAlone ==
  ASSUME WorkerInv, FenceInv, FenceKeeps, fence' \in FenceRecord,
         \/ UNCHANGED <<pending, toWorker>> /\ fence'.waits = fence.waits
         \/ UNCHANGED <<pending, toWorker>> /\ \A p \in pending : ~IsAdmission(p)
         \/ \E q \in Requests : /\ pending' = pending \cup {q} /\ IsAdmission(q) /\ fence'.waits = q.method
                                /\ \A p \in pending : ~IsAdmission(p)
  PROVE  /\ FenceTypes' /\ Tables' /\ Decided' /\ Vouched' /\ (Free => Free')
         /\ (fence'.child \in {None, child, fence.child} => Births') /\ watch'.slot = watch.slot
<1>1. Vouched' /\ watch' \in WatchRecord /\ watch'.slot = watch.slot
  BY VouchedTouch DEF FenceKeeps
<1>2. FenceTypes'
  BY <1>1 DEF FenceInv, FenceTypes, FenceKeeps, Workers
<1>3. Decided' /\ (Free => Free')
  BY DEF FenceKeeps, FenceInv, Decided, Settled, Free, ActiveRuns
<1>4. fence'.child \in {None, child, fence.child} => Births'
  BY DEF FenceKeeps, FenceInv, Births, Born
<1>5. Tables'
  <2>1. /\ \A p \in expired :
             p.method \notin {"start", "initialize", "shutdown", "activity"} /\ (uncertain \/ IsAdmission(p))
        /\ child = None => expired = {}
        /\ \A p \in pending : /\ p.method = "start" => run[p.of].at = "reply"
                              /\ IsAdmission(p) => fence.waits = p.method /\ \A o \in pending : IsAdmission(o) => o = p
                              /\ p.method # "activity"
    BY DEF FenceInv, Tables
  <2>2. ASSUME NEW p \in pending'
        PROVE  /\ p.method = "start" => run'[p.of].at = "reply"
               /\ IsAdmission(p) => fence'.waits = p.method /\ \A o \in pending' : IsAdmission(o) => o = p
               /\ p.method # "activity"
    <3>1. CASE UNCHANGED <<pending, toWorker>>
      BY <2>1, <3>1 DEF FenceKeeps
    <3>2. ASSUME NEW q \in Requests, pending' = pending \cup {q}, IsAdmission(q), fence'.waits = q.method,
                 \A o \in pending : ~IsAdmission(o)
          PROVE  /\ p.method = "start" => run'[p.of].at = "reply"
                 /\ IsAdmission(p) => fence'.waits = p.method /\ \A o \in pending' : IsAdmission(o) => o = p
                 /\ p.method # "activity"
      BY <2>1, <3>2 DEF FenceKeeps, IsAdmission
    <3> QED BY <3>1, <3>2
  <2> QED BY <2>1, <2>2 DEF Tables, FenceKeeps
<1> QED BY <1>1, <1>2, <1>3, <1>4, <1>5

(* The line, when the fence on the worker is another one, or an admission   *)
(* request is written.                                                      *)
LEMMA FenceLine ==
  ASSUME WorkerInv, FenceInv, FenceKeeps, watch'.slot = watch.slot, child # None,
         Own' = Own \/ (Own = None /\ ~Shut'), Shut' = Shut \/ ~Shut',
         \/ UNCHANGED <<pending, toWorker>>
         \/ \E q \in Requests : /\ pending' = pending \cup {q} /\ IsAdmission(q) /\ q.of = Own'
                                /\ q \notin pending \cup expired /\ Writes(q)
                                /\ \A p \in pending : ~IsAdmission(p)
  PROVE  Ordered'
<1>1. PICK w, known, pend, own, shut, own2, shut2 :
        /\ w \in Workers /\ w = child /\ known = Outstanding /\ pend = pending /\ own = Own /\ shut = Shut
        /\ own2 = Own' /\ shut2 = Shut'
  BY DEF WorkerInv, TypeInv, HostTypeInv
<1>2. LineOf(w, known, pend, own, shut) /\ child' = w /\ UNCHANGED <<host, toApp>>
  BY <1>1 DEF FenceInv, Ordered, FenceKeeps
<1>3. LineOf(w, known, pend, own2, shut2)
  <2>1. /\ toWorker[w] \in Seq(Requests) /\ toApp[w] \in Seq(Frames) /\ None \notin Fences
    BY <1>1, HostTypes, NoneElse DEF WorkerInv, TypeInv
  <2>2. PICK in, out, ops, held : in = toWorker[w] /\ out = toApp[w] /\ ops = host[w].ops /\ held = host[w].fence
    OBVIOUS
  <2>3. Line(known, pend, own, shut, ops, held, in, out)
    BY <1>2, <2>2 DEF LineOf
  <2>4. CASE own2 = own
    <3>1. Line(known, pend, own, FALSE, ops, held, in, out)
      BY <2>3 DEF Line, Shielded
    <3>2. shut2 = shut \/ shut2 = FALSE
      BY <1>1 DEF Shut
    <3> QED BY <2>2, <2>3, <2>4, <3>1, <3>2 DEF LineOf
  <2>5. CASE own = None /\ ~shut2
    <3>1. Line(known, pend, own2, FALSE, ops, held, in, out)
      BY <2>1, <2>2, <2>3, <2>5, LineOwned
    <3>2. shut2 = FALSE
      BY <1>1, <2>5 DEF Shut
    <3> QED BY <2>2, <3>1, <3>2 DEF LineOf
  <2> QED BY <1>1, <2>4, <2>5
<1>4. CASE UNCHANGED <<pending, toWorker>>
  <2>1. known = Outstanding' /\ pend = pending'
    BY <1>1, <1>4 DEF Outstanding, FenceKeeps
  <2>2. LineOf(w, known, pend, own2, shut2)'
    BY <1>2, <1>3, <1>4 DEF LineOf
  <2> QED BY <1>1, <1>2, <2>1, <2>2, OrderedIf
<1>5. ASSUME NEW q \in Requests, pending' = pending \cup {q}, IsAdmission(q), q.of = Own',
             q \notin pending \cup expired, Writes(q), \A p \in pending : ~IsAdmission(p)
      PROVE  Ordered'
  <2>1. PICK known2, pend2 : known2 = known \cup {q} /\ pend2 = pend \cup {q}
    OBVIOUS
  <2>2. known2 = Outstanding' /\ pend2 = pending' /\ q \in known2 /\ known \subseteq known2
    BY <1>1, <1>5, <2>1 DEF Outstanding, FenceKeeps
  <2>3. q \notin known
    BY <1>1, <1>5 DEF Outstanding, Observes, Request, Asked, IsAdmission
  <2>4. ~IsFenced(q)
    BY <1>5 DEF IsFenced, FencedMethods, IsAdmission
  <2>5. q.of = own2 /\ \A p \in pend : ~IsAdmission(p)
    BY <1>1, <1>5
  <2>6. own2 \in Fences
    BY <1>5, <2>5, AdmissionOf
  <2>7. LineOf(w, known2, pend2, own2, shut2)'
    BY <1>1, <1>2, <1>3, <1>5, <2>1, <2>2, <2>3, <2>4, <2>5, <2>6, LineWritten
  <2> QED BY <1>1, <1>2, <2>2, <2>7, OrderedIf
<1> QED BY <1>4, <1>5

LEMMA FenceMoves ==
  ASSUME WorkerInv, FenceInv, FenceKeeps, fence' \in FenceRecord, fence'.child \in {None, child, fence.child},
         Free => Drained',
         child # None => (Own' = Own \/ (Own = None /\ ~Shut')) /\ (Shut' = Shut \/ ~Shut'),
         ~Fenced' \/ Free,
         \/ UNCHANGED <<pending, toWorker>> /\ fence'.waits = fence.waits
         \/ UNCHANGED <<pending, toWorker>> /\ \A p \in pending : ~IsAdmission(p)
         \/ /\ child # None /\ \A p \in pending : ~IsAdmission(p)
            /\ \E q \in Requests : /\ pending' = pending \cup {q} /\ IsAdmission(q) /\ fence'.waits = q.method
                                   /\ q.of = Own' /\ q \notin pending \cup expired /\ Writes(q)
  PROVE  FenceInv'
<1>1. /\ FenceTypes' /\ Tables' /\ Decided' /\ Vouched' /\ Births' /\ watch'.slot = watch.slot
  BY FenceAlone
<1>2. Drained'
  BY DEF Drained
<1>3. Ordered'
  <2>1. CASE child = None
    BY <2>1 DEF Ordered, FenceKeeps
  <2>2. CASE child # None
    BY <1>1, <2>2, FenceLine
  <2> QED BY <2>1, <2>2
<1> QED BY <1>1, <1>2, <1>3 DEF FenceInv

LEMMA AcceptedFree ==
  ASSUME WorkerInv, FenceInv, ~Accepted
  PROVE  Free /\ pending = {}
BY DEF Accepted, Tasks, Free

LEMMA NoAdmission ==
  ASSUME FenceInv, fence.waits = "none"
  PROVE  \A p \in pending : ~IsAdmission(p)
BY DEF FenceInv, Tables, IsAdmission

LEMMA FenceForRestartFence ==
  ASSUME WorkerInv, FenceInv, NEW f \in Fences, FenceForRestart(f)
  PROVE  FenceInv'
<1>1. PICK local : local = IF fence.id = None THEN [NoFence EXCEPT !.id = f] ELSE fence
  OBVIOUS
<1>2. /\ fence.id \in {None, f} /\ fence.waits = "none" /\ ~(fence.acknowledged /\ fence.child = child)
      /\ FenceKeeps /\ f # None /\ fence \in FenceRecord /\ None \notin Workers
  BY NoneElse DEF FenceForRestart, FenceKeeps, current, reaping, FenceInv, FenceTypes
<1>3. /\ local \in FenceRecord /\ local.id = f /\ local.waits = "none"
      /\ \/ fence.id = f /\ local = fence
         \/ fence.id = None /\ local.child = None /\ ~local.acknowledged
  <2>1. CASE fence.id = f
    BY <1>1, <1>2, <2>1
  <2>2. CASE fence.id = None
    <3>1. PICK x : x = [NoFence EXCEPT !.id = f]
      OBVIOUS
    <3>2. NoFence \in FenceRecord
      BY DEF NoFence, FenceRecord
    <3>3. x \in FenceRecord /\ x.id = f /\ x.waits = "none" /\ x.child = None /\ x.acknowledged = FALSE
      BY <3>1, <3>2 DEF FenceRecord, NoFence
    <3> QED BY <1>1, <2>2, <3>1, <3>3
  <2> QED BY <1>2, <2>1, <2>2
<1>4. \A p \in pending : ~IsAdmission(p)
  BY <1>2, NoAdmission
<1>5. fence.id = None => ~Fenced
  BY DEF FenceInv, Drained
<1>6. CASE fence' = local /\ UNCHANGED requests
  <2>1. child # None => Own' = Own /\ (Shut' = Shut \/ ~Shut')
    BY <1>2, <1>3, <1>5, <1>6 DEF Own, Shut, Fenced, FenceKeeps
  <2>2. Free => Drained'
    BY <1>2, <1>3, <1>6, AllGo DEF Drained, Fenced, FenceKeeps, FenceInv, Free, ActiveRuns
  <2>3. ~Fenced' \/ Free
    BY <1>2, <1>3, <1>6 DEF Drained, Fenced, FenceKeeps, FenceInv
  <2> QED BY <1>2, <1>3, <1>4, <1>6, <2>1, <2>2, <2>3, FenceMoves DEF requests
<1>7. CASE /\ ~Accepted /\ child = None /\ UNCHANGED requests
           /\ fence' = [local EXCEPT !.acknowledged = @ \/ (unreaped = {} /\ ~failure)]
  <2>1. PICK a : a = (local.acknowledged \/ (unreaped = {} /\ ~failure))
    OBVIOUS
  <2>2. fence' \in FenceRecord /\ fence'.id = f /\ fence'.child = local.child /\ fence'.waits = "none"
    BY <1>3, <1>7, <2>1 DEF FenceRecord
  <2>3. Free /\ (Free => Free')
    BY <1>2, <1>7, AcceptedFree DEF FenceKeeps, Free, ActiveRuns
  <2>4. Drained'
    BY <1>2, <1>7, <2>2, <2>3 DEF Drained, FenceKeeps
  <2>5. fence'.child \in {None, child, fence.child}
    BY <1>3, <2>2
  <2> QED BY <1>2, <1>4, <1>7, <2>2, <2>3, <2>4, <2>5, FenceMoves DEF requests
<1>8. CASE /\ ~Accepted /\ child # None /\ CanAsk("close", f, 0)
           /\ fence' = [local EXCEPT !.child = child, !.waits = "close"] /\ Sends("close", f, 0)
  <2>1. child \in Workers
    BY <1>8 DEF WorkerInv, TypeInv, HostTypeInv
  <2>2. /\ fence' \in FenceRecord /\ fence'.id = f /\ fence'.child = child /\ fence'.waits = "close"
        /\ fence'.acknowledged = local.acknowledged
    BY <1>3, <1>8, <2>1 DEF FenceRecord
  <2>3. ~local.acknowledged
    BY <1>2, <1>3, <1>8 DEF FenceInv, Drained, Fenced
  <2>4. Free /\ (Free => Free')
    BY <1>2, <1>8, AcceptedFree DEF FenceKeeps, Free, ActiveRuns
  <2>5. Drained'
    BY <1>2, <2>2, <2>3, <2>4 DEF Drained
  <2>6. Own' = f /\ ~Shut' /\ Own \in {None, f}
    BY <1>2, <2>2, <2>3 DEF Own, Shut, FenceKeeps
  <2>7. PICK q \in Requests :
          /\ q.method = "close" /\ q.of = f /\ q \notin pending \cup expired
          /\ pending' = pending \cup {q} /\ Writes(q)
    BY <1>8, RequestIs
  <2>8. IsAdmission(q) /\ q.of = Own' /\ fence'.waits = q.method
    BY <2>2, <2>6, <2>7 DEF IsAdmission
  <2> QED BY <1>2, <1>4, <1>8, <2>2, <2>4, <2>5, <2>6, <2>7, <2>8, FenceMoves
<1> QED BY <1>1, <1>6, <1>7, <1>8 DEF FenceForRestart

LEMMA ReleaseFenceFence ==
  ASSUME WorkerInv, FenceInv, NEW f \in Fences, ReleaseFence(f)
  PROVE  FenceInv'
<1>1. /\ fence.id = f /\ fence.waits = "none" /\ FenceKeeps /\ f # None /\ fence \in FenceRecord
  BY NoneElse DEF ReleaseFence, FenceKeeps, current, reaping, FenceInv, FenceTypes
<1>2. \A p \in pending : ~IsAdmission(p)
  BY <1>1, NoAdmission
<1>3. Free => Free'
  BY <1>1 DEF FenceKeeps, Free, ActiveRuns
<1>4. CASE /\ fence.child # None /\ fence.child = child /\ CanAsk("open", f, 0)
           /\ fence' = [fence EXCEPT !.waits = "open"] /\ Sends("open", f, 0)
  <2>1. /\ fence' \in FenceRecord /\ fence'.id = f /\ fence'.child = child /\ fence'.waits = "open"
        /\ fence'.acknowledged = fence.acknowledged
    BY <1>1, <1>4 DEF FenceRecord
  <2>2. Own' = f /\ Own = f /\ Shut' = Shut
    BY <1>1, <1>4, <2>1 DEF Own, Shut, FenceKeeps
  <2>3. Free /\ Drained'
    BY <1>1, <1>3, <1>4, <2>1 DEF FenceInv, Drained, Fenced, FenceKeeps
  <2>4. PICK q \in Requests :
          /\ q.method = "open" /\ q.of = f /\ q \notin pending \cup expired
          /\ pending' = pending \cup {q} /\ Writes(q)
    BY <1>4, RequestIs
  <2>5. IsAdmission(q) /\ q.of = Own' /\ fence'.waits = q.method
    BY <2>1, <2>2, <2>4 DEF IsAdmission
  <2> QED BY <1>1, <1>2, <1>4, <2>1, <2>2, <2>3, <2>4, <2>5, FenceMoves
<1>5. CASE /\ fence.child = None \/ fence.child # child
           /\ fence' = NoFence /\ UNCHANGED requests
  <2>1. CASE fence' = NoFence
    <3>1. /\ fence' \in FenceRecord /\ fence'.id = None /\ fence'.child = None /\ fence'.waits = "none"
          /\ ~fence'.acknowledged
      BY <2>1 DEF FenceRecord, NoFence
    <3>2. Drained' /\ ~Fenced'
      BY <1>1, <3>1 DEF Drained, Fenced, FenceKeeps
    <3>3. child # None => Own' = None /\ Own = None /\ ~Shut'
      BY <1>1, <1>5, <3>1 DEF Own, Shut, FenceKeeps
    <3> QED BY <1>1, <1>2, <1>5, <3>1, <3>2, <3>3, FenceMoves DEF requests
  <2> QED BY <1>5, <2>1
<1> QED BY <1>4, <1>5 DEF ReleaseFence
-----------------------------------------------------------------------------
(* The reading of the activity.                                             *)
LEMMA ObservesIs ==
  /\ Observes \in Requests /\ Observes.method = "activity" /\ IsTracked(Observes)
  /\ ~IsAdmission(Observes) /\ ~IsFenced(Observes)
BY DEF Observes, Request, Asked, Requests, Readings, IsTracked, IsAdmission, IsFenced, FencedMethods

(* What an answer on its way is about, when none was asked for.             *)
LEMMA Unasked ==
  ASSUME WorkerInv, FenceInv, child # None, ~watch.slot
  PROVE  ~SaysSo(child)
<1>1. PICK w, known, out, in, ops, held :
        w = child /\ known = Outstanding /\ out = toApp[w] /\ in = toWorker[w] /\ ops = host[w].ops /\ held = host[w].fence
  OBVIOUS
<1>2. OnePlace(known, ops, in, out)
  BY <1>1 DEF FenceInv, Ordered, LineOf, Line
<1>3. \A q \in known : q.method # "activity"
  BY <1>1 DEF Outstanding, FenceInv, Tables
<1>4. SUFFICES ASSUME NEW k \in 1..Len(out), SaysIdle(out[k]) PROVE FALSE
  BY <1>1 DEF SaysSo
<1>5. out[k].of \in known
  BY <1>2, <1>4 DEF OnePlace, SaysIdle, IsTracked
<1> QED BY <1>3, <1>4, <1>5 DEF SaysIdle

WatchKeeps ==
  UNCHANGED <<child, ready, starting, terminating, failure, uncertain, run, call, pending, expired,
              fence, host, toApp>>

LEMMA WatchAlone ==
  ASSUME WorkerInv, FenceInv, WatchKeeps, watch' \in WatchRecord, Vouched'
  PROVE  /\ FenceTypes' /\ Tables' /\ Drained' /\ Decided' /\ Births'
         /\ watch'.slot = watch.slot /\ UNCHANGED toWorker => Ordered'
<1>1. FenceTypes' /\ Tables' /\ Decided' /\ Births'
  BY DEF WatchKeeps, FenceInv, FenceTypes, Tables, Decided, Settled, Births, Born, Workers
<1>2. Drained'
  BY DEF WatchKeeps, FenceInv, Drained, Fenced, Free, ActiveRuns
<1>3. ASSUME watch'.slot = watch.slot, UNCHANGED toWorker PROVE Ordered'
  BY <1>3 DEF WatchKeeps, FenceInv, Ordered, LineOf, Outstanding, Own, Shut
<1> QED BY <1>1, <1>2, <1>3

LEMMA ReadActivityFence ==
  ASSUME WorkerInv, FenceInv, ReadActivity
  PROVE  FenceInv'
<1>1. PICK idle : idle = (/\ ~Accepted /\ ~uncertain /\ ~failure
                          /\ \A r \in Runs : run[r].ask = "none"
                          /\ unreaped = IF child = None THEN {} ELSE {child})
  OBVIOUS
<1>2. idle \in BOOLEAN
  BY <1>1
<1>3. WatchKeeps /\ ~watch.slot
  BY DEF ReadActivity, WatchKeeps, current, reaping
<1>4. (idle => Still) /\ (Still => Still')
  <2>1. idle => Still
    BY <1>1 DEF Accepted, Tasks, Still
  <2> QED BY <1>3, <2>1 DEF Still, WatchKeeps, ActiveRuns
<1>5. CASE /\ child # None
           /\ watch' = [NoWatch EXCEPT !.slot = TRUE, !.reading = TRUE, !.idle = idle]
           /\ Writes(Observes)
  <2>1. /\ watch' \in WatchRecord /\ watch'.slot = TRUE /\ watch'.reading = TRUE /\ watch'.idle = idle
        /\ watch'.proof = FALSE
    BY <1>2, <1>5 DEF NoWatch, WatchRecord
  <2>2. Vouched'
    <3>1. ~SaysSo(child)'
      BY <1>3, <1>5, Unasked DEF SaysSo, WatchKeeps
    <3> QED BY <1>3, <1>4, <2>1, <3>1 DEF Vouched, Reading, WatchKeeps
  <2>3. FenceTypes' /\ Tables' /\ Drained' /\ Decided' /\ Births'
    BY <1>3, <2>1, <2>2, WatchAlone
  <2>4. Ordered'
    <3>1. PICK w, known, known2, pend, own, shut :
            /\ w \in Workers /\ w = child /\ known = Outstanding /\ known2 = known \cup {Observes}
            /\ pend = pending /\ own = Own /\ shut = Shut
      BY <1>5 DEF WorkerInv, TypeInv, HostTypeInv
    <3>2. LineOf(w, known, pend, own, shut)
      BY <1>5, <3>1 DEF FenceInv, Ordered
    <3>3. Observes \notin known
      BY <1>3, <3>1, ObservesIs DEF Outstanding, FenceInv, Tables
    <3>4. own \notin Fences => own = None
      BY <3>1 DEF Own, FenceInv, FenceTypes, FenceRecord
    <3>5. child' = w /\ UNCHANGED <<host, toApp>>
      BY <1>3, <3>1 DEF WatchKeeps
    <3>6. LineOf(w, known2, pend \cup {Observes}, own, shut)'
      BY <1>5, <3>1, <3>2, <3>3, <3>4, <3>5, ObservesIs, LineWritten
    <3>7. LineOf(w, known2, pend, own, shut)'
      <4>1. PICK ops, held, in, out :
              ops = host'[w].ops /\ held = host'[w].fence /\ in = toWorker'[w] /\ out = toApp'[w]
        OBVIOUS
      <4>2. Line(known2, pend \cup {Observes}, own, shut, ops, held, in, out)
        BY <3>6, <4>1 DEF LineOf
      <4>3. Line(known2, pend, own, shut, ops, held, in, out)
        <5>1. known2 \subseteq known2 /\ pend \subseteq pend \cup {Observes}
          OBVIOUS
        <5> QED BY <4>2, <5>1, LineForgets
      <4> QED BY <4>1, <4>3 DEF LineOf
    <3>8. known2 = Outstanding' /\ pend = pending' /\ own = Own' /\ shut = Shut'
      BY <1>3, <2>1, <3>1 DEF Outstanding, Own, Shut, WatchKeeps
    <3> QED BY <3>1, <3>5, <3>7, <3>8, OrderedIf
  <2> QED BY <2>1, <2>2, <2>3, <2>4 DEF FenceInv
<1>6. CASE /\ child = None \/ ~ready
           /\ watch' = [NoWatch EXCEPT !.proof = idle] /\ UNCHANGED toWorker
  <2>1. /\ watch' \in WatchRecord /\ watch'.slot = FALSE /\ watch'.reading = FALSE /\ watch'.proof = idle
    BY <1>2, <1>6 DEF NoWatch, WatchRecord
  <2>2. idle => child = None
    BY <1>1, <1>6 DEF WorkerInv, Processes, Accepted, Tasks
  <2>3. Vouched'
    BY <1>3, <1>4, <2>1, <2>2 DEF Vouched, Reading, WatchKeeps
  <2>4. watch'.slot = watch.slot
    BY <1>3, <2>1 DEF FenceInv, FenceTypes, WatchRecord
  <2> QED BY <1>3, <1>6, <2>1, <2>3, <2>4, WatchAlone DEF FenceInv
<1> QED BY <1>1, <1>5, <1>6 DEF ReadActivity, Observes

LEMMA ReadTimesOutFence ==
  ASSUME WorkerInv, FenceInv, ReadTimesOut
  PROVE  FenceInv'
<1>1. WatchKeeps /\ watch.slot /\ UNCHANGED toWorker
  BY DEF ReadTimesOut, WatchKeeps, current, reaping, hostVars, FenceInv, Vouched
<1>2. watch' \in WatchRecord /\ watch'.slot = TRUE /\ watch'.reading = FALSE /\ watch'.proof = FALSE
  BY DEF ReadTimesOut, NoWatch, WatchRecord
<1>3. Vouched'
  BY <1>2 DEF Vouched, Reading
<1>4. watch'.slot = watch.slot
  BY <1>1, <1>2 DEF FenceInv, FenceTypes, WatchRecord
<1> QED BY <1>1, <1>2, <1>3, <1>4, WatchAlone DEF FenceInv
-----------------------------------------------------------------------------
(* The worker fails.                                                        *)
Ebbs(x, y) ==
  /\ Active(y) => Active(x)
  /\ x.at \in {"none", "done"} => y.at \in {"none", "done"}
  /\ Settled(x) => Settled(y)

LEMMA RestoredGoes ==
  ASSUME NEW x, IsRun(x), NEW question
  PROVE  Alike(x, Restored(x, question))
<1>1. CASE Restored(x, question) = x
  BY <1>1 DEF Alike
<1>2. CASE Restored(x, question) = [x EXCEPT !.ask = "offered"]
  <2>1. PICK y : y = [x EXCEPT !.ask = "offered"]
    OBVIOUS
  <2>2. Alike(x, y)
    BY <2>1 DEF Alike, IsRun, RunFields
  <2> QED BY <1>2, <2>1, <2>2
<1> QED BY <1>1, <1>2 DEF Restored

LEMMA RejectedEbbs ==
  ASSUME NEW x, IsRun(x)
  PROVE  Ebbs(x, RequestsRejected(x))
<1>1. PICK y : y = Restored(x, x.question)
  OBVIOUS
<1>2. IsRun(y) /\ y.at = x.at /\ y.phase = x.phase /\ y.outcome = x.outcome
  BY <1>1, RestoredGoes DEF Alike
<1>3. PICK at, s : /\ at = IF y.at \in {"starting", "reply"} THEN "done" ELSE y.at
                   /\ s = IF y.stopping = "none" THEN y.stopping ELSE "no"
  OBVIOUS
<1>4. PICK z : z = [y EXCEPT !.at = at, !.stopping = s]
  OBVIOUS
<1>5. RequestsRejected(x) = z
  BY <1>1, <1>3, <1>4 DEF RequestsRejected
<1>6. z.at = at /\ z.phase = y.phase /\ z.outcome = y.outcome
  BY <1>2, <1>4 DEF IsRun, RunFields
<1> QED BY <1>2, <1>3, <1>5, <1>6 DEF Ebbs, Active, Settled

LEMMA WorkerFailsFence ==
  ASSUME WorkerInv, FenceInv, child # None, NEW X, \A r \in Runs : Alike(run[r], X[r]), WorkerFails(X)
  PROVE  FenceInv'
<1>1. /\ child' = None /\ starting' = FALSE /\ pending' = {} /\ expired' = {} /\ watch' = NoWatch
      /\ UNCHANGED <<failure, uncertain>>
  BY DEF WorkerFails
<1>2. \A r \in Runs : Ebbs(run[r], run'[r])
  <2> SUFFICES ASSUME NEW r \in Runs PROVE Ebbs(run[r], run'[r])
    OBVIOUS
  <2>1. run'[r] = RequestsRejected(X[r])
    BY DEF WorkerFails
  <2>2. IsRun(X[r]) /\ X[r].at = run[r].at /\ X[r].phase = run[r].phase /\ X[r].outcome = run[r].outcome
    BY DEF Alike
  <2>3. Ebbs(X[r], run'[r])
    BY <2>1, <2>2, RejectedEbbs
  <2> QED BY <2>2, <2>3 DEF Ebbs, Active, Settled
<1>3. /\ fence \in FenceRecord /\ fence' \in FenceRecord /\ fence'.id = fence.id /\ fence'.child = fence.child
      /\ fence'.acknowledged = fence.acknowledged
  <2>1. fence \in FenceRecord /\ fence' = [fence EXCEPT !.waits = "none"]
    BY DEF WorkerFails, FenceInv, FenceTypes
  <2> QED BY <2>1 DEF FenceRecord
<1>4. /\ call' \in [Calls -> CallStates]
      /\ \A c \in Calls : call[c] \in {"idle", "reply"} => call'[c] \in {"idle", "reply"}
  BY DEF WorkerFails, FenceInv, FenceTypes, CallStates
<1>5. FenceTypes'
  BY <1>1, <1>3, <1>4 DEF FenceTypes, WatchRecord, NoWatch, Workers, FenceRecord
<1>6. Free => Free'
  BY <1>1, <1>2, <1>4 DEF Free, Ebbs, ActiveRuns
<1>7. Drained'
  BY <1>1, <1>3, <1>6 DEF FenceInv, Drained, Fenced
<1>8. Decided'
  BY <1>1, <1>2 DEF FenceInv, Decided, Ebbs, Settled
<1>9. Births'
  <2>1. \A w \in Workers : Born(w) => Born(w)'
    <3>1. PICK v \in Workers : v = child /\ host' = [host EXCEPT ![v].heard = FALSE] /\ host \in [Workers -> HostRecord]
      BY DEF WorkerFails, WorkerInv, TypeInv, HostTypeInv
    <3> SUFFICES ASSUME NEW w \in Workers PROVE Born(w) => Born(w)'
      OBVIOUS
    <3>2. CASE w = v
      <4>1. host'[w] = [host[w] EXCEPT !.heard = FALSE] /\ host[w] \in HostRecord
        BY <3>1, <3>2
      <4> QED BY <4>1 DEF Born, HostRecord
    <3>3. CASE w # v
      BY <3>1, <3>3 DEF Born
    <3> QED BY <3>2, <3>3
  <2>2. PICK v : v = fence.child
    OBVIOUS
  <2>3. v # None => v \in Workers /\ Born(v)
    BY <1>3, <2>2 DEF FenceRecord, FenceInv, Births
  <2>4. fence'.child = v
    BY <1>3, <2>2
  <2> QED BY <1>1, <2>1, <2>3, <2>4 DEF Births, Born
<1>10. Tables'
  BY <1>1 DEF Tables
<1>11. Vouched'
  BY <1>1 DEF Vouched, Reading, NoWatch
<1>12. Ordered'
  BY <1>1 DEF Ordered
<1> QED BY <1>5, <1>7, <1>8, <1>9, <1>10, <1>11, <1>12 DEF FenceInv

LEMMA WorkerFailedFence ==
  ASSUME WorkerInv, FenceInv, child # None, WorkerFails(run)
  PROVE  FenceInv'
<1>1. \A r \in Runs : Alike(run[r], run[r])
  BY RunTypes, RunIs DEF Alike
<1> QED BY <1>1, WorkerFailsFence

LEMMA DoubtFence ==
  ASSUME WorkerInv, FenceInv, child # None, NEW result, WorkerFails(Doubtful(result))
  PROVE  FenceInv'
<1>1. PICK X : X = Doubtful(result)
  OBVIOUS
<1>2. ASSUME NEW r \in Runs PROVE Alike(run[r], X[r])
  <2>1. IsRun(run[r])
    BY RunTypes, RunIs
  <2>2. CASE result # "cleanup"
    BY <1>1, <2>1, <2>2 DEF Doubtful, Alike
  <2>3. CASE result = "cleanup"
    <3>1. PICK d : d = (run[r].doubtful \/ Active(run[r]))
      OBVIOUS
    <3>2. PICK y : y = [run[r] EXCEPT !.doubtful = d]
      OBVIOUS
    <3>3. X[r] = y
      BY <1>1, <2>3, <3>1, <3>2 DEF Doubtful
    <3>4. Alike(run[r], y)
      BY <2>1, <3>2 DEF Alike, IsRun, RunFields
    <3> QED BY <3>3, <3>4
  <2> QED BY <2>2, <2>3
<1> QED BY <1>1, <1>2, WorkerFailsFence
-----------------------------------------------------------------------------
(* A worker is asked for.                                                   *)
LEMMA EnsureIs ==
  ASSUME NEW reaped \in BOOLEAN, NEW X, NEW R, NEW C, call \in [Calls -> CallStates], Ensure(X, R, C, reaped)
  PROVE  /\ \A r \in Runs :
              \/ r \notin R /\ run'[r] = X[r]
              \/ r \in R /\ \E for \in {"termination", "ready", "starting"} : run'[r] = [X[r] EXCEPT !.at = for]
              \/ r \in R /\ run'[r] = [Finished(X[r], DefaultOutcome(X[r])) EXCEPT !.at = "done"]
         /\ call' \in [Calls -> CallStates] /\ (C = {} => call' = call)
         /\ R \cup C = {} => UNCHANGED <<child, ready, starting, pending, toWorker, host>>
<1>1. \/ \E for \in {"termination", "ready", "starting"} :
           /\ run' = [r \in Runs |-> IF r \in R THEN [X[r] EXCEPT !.at = for] ELSE X[r]]
           /\ call' = [c \in Calls |-> IF c \in C THEN for ELSE call[c]]
      \/ /\ run' = [r \in Runs |-> IF r \notin R THEN X[r]
                                   ELSE [Finished(X[r], DefaultOutcome(X[r])) EXCEPT !.at = "done"]]
         /\ call' = [c \in Calls |-> IF c \in C THEN "idle" ELSE call[c]]
  BY DEF Ensure
<1>2. R \cup C = {} => UNCHANGED <<child, ready, starting, pending, toWorker, host>>
  BY DEF Ensure, current, requests
<1>3. call' \in [Calls -> CallStates] /\ (C = {} => call' = call)
  BY <1>1 DEF CallStates
<1>4. ASSUME NEW r \in Runs
      PROVE  \/ r \notin R /\ run'[r] = X[r]
             \/ r \in R /\ \E for \in {"termination", "ready", "starting"} : run'[r] = [X[r] EXCEPT !.at = for]
             \/ r \in R /\ run'[r] = [Finished(X[r], DefaultOutcome(X[r])) EXCEPT !.at = "done"]
  BY <1>1
<1> QED BY <1>2, <1>3, <1>4

LEMMA EnsuredSettled ==
  ASSUME NEW x, IsRun(x), Settled(x), NEW y,
         \/ y = x
         \/ \E for \in {"termination", "ready", "starting"} : y = [x EXCEPT !.at = for]
         \/ y = [Finished(x, DefaultOutcome(x)) EXCEPT !.at = "done"]
  PROVE  Settled(y)
<1>1. CASE y = x
  BY <1>1
<1>2. ASSUME NEW for, y = [x EXCEPT !.at = for] PROVE Settled(y)
  <2>1. y.phase = x.phase /\ y.outcome = x.outcome
    BY <1>2 DEF IsRun, RunFields
  <2> QED BY <2>1 DEF Settled
<1>3. CASE y = [Finished(x, DefaultOutcome(x)) EXCEPT !.at = "done"]
  <2>1. PICK z : z = Finished(x, DefaultOutcome(x))
    OBVIOUS
  <2>2. Goes(x, z) /\ IsRun(z)
    BY <2>1, FinishedGoes, DefaultOutcomeIs
  <2>3. y.phase = z.phase /\ y.outcome = z.outcome
    BY <1>3, <2>1, <2>2 DEF IsRun, RunFields
  <2> QED BY <2>2, <2>3 DEF Goes, Settled
<1> QED BY <1>1, <1>2, <1>3

LEMMA FirstLine ==
  ASSUME NEW q \in Requests, q.method = "initialize", NEW known, q \in known
  PROVE  Line(known, {q}, None, FALSE, {}, None, <<q>>, <<>>)
<1>1. PICK none : none = <<>> /\ (\A i : i \notin 1..Len(none)) /\ none \in Seq(Requests) /\ none \in Seq(Frames)
  <2>1. \A i : i \notin 1..Len(<<>>)
    OBVIOUS
  <2>2. <<>> \in Seq(Requests) /\ <<>> \in Seq(Frames)
    OBVIOUS
  <2> QED BY <2>1, <2>2
<1>2. Line({}, {}, None, FALSE, {}, None, none, none)
  <2>1. OnePlace({}, {}, none, none) /\ OfOneFence(None, None, none, none)
    BY <1>1 DEF OnePlace, OfOneFence
  <2>2. LastWord({}, None, none, none) /\ Shielded(FALSE, none, none)
    BY <1>1 DEF LastWord, Shielded
  <2> QED BY <2>1, <2>2 DEF Line
<1>3. Append(none, q) = <<q>> /\ {} \cup {q} = {q} /\ ~IsAdmission(q)
  BY <1>1 DEF IsAdmission
<1>4. PICK pend, known0 : pend = {} /\ known0 = {}
  OBVIOUS
<1>5. Line(known, pend \cup {q}, None, FALSE, {}, None, Append(none, q), none)
  <2>1. known0 \subseteq known /\ q \notin known0
    BY <1>4
  <2> QED BY <1>1, <1>2, <1>3, <1>4, <2>1, NoneElse, LineSent
<1>6. pend \cup {q} = {q}
  BY <1>4
<1> QED BY <1>1, <1>3, <1>5, <1>6

LEMMA EnsureFence ==
  ASSUME WorkerInv, FenceInv, NEW reaped \in BOOLEAN, NEW X, \A r \in Runs : IsRun(X[r]) /\ Settled(X[r]),
         NEW R, NEW C, Ensure(X, R, C, reaped), Touch, UNCHANGED <<failure, fence, expired, toApp>>,
         child = None \/ UNCHANGED uncertain,
         \A r \in Runs : run[r].at = "reply" => r \notin R /\ X[r].at = "reply",
         \/ fence.id = None
         \/ Free => R = {} /\ C = {} /\ \A r \in Runs : Ebbs(run[r], X[r])
  PROVE  FenceInv'
<1>1. /\ \A r \in Runs :
              \/ r \notin R /\ run'[r] = X[r]
              \/ r \in R /\ \E for \in {"termination", "ready", "starting"} : run'[r] = [X[r] EXCEPT !.at = for]
              \/ r \in R /\ run'[r] = [Finished(X[r], DefaultOutcome(X[r])) EXCEPT !.at = "done"]
      /\ call' \in [Calls -> CallStates] /\ (C = {} => call' = call)
      /\ R \cup C = {} => UNCHANGED <<child, ready, starting, pending, toWorker, host>>
  BY EnsureIs DEF FenceInv, FenceTypes
<1>2. \/ UNCHANGED <<child, ready, starting, pending, toWorker, host>>
      \/ /\ ~failure /\ (terminating = None \/ reaped) /\ ~ready /\ ~starting
         /\ \E w : Spawned(w)
  BY EnsureWorker
<1>3. Vouched' /\ watch' \in WatchRecord /\ watch'.slot = watch.slot
  BY VouchedTouch
<1>4. FenceTypes'
  BY <1>1, <1>3 DEF FenceInv, FenceTypes, Workers
<1>5. Decided'
  <2> SUFFICES ASSUME NEW r \in Runs PROVE Settled(run[r])'
    BY DEF Decided
  <2>1. Settled(run'[r])
    BY <1>1, EnsuredSettled
  <2> QED BY <2>1 DEF Settled
<1>6. \A q \in pending : q.method = "start" => run'[q.of].at = "reply"
  <2> SUFFICES ASSUME NEW q \in pending, q.method = "start" PROVE run'[q.of].at = "reply"
    OBVIOUS
  <2>1. q \in Requests
    BY DEF WorkerInv, TypeInv, HostTypeInv
  <2>2. q.of \in Runs
    BY <2>1 DEF Requests, Plain, StartRequests, RunRequests, CallRequests, FenceRequests, OwnRequests, Readings
  <2>3. run[q.of].at = "reply"
    BY DEF FenceInv, Tables
  <2>4. run'[q.of] = X[q.of]
    BY <1>1, <2>2, <2>3
  <2> QED BY <2>2, <2>3, <2>4
<1>7. fence.id # None /\ Fenced => R \cup C = {} /\ ((starting' = starting) => Free')
  <2> SUFFICES ASSUME fence.id # None, Fenced PROVE R \cup C = {} /\ ((starting' = starting) => Free')
    OBVIOUS
  <2>1. Free /\ R = {} /\ C = {}
    BY DEF FenceInv, Drained
  <2>2. \A r \in Runs : Ebbs(run[r], run'[r])
    BY <1>1, <2>1
  <2>3. call' = call
    BY <1>1, <2>1
  <2> QED BY <2>1, <2>2, <2>3 DEF Free, Ebbs, ActiveRuns
<1>8. CASE UNCHANGED <<child, ready, starting, pending, toWorker, host>>
  <2>1. Tables'
    BY <1>6, <1>8 DEF FenceInv, Tables
  <2>2. Drained'
    BY <1>7, <1>8 DEF FenceInv, Drained, Fenced
  <2>3. Births'
    BY <1>8 DEF FenceInv, Births, Born
  <2>4. Ordered'
    <3>1. CASE child = None
      BY <1>8, <3>1 DEF Ordered
    <3>2. CASE child # None
      BY <1>3, <1>8, <3>2 DEF FenceInv, Ordered, LineOf, Outstanding, Own, Shut
    <3> QED BY <3>1, <3>2
  <2> QED BY <1>3, <1>4, <1>5, <2>1, <2>2, <2>3, <2>4 DEF FenceInv
<1>9. ASSUME ~ready, ~starting, NEW w, Spawned(w) PROVE FenceInv'
  <2>1. PICK q : q = Request("initialize", None, 1)
    OBVIOUS
  <2>2. q \in Requests /\ q.method = "initialize"
    BY <2>1 DEF Request, Asked, Requests, Plain, OwnRequests
  <2>3. child = None /\ pending = {} /\ expired = {}
    BY <1>9 DEF WorkerInv, Processes, FenceInv, Tables
  <2>4. w \in Workers /\ w # None /\ child' = w /\ pending' = {q} /\ host[w] = UnbornHost
    BY <1>9, <2>1, <2>3, NoneElse DEF Spawned
  <2>5. host' = [host EXCEPT ![w] = NewHost] /\ toWorker' = [toWorker EXCEPT ![w] = <<q>>]
    BY <1>9, <2>1 DEF Spawned
  <2>6. host \in [Workers -> HostRecord] /\ toWorker \in [Workers -> Seq(Requests)] /\ fence \in FenceRecord
    BY DEF WorkerInv, TypeInv, HostTypeInv, FenceInv, FenceTypes
  <2>7. host'[w] = NewHost /\ toWorker'[w] = <<q>> /\ (\A v \in Workers : v # w => host'[v] = host[v])
    BY <2>4, <2>5, <2>6
  <2>8. toApp'[w] = <<>>
    BY <2>3, <2>4 DEF WorkerInv, Processes
  <2>9. fence.child # w
    <3>1. ~Born(w)
      BY <2>4, BlankIs DEF Born, UnbornHost, NewHost
    <3> QED BY <2>4, <3>1 DEF FenceInv, Births
  <2>10. ~Fenced' /\ Own' = None /\ Shut' = FALSE
    <3>1. child' # child
      BY <2>3, <2>4
    <3>2. fence.acknowledged => fence.id # None /\ Fenced
      BY DEF FenceInv, Drained, Fenced
    <3>3. ~fence.acknowledged
      BY <1>1, <1>7, <3>1, <3>2
    <3> QED BY <2>4, <2>6, <2>9, <3>3 DEF Fenced, Own, Shut, FenceRecord
  <2>11. Drained'
    BY <2>10 DEF Drained
  <2>12. Tables'
    <3>1. \A p \in pending' : p = q
      BY <2>4
    <3>2. expired' = {}
      BY <2>3
    <3> QED BY <2>2, <3>1, <3>2 DEF Tables, IsAdmission
  <2>13. Births'
    <3>1. host'[w].up /\ host'[w].heard
      BY <2>7, BlankIs DEF NewHost
    <3>2. PICK v : v = fence.child
      OBVIOUS
    <3>3. v # None => v \in Workers /\ Born(v) /\ v # w
      BY <2>6, <2>9, <3>2 DEF FenceRecord, FenceInv, Births
    <3>4. v # None => Born(v)'
      BY <2>7, <3>3 DEF Born
    <3> QED BY <2>4, <3>1, <3>2, <3>4 DEF Births, Born
  <2>14. Ordered'
    <3>1. PICK known, pend : known = Outstanding' /\ pend = {q}
      OBVIOUS
    <3>2. q \in known
      BY <2>4, <3>1 DEF Outstanding
    <3>3. Line(known, {q}, None, FALSE, {}, None, <<q>>, <<>>)
      BY <2>2, <3>2, FirstLine
    <3>4. host'[w].ops = {} /\ host'[w].fence = None
      BY <2>7, BlankIs DEF NewHost
    <3>5. Line(known, pend, None, FALSE, host'[w].ops, host'[w].fence, toWorker'[w], toApp'[w])
      BY <2>7, <2>8, <3>1, <3>3, <3>4
    <3>6. LineOf(w, known, pend, None, FALSE)'
      BY <3>5 DEF LineOf
    <3>7. pend = pending'
      BY <2>4, <3>1
    <3> QED BY <2>4, <2>10, <3>1, <3>6, <3>7, OrderedIf
  <2> QED BY <1>3, <1>4, <1>5, <2>11, <2>12, <2>13, <2>14 DEF FenceInv
<1> QED BY <1>2, <1>8, <1>9

LEMMA SpawnRunFence ==
  ASSUME WorkerInv, FenceInv, NEW r \in Runs, SpawnRun(r)
  PROVE  FenceInv'
<1>1. run[r] = NoRun /\ run \in [Runs -> RunRecord] /\ IsRun(NoRun) /\ NoRun.outcome = "none" /\ NoRun.at = "none"
  BY NoRunIs, RunIs DEF SpawnRun, WorkerInv, TypeInv, HostTypeInv
<1>2. Touch /\ UNCHANGED <<failure, fence, expired, toApp, uncertain>>
  BY DEF SpawnRun, reaping
<1>3. PICK x : x = [NoRun EXCEPT !.phase = "registered"]
  OBVIOUS
<1>4. IsRun(x) /\ x.phase = "registered" /\ x.at = "none" /\ x.outcome = "none"
  BY <1>1, <1>3 DEF IsRun, RunFields
<1>5. ASSUME fence.id = None, Ensure([run EXCEPT ![r] = x], {r}, {}, FALSE)
      PROVE  FenceInv'
  <2>1. PICK X : X = [run EXCEPT ![r] = x]
    OBVIOUS
  <2>2. X[r] = x /\ \A s \in Runs : s # r => X[s] = run[s]
    BY <1>1, <2>1
  <2>3. \A s \in Runs : IsRun(X[s]) /\ Settled(X[s])
    <3>1. Settled(x)
      BY <1>4 DEF Settled
    <3>2. \A s \in Runs : IsRun(run[s]) /\ Settled(run[s])
      BY RunTypes, RunIs DEF FenceInv, Decided
    <3> QED BY <1>4, <2>2, <3>1, <3>2
  <2>4. \A s \in Runs : run[s].at = "reply" => s \notin {r} /\ X[s].at = "reply"
    BY <1>1, <2>2
  <2>5. Ensure(X, {r}, {}, FALSE)
    BY <1>5, <2>1
  <2> QED BY <1>2, <1>5, <2>3, <2>4, <2>5, EnsureFence
<1>6. ASSUME UNCHANGED <<current, call, requests, host>>,
             run' = [run EXCEPT ![r] = [x EXCEPT !.phase = "over", !.at = "done", !.outcome = "not_started"]]
      PROVE  FenceInv'
  <2>1. PICK y : y = [x EXCEPT !.phase = "over", !.at = "done", !.outcome = "not_started"]
    OBVIOUS
  <2>2. y.phase = "over" /\ y.at = "done" /\ y.outcome = "not_started"
    BY <1>4, <2>1 DEF IsRun, RunFields
  <2>3. Goes(run[r], y)
    BY <1>1, <2>2 DEF Goes, Active, Settled
  <2>4. run' = [run EXCEPT ![r] = y] /\ UNCHANGED <<child, host, call, starting, pending, toWorker>>
    BY <1>6, <2>1 DEF current, requests
  <2> QED BY <1>2, <2>3, <2>4, OneGoes, CalmStep
<1> QED BY <1>1, <1>3, <1>5, <1>6 DEF SpawnRun

LEMMA MakeCallFence ==
  ASSUME WorkerInv, FenceInv, NEW c \in Calls, MakeCall(c)
  PROVE  FenceInv'
<1>1. /\ Touch /\ UNCHANGED <<failure, fence, expired, toApp, uncertain>> /\ fence.id = None
      /\ Ensure(run, {}, {c}, FALSE)
  BY DEF MakeCall, reaping
<1>2. PICK X, R, C : X = run /\ R = {} /\ C = {c}
  OBVIOUS
<1>3. \A s \in Runs : IsRun(X[s]) /\ Settled(X[s])
  BY <1>2, RunTypes, RunIs DEF FenceInv, Decided
<1>4. Ensure(X, R, C, FALSE) /\ \A s \in Runs : run[s].at = "reply" => s \notin R /\ X[s].at = "reply"
  BY <1>1, <1>2
<1> QED BY <1>1, <1>3, <1>4, EnsureFence

LEMMA ReapedFence ==
  ASSUME WorkerInv, FenceInv, Reaped
  PROVE  FenceInv'
<1>1. Touch /\ UNCHANGED <<failure, fence, expired, toApp>> /\ child = None
  BY DEF Reaped, WorkerInv, Processes
<1>2. PICK X : X = [r \in Runs |-> IF r \in affected THEN Finished(run[r], "reaped") ELSE run[r]]
  OBVIOUS
<1>3. Ensure(X, WaitingRuns, WaitingCalls, TRUE)
  BY <1>2 DEF Reaped
<1>4. ASSUME NEW r \in Runs
      PROVE  Goes(run[r], X[r]) /\ IsRun(X[r]) /\ X[r].at = run[r].at
  <2>1. IsRun(run[r])
    BY RunTypes, RunIs
  <2>2. CASE r \in affected
    <3>1. X[r] = Finished(run[r], "reaped")
      BY <1>2, <2>2
    <3> QED BY <2>1, <3>1, FinishedGoes DEF Endings
  <2>3. CASE r \notin affected
    <3>1. X[r] = run[r]
      BY <1>2, <2>3
    <3> QED BY <2>1, <3>1 DEF Goes
  <2> QED BY <2>2, <2>3
<1>5. \A r \in Runs : IsRun(X[r]) /\ Settled(X[r])
  BY <1>4 DEF Goes, FenceInv, Decided
<1>6. \A r \in Runs : run[r].at = "reply" => r \notin WaitingRuns /\ X[r].at = "reply"
  BY <1>4 DEF WaitingRuns
<1>7. Free => WaitingRuns = {} /\ WaitingCalls = {} /\ \A r \in Runs : Ebbs(run[r], X[r])
  <2>1. \A r \in Runs : Ebbs(run[r], X[r])
    BY <1>4 DEF Goes, Ebbs
  <2>2. Free => WaitingRuns = {} /\ WaitingCalls = {}
    BY DEF Free, WaitingRuns, WaitingCalls
  <2> QED BY <2>1, <2>2
<1> HIDE DEF WaitingRuns, WaitingCalls
<1> QED BY <1>1, <1>3, <1>5, <1>6, <1>7, EnsureFence

LEMMA ReapFailsFence ==
  ASSUME WorkerInv, FenceInv, ReapFails
  PROVE  FenceInv'
<1>1. /\ child = None /\ failure' = TRUE /\ Touch
      /\ UNCHANGED <<child, starting, pending, toWorker, uncertain, expired, fence, host, toApp>>
      /\ expired = {} /\ pending = {}
  BY DEF ReapFails, WorkerInv, Processes, current, requests, FenceInv, Tables
<1>2. ASSUME NEW r \in Runs
      PROVE  /\ run'[r].phase = "over" => run'[r].outcome # "none"
             /\ Active(run'[r]) => Active(run[r])
             /\ run[r].at \in {"none", "done"} => run'[r].at \in {"none", "done"}
  <2>1. PICK x : x = run[r] /\ IsRun(x) /\ Settled(x)
    BY RunTypes, RunIs DEF FenceInv, Decided
  <2>2. PICK o : o = IF r \in affected /\ x.outcome = "none" THEN "unconfirmed" ELSE x.outcome
    OBVIOUS
  <2>3. PICK y : y = IF r \in affected /\ x.outcome = "none" THEN [x EXCEPT !.outcome = "unconfirmed"] ELSE x
    OBVIOUS
  <2>4. IsRun(y) /\ y.phase = x.phase /\ y.at = x.at /\ y.outcome = o
    BY <2>1, <2>2, <2>3 DEF IsRun, RunFields
  <2>5. y.phase = "over" => y.outcome # "none"
    BY <2>1, <2>2, <2>4 DEF Settled
  <2>6. PICK z : z = Finished(y, DefaultOutcome(y))
    OBVIOUS
  <2>7. IsRun(z) /\ (z.phase = "over" => z.outcome # "none") /\ (Active(z) => Active(y))
    <3>1. DefaultOutcome(y) # "none"
      BY DefaultOutcomeIs DEF Endings
    <3>2. z = y \/ (IsRun(z) /\ z.phase = "over" /\ z.outcome = IF y.outcome = "none" THEN DefaultOutcome(y) ELSE y.outcome)
      BY <2>4, <2>6, FinishedIs
    <3> QED BY <2>4, <2>5, <3>1, <3>2 DEF Active
  <2>8. run'[r] = IF r \in WaitingRuns THEN [z EXCEPT !.at = "done"] ELSE y
    BY <2>1, <2>3, <2>6 DEF ReapFails
  <2>9. CASE r \notin WaitingRuns
    <3>1. run'[r] = y
      BY <2>8, <2>9
    <3> QED BY <2>1, <2>4, <2>5, <3>1 DEF Active
  <2>10. CASE r \in WaitingRuns
    <3>1. PICK u : u = [z EXCEPT !.at = "done"]
      OBVIOUS
    <3>2. u.at = "done" /\ u.phase = z.phase /\ u.outcome = z.outcome
      BY <2>7, <3>1 DEF IsRun, RunFields
    <3>3. run'[r] = u
      BY <2>8, <2>10, <3>1
    <3> QED BY <2>1, <2>4, <2>7, <3>2, <3>3 DEF Active
  <2> QED BY <2>9, <2>10
<1>3. /\ call' \in [Calls -> CallStates]
      /\ \A c \in Calls : call[c] \in {"idle", "reply"} => call'[c] \in {"idle", "reply"}
  BY DEF ReapFails, FenceInv, FenceTypes, CallStates
<1>4. Vouched' /\ watch' \in WatchRecord /\ watch'.slot = watch.slot
  BY <1>1, VouchedTouch
<1>5. FenceTypes'
  BY <1>1, <1>3, <1>4 DEF FenceInv, FenceTypes, Workers
<1>6. Tables' /\ Births' /\ Ordered'
  <2>1. Tables'
    BY <1>1 DEF Tables
  <2>2. Births'
    BY <1>1 DEF FenceInv, Births, Born
  <2> QED BY <1>1, <2>1, <2>2 DEF Ordered
<1>7. Decided'
  BY <1>1, <1>2 DEF Decided, Settled
<1>8. Free => Free'
  BY <1>1, <1>2, <1>3 DEF Free, ActiveRuns
<1>9. Drained'
  BY <1>1, <1>8 DEF FenceInv, Drained, Fenced
<1> QED BY <1>4, <1>5, <1>6, <1>7, <1>9 DEF FenceInv
-----------------------------------------------------------------------------
(* A request is answered, or given up.                                      *)
LEMMA PlainOf ==
  ASSUME NEW q \in Plain
  PROVE  /\ q.method \in {"start", "abort", "reply"} => q.of \in Runs
         /\ q.method \in {"query", "follow"} => q.of \in Calls
         /\ q.method # "activity" /\ q \in Requests
BY DEF Plain, Requests, StartRequests, RunRequests, CallRequests, FenceRequests, OwnRequests

LEMMA StartIsOne ==
  ASSUME NEW q \in Plain, NEW p \in Plain, q.method = "start", p.method = "start", p.of = q.of
  PROVE  p = q
BY DEF Plain, StartRequests, RunRequests, CallRequests, FenceRequests, OwnRequests

LEMMA RunAfterIs ==
  ASSUME WorkerInv, NEW q \in Plain, NEW result, run' = RunAfter(q, result), NEW r \in Runs
  PROVE  /\ run'[r].phase = run[r].phase /\ run'[r].outcome = run[r].outcome
         /\ \/ run'[r].at = run[r].at
            \/ q.method = "start" /\ q.of = r
            \/ q.method = "initialize" /\ run[r].at = "starting" /\ run'[r].at = "ready"
<1>1. run \in [Runs -> RunRecord] /\ IsRun(run[r])
  BY RunTypes, RunIs DEF WorkerInv, TypeInv, HostTypeInv
<1>2. CASE q.method = "start"
  <2>1. run' = [run EXCEPT ![q.of] = [run[q.of] EXCEPT !.at = "replied", !.answer = result]]
    BY <1>1, <1>2, PlainOf DEF RunAfter
  <2>2. CASE r = q.of
    <3>1. PICK y : y = [run[r] EXCEPT !.at = "replied", !.answer = result]
      OBVIOUS
    <3>2. run'[r] = y
      BY <1>1, <2>1, <2>2, <3>1
    <3>3. y.phase = run[r].phase /\ y.outcome = run[r].outcome
      BY <1>1, <3>1 DEF IsRun, RunFields
    <3> QED BY <1>2, <2>2, <3>2, <3>3
  <2>3. CASE r # q.of
    BY <1>1, <2>1, <2>3
  <2> QED BY <2>2, <2>3
<1>3. CASE q.method = "abort"
  <2>1. run' = [run EXCEPT ![q.of] = [run[q.of] EXCEPT !.stopping = AbortAnswer(result)]]
    BY <1>1, <1>3, PlainOf DEF RunAfter
  <2>2. CASE r = q.of
    <3>1. PICK y : y = [run[r] EXCEPT !.stopping = AbortAnswer(result)]
      OBVIOUS
    <3>2. run'[r] = y
      BY <1>1, <2>1, <2>2, <3>1
    <3>3. y.phase = run[r].phase /\ y.outcome = run[r].outcome /\ y.at = run[r].at
      BY <1>1, <3>1 DEF IsRun, RunFields
    <3> QED BY <3>2, <3>3
  <2>3. CASE r # q.of
    BY <1>1, <2>1, <2>3
  <2> QED BY <2>2, <2>3
<1>4. CASE q.method = "reply" /\ result # "ok"
  <2>1. run' = [run EXCEPT ![q.of] = Restored(run[q.of], q.ask)]
    BY <1>1, <1>4, PlainOf DEF RunAfter
  <2>2. Alike(run[r], Restored(run[r], q.ask))
    BY <1>1, RestoredGoes
  <2>3. run'[r] = run[r] \/ run'[r] = Restored(run[r], q.ask)
    BY <1>1, <2>1
  <2> QED BY <2>2, <2>3 DEF Alike
<1>5. CASE q.method = "initialize"
  <2>1. run'[r] = IF run[r].at = "starting" THEN [run[r] EXCEPT !.at = "ready"] ELSE run[r]
    BY <1>5 DEF RunAfter
  <2>2. CASE run[r].at = "starting"
    <3>1. PICK y : y = [run[r] EXCEPT !.at = "ready"]
      OBVIOUS
    <3>2. y.phase = run[r].phase /\ y.outcome = run[r].outcome /\ y.at = "ready"
      BY <1>1, <3>1 DEF IsRun, RunFields
    <3> QED BY <1>5, <2>1, <2>2, <3>1, <3>2
  <2> QED BY <2>1, <2>2
<1>6. CASE q.method \notin {"start", "abort", "initialize"} /\ ~(q.method = "reply" /\ result # "ok")
  BY <1>6 DEF RunAfter
<1> QED BY <1>2, <1>3, <1>4, <1>5, <1>6

LEMMA FenceAfterIs ==
  ASSUME NEW q, NEW result, fence \in FenceRecord, fence' = FenceAfter(q, result)
  PROVE  /\ fence' \in FenceRecord
         /\ ~IsAdmission(q) => fence' = fence
         /\ \/ q.method = "open" /\ result = "ok" /\ fence' = NoFence
            \/ /\ fence'.id = fence.id /\ fence'.child = fence.child
               /\ \/ fence'.acknowledged = fence.acknowledged
                  \/ q.method = "close" /\ result = "ok"
<1>1. CASE q.method = "close"
  <2>1. fence' = [fence EXCEPT !.waits = "none", !.acknowledged = fence.acknowledged \/ result = "ok"]
    BY <1>1 DEF FenceAfter
  <2>2. PICK a : a = (fence.acknowledged \/ result = "ok")
    OBVIOUS
  <2>3. fence' = [fence EXCEPT !.waits = "none", !.acknowledged = a] /\ a \in BOOLEAN
    BY <2>1, <2>2 DEF FenceRecord
  <2>4. fence' \in FenceRecord /\ fence'.id = fence.id /\ fence'.child = fence.child /\ fence'.acknowledged = a
    BY <2>3 DEF FenceRecord
  <2> QED BY <1>1, <2>2, <2>4 DEF IsAdmission, FenceRecord
<1>2. CASE q.method = "open"
  <2>1. CASE result = "ok"
    <3>1. fence' = NoFence
      BY <1>2, <2>1 DEF FenceAfter
    <3>2. NoFence \in FenceRecord
      BY DEF NoFence, FenceRecord
    <3> QED BY <1>2, <2>1, <3>1, <3>2 DEF IsAdmission
  <2>2. CASE result # "ok"
    <3>1. fence' = [fence EXCEPT !.waits = "none"]
      BY <1>2, <2>2 DEF FenceAfter
    <3> QED BY <1>2, <3>1 DEF FenceRecord, IsAdmission
  <2> QED BY <2>1, <2>2
<1>3. CASE q.method \notin {"close", "open"}
  BY <1>3 DEF FenceAfter, IsAdmission
<1> QED BY <1>1, <1>2, <1>3

LEMMA AnsweredFence ==
  ASSUME WorkerInv, FenceInv, NEW q \in Plain, q \in pending, NEW result, Answered(q, result),
         pending' = pending \ {q}, uncertain => uncertain',
         \/ expired' = expired
         \/ /\ expired' = expired \cup {q} /\ q.method \notin {"start", "initialize", "shutdown"}
            /\ uncertain' \/ IsAdmission(q),
         q.method = "close" /\ result = "ok" => fence.child = child,
         Ordered'
  PROVE  FenceInv'
<1>1. /\ run' = RunAfter(q, result) /\ call' = CallAfter(q) /\ fence' = FenceAfter(q, result)
      /\ UNCHANGED <<child, terminating, failure, host>> /\ Touch
      /\ (starting' = (starting /\ q.method # "initialize"))
  BY DEF Answered, reaping
<1>2. child # None /\ call \in [Calls -> CallStates] /\ fence \in FenceRecord
  BY DEF WorkerInv, Processes, FenceInv, FenceTypes
<1>3. ASSUME NEW r \in Runs
      PROVE  /\ run'[r].phase = run[r].phase /\ run'[r].outcome = run[r].outcome
             /\ \/ run'[r].at = run[r].at
                \/ q.method = "start" /\ q.of = r
                \/ q.method = "initialize" /\ run[r].at = "starting" /\ run'[r].at = "ready"
  BY <1>1, RunAfterIs
<1>4. /\ fence' \in FenceRecord
      /\ ~IsAdmission(q) => fence' = fence
      /\ \/ q.method = "open" /\ result = "ok" /\ fence' = NoFence
         \/ /\ fence'.id = fence.id /\ fence'.child = fence.child
            /\ \/ fence'.acknowledged = fence.acknowledged
               \/ q.method = "close" /\ result = "ok"
  BY <1>1, <1>2, FenceAfterIs
<1>5. Vouched' /\ watch' \in WatchRecord /\ watch'.slot = watch.slot
  BY <1>1, VouchedTouch
<1>6. /\ call' \in [Calls -> CallStates]
      /\ \A c \in Calls : call[c] \in {"idle", "reply"} => call'[c] \in {"idle", "reply"}
  <2>1. CASE q.method \in {"query", "follow"}
    <3>1. call' = [call EXCEPT ![q.of] = "idle"]
      BY <1>1, <2>1 DEF CallAfter
    <3> QED BY <1>2, <3>1 DEF CallStates
  <2>2. CASE q.method = "initialize"
    <3>1. call' = [c \in Calls |-> IF call[c] = "starting" THEN "ready" ELSE call[c]]
      BY <1>1, <2>2 DEF CallAfter
    <3> QED BY <1>2, <3>1 DEF CallStates
  <2>3. CASE q.method \notin {"query", "follow", "initialize"}
    BY <1>1, <1>2, <2>3 DEF CallAfter
  <2> QED BY <2>1, <2>2, <2>3
<1>7. FenceTypes'
  <2>1. expired' \in SUBSET Requests
    BY PlainOf DEF FenceInv, FenceTypes
  <2> QED BY <1>4, <1>5, <1>6, <2>1 DEF FenceTypes, Workers
<1>8. /\ \A p \in pending :
           /\ p.method = "start" => run[p.of].at = "reply"
           /\ IsAdmission(p) => fence.waits = p.method /\ \A o \in pending : IsAdmission(o) => o = p
           /\ p.method # "activity"
      /\ \A p \in expired :
           p.method \notin {"start", "initialize", "shutdown", "activity"} /\ (uncertain \/ IsAdmission(p))
  BY DEF FenceInv, Tables
<1>9. pending \subseteq Plain
  <2>1. pending \subseteq Requests
    BY DEF WorkerInv, TypeInv, HostTypeInv
  <2> QED BY <1>8, <2>1 DEF Requests, Readings
<1>10. Tables'
  <2>1. ASSUME NEW p \in pending' 
        PROVE  /\ p.method = "start" => run'[p.of].at = "reply"
               /\ IsAdmission(p) => fence'.waits = p.method /\ \A o \in pending' : IsAdmission(o) => o = p
               /\ p.method # "activity"
    <3>1. p \in pending /\ p # q /\ p \in Plain
      BY <1>9
    <3>2. ASSUME p.method = "start" PROVE run'[p.of].at = "reply"
      <4>1. p.of \in Runs /\ run[p.of].at = "reply"
        BY <1>8, <3>1, <3>2, PlainOf
      <4>2. ~(q.method = "start" /\ q.of = p.of)
        BY <3>1, <3>2, StartIsOne
      <4> QED BY <1>3, <4>1, <4>2
    <3>3. ASSUME IsAdmission(p) PROVE fence'.waits = p.method /\ \A o \in pending' : IsAdmission(o) => o = p
      <4>1. ~IsAdmission(q)
        BY <1>8, <3>1, <3>3
      <4> QED BY <1>4, <1>8, <3>1, <3>3, <4>1
    <3> QED BY <1>8, <3>1, <3>2, <3>3
  <2>2. ASSUME NEW p \in expired'
        PROVE  p.method \notin {"start", "initialize", "shutdown", "activity"} /\ (uncertain' \/ IsAdmission(p))
    <3>1. CASE p \in expired
      BY <1>8, <3>1
    <3>2. CASE p = q
      BY <1>8, <3>2, PlainOf
    <3> QED BY <3>1, <3>2
  <2> QED BY <1>1, <1>2, <2>1, <2>2 DEF Tables, IsAdmission
<1>11. Free => Free'
  <2> SUFFICES ASSUME Free PROVE Free'
    OBVIOUS
  <2>1. ~starting' /\ ActiveRuns' = {}
    BY <1>1, <1>3 DEF Free, ActiveRuns, Active
  <2>2. ASSUME NEW r \in Runs PROVE run'[r].at \in {"none", "done"}
    <3>1. run[r].at \in {"none", "done"}
      BY DEF Free
    <3>2. ~(q.method = "start" /\ q.of = r)
      BY <1>8, <3>1
    <3> QED BY <1>3, <3>1, <3>2
  <2> QED BY <1>6, <2>1, <2>2 DEF Free
<1>12. Drained'
  <2>1. CASE fence' = NoFence
    BY <1>1, <1>2, <2>1 DEF Drained, Fenced, NoFence
  <2>2. CASE /\ fence'.id = fence.id /\ fence'.child = fence.child
             /\ \/ fence'.acknowledged = fence.acknowledged
                \/ q.method = "close" /\ result = "ok"
    BY <1>1, <1>2, <1>11, <2>2 DEF FenceInv, Drained, Fenced
  <2> QED BY <1>4, <2>1, <2>2
<1>13. Decided'
  BY <1>1, <1>3 DEF FenceInv, Decided, Settled
<1>14. Births'
  BY <1>1, <1>4 DEF FenceInv, Births, Born, NoFence
<1> QED BY <1>5, <1>7, <1>10, <1>12, <1>13, <1>14 DEF FenceInv

LEMMA TimesOutFence ==
  ASSUME WorkerInv, FenceInv, NEW q \in pending, TimesOut(q)
  PROVE  FenceInv'
<1>1. child # None /\ q \in Plain
  <2>1. child # None /\ q \in Requests /\ q.method # "activity"
    BY DEF WorkerInv, Processes, TypeInv, HostTypeInv, FenceInv, Tables
  <2> QED BY <2>1 DEF Requests, Readings
<1>2. CASE WorkerFails(run)
  BY <1>1, <1>2, WorkerFailedFence
<1>3. CASE /\ q.method \notin {"initialize", "shutdown"}
           /\ pending' = pending \ {q} /\ expired' = expired \cup {q}
           /\ uncertain' = (uncertain \/ q.method \notin {"close", "open"})
           /\ Answered(q, "late") /\ UNCHANGED toApp
  <2>1. q.method # "start" /\ (uncertain => uncertain') /\ (uncertain' \/ IsAdmission(q))
    BY <1>3 DEF TimesOut, IsAdmission
  <2>2. Ordered'
    <3>1. PICK w, known, pend, pend2, own, shut :
            /\ w \in Workers /\ w = child /\ known = Outstanding /\ pend = pending /\ pend2 = pending'
            /\ own = Own /\ shut = Shut
      BY <1>1 DEF WorkerInv, TypeInv, HostTypeInv
    <3>2. LineOf(w, known, pend, own, shut)
      BY <1>1, <3>1 DEF FenceInv, Ordered
    <3>3. child' = w /\ UNCHANGED <<host, toWorker, toApp>> /\ Touch /\ fence' = FenceAfter(q, "late")
      BY <1>3, <3>1 DEF Answered
    <3>4. Own' = own /\ Shut' = shut
      <4>1. fence \in FenceRecord
        BY DEF FenceInv, FenceTypes
      <4>2. fence'.id = fence.id /\ fence'.child = fence.child /\ fence'.acknowledged = fence.acknowledged
        BY <3>3, <4>1, FenceAfterIs
      <4> QED BY <3>1, <3>3, <4>2 DEF Own, Shut
    <3>5. watch'.slot = watch.slot
      BY <3>3, VouchedTouch
    <3>6. known = Outstanding'
      BY <1>3, <3>1, <3>5 DEF Outstanding
    <3>7. LineOf(w, known, pend2, own, shut)'
      <4>1. PICK ops, held, in, out :
              ops = host[w].ops /\ held = host[w].fence /\ in = toWorker[w] /\ out = toApp[w]
        OBVIOUS
      <4>2. Line(known, pend, own, shut, ops, held, in, out) /\ pend2 \subseteq pend /\ known \subseteq known
        BY <1>3, <3>1, <3>2, <4>1 DEF LineOf
      <4>3. Line(known, pend2, own, shut, ops, held, in, out)
        BY <4>2, LineForgets
      <4> QED BY <3>3, <4>1, <4>3 DEF LineOf
    <3> QED BY <3>1, <3>3, <3>4, <3>6, <3>7, OrderedIf
  <2>3. PICK result : result = "late"
    OBVIOUS
  <2> QED BY <1>1, <1>3, <2>1, <2>2, <2>3, AnsweredFence
<1> QED BY <1>2, <1>3 DEF TimesOut

(* A frame is read, whatever it says.                                       *)
LEMMA FrameLine ==
  ASSUME WorkerInv, FenceInv, NEW w \in Workers, w = child, toApp[w] # <<>>, FrameRead,
         UNCHANGED <<host, toWorker>>, NEW f, f = Head(toApp[w]),
         NEW own, own = Own, NEW shut, shut = Shut, NEW known2, NEW pend2,
         \A q \in Outstanding : q \in known2 \/ IsReply(f, q), pend2 \subseteq pending
  PROVE  /\ f \in Frames
         /\ Admits(f) => f.of.of = own
         /\ LineOf(w, known2, pend2, own, shut)' /\ LineOf(w, known2, pend2, own, FALSE)'
         /\ f.kind = "response" /\ f.of.method = "close" => LineOf(w, known2, pend2, own, TRUE)'
         /\ IsOpened(f) /\ f.of \in pending => LineOf(w, known2, pend2, None, FALSE)'
<1>1. toWorker[w] \in Seq(Requests) /\ toApp[w] \in Seq(Frames) /\ toApp \in [Workers -> Seq(Frames)]
  BY HostTypes DEF WorkerInv, TypeInv, HostTypeInv
<1>2. PICK in, out, ops, held, rest :
        /\ in = toWorker[w] /\ out = toApp[w] /\ ops = host[w].ops /\ held = host[w].fence /\ rest = Tail(out)
  OBVIOUS
<1>3. PICK known, pend : known = Outstanding /\ pend = pending
  OBVIOUS
<1>4. w # None /\ Line(known, pend, own, shut, ops, held, in, out)
  BY <1>2, <1>3, NoneElse DEF FenceInv, Ordered, LineOf
<1>5. Forgets(known, known2, f)
  BY <1>3 DEF Forgets
<1>6. in \in Seq(Requests) /\ out \in Seq(Frames) /\ out # <<>> /\ pend2 \subseteq pend /\ f = Head(out)
  BY <1>1, <1>2, <1>3
<1>7. Behind(known2, pend, pend2, own, shut, ops, held, in, f, rest)
  BY <1>2, <1>4, <1>5, <1>6, LineRead
<1>8. Line(known2, pend2, own, FALSE, ops, held, in, rest)
  BY <1>7 DEF Behind, Line, Shielded
<1>9. toApp'[w] = rest
  BY <1>1, <1>2 DEF FrameRead
<1>10. f \in Frames
  BY <1>6, TailOf
<1>11. LineOf(w, known2, pend2, own, shut)' /\ LineOf(w, known2, pend2, own, FALSE)'
  BY <1>2, <1>7, <1>8, <1>9 DEF LineOf, Behind
<1>12. f.kind = "response" /\ f.of.method = "close" => LineOf(w, known2, pend2, own, TRUE)'
  BY <1>2, <1>7, <1>9 DEF LineOf, Behind
<1>13. IsOpened(f) /\ f.of \in pending => LineOf(w, known2, pend2, None, FALSE)'
  BY <1>2, <1>3, <1>7, <1>9 DEF LineOf, Behind
<1> QED BY <1>7, <1>10, <1>11, <1>12, <1>13 DEF Behind

LEMMA ReadStep ==
  ASSUME WorkerInv, FenceInv, child # None, toApp[child] # <<>>, FrameRead, NEW f, f = Head(toApp[child]),
         UNCHANGED <<child, host, toWorker, pending, uncertain>>, GoesOn, call' \in [Calls -> CallStates],
         fence' \in FenceRecord, fence'.id = fence.id, fence'.child = fence.child,
         fence'.acknowledged = fence.acknowledged, fence'.waits = fence.waits,
         watch' \in WatchRecord, Vouched', expired' \subseteq expired,
         \A q \in Outstanding : q \in Outstanding' \/ IsReply(f, q)
  PROVE  FenceInv'
<1>1. FenceTypes'
  BY DEF FenceInv, FenceTypes, Workers
<1>2. Tables'
  <2>1. \A p \in pending :
           /\ IsAdmission(p) => fence.waits = p.method /\ \A o \in pending : IsAdmission(o) => o = p
           /\ p.method # "activity"
    BY DEF FenceInv, Tables
  <2>2. \A p \in expired :
           p.method \notin {"start", "initialize", "shutdown", "activity"} /\ (uncertain \/ IsAdmission(p))
    BY DEF FenceInv, Tables
  <2>3. \A q \in pending : q.method = "start" => run'[q.of].at = "reply"
    BY DEF GoesOn
  <2> QED BY <2>1, <2>2, <2>3 DEF Tables
<1>3. Drained'
  BY DEF FenceInv, Drained, Fenced, GoesOn
<1>4. Births'
  BY DEF FenceInv, Births, Born
<1>5. Ordered'
  <2>1. PICK w, own, shut : w \in Workers /\ w = child /\ own = Own /\ shut = Shut
    BY DEF WorkerInv, TypeInv, HostTypeInv
  <2>2. PICK known2, pend2 : known2 = Outstanding' /\ pend2 = pending'
    OBVIOUS
  <2>3. (\A q \in Outstanding : q \in known2 \/ IsReply(f, q)) /\ pend2 \subseteq pending
    BY <2>2
  <2>4. LineOf(w, known2, pend2, own, shut)'
    BY <2>1, <2>3, FrameLine
  <2>5. child' = w /\ own = Own' /\ shut = Shut'
    BY <2>1 DEF Own, Shut
  <2> QED BY <2>1, <2>2, <2>4, <2>5, OrderedIf
<1> QED BY <1>1, <1>2, <1>3, <1>4, <1>5 DEF FenceInv, GoesOn

(* What was said of the worker before is said of it again.                  *)
LEMMA SaidBefore ==
  ASSUME WorkerInv, child # None, toApp[child] # <<>>, FrameRead
  PROVE  /\ toApp'[child] = Tail(toApp[child])
         /\ \A i \in 1..Len(Tail(toApp[child])) : i + 1 \in 1..Len(toApp[child]) /\ Tail(toApp[child])[i] = toApp[child][i + 1]
         /\ 1 \in 1..Len(toApp[child]) /\ Head(toApp[child]) = toApp[child][1] /\ Head(toApp[child]) \in Frames
<1>1. PICK w \in Workers : w = child
  BY DEF WorkerInv, TypeInv, HostTypeInv
<1>2. toApp \in [Workers -> Seq(Frames)] /\ toApp[w] \in Seq(Frames)
  BY DEF WorkerInv, TypeInv, HostTypeInv
<1>3. toApp' = [toApp EXCEPT ![w] = Tail(toApp[w])]
  BY <1>1 DEF FrameRead
<1> QED BY <1>1, <1>2, <1>3, TailOf

LEMMA EventReadFence ==
  ASSUME WorkerInv, FenceInv, child # None, toApp[child] # <<>>, NEW e, e = Head(toApp[child]),
         e.kind = "event", EventRead(e)
  PROVE  FenceInv'
<1>1. /\ FrameRead /\ UNCHANGED <<child, host, toWorker, pending, uncertain, fence, call, starting, failure, expired, terminating>>
  BY DEF EventRead, current, reaping, requests
<1>2. e \in Frames /\ e.of \in Runs
  <2>1. e \in Frames
    BY <1>1, SaidBefore
  <2> QED BY <2>1 DEF Frames, Responses, Events
<1>3. PICK r \in Runs : r = e.of
  BY <1>2
<1>4. IsRun(run[r]) /\ run \in [Runs -> RunRecord]
  BY RunTypes, RunIs DEF WorkerInv, TypeInv, HostTypeInv
<1>5. GoesOn /\ ((UNCHANGED run /\ UNCHANGED watch) \/ Touch)
  <2>1. CASE Active(run[r])
    <3>1. PICK x, y : /\ x = run[r]
                      /\ y = CASE e.result = "ask" -> [x EXCEPT !.ask = "offered", !.question = e.ask]
                               [] e.result = "cancelled" /\ x.question = e.ask -> [x EXCEPT !.ask = "none"]
                               [] e.result \in {"completed", "failed"} ->
                                    [x EXCEPT !.forwarded = TRUE, !.terminals = x.terminals + 1]
                               [] OTHER -> x
      OBVIOUS
    <3>2. run' = [run EXCEPT ![r] = y] /\ Touch
      BY <1>3, <2>1, <3>1 DEF EventRead
    <3>3. Goes(x, y)
      <4>1. CASE e.result = "ask"
        <5>1. y = [x EXCEPT !.ask = "offered", !.question = e.ask]
          BY <3>1, <4>1
        <5>2. Alike(x, y)
          BY <1>4, <3>1, <5>1 DEF Alike, IsRun, RunFields
        <5> QED BY <5>2, AlikeGoes
      <4>2. CASE e.result = "cancelled" /\ x.question = e.ask
        <5>1. y = [x EXCEPT !.ask = "none"]
          BY <3>1, <4>2
        <5>2. Alike(x, y)
          BY <1>4, <3>1, <5>1 DEF Alike, IsRun, RunFields
        <5> QED BY <5>2, AlikeGoes
      <4>3. CASE e.result \in {"completed", "failed"}
        <5>1. PICK n : n = x.terminals + 1
          OBVIOUS
        <5>2. y = [x EXCEPT !.forwarded = TRUE, !.terminals = n]
          BY <3>1, <4>3, <5>1
        <5>3. Alike(x, y)
          BY <1>4, <3>1, <5>2 DEF Alike, IsRun, RunFields
        <5> QED BY <5>3, AlikeGoes
      <4>4. CASE e.result \notin {"ask", "completed", "failed"} /\ ~(e.result = "cancelled" /\ x.question = e.ask)
        <5>1. y = x
          BY <3>1, <4>4
        <5> QED BY <5>1 DEF Goes
      <4> QED BY <4>1, <4>2, <4>3, <4>4
    <3> QED BY <1>1, <3>1, <3>2, <3>3, OneGoes
  <2>2. CASE ~Active(run[r])
    <3>1. UNCHANGED <<run, watch>>
      BY <1>3, <2>2 DEF EventRead
    <3>2. \A s \in Runs : Goes(run[s], run'[s])
      BY <3>1 DEF Goes
    <3>3. GoesOn
      BY <1>1, <3>2, AllGo
    <3> QED BY <3>1, <3>3
  <2> QED BY <2>1, <2>2
<1>6. Vouched' /\ watch' \in WatchRecord /\ watch'.slot = watch.slot
  <2>1. CASE Touch
    BY <2>1, VouchedTouch
  <2>2. CASE UNCHANGED run /\ UNCHANGED watch
    <3>1. SaysSo(child)' => SaysSo(child)
      BY <1>1, SaidBefore DEF SaysSo
    <3>2. Still => Still'
      BY <1>1, <2>2 DEF Still, ActiveRuns
    <3> QED BY <1>1, <2>2, <3>1, <3>2 DEF FenceInv, FenceTypes, Vouched, Reading
  <2> QED BY <1>5, <2>1, <2>2
<1>7. \A q \in Outstanding : q \in Outstanding'
  BY <1>1, <1>6 DEF Outstanding
<1> QED BY <1>1, <1>5, <1>6, <1>7, ReadStep DEF FenceInv, FenceTypes

LEMMA LateReadFence ==
  ASSUME WorkerInv, FenceInv, child # None, toApp[child] # <<>>, NEW f, f = Head(toApp[child]),
         f.kind = "response", NEW q, q = f.of, expired' = expired \ {q}, Touch, FrameRead,
         UNCHANGED <<current, reaping, uncertain, run, call, requests, fence, host>>
  PROVE  FenceInv'
<1>1. UNCHANGED <<child, host, toWorker, pending, uncertain, fence, call, run, starting, failure>>
  BY DEF current, reaping, requests
<1>2. Vouched' /\ watch' \in WatchRecord /\ watch'.slot = watch.slot
  BY VouchedTouch
<1>3. GoesOn
  <2>1. \A s \in Runs : Goes(run[s], run'[s])
    BY <1>1 DEF Goes
  <2> QED BY <1>1, <2>1, AllGo
<1>4. \A p \in Outstanding : p \in Outstanding' \/ IsReply(f, p)
  BY <1>1, <1>2 DEF Outstanding, IsReply
<1> QED BY <1>1, <1>2, <1>3, <1>4, ReadStep DEF FenceInv, FenceTypes

(* The observation arrives: nothing else of the sort is outstanding.        *)
LEMMA ObservationAsked ==
  ASSUME WorkerInv, FenceInv, child # None, toApp[child] # <<>>, FrameRead, NEW f, f = Head(toApp[child]),
         f.kind = "response", f.of.method = "activity"
  PROVE  /\ f.of = Observes /\ watch.slot /\ f.result \in Observations
         /\ watch.proof => Resting(host[child])
         /\ f.result.idle => SaysSo(child)
<1>1. /\ 1 \in 1..Len(toApp[child]) /\ f = toApp[child][1] /\ f \in Frames
  BY SaidBefore
<1>2. f.result \in Observations
  BY <1>1 DEF Frames, Responses, Events, Plain, StartRequests, RunRequests, CallRequests, FenceRequests, OwnRequests
<1>3. f.of \in Outstanding
  <2>1. PICK w, known, out, in, ops, held :
          w = child /\ known = Outstanding /\ out = toApp[w] /\ in = toWorker[w] /\ ops = host[w].ops /\ held = host[w].fence
    OBVIOUS
  <2>2. OnePlace(known, ops, in, out)
    BY <2>1 DEF FenceInv, Ordered, LineOf, Line
  <2>3. out[1].of \in known
    BY <1>1, <2>1, <2>2 DEF OnePlace, IsTracked
  <2> QED BY <1>1, <2>1, <2>3
<1>4. f.of \notin pending /\ f.of \notin expired
  BY DEF FenceInv, Tables
<1>5. f.of = Observes /\ watch.slot
  BY <1>3, <1>4 DEF Outstanding
<1>6. f.result.idle => SaysSo(child)
  BY <1>1 DEF SaysSo, SaysIdle
<1> QED BY <1>2, <1>5, <1>6 DEF FenceInv, Vouched

LEMMA ObservationReadFence ==
  ASSUME WorkerInv, FenceInv, child # None, toApp[child] # <<>>, NEW f, f = Head(toApp[child]),
         f.kind = "response", f.of.method = "activity", NEW seen, seen = f.result, ObservationRead(seen)
  PROVE  FenceInv'
<1>1. /\ FrameRead
      /\ UNCHANGED <<child, host, toWorker, pending, uncertain, call, run, starting, failure, expired, terminating>>
  BY DEF ObservationRead, current, reaping, requests
<1>2. /\ f.of = Observes /\ watch.slot /\ seen \in Observations
      /\ seen.idle => SaysSo(child)
  BY <1>1, ObservationAsked
<1>3. fence \in FenceRecord /\ watch \in WatchRecord
  BY DEF FenceInv, FenceTypes
<1>4. PICK fresh \in BOOLEAN, fenced \in BOOLEAN :
        /\ fresh = (watch.reading /\ seen # Unobserved /\ ~watch.changed /\ seen.fence = fence.id)
        /\ fenced = (fence.acknowledged /\ fence.child = child)
  OBVIOUS
<1>5. PICK baseline \in Int, invalid \in BOOLEAN :
        fence' = [fence EXCEPT !.baseline = baseline, !.invalid = invalid]
  <2>1. PICK baseline : baseline = IF fresh /\ fenced /\ fence.baseline = -1 THEN seen.rev ELSE fence.baseline
    OBVIOUS
  <2>2. PICK invalid : invalid = (fence.invalid \/ (fresh /\ fenced /\ fence.baseline \notin {-1, seen.rev}))
    OBVIOUS
  <2>3. baseline \in Int
    BY <1>2, <1>3, <2>1 DEF Observations, FenceRecord
  <2>4. invalid \in BOOLEAN
    BY <1>3, <2>2 DEF FenceRecord
  <2>5. fence' = [fence EXCEPT !.baseline = baseline, !.invalid = invalid]
    BY <1>4, <2>1, <2>2 DEF ObservationRead
  <2> QED BY <2>3, <2>4, <2>5
<1>6. /\ fence' \in FenceRecord /\ fence'.id = fence.id /\ fence'.child = fence.child
      /\ fence'.acknowledged = fence.acknowledged /\ fence'.waits = fence.waits
  BY <1>3, <1>5 DEF FenceRecord
<1>7. PICK proof \in BOOLEAN : watch' = [NoWatch EXCEPT !.proof = proof] /\ (proof => Reading /\ seen.idle)
  <2>1. PICK f2 : f2 = [fence EXCEPT !.baseline = IF fresh /\ fenced /\ @ = -1 THEN seen.rev ELSE @,
                                     !.invalid = @ \/ (fresh /\ fenced /\ fence.baseline \notin {-1, seen.rev})]
    OBVIOUS
  <2>2. PICK proof : proof = (/\ fresh /\ fenced /\ watch.idle /\ seen.idle /\ ~f2.invalid)
    OBVIOUS
  <2>3. watch' = [NoWatch EXCEPT !.proof = proof]
    BY <1>4, <2>1, <2>2 DEF ObservationRead
  <2>4. proof \in BOOLEAN /\ (proof => Reading /\ seen.idle)
    BY <1>4, <2>2 DEF Reading
  <2> QED BY <2>3, <2>4
<1>8. watch' \in WatchRecord /\ watch'.slot = FALSE /\ watch'.reading = FALSE /\ watch'.proof = proof
  BY <1>7 DEF NoWatch, WatchRecord
<1>9. Vouched'
  <2>1. proof => Still' /\ Resting(host[child])
    BY <1>1, <1>2, <1>7 DEF FenceInv, Vouched, Still, ActiveRuns
  <2> QED BY <1>1, <1>8, <2>1 DEF Vouched, Reading
<1>10. GoesOn
  <2>1. \A s \in Runs : Goes(run[s], run'[s])
    BY <1>1 DEF Goes
  <2> QED BY <1>1, <2>1, AllGo
<1>11. \A q \in Outstanding : q \in Outstanding' \/ IsReply(f, q)
  BY <1>1, <1>2 DEF Outstanding, IsReply
<1> QED BY <1>1, <1>6, <1>8, <1>9, <1>10, <1>11, ReadStep DEF FenceInv, FenceTypes

LEMMA AnswerReadFence ==
  ASSUME WorkerInv, FenceInv, child # None, toApp[child] # <<>>, NEW f, f = Head(toApp[child]),
         f.kind = "response", NEW q \in Plain, q = f.of, NEW result, result = f.result, q \in pending,
         Settles(q), Answered(q, result), FrameRead, UNCHANGED uncertain
  PROVE  FenceInv'
<1>1. /\ UNCHANGED <<child, host, toWorker, expired>> /\ Touch /\ pending' = pending \ {q}
      /\ fence' = FenceAfter(q, result)
  BY DEF Settles, Answered
<1>2. PICK w, own, shut, known2, pend2 :
        /\ w \in Workers /\ w = child /\ own = Own /\ shut = Shut
        /\ known2 = Outstanding' /\ pend2 = pending'
  BY DEF WorkerInv, TypeInv, HostTypeInv
<1>3. fence \in FenceRecord
  BY DEF FenceInv, FenceTypes
<1>4. watch'.slot = watch.slot
  BY <1>1, VouchedTouch
<1>5. pend2 \subseteq pending /\ \A p \in Outstanding : p \in known2 \/ IsReply(f, p)
  BY <1>1, <1>2, <1>4 DEF Outstanding, IsReply
<1>6. /\ Admits(f) => f.of.of = own
      /\ LineOf(w, known2, pend2, own, shut)' /\ LineOf(w, known2, pend2, own, FALSE)'
      /\ f.kind = "response" /\ f.of.method = "close" => LineOf(w, known2, pend2, own, TRUE)'
      /\ IsOpened(f) /\ f.of \in pending => LineOf(w, known2, pend2, None, FALSE)'
  BY <1>1, <1>2, <1>5, FrameLine
<1>7. q.method = "close" /\ result = "ok" => fence.child = child
  <2> SUFFICES ASSUME q.method = "close" PROVE fence.child = child
    OBVIOUS
  <2>1. q.of \in Fences
    BY DEF Plain, StartRequests, RunRequests, CallRequests, FenceRequests, OwnRequests
  <2>2. q.of = own
    BY <1>6 DEF Admits, IsAdmission
  <2> QED BY <1>2, <2>1, <2>2, NoneElse DEF Own
<1>8. /\ fence' \in FenceRecord
      /\ \/ q.method = "open" /\ result = "ok" /\ fence' = NoFence
         \/ /\ fence'.id = fence.id /\ fence'.child = fence.child
            /\ \/ fence'.acknowledged = fence.acknowledged
               \/ q.method = "close" /\ result = "ok"
  BY <1>1, <1>3, FenceAfterIs
<1>9. Ordered'
  <2>1. CASE q.method = "open" /\ result = "ok" /\ fence' = NoFence
    <3>1. Own' = None /\ Shut' = FALSE
      BY <1>1, <2>1 DEF Own, Shut, NoFence
    <3>2. LineOf(w, known2, pend2, None, FALSE)'
      BY <1>6, <2>1 DEF IsOpened
    <3>3. PICK own2, shut2 : own2 = None /\ shut2 = FALSE
      OBVIOUS
    <3> QED BY <1>1, <1>2, <3>1, <3>2, <3>3, OrderedIf
  <2>2. CASE /\ fence'.id = fence.id /\ fence'.child = fence.child
             /\ fence'.acknowledged = fence.acknowledged
    <3>1. Own' = own /\ Shut' = shut
      BY <1>1, <1>2, <2>2 DEF Own, Shut
    <3> QED BY <1>1, <1>2, <1>6, <3>1, OrderedIf
  <2>3. CASE /\ fence'.id = fence.id /\ fence'.child = fence.child
             /\ q.method = "close" /\ result = "ok"
    <3>1. PICK shut2 : shut2 = Shut'
      OBVIOUS
    <3>2. shut2 \in BOOLEAN
      BY <1>8, <3>1 DEF Shut, FenceRecord
    <3>3. Own' = own
      BY <1>1, <1>2, <2>3 DEF Own
    <3>4. LineOf(w, known2, pend2, own, shut2)'
      BY <1>6, <2>3, <3>2
    <3> QED BY <1>1, <1>2, <3>1, <3>3, <3>4, OrderedIf
  <2> QED BY <1>8, <2>1, <2>2, <2>3
<1> QED BY <1>1, <1>7, <1>9, AnsweredFence

LEMMA ReceiveFence ==
  ASSUME WorkerInv, FenceInv, Receive
  PROVE  FenceInv'
<1>1. PICK f : f = Head(toApp[child])
  OBVIOUS
<1>2. child # None /\ toApp[child] # <<>> /\ child \in Workers /\ toApp[child] \in Seq(Frames)
  BY DEF Receive, WorkerInv, TypeInv, HostTypeInv
<1>3. f \in Frames
  BY <1>1, <1>2, TailOf
<1>4. CASE f.kind = "event"
  <2>1. EventRead(f)
    BY <1>1, <1>4 DEF Receive
  <2> QED BY <1>1, <1>2, <1>4, <2>1, EventReadFence
<1>5. CASE f.kind # "event"
  <2>1. PICK q, result : q = f.of /\ result = f.result
    OBVIOUS
  <2>2. f.kind = "response" /\ (q \in Plain \/ q.method = "activity")
    BY <1>3, <1>5, <2>1 DEF Frames, Responses, Events, Readings
  <2>3. ResponseRead(q, result)
    BY <1>1, <1>5, <2>1 DEF Receive
  <2>4. CASE q.method = "activity" /\ ObservationRead(result)
    BY <1>1, <1>2, <2>1, <2>2, <2>4, ObservationReadFence
  <2>5. CASE WorkerFails(Doubtful(result))
    BY <1>2, <2>5, DoubtFence
  <2>6. CASE /\ expired' = expired \ {q} /\ Touch /\ FrameRead
             /\ UNCHANGED <<current, reaping, uncertain, run, call, requests, fence, host>>
    BY <1>1, <1>2, <2>1, <2>2, <2>6, LateReadFence
  <2>7. CASE /\ q.method # "activity" /\ q \in pending /\ Settles(q) /\ Answered(q, result)
             /\ FrameRead /\ UNCHANGED uncertain
    BY <1>1, <1>2, <2>1, <2>2, <2>7, AnswerReadFence
  <2> QED BY <2>3, <2>4, <2>5, <2>6, <2>7 DEF ResponseRead
<1> QED BY <1>4, <1>5
-----------------------------------------------------------------------------
(* A worker goes on.                                                        *)
LEMMA StillQueued ==
  ASSUME WorkerInv, FenceInv, Still, child # None
  PROVE  \A i \in 1..Len(toWorker[child]) : toWorker[child][i] \notin Operations /\ toWorker[child][i].method # "start"
<1>1. PICK w, in, ops, out, known, held :
        /\ w \in Workers /\ w = child /\ in = toWorker[w] /\ ops = host[w].ops /\ out = toApp[w]
        /\ known = Outstanding /\ held = host[w].fence
  BY DEF WorkerInv, TypeInv, HostTypeInv
<1>2. in \in Seq(Requests) /\ \A i \in 1..Len(in) : in[i] \in Requests
  BY <1>1, HostTypes DEF WorkerInv, TypeInv, HostTypeInv
<1>3. OnePlace(known, ops, in, out)
  BY <1>1 DEF FenceInv, Ordered, LineOf, Line
<1>4. \A q \in known : q.method \in {"activity", "close", "open"}
  <2>1. pending = {} /\ \A q \in expired : IsAdmission(q)
    BY DEF Still, FenceInv, Tables
  <2> QED BY <1>1, <2>1, ObservesIs DEF Outstanding, IsAdmission
<1>5. ASSUME NEW i \in 1..Len(in), in[i] \in Operations PROVE FALSE
  <2>1. IsTracked(in[i]) /\ in[i].method \notin {"activity", "close", "open"}
    BY <1>5 DEF Operations, CallRequests, OwnRequests, IsTracked
  <2> QED BY <1>3, <1>4, <2>1 DEF OnePlace
<1>6. ASSUME NEW i \in 1..Len(in), in[i].method = "start" PROVE FALSE
  <2>1. PICK r \in Runs : r = in[i].of
    BY <1>2, <1>6 DEF Requests, Plain, StartRequests, RunRequests, CallRequests, FenceRequests, OwnRequests, Readings
  <2>2. Starts(in, r)
    BY <1>6, <2>1 DEF Starts, IsStart
  <2>3. run[r] \in RunRecord /\ KnownOf(r) /\ Settled(run[r]) /\ ~Active(run[r])
    BY RunTypes DEF FenceInv, Decided, Still, ActiveRuns
  <2>4. run[r].phase \in {"none", "over"}
    BY <2>3 DEF RunRecord, Active
  <2>5. CASE run[r].phase = "none"
    <3>1. AllUntouched(r)
      BY <2>3, <2>5 DEF KnownOf, Knows, NotSent
    <3> QED BY <1>1, <2>2, <3>1 DEF AllUntouched, Untouched
  <2>6. CASE run[r].phase = "over"
    <3>1. Judged(run[r])
      BY <2>3, <2>6 DEF Settled, Judged, Still
    <3>2. AllQuiet(r)
      BY <2>3, <3>1 DEF KnownOf, Knows
    <3> QED BY <1>1, <2>2, <3>2 DEF AllQuiet, Quiet
  <2> QED BY <2>4, <2>5, <2>6
<1> QED BY <1>1, <1>5, <1>6

LEMMA HostStepFence ==
  ASSUME WorkerInv, FenceInv, NEW w \in Workers, HostStep(w), UNCHANGED appVars
  PROVE  FenceInv'
<1>1. UNCHANGED <<child, starting, terminating, failure, uncertain, run, call, pending, expired, fence, watch>>
  BY DEF appVars
<1>2. HostTypeInv /\ Places
  BY DEF WorkerInv, TypeInv
<1>3. HostGoesOn(w)
  BY <1>2, HostStepIs
<1>4. /\ \A v \in Workers : v # w =>
           host'[v] = host[v] /\ toWorker'[v] = toWorker[v] /\ toApp'[v] = toApp[v]
      /\ host'[w].heard = host[w].heard /\ host[w].up /\ (~host'[w].up => host'[w].initialized = "died")
  BY <1>3 DEF HostGoesOn, Alone
<1>5. FenceTypes' /\ Tables' /\ Drained' /\ Decided'
  BY <1>1 DEF FenceInv, FenceTypes, Tables, Drained, Fenced, Free, ActiveRuns, Decided, Settled, Workers
<1>6. \A v \in Workers : (Born(v) => Born(v)') /\ host'[v].heard = host[v].heard
  <2> SUFFICES ASSUME NEW v \in Workers PROVE (Born(v) => Born(v)') /\ host'[v].heard = host[v].heard
    OBVIOUS
  <2>1. CASE v = w
    BY <1>4, <2>1 DEF Born
  <2>2. CASE v # w
    BY <1>4, <2>2 DEF Born
  <2> QED BY <2>1, <2>2
<1>7. child \in Workers \cup {None} /\ fence.child \in Workers \cup {None}
  BY DEF WorkerInv, TypeInv, HostTypeInv, FenceInv, FenceTypes, FenceRecord
<1>8. Births'
  <2>1. PICK v, u : v = child /\ u = fence.child
    OBVIOUS
  <2>2. v # None => Born(v) /\ host[v].heard /\ v \in Workers
    BY <1>7, <2>1 DEF FenceInv, Births
  <2>3. u # None => Born(u) /\ u \in Workers
    BY <1>7, <2>1 DEF FenceInv, Births
  <2>4. v # None => Born(v)' /\ host'[v].heard
    BY <1>6, <2>2
  <2>5. u # None => Born(u)'
    BY <1>6, <2>3
  <2>6. v = child' /\ u = fence'.child
    BY <1>1, <2>1
  <2> QED BY <2>4, <2>5, <2>6 DEF Births, Born
<1>9. (Still' <=> Still) /\ (Reading' <=> Reading)
  BY <1>1 DEF Still, ActiveRuns, Reading
<1>10. CASE child = None
  <2>1. Vouched'
    BY <1>1, <1>9, <1>10 DEF FenceInv, Vouched
  <2>2. Ordered'
    BY <1>1, <1>10 DEF Ordered
  <2> QED BY <1>5, <1>8, <2>1, <2>2 DEF FenceInv
<1>11. CASE child # None /\ child # w
  <2>1. host'[child] = host[child] /\ toWorker'[child] = toWorker[child] /\ toApp'[child] = toApp[child]
    BY <1>4, <1>7, <1>11
  <2>2. Vouched'
    BY <1>1, <1>9, <2>1 DEF FenceInv, Vouched, SaysSo
  <2>3. Ordered'
    BY <1>1, <1>11, <2>1 DEF FenceInv, Ordered, LineOf, Outstanding, Own, Shut
  <2> QED BY <1>5, <1>8, <2>2, <2>3 DEF FenceInv
<1>12. CASE child = w /\ child # None
  <2>1. PICK known, pend, own, shut :
          known = Outstanding /\ pend = pending /\ own = Own /\ shut = Shut
    OBVIOUS
  <2>2. LineOf(w, known, pend, own, shut) /\ host[w].heard
    BY <1>12, <2>1 DEF FenceInv, Ordered, Births
  <2>3. HostKeeps(w, known, pend, own, shut)
    BY <1>2, <2>2, HostStepKeeps
  <2>4. known = Outstanding' /\ pend = pending' /\ own = Own' /\ shut = Shut' /\ child' = w
    BY <1>1, <1>12, <2>1 DEF Outstanding, Own, Shut
  <2>5. Ordered'
    BY <2>3, <2>4, OrderedIf DEF HostKeeps
  <2>6. ASSUME watch.proof \/ (Reading /\ SaysSo(w)') PROVE Resting(host'[w])
    <3>1. Still /\ Resting(host[w])
      BY <1>12, <2>3, <2>6 DEF FenceInv, Vouched, HostKeeps
    <3>2. Rests(w)
      BY <1>12, <3>1, StillQueued DEF Rests
    <3> QED BY <2>3, <3>2 DEF HostKeeps
  <2>7. Vouched'
    <3>1. SaysSo(child)' <=> SaysSo(w)'
      BY <1>1, <1>12 DEF SaysSo
    <3> QED BY <1>1, <1>9, <1>12, <2>6, <3>1 DEF FenceInv, Vouched
  <2> QED BY <1>5, <1>8, <2>5, <2>7 DEF FenceInv
<1> QED BY <1>10, <1>11, <1>12

LEMMA InitFence ==
  ASSUME Init
  PROVE  FenceInv
<1>1. /\ child = None /\ starting = FALSE /\ terminating = None /\ failure = FALSE /\ uncertain = FALSE
      /\ run = [r \in Runs |-> NoRun] /\ call = [c \in Calls |-> "idle"]
      /\ pending = {} /\ expired = {} /\ fence = NoFence /\ watch = NoWatch
  BY DEF Init
<1>2. NoFence \in FenceRecord
  BY DEF NoFence, FenceRecord
<1>3. NoWatch \in WatchRecord
  BY DEF NoWatch, WatchRecord
<1>4. call \in [Calls -> CallStates]
  BY <1>1 DEF CallStates
<1>5. FenceTypes
  BY <1>1, <1>2, <1>3, <1>4 DEF FenceTypes
<1>6. Tables
  BY <1>1 DEF Tables
<1>7. Drained
  BY <1>1 DEF Drained, Fenced, NoFence
<1>8. Decided
  <2>1. \A r \in Runs : run[r].phase = "none" /\ run[r].outcome = "none"
    BY <1>1, NoRunIs
  <2> QED BY <2>1 DEF Decided, Settled
<1>9. Vouched
  BY <1>1 DEF Vouched, Reading, NoWatch
<1>10. Births /\ Ordered
  BY <1>1 DEF Births, Ordered, NoFence
<1> QED BY <1>5, <1>6, <1>7, <1>8, <1>9, <1>10 DEF FenceInv

LEMMA NextFence ==
  ASSUME WorkerInv, FenceInv, Next
  PROVE  FenceInv'
<1>1. ASSUME NEW r \in Runs, RunStep(r) PROVE FenceInv'
  BY <1>1, SpawnRunFence, WorkerReadyForFence, OptionsKnownFence, OptionsRejectedFence, RunRepliedFence,
     AbortFence, AbortRepliedFence, ApproveFence DEF RunStep
<1>2. ASSUME NEW c \in Calls, MakeCall(c) \/ CallSends(c) \/ FollowUp(c) PROVE FenceInv'
  BY <1>2, MakeCallFence, CallSendsFence, FollowUpFence
<1>3. ASSUME NEW f \in Fences, FenceForRestart(f) \/ ReleaseFence(f) PROVE FenceInv'
  BY <1>3, FenceForRestartFence, ReleaseFenceFence
<1>4. ASSUME NEW q \in pending, TimesOut(q) PROVE FenceInv'
  BY <1>4, TimesOutFence
<1>5. ASSUME WorkerFailed PROVE FenceInv'
  BY <1>5, WorkerFailedFence DEF WorkerFailed
<1>6. ASSUME NEW w \in Workers, HostStep(w), UNCHANGED appVars PROVE FenceInv'
  BY <1>6, HostStepFence
<1> QED BY <1>1, <1>2, <1>3, <1>4, <1>5, <1>6, ReceiveFence, ReadActivityFence, ReadTimesOutFence,
           ReapedFence, ReapFailsFence, ShutdownFence DEF Next

LEMMA StutterFence ==
  ASSUME WorkerInv, FenceInv, UNCHANGED vars
  PROVE  FenceInv'
<1>1. UNCHANGED <<child, starting, terminating, failure, uncertain, run, call, pending, expired, fence, watch,
                  host, toWorker, toApp>>
  BY DEF vars, appVars, hostVars
<1>2. FenceTypes' /\ Tables' /\ Drained' /\ Decided'
  BY <1>1 DEF FenceInv, FenceTypes, Tables, Drained, Fenced, Free, ActiveRuns, Decided, Settled, Workers
<1>3. Vouched' /\ Births'
  BY <1>1 DEF FenceInv, Vouched, Reading, Still, ActiveRuns, SaysSo, Births, Born
<1>4. Ordered'
  BY <1>1 DEF FenceInv, Ordered, LineOf, Outstanding, Own, Shut
<1> QED BY <1>2, <1>3, <1>4 DEF FenceInv

(* The tables of requests, the pipes of the current worker, the fence and   *)
(* the activity reader agree (FenceInv), whatever is late, lost or replaced.*)
THEOREM FenceInvHolds == Spec => [](WorkerInv /\ FenceInv)
<1>1. Init => WorkerInv /\ FenceInv
  BY InitKnows, InitFence
<1>2. WorkerInv /\ FenceInv /\ [Next]_vars => (WorkerInv /\ FenceInv)'
  BY NextKnows, StutterKnows, NextFence, StutterFence
<1> QED BY <1>1, <1>2, PTL DEF Spec

LEMMA FenceFollows ==
  ASSUME WorkerInv, FenceInv
  PROVE  FenceIsKept
<1>1. child \in Workers \cup {None} /\ fence \in FenceRecord
  BY DEF WorkerInv, TypeInv, HostTypeInv, FenceInv, FenceTypes
<1>2. ASSUME child # None
      PROVE  /\ host[child].fence \in {None, Own}
             /\ Shut => \A j \in 1..Len(toWorker[child]) : ~IsFenced(toWorker[child][j])
             /\ DOMAIN toWorker[child] = 1..Len(toWorker[child])
  <2>1. PICK w, known, pend, own, shut, ops, held, in, out :
          /\ w \in Workers /\ w = child /\ known = Outstanding /\ pend = pending /\ own = Own /\ shut = Shut
          /\ ops = host[w].ops /\ held = host[w].fence /\ in = toWorker[w] /\ out = toApp[w]
    BY <1>1, <1>2
  <2>2. Line(known, pend, own, shut, ops, held, in, out)
    BY <1>2, <2>1 DEF FenceInv, Ordered, LineOf
  <2>3. in \in Seq(Requests)
    BY <2>1, HostTypes DEF WorkerInv, TypeInv
  <2>4. held \in {None, own}
    BY <2>2 DEF Line, OfOneFence
  <2>5. shut => \A j \in 1..Len(in) : ~IsFenced(in[j])
    BY <2>2 DEF Line, Shielded
  <2> QED BY <2>1, <2>3, <2>4, <2>5
<1>3. NoStrayFence
  BY <1>2 DEF NoStrayFence, Own
<1>4. FencedIsQuiet
  <2> SUFFICES ASSUME fence.acknowledged, fence.child = child PROVE
          /\ ActiveRuns = {} /\ ~starting
          /\ child # None => /\ ~\E i \in DOMAIN toWorker[child] : toWorker[child][i].method \in FencedMethods
                             /\ \A r \in Runs : ~Executes(child, r)
    BY DEF FencedIsQuiet
  <2>1. ActiveRuns = {} /\ ~starting
    BY DEF FenceInv, Drained, Fenced, Free
  <2>2. ASSUME child # None
        PROVE  ~\E i \in DOMAIN toWorker[child] : toWorker[child][i].method \in FencedMethods
    BY <1>2, <2>2 DEF Shut, IsFenced
  <2>3. ASSUME child # None, NEW r \in Runs PROVE ~Executes(child, r)
    <3>1. run[r] \in RunRecord /\ KnownOf(r) /\ Settled(run[r]) /\ ~Active(run[r])
      BY <2>1, RunTypes DEF FenceInv, Decided, ActiveRuns
    <3>2. ~failure
      BY <2>3 DEF WorkerInv, Processes
    <3>3. run[r].phase \in {"none", "over"}
      BY <3>1 DEF RunRecord, Active
    <3>4. CASE run[r].phase = "none"
      <4>1. host[child].run[r] = NoHostRun
        BY <1>1, <2>3, <3>1, <3>4 DEF KnownOf, Knows, NotSent, AllUntouched, Untouched
      <4> QED BY <4>1 DEF Executes, NoHostRun
    <3>5. CASE run[r].phase = "over"
      <4>1. Judged(run[r])
        BY <3>1, <3>2, <3>5 DEF Settled, Judged
      <4>2. ~Live(host[child].run[r])
        BY <1>1, <2>3, <3>1, <4>1 DEF KnownOf, Knows, AllQuiet, Quiet
      <4> QED BY <4>2 DEF Executes, Live
    <3> QED BY <3>3, <3>4, <3>5
  <2> QED BY <2>1, <2>2, <2>3
<1> QED BY <1>3, <1>4 DEF FenceIsKept

LEMMA IdleFollows ==
  ASSUME WorkerInv, FenceInv
  PROVE  IdleProofHolds
<1> SUFFICES ASSUME watch.proof
             PROVE  /\ ActiveRuns = {} /\ pending = {}
                    /\ \A w \in Workers : host[w].up =>
                         /\ host[w].ops = {} /\ \A r \in Runs : ~InHost(host[w].run[r])
                         /\ \A i \in DOMAIN toWorker[w] : toWorker[w][i].method \notin FencedMethods
  BY DEF IdleProofHolds
<1>1. Still
  BY DEF FenceInv, Vouched
<1>2. ASSUME NEW w \in Workers, host[w].up
      PROVE  /\ host[w].ops = {} /\ \A r \in Runs : ~InHost(host[w].run[r])
             /\ \A i \in DOMAIN toWorker[w] : toWorker[w][i].method \notin FencedMethods
  <2>1. w = child /\ child # None
    BY <1>1, <1>2, NoneElse DEF WorkerInv, Processes, Still
  <2>2. Resting(host[w])
    BY <2>1 DEF FenceInv, Vouched
  <2>3. toWorker[w] \in Seq(Requests)
    BY HostTypes DEF WorkerInv, TypeInv
  <2>4. ASSUME NEW i \in 1..Len(toWorker[w]) PROVE toWorker[w][i].method \notin FencedMethods
    <3>1. toWorker[w][i] \in Requests
      BY <2>3
    <3>2. toWorker[w][i] \notin Operations /\ toWorker[w][i].method # "start"
      BY <1>1, <2>1, StillQueued
    <3>3. PICK q : q = toWorker[w][i]
      OBVIOUS
    <3>4. q \in Requests /\ q \notin Operations /\ q.method # "start"
      BY <3>1, <3>2, <3>3
    <3>5. q.method \notin FencedMethods
      BY <3>4 DEF Requests, Plain, StartRequests, RunRequests, CallRequests, FenceRequests, OwnRequests, Readings,
         Operations, FencedMethods
    <3> QED BY <3>3, <3>5
  <2>5. DOMAIN toWorker[w] = 1..Len(toWorker[w])
    BY <2>3
  <2> QED BY <2>2, <2>4, <2>5 DEF Resting
<1> QED BY <1>1, <1>2 DEF Still

(* The worker refuses work only for the fence the server holds, and an      *)
(* acknowledged fence keeps every start and query away from a worker in     *)
(* which nothing runs (fenceForDesktopRestart, releaseDesktopRestartFence), *)
(* however late the admission requests are answered and by whichever worker.*)
THEOREM FenceAlwaysKept == Spec => []FenceIsKept
<1>1. WorkerInv /\ FenceInv => FenceIsKept
  BY FenceFollows
<1> QED BY <1>1, FenceInvHolds, PTL

(* A report of idleness that no activity has outdated is true: nothing runs *)
(* in a live worker and nothing is on its way to one                        *)
(* (readDesktopRestartActivity), so that stopping it loses no work.         *)
THEOREM IdleProofAlwaysHolds == Spec => []IdleProofHolds
<1>1. WorkerInv /\ FenceInv => IdleProofHolds
  BY IdleFollows
<1> QED BY <1>1, FenceInvHolds, PTL
=============================================================================
