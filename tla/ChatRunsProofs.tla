--------------------------- MODULE ChatRunsProofs ---------------------------
(***************************************************************************)
(* The transcript of every viewer of a session is faithful, and a run is   *)
(* ended by what belongs to it, for any number of browsers, runs, frames,  *)
(* lost sockets and restarts of the server.                                *)
(*                                                                         *)
(* What a browser will show is in three places: what it showed, the frames *)
(* on their way to it, and the cursors it sent, from which the registry    *)
(* will replay.  The invariant follows one socket at a time, and is about  *)
(* positions: `Ahead` is what a browser will have shown when it comes to   *)
(* the i-th frame of its socket.                                           *)
(***************************************************************************)
EXTENDS ChatRunsProperties, TLAPS

Whats == {"text", "ask", "cancel", "complete"}

RunRecord ==
  [status : {"running", "completed"}, turn : {"resolving", "spawned", "settled"},
   events : Seq(Whats), pending : BOOLEAN, open : BOOLEAN, reply : BOOLEAN,
   viewers : SUBSET Browsers, sender : Browsers \cup {None}]

Places == Nat \X Nat
Named == Nat \ {None}

BrowserRecord ==
  [online : BOOLEAN, owes : BOOLEAN, cursor : Nat, last : Nat, retired : SUBSET Nat,
   shown : Seq(Places), cards : SUBSET Named, busy : {"no", "before", "after"}, asked : Nat]

EventFrames == [kind : {"event"}, run : Named, seq : Nat, what : Whats]
SubscribedFrames ==
  [kind : {"subscribed"}, run : Nat, processing : BOOLEAN, last : Nat, cards : SUBSET Named]
Frames == {Error} \cup EventFrames \cup SubscribedFrames

Requests == {Sends, Aborts} \cup [kind : {"answer"}, run : Named]
              \cup [kind : {"subscribe"}, run : Nat, last : Nat]

TypeInv ==
  /\ run \in Seq(RunRecord) /\ current \in Nat
  /\ browser \in [Browsers -> BrowserRecord]
  /\ inbox \in [Browsers -> Seq(Frames)]
  /\ outbox \in [Browsers -> Seq(Requests)]
-----------------------------------------------------------------------------
(* The records of the registry, rs, and its run of the session, cur.       *)
Length(rs, g) == Len(rs[g].events)
Held(rs, g) == IF Length(rs, g) > BufferLimit THEN Length(rs, g) - BufferLimit + 1 ELSE 1
Goes(rs, cur) == cur # None /\ rs[cur].status = "running"
Happened(rs, g, n) == g \in 1..Len(rs) /\ n \in 1..Length(rs, g)

(* The last run is the session's or nobody's; a run that has its end has    *)
(* nothing behind it and no question.                                       *)
EndIsLast(x) ==
  /\ \A i \in 1..Len(x.events) : x.events[i] = "complete" =>
       i = Len(x.events) /\ x.status = "completed"
  /\ x.pending => x.status = "running"

RunsAgree(rs, cur) ==
  /\ cur \in {None, Len(rs)}
  /\ \A g \in 1..Len(rs) : EndIsLast(rs[g])

(* A browser, s, and the frames on their way to it, box.                    *)
Showed(s, g, n) == Contains(s.shown, <<g, n>>)
IsFrame(f, g, n) == f.kind = "event" /\ f.run = g /\ f.seq = n
Ahead(s, box, i, g, n) == Showed(s, g, n) \/ \E k \in 1..(i - 1) : IsFrame(box[k], g, n)

ShownGrows(rs, s) ==
  /\ \A i \in 1..Len(s.shown) : Happened(rs, s.shown[i][1], s.shown[i][2])
  /\ \A i \in 2..Len(s.shown) :
       \/ s.shown[i - 1][1] < s.shown[i][1]
       \/ s.shown[i - 1][1] = s.shown[i][1] /\ s.shown[i - 1][2] < s.shown[i][2]

(* Runs come one after the other.                                           *)
WireGrows(rs, s, box) ==
  \A i \in 1..Len(box) : box[i].kind = "event" =>
    /\ Happened(rs, box[i].run, box[i].seq)
    /\ \A j \in 1..Len(s.shown) : s.shown[j][1] <= box[i].run
    /\ \A j \in 1..(i - 1) : box[j].kind = "event" => box[j].run <= box[i].run

(* A frame that comes behind a later one of its run comes again.            *)
LateIsAgain(s, box) ==
  \A i \in 1..Len(box) : box[i].kind = "event" /\ box[i].run \notin s.retired =>
    \A m \in Nat : m > box[i].seq /\ Ahead(s, box, i, box[i].run, m)
                     => Ahead(s, box, i, box[i].run, box[i].seq)

Bounded(rs, s, box, reqs) ==
  /\ s.cursor <= Len(rs) /\ s.retired \subseteq 1..Len(rs)
  /\ \A i \in 1..Len(box) : box[i].kind # "error" => box[i].run <= Len(rs)
  /\ \A i \in 1..Len(reqs) : reqs[i].kind = "subscribe" => reqs[i].run <= Len(rs)
  /\ ~s.online => box = <<>> /\ reqs = <<>>

(* Who came to the session's run does not leave it for another.             *)
Stays(cur, s, box) ==
  cur # None =>
    /\ cur \notin s.retired
    /\ \A i \in 1..Len(box) : box[i].kind # "error" /\ box[i].run # cur =>
         /\ s.cursor # cur
         /\ \A j \in 1..(i - 1) : box[j].kind # "error" => box[j].run # cur

(* Of the run that runs, nothing the ring holds is left out before what is  *)
(* there, or before where a cursor stands; a viewer is ahead of everything; *)
(* and who was sent something of the run, and waits for no subscription, is *)
(* a viewer.                                                                *)
NothingLeftOut(rs, cur, s, box) ==
  \A i \in 1..(Len(box) + 1) : \A m, n \in Held(rs, cur)..Length(rs, cur) :
    n < m /\ Ahead(s, box, i, cur, m) => Ahead(s, box, i, cur, n)

ShowedUpTo(rs, cur, s, last) == \A n \in Held(rs, cur)..last : Showed(s, cur, n)

CursorsTold(rs, cur, s, reqs) ==
  /\ s.cursor = cur => ShowedUpTo(rs, cur, s, s.last)
  /\ \A i \in 1..Len(reqs) : reqs[i].kind = "subscribe" /\ reqs[i].run = cur =>
       ShowedUpTo(rs, cur, s, reqs[i].last)

ViewerIsAhead(rs, cur, s, box, b) ==
  b \in rs[cur].viewers =>
    /\ s.online
    /\ \A n \in Held(rs, cur)..Length(rs, cur) : Ahead(s, box, Len(box) + 1, cur, n)

FollowerIsViewer(rs, cur, s, box, reqs, b) ==
  \/ b \in rs[cur].viewers
  \/ /\ \A i \in 1..Len(box) : box[i].kind # "error" => box[i].run # cur
     /\ \/ s.cursor # cur \/ ~s.online \/ s.owes
        \/ \E i \in 1..Len(reqs) : reqs[i].kind = "subscribe"

Follows(rs, cur, s, box, reqs, b) ==
  /\ NothingLeftOut(rs, cur, s, box) /\ CursorsTold(rs, cur, s, reqs)
  /\ ViewerIsAhead(rs, cur, s, box, b) /\ FollowerIsViewer(rs, cur, s, box, reqs, b)

Wired(rs, cur, s, box, reqs, b) ==
  /\ ShownGrows(rs, s) /\ WireGrows(rs, s, box) /\ LateIsAgain(s, box)
  /\ Bounded(rs, s, box, reqs) /\ Stays(cur, s, box)
  /\ Goes(rs, cur) => Follows(rs, cur, s, box, reqs, b)

ChatInv ==
  /\ TypeInv /\ RunsAgree(run, current)
  /\ \A b \in Browsers : Wired(run, current, browser[b], inbox[b], outbox[b], b)
-----------------------------------------------------------------------------
(* What the invariant shows.                                                *)
LEMMA TranscriptFollows == ChatInv => TranscriptIsFaithful
<1> SUFFICES ASSUME ChatInv
             PROVE  TranscriptIsFaithful
  OBVIOUS
<1> USE DEF ChatInv, TypeInv
<1>1. ShownInOrder
  <2> SUFFICES ASSUME NEW b \in Browsers, NEW i \in 1..Len(browser[b].shown)
               PROVE  LET shown == browser[b].shown
                      IN /\ shown[i][2] <= LastOf(shown[i][1])
                         /\ run[shown[i][1]].events[shown[i][2]] = "complete"
                              => shown[i][2] = LastOf(shown[i][1])
                         /\ i > 1 => \/ shown[i - 1][1] < shown[i][1]
                                     \/ /\ shown[i - 1][1] = shown[i][1]
                                        /\ shown[i - 1][2] < shown[i][2]
    BY DEF ShownInOrder
  <2>1. ShownGrows(run, browser[b]) /\ browser[b] \in BrowserRecord
    BY DEF Wired
  <2>2. Happened(run, browser[b].shown[i][1], browser[b].shown[i][2])
    BY <2>1 DEF ShownGrows
  <2>3. EndIsLast(run[browser[b].shown[i][1]])
    BY <2>2 DEF RunsAgree, Happened
  <2>4. i > 1 => i \in 2..Len(browser[b].shown)
    BY <2>1 DEF BrowserRecord
  <2>5. browser[b].shown[i][2] <= LastOf(browser[b].shown[i][1])
    BY <2>2 DEF Happened, LastOf, Length
  <2>6. run[browser[b].shown[i][1]].events[browser[b].shown[i][2]] = "complete"
          => browser[b].shown[i][2] = LastOf(browser[b].shown[i][1])
    BY <2>2, <2>3 DEF Happened, EndIsLast, LastOf, Length
  <2>7. i > 1 => \/ browser[b].shown[i - 1][1] < browser[b].shown[i][1]
                 \/ /\ browser[b].shown[i - 1][1] = browser[b].shown[i][1]
                    /\ browser[b].shown[i - 1][2] < browser[b].shown[i][2]
    BY <2>1, <2>4 DEF ShownGrows
  <2> QED BY <2>5, <2>6, <2>7
<1>2. ViewersMissNothing
  <2> SUFFICES ASSUME Processing, NEW b \in Browsers, Watches(b)
               PROVE  /\ browser[b].online
                      /\ current \notin browser[b].retired
                      /\ \A n \in Oldest(current)..LastOf(current) :
                           Contains(browser[b].shown, <<current, n>>) \/ OnItsWay(b, current, n)
    BY DEF ViewersMissNothing
  <2>1. Goes(run, current) /\ current # None
    BY DEF Goes, Processing
  <2>2. Wired(run, current, browser[b], inbox[b], outbox[b], b)
    OBVIOUS
  <2>3. b \in run[current].viewers
    BY <2>1, <2>2 DEF Wired, Follows, FollowerIsViewer, Watches, Requested
  <2>4. browser[b].online /\ current \notin browser[b].retired
    BY <2>1, <2>2, <2>3 DEF Wired, Follows, ViewerIsAhead, Stays
  <2>5. ASSUME NEW n \in Oldest(current)..LastOf(current)
        PROVE  Contains(browser[b].shown, <<current, n>>) \/ OnItsWay(b, current, n)
    <3>1. n \in Held(run, current)..Length(run, current)
      BY DEF Oldest, LastOf, Held, Length
    <3>2. Ahead(browser[b], inbox[b], Len(inbox[b]) + 1, current, n)
      BY <2>1, <2>2, <2>3, <3>1 DEF Wired, Follows, ViewerIsAhead
    <3>3. Len(inbox[b]) \in Nat
      OBVIOUS
    <3> QED BY <3>2, <3>3 DEF Ahead, Showed, IsFrame, OnItsWay
  <2> QED BY <2>4, <2>5
<1> QED BY <1>1, <1>2 DEF TranscriptIsFaithful
-----------------------------------------------------------------------------
(* What a browser does with a frame.                                        *)
Untracked(s, t) ==
  t.cursor = s.cursor /\ t.last = s.last /\ t.retired = s.retired /\ t.shown = s.shown
Settled(s, t) == t.online = s.online /\ t.owes = s.owes

Drops(s, f) == f.kind = "error" \/ f.run \in s.retired

LEMMA TrackedIs ==
  ASSUME NEW s \in BrowserRecord, NEW f \in Frames, f.kind # "error"
  PROVE  /\ Tracked(s, f) \in BrowserRecord /\ Settled(s, Tracked(s, f))
         /\ Tracked(s, f).shown = s.shown /\ Tracked(s, f).cursor = f.run
         /\ Tracked(s, f).retired =
              IF s.cursor \in {None, f.run} THEN s.retired ELSE s.retired \cup {s.cursor}
         /\ Tracked(s, f).last =
              IF /\ f.kind = "event"
                 /\ f.seq > (IF s.cursor = f.run THEN s.last ELSE 0)
              THEN f.seq ELSE IF s.cursor = f.run THEN s.last ELSE 0
<1>1. f.run \in Nat /\ (f.kind = "event" => f.seq \in Nat)
  BY DEF Frames, EventFrames, SubscribedFrames, Error, Named
<1> QED BY <1>1 DEF Tracked, BrowserRecord, Settled

LEMMA AnsweredIs ==
  ASSUME NEW s \in BrowserRecord, NEW f \in SubscribedFrames
  PROVE  Answered(s, f) \in BrowserRecord /\ Untracked(s, Answered(s, f)) /\ Settled(s, Answered(s, f))
BY DEF Answered, Marked, Idle, BrowserRecord, SubscribedFrames, Untracked, Settled

LEMMA ShownIs ==
  ASSUME NEW s \in BrowserRecord, NEW f \in EventFrames
  PROVE  /\ Shown(s, f) \in BrowserRecord /\ Settled(s, Shown(s, f))
         /\ Untracked([s EXCEPT !.shown = Append(@, <<f.run, f.seq>>)], Shown(s, f))
<1> DEFINE t == [s EXCEPT !.shown = Append(@, <<f.run, f.seq>>)]
<1>1. t \in BrowserRecord /\ Settled(s, t)
  <2>1. <<f.run, f.seq>> \in Places /\ s.shown \in Seq(Places)
    BY DEF EventFrames, BrowserRecord, Places, Named
  <2>2. Append(s.shown, <<f.run, f.seq>>) \in Seq(Places)
    BY <2>1
  <2> QED BY <2>2 DEF BrowserRecord, Settled
<1> HIDE DEF t
<1>2. Shown(s, f) = CASE f.what = "complete" -> [Idle(t) EXCEPT !.cards = {}]
                      [] f.what = "ask" -> [Marked(t) EXCEPT !.cards = @ \cup {f.run}]
                      [] f.what = "cancel" -> [t EXCEPT !.cards = @ \ {f.run}]
                      [] OTHER -> t
  BY DEF Shown, t
<1>3. Shown(s, f) \in BrowserRecord /\ Untracked(t, Shown(s, f)) /\ Settled(t, Shown(s, f))
  <2> USE <1>1 DEF Idle, Marked, BrowserRecord, EventFrames, Untracked, Settled
  <2>1. CASE f.what = "complete"
    <3>1. Shown(s, f) = [Idle(t) EXCEPT !.cards = {}]
      BY ONLY <1>2, <2>1
    <3>2. Idle(t) \in BrowserRecord /\ Untracked(t, Idle(t)) /\ Settled(t, Idle(t))
      OBVIOUS
    <3> QED BY <3>1, <3>2
  <2>2. CASE f.what = "ask"
    <3>1. Shown(s, f) = [Marked(t) EXCEPT !.cards = @ \cup {f.run}]
      BY ONLY <1>2, <2>2
    <3>2. Marked(t) \in BrowserRecord /\ Untracked(t, Marked(t)) /\ Settled(t, Marked(t))
      OBVIOUS
    <3>3. Marked(t).cards \cup {f.run} \in SUBSET Named
      BY <3>2
    <3> QED BY <3>1, <3>2, <3>3
  <2>3. CASE f.what = "cancel"
    <3>1. Shown(s, f) = [t EXCEPT !.cards = @ \ {f.run}]
      BY ONLY <1>2, <2>3
    <3>2. t.cards \ {f.run} \in SUBSET Named
      OBVIOUS
    <3> QED BY <3>1, <3>2
  <2>4. CASE f.what \notin {"complete", "ask", "cancel"}
    BY <1>2, <2>4
  <2> QED BY <2>1, <2>2, <2>3, <2>4
<1> QED BY <1>1, <1>3 DEF t, Settled

(* A frame is dropped, or moves the cursor and is shown unless it was.      *)
LEMMA ReceivedIs ==
  ASSUME NEW s \in BrowserRecord, NEW f \in Frames
  PROVE  /\ Received(s, f) \in BrowserRecord /\ Settled(s, Received(s, f))
         /\ Drops(s, f) => Untracked(s, Received(s, f))
         /\ ~Drops(s, f) =>
              /\ Received(s, f).cursor = Tracked(s, f).cursor
              /\ Received(s, f).last = Tracked(s, f).last
              /\ Received(s, f).retired = Tracked(s, f).retired
              /\ Received(s, f).shown =
                   IF f.kind = "event" /\ ~Showed(s, f.run, f.seq)
                   THEN Append(s.shown, <<f.run, f.seq>>) ELSE s.shown
<1>1. CASE f.kind = "error"
  <2>1. Received(s, f) = Idle(s)
    BY <1>1 DEF Received
  <2> QED BY <1>1, <2>1 DEF Idle, BrowserRecord, Untracked, Settled, Drops
<1>2. CASE f.kind # "error" /\ f.run \in s.retired
  <2>1. Received(s, f) = s
    BY <1>2 DEF Received
  <2> QED BY <1>2, <2>1 DEF Untracked, Settled, Drops
<1>3. CASE f.kind = "subscribed" /\ f.run \notin s.retired
  <2>1. Received(s, f) = Answered(Tracked(s, f), f)
    BY <1>3 DEF Received
  <2>2. f \in SubscribedFrames
    BY <1>3 DEF Frames, EventFrames, SubscribedFrames, Error, Named
  <2>3. /\ Tracked(s, f) \in BrowserRecord /\ Settled(s, Tracked(s, f))
        /\ Tracked(s, f).shown = s.shown
    BY <1>3, TrackedIs
  <2>4. /\ Answered(Tracked(s, f), f) \in BrowserRecord
        /\ Untracked(Tracked(s, f), Answered(Tracked(s, f), f))
        /\ Settled(Tracked(s, f), Answered(Tracked(s, f), f))
    BY <2>2, <2>3, AnsweredIs
  <2> QED BY <1>3, <2>1, <2>3, <2>4 DEF Untracked, Settled, Drops
<1>4. CASE f.kind = "event" /\ f.run \notin s.retired
  <2>1. Received(s, f) = IF Accepted(s, f) THEN Shown(Tracked(s, f), f) ELSE Tracked(s, f)
    BY <1>4 DEF Received
  <2>2. f \in EventFrames
    BY <1>4 DEF Frames, EventFrames, SubscribedFrames, Error, Named
  <2>3. /\ Tracked(s, f) \in BrowserRecord /\ Settled(s, Tracked(s, f))
        /\ Tracked(s, f).shown = s.shown
    BY <1>4, TrackedIs
  <2> DEFINE y == [Tracked(s, f) EXCEPT !.shown = Append(@, <<f.run, f.seq>>)]
  <2>4. /\ Shown(Tracked(s, f), f) \in BrowserRecord
        /\ Settled(Tracked(s, f), Shown(Tracked(s, f), f))
        /\ Untracked(y, Shown(Tracked(s, f), f))
    BY <2>2, <2>3, ShownIs
  <2>5. /\ y.cursor = Tracked(s, f).cursor /\ y.last = Tracked(s, f).last
        /\ y.retired = Tracked(s, f).retired
        /\ y.shown = Append(s.shown, <<f.run, f.seq>>)
    BY <2>3 DEF BrowserRecord
  <2>6. Accepted(s, f) <=> ~Showed(s, f.run, f.seq)
    BY DEF Accepted, Showed
  <2> QED BY <1>4, <2>1, <2>3, <2>4, <2>5, <2>6 DEF Untracked, Settled, Drops
<1>5. f.kind \in {"error", "event", "subscribed"}
  BY DEF Frames, EventFrames, SubscribedFrames, Error, Named
<1> QED BY <1>1, <1>2, <1>3, <1>4, <1>5
-----------------------------------------------------------------------------
(* A frame is received: what was ahead of the others stays ahead of them.   *)
LEMMA FrameTypes ==
  ASSUME NEW f \in Frames
  PROVE  /\ f.kind \in {"error", "event", "subscribed"}
         /\ f.kind # "error" => f.run \in Nat
         /\ f.kind = "event" => f.seq \in Nat /\ f \in EventFrames
         /\ f.kind = "subscribed" => f \in SubscribedFrames
BY DEF Frames, EventFrames, SubscribedFrames, Error, Named

LEMMA TailIs ==
  ASSUME NEW box \in Seq(Frames), box # <<>>
  PROVE  /\ Tail(box) \in Seq(Frames) /\ Len(Tail(box)) = Len(box) - 1
         /\ Len(box) \in Nat \ {0} /\ Head(box) = box[1] /\ Head(box) \in Frames
         /\ \A i \in 1..Len(Tail(box)) : Tail(box)[i] = box[i + 1] /\ i + 1 \in 1..Len(box)
OBVIOUS

LEMMA ContainsMore ==
  ASSUME NEW S, NEW q \in Seq(S), NEW x \in S, NEW e
  PROVE  Contains(Append(q, x), e) <=> Contains(q, e) \/ e = x
BY DEF Contains

LEMMA ShowsMore ==
  ASSUME NEW s \in BrowserRecord, NEW t, NEW x \in Places,
         t.shown = Append(s.shown, x), NEW h, NEW m
  PROVE  Showed(t, h, m) <=> Showed(s, h, m) \/ (h = x[1] /\ m = x[2])
<1>1. s.shown \in Seq(Places)
  BY DEF BrowserRecord
<1>2. PICK e : e = <<h, m>>
  OBVIOUS
<1>3. Contains(t.shown, e) <=> Contains(s.shown, e) \/ e = x
  BY <1>1, ContainsMore
<1>4. e = x <=> h = x[1] /\ m = x[2]
  BY <1>2 DEF Places
<1> QED BY <1>2, <1>3, <1>4, Zenon DEF Showed

LEMMA AheadShifts ==
  ASSUME NEW s \in BrowserRecord, NEW box \in Seq(Frames), box # <<>>,
         NEW i \in 1..Len(box), NEW g, g \notin Received(s, Head(box)).retired, NEW n
  PROVE  Ahead(Received(s, Head(box)), Tail(box), i, g, n) <=> Ahead(s, box, i + 1, g, n)
<1>5. PICK f : f = Head(box)
  OBVIOUS
<1>6. PICK t : t = Received(s, f)
  OBVIOUS
<1>1. f \in Frames /\ f = box[1] /\ Len(box) \in Nat \ {0}
  BY <1>5, TailIs
<1>2. Showed(t, g, n) <=> Showed(s, g, n) \/ IsFrame(box[1], g, n)
  <2>1. CASE Drops(s, f)
    <3>1. t.shown = s.shown /\ t.retired = s.retired
      BY <1>1, <2>1, <1>6, ReceivedIs DEF Untracked
    <3>2. ~IsFrame(box[1], g, n)
      BY <1>1, <1>5, <1>6, <2>1, <3>1 DEF Drops, IsFrame
    <3> QED BY <3>1, <3>2 DEF Showed
  <2>2. CASE ~Drops(s, f) /\ f.kind = "event" /\ ~Showed(s, f.run, f.seq)
    <3>1. t.shown = Append(s.shown, <<f.run, f.seq>>)
      BY <1>1, <2>2, <1>6, ReceivedIs
    <3>2. PICK x \in Places : x = <<f.run, f.seq>>
      BY <1>1, <2>2, FrameTypes DEF Places
    <3>3. t.shown = Append(s.shown, x)
      BY <3>1, <3>2
    <3>4. Showed(t, g, n) <=> Showed(s, g, n) \/ (g = x[1] /\ n = x[2])
      BY <3>3, ShowsMore
    <3> QED BY <1>1, <2>2, <3>2, <3>4 DEF IsFrame
  <2>3. CASE ~Drops(s, f) /\ ~(f.kind = "event" /\ ~Showed(s, f.run, f.seq))
    <3>1. t.shown = s.shown
      BY <1>1, <2>3, <1>6, ReceivedIs
    <3> QED BY <1>1, <2>3, <3>1 DEF Showed, IsFrame
  <2> QED BY <2>1, <2>2, <2>3
<1>3. (\E k \in 1..(i - 1) : IsFrame(Tail(box)[k], g, n))
        <=> \E k \in 2..((i + 1) - 1) : IsFrame(box[k], g, n)
  <2>1. ASSUME NEW k \in 1..(i - 1), IsFrame(Tail(box)[k], g, n)
        PROVE  k + 1 \in 2..((i + 1) - 1) /\ IsFrame(box[k + 1], g, n)
    BY <2>1, TailIs
  <2>2. ASSUME NEW k \in 2..((i + 1) - 1), IsFrame(box[k], g, n)
        PROVE  k - 1 \in 1..(i - 1) /\ IsFrame(Tail(box)[k - 1], g, n)
    <3>1. k - 1 \in 1..Len(Tail(box)) /\ (k - 1) + 1 = k
      BY <1>1, TailIs
    <3> QED BY <2>2, <3>1, TailIs
  <2> QED BY <2>1, <2>2
<1>4. (\E k \in 1..((i + 1) - 1) : IsFrame(box[k], g, n))
        <=> IsFrame(box[1], g, n) \/ \E k \in 2..((i + 1) - 1) : IsFrame(box[k], g, n)
  BY <1>1
<1> QED BY <1>5, <1>6, <1>2, <1>3, <1>4 DEF Ahead
LEMMA Bases ==
  ASSUME NEW rs \in Seq(RunRecord), NEW g \in 1..Len(rs)
  PROVE  /\ rs[g] \in RunRecord /\ rs[g].events \in Seq(Whats)
         /\ Length(rs, g) \in Nat /\ Held(rs, g) \in Nat \ {0}
         /\ Held(rs, g) <= Length(rs, g) + 1
<1>1. rs[g] \in RunRecord
  OBVIOUS
<1>2. rs[g].events \in Seq(Whats)
  BY <1>1 DEF RunRecord
<1> HIDE DEF RunRecord
<1>3. Len(rs[g].events) \in Nat
  BY <1>2
<1> QED BY <1>1, <1>2, <1>3, BufferAssumption DEF Length, Held

LEMMA LastIsIn ==
  ASSUME NEW S, NEW q \in Seq(S), Len(q) > 0
  PROVE  q[Len(q)] \in S
OBVIOUS

LEMMA ReceiptGrows ==
  ASSUME NEW rs \in Seq(RunRecord), NEW s \in BrowserRecord,
         NEW box \in Seq(Frames), box # <<>>,
         ShownGrows(rs, s), WireGrows(rs, s, box), LateIsAgain(s, box)
  PROVE  /\ ShownGrows(rs, Received(s, Head(box)))
         /\ WireGrows(rs, Received(s, Head(box)), Tail(box))
         /\ LateIsAgain(Received(s, Head(box)), Tail(box))
<1>1. PICK f : f = Head(box)
  OBVIOUS
<1>2. PICK t : t = Received(s, f)
  OBVIOUS
<1>3. PICK q : q = Tail(box)
  OBVIOUS
<1>4. /\ q \in Seq(Frames) /\ Len(q) = Len(box) - 1 /\ Len(box) \in Nat \ {0}
      /\ f = box[1] /\ f \in Frames
      /\ \A i \in 1..Len(q) : q[i] = box[i + 1] /\ i + 1 \in 2..Len(box) /\ i + 1 \in 1..Len(box)
  BY <1>1, <1>3, TailIs
<1>5. /\ t \in BrowserRecord /\ s.retired \subseteq t.retired
      /\ \/ t.shown = s.shown
         \/ /\ f.kind = "event" /\ f.run \notin s.retired /\ ~Showed(s, f.run, f.seq)
            /\ t.shown = Append(s.shown, <<f.run, f.seq>>)
  <2>1. CASE Drops(s, f)
    BY <1>2, <1>4, <2>1, ReceivedIs DEF Untracked
  <2>2. CASE ~Drops(s, f)
    <3>1. f.kind # "error" /\ f.run \notin s.retired
      BY <2>2 DEF Drops
    <3>2. s.retired \subseteq Tracked(s, f).retired
      BY <1>4, <3>1, TrackedIs
    <3>3. /\ t \in BrowserRecord /\ t.retired = Tracked(s, f).retired
          /\ t.shown = IF f.kind = "event" /\ ~Showed(s, f.run, f.seq)
                       THEN Append(s.shown, <<f.run, f.seq>>) ELSE s.shown
      BY <1>2, <1>4, <2>2, ReceivedIs
    <3> QED BY <3>1, <3>2, <3>3
  <2> QED BY <2>1, <2>2
<1>6. s.shown \in Seq(Places) /\ t.shown \in Seq(Places)
  BY <1>5 DEF BrowserRecord
<1>7. ASSUME t.shown = s.shown
      PROVE  ShownGrows(rs, t) /\ WireGrows(rs, t, q)
  <2>1. ShownGrows(rs, t)
    BY <1>7 DEF ShownGrows
  <2>2. WireGrows(rs, t, q)
    <3> SUFFICES ASSUME NEW i \in 1..Len(q), q[i].kind = "event"
                 PROVE  /\ Happened(rs, q[i].run, q[i].seq)
                        /\ \A j \in 1..Len(t.shown) : t.shown[j][1] <= q[i].run
                        /\ \A j \in 1..(i - 1) : q[j].kind = "event" => q[j].run <= q[i].run
      BY DEF WireGrows
    <3>1. q[i] = box[i + 1] /\ i + 1 \in 1..Len(box)
      BY <1>4
    <3>2. /\ Happened(rs, q[i].run, q[i].seq)
          /\ \A j \in 1..Len(t.shown) : t.shown[j][1] <= q[i].run
      BY <1>7, <3>1 DEF WireGrows
    <3>3. ASSUME NEW j \in 1..(i - 1), q[j].kind = "event"
          PROVE  q[j].run <= q[i].run
      <4>1. q[j] = box[j + 1] /\ j + 1 \in 1..((i + 1) - 1)
        BY <1>4
      <4> QED BY <3>1, <3>3, <4>1 DEF WireGrows
    <3> QED BY <3>2, <3>3
  <2> QED BY <2>1, <2>2
<1>8. ASSUME f.kind = "event" /\ f.run \notin s.retired /\ ~Showed(s, f.run, f.seq),
             t.shown = Append(s.shown, <<f.run, f.seq>>)
      PROVE  ShownGrows(rs, t) /\ WireGrows(rs, t, q)
  <2>1. PICK x \in Places : x = <<f.run, f.seq>> /\ x[1] = f.run /\ x[2] = f.seq
    <3>1. f.run \in Nat /\ f.seq \in Nat
      BY <1>4, <1>8, FrameTypes
    <3>2. PICK x \in Places : x = <<f.run, f.seq>>
      BY <3>1 DEF Places
    <3>3. x[1] = f.run /\ x[2] = f.seq
      BY <3>2
    <3> QED BY <3>2, <3>3
  <2>2. /\ t.shown = Append(s.shown, x) /\ Len(t.shown) = Len(s.shown) + 1
        /\ Len(s.shown) \in Nat /\ t.shown[Len(s.shown) + 1] = x
        /\ \A i \in 1..Len(s.shown) : t.shown[i] = s.shown[i]
    BY <1>6, <1>8, <2>1
  <2>3. Happened(rs, f.run, f.seq) /\ \A j \in 1..Len(s.shown) : s.shown[j][1] <= f.run
    BY <1>4, <1>8 DEF WireGrows
  <2>4. ASSUME Len(s.shown) > 0, s.shown[Len(s.shown)][1] = f.run
        PROVE  s.shown[Len(s.shown)][2] < f.seq
    <3>1. PICK e \in Places : e = s.shown[Len(s.shown)]
      <4>1. s.shown[Len(s.shown)] \in Places
        BY <1>6, <2>4, LastIsIn
      <4> QED BY <4>1
    <3>2. e = <<f.run, e[2]>> /\ e[2] \in Nat /\ f.seq \in Nat
      <4>1. e[1] = f.run
        BY <2>4, <3>1
      <4>2. e \in Nat \X Nat /\ x \in Nat \X Nat
        BY DEF Places
      <4>3. e = <<e[1], e[2]>> /\ e[2] \in Nat /\ x[2] \in Nat
        BY <4>2
      <4> QED BY <2>1, <4>1, <4>3
    <3>3. Showed(s, f.run, e[2])
      BY <2>2, <2>4, <3>1, <3>2, SMTT(30) DEF Showed, Contains
    <3>4. e[2] # f.seq
      BY <1>8, <3>3
    <3>5. ~(e[2] > f.seq)
      <4>1. Ahead(s, box, 1, f.run, e[2])
        BY <3>3 DEF Ahead
      <4>2. ~Ahead(s, box, 1, f.run, f.seq)
        BY <1>8 DEF Ahead
      <4> QED BY <1>4, <1>8, <3>2, <4>1, <4>2 DEF LateIsAgain
    <3> QED BY <3>1, <3>2, <3>4, <3>5
  <2>5. ShownGrows(rs, t)
    <3>1. ASSUME NEW i \in 1..Len(t.shown)
          PROVE  Happened(rs, t.shown[i][1], t.shown[i][2])
      <4>1. CASE i = Len(s.shown) + 1
        BY <2>1, <2>2, <2>3, <4>1
      <4>2. CASE i # Len(s.shown) + 1
        BY <2>2, <4>2 DEF ShownGrows
      <4> QED BY <4>1, <4>2
    <3>2. ASSUME NEW i \in 2..Len(t.shown)
          PROVE  \/ t.shown[i - 1][1] < t.shown[i][1]
                 \/ t.shown[i - 1][1] = t.shown[i][1] /\ t.shown[i - 1][2] < t.shown[i][2]
      <4>1. CASE i = Len(s.shown) + 1
        <5>1. t.shown[i] = x /\ t.shown[i - 1] = s.shown[Len(s.shown)] /\ Len(s.shown) > 0
          BY <2>2, <4>1
        <5>2. s.shown[Len(s.shown)][1] <= f.run /\ s.shown[Len(s.shown)][1] \in Nat
          <6>1. s.shown[Len(s.shown)] \in Places
            BY <1>6, <5>1, LastIsIn
          <6>2. Len(s.shown) \in 1..Len(s.shown)
            BY <2>2, <5>1
          <6> QED BY <2>3, <6>1, <6>2 DEF Places
        <5>3. f.run \in Nat
          BY <2>1 DEF Places
        <5> QED BY <2>1, <2>4, <5>1, <5>2, <5>3
      <4>2. CASE i # Len(s.shown) + 1
        <5>1. i \in 2..Len(s.shown) /\ t.shown[i] = s.shown[i] /\ t.shown[i - 1] = s.shown[i - 1]
          BY <2>2, <4>2
        <5> QED BY <5>1 DEF ShownGrows
      <4> QED BY <4>1, <4>2
    <3> QED BY <3>1, <3>2 DEF ShownGrows
  <2>6. WireGrows(rs, t, q)
    <3> SUFFICES ASSUME NEW i \in 1..Len(q), q[i].kind = "event"
                 PROVE  /\ Happened(rs, q[i].run, q[i].seq)
                        /\ \A j \in 1..Len(t.shown) : t.shown[j][1] <= q[i].run
                        /\ \A j \in 1..(i - 1) : q[j].kind = "event" => q[j].run <= q[i].run
      BY DEF WireGrows
    <3>1. q[i] = box[i + 1] /\ i + 1 \in 1..Len(box) /\ 1 \in 1..((i + 1) - 1)
      BY <1>4
    <3>2. /\ Happened(rs, q[i].run, q[i].seq)
          /\ \A j \in 1..Len(s.shown) : s.shown[j][1] <= q[i].run
      BY <3>1 DEF WireGrows
    <3>3. ASSUME NEW j \in 1..(i - 1), q[j].kind = "event"
          PROVE  q[j].run <= q[i].run
      <4>1. q[j] = box[j + 1] /\ j + 1 \in 1..((i + 1) - 1)
        BY <1>4
      <4> QED BY <3>1, <3>3, <4>1 DEF WireGrows
    <3>4. f.run <= q[i].run
      BY <1>4, <1>8, <3>1 DEF WireGrows
    <3>5. ASSUME NEW j \in 1..Len(t.shown)
          PROVE  t.shown[j][1] <= q[i].run
      BY <2>1, <2>2, <3>2, <3>4
    <3> QED BY <3>2, <3>3, <3>5
  <2> QED BY <2>5, <2>6
<1>9. LateIsAgain(t, q)
  <2> SUFFICES ASSUME NEW i \in 1..Len(q), q[i].kind = "event", q[i].run \notin t.retired,
                      NEW m \in Nat, m > q[i].seq, Ahead(t, q, i, q[i].run, m)
               PROVE  Ahead(t, q, i, q[i].run, q[i].seq)
    BY DEF LateIsAgain
  <2>1. q[i] = box[i + 1] /\ i + 1 \in 1..Len(box) /\ i \in 1..Len(box)
    BY <1>4
  <2>2. \A n : Ahead(t, q, i, q[i].run, n) <=> Ahead(s, box, i + 1, q[i].run, n)
    BY <1>1, <1>2, <1>3, <2>1, AheadShifts
  <2>3. q[i].run \notin s.retired
    BY <1>5
  <2> QED BY <2>1, <2>2, <2>3 DEF LateIsAgain
<1> QED BY <1>1, <1>2, <1>3, <1>5, <1>7, <1>8, <1>9
LEMMA TakenIs ==
  ASSUME NEW s \in BrowserRecord, NEW f \in Frames, ~Drops(s, f)
  PROVE  /\ f.kind # "error" /\ Received(s, f).cursor = f.run
         /\ Received(s, f).retired =
              IF s.cursor \in {None, f.run} THEN s.retired ELSE s.retired \cup {s.cursor}
         /\ Received(s, f).last =
              IF /\ f.kind = "event"
                 /\ f.seq > (IF s.cursor = f.run THEN s.last ELSE 0)
              THEN f.seq ELSE IF s.cursor = f.run THEN s.last ELSE 0
<1>1. f.kind # "error"
  BY DEF Drops
<1>2. /\ Received(s, f).cursor = Tracked(s, f).cursor
      /\ Received(s, f).last = Tracked(s, f).last
      /\ Received(s, f).retired = Tracked(s, f).retired
  BY ReceivedIs
<1> QED BY <1>1, <1>2, TrackedIs

LEMMA ShowedStays ==
  ASSUME NEW s \in BrowserRecord, NEW f \in Frames, NEW g, NEW n, Showed(s, g, n)
  PROVE  Showed(Received(s, f), g, n)
<1>1. PICK t : t = Received(s, f)
  OBVIOUS
<1>2. CASE t.shown = s.shown
  BY <1>1, <1>2 DEF Showed
<1>3. CASE t.shown # s.shown
  <2>1. f.kind = "event" /\ t.shown = Append(s.shown, <<f.run, f.seq>>)
    BY <1>1, <1>3, ReceivedIs DEF Untracked
  <2>2. PICK x \in Places : x = <<f.run, f.seq>>
    BY <2>1, FrameTypes DEF Places
  <2>3. t.shown = Append(s.shown, x)
    BY <2>1, <2>2
  <2> QED BY <1>1, <2>3, ShowsMore
<1> QED BY <1>2, <1>3

LEMMA ReceiptBounded ==
  ASSUME NEW rs \in Seq(RunRecord), NEW cur \in Nat, NEW s \in BrowserRecord,
         NEW box \in Seq(Frames), box # <<>>, NEW reqs \in Seq(Requests),
         Bounded(rs, s, box, reqs), Stays(cur, s, box)
  PROVE  /\ Bounded(rs, Received(s, Head(box)), Tail(box), reqs)
         /\ Stays(cur, Received(s, Head(box)), Tail(box))
<1>1. PICK f : f = Head(box)
  OBVIOUS
<1>2. PICK t : t = Received(s, f)
  OBVIOUS
<1>3. PICK q : q = Tail(box)
  OBVIOUS
<1>4. /\ q \in Seq(Frames) /\ Len(q) = Len(box) - 1 /\ Len(box) \in Nat \ {0}
      /\ f = box[1] /\ f \in Frames
      /\ \A i \in 1..Len(q) : q[i] = box[i + 1] /\ i + 1 \in 2..Len(box) /\ i + 1 \in 1..Len(box)
  BY <1>1, <1>3, TailIs
<1>5. /\ t.online = s.online
      /\ \/ t.cursor = s.cursor /\ t.retired = s.retired
         \/ /\ f.kind # "error" /\ t.cursor = f.run
            /\ t.retired = IF s.cursor \in {None, f.run} THEN s.retired ELSE s.retired \cup {s.cursor}
  <2>1. CASE Drops(s, f)
    BY <1>2, <1>4, <2>1, ReceivedIs DEF Untracked, Settled
  <2>2. CASE ~Drops(s, f)
    BY <1>2, <1>4, <2>2, ReceivedIs, TakenIs DEF Settled
  <2> QED BY <2>1, <2>2
<1>6. s.online /\ s.cursor \in Nat
  BY DEF Bounded, BrowserRecord
<1>7. Bounded(rs, t, q, reqs)
  <2>1. t.cursor <= Len(rs) /\ t.retired \subseteq 1..Len(rs)
    BY <1>4, <1>5, <1>6 DEF Bounded, None
  <2>2. \A i \in 1..Len(q) : q[i].kind # "error" => q[i].run <= Len(rs)
    BY <1>4 DEF Bounded
  <2> QED BY <1>5, <1>6, <2>1, <2>2 DEF Bounded
<1>8. Stays(cur, t, q)
  <2> SUFFICES ASSUME cur # None
               PROVE  /\ cur \notin t.retired
                      /\ \A i \in 1..Len(q) : q[i].kind # "error" /\ q[i].run # cur =>
                           /\ t.cursor # cur
                           /\ \A j \in 1..(i - 1) : q[j].kind # "error" => q[j].run # cur
    BY DEF Stays
  <2>1. cur \notin t.retired
    BY <1>4, <1>5 DEF Stays
  <2>2. ASSUME NEW i \in 1..Len(q), q[i].kind # "error" /\ q[i].run # cur
        PROVE  t.cursor # cur
    <3>1. q[i] = box[i + 1] /\ i + 1 \in 1..Len(box) /\ 1 \in 1..((i + 1) - 1)
      BY <1>4
    <3> QED BY <1>4, <1>5, <2>2, <3>1 DEF Stays
  <2>3. ASSUME NEW i \in 1..Len(q), q[i].kind # "error" /\ q[i].run # cur,
               NEW j \in 1..(i - 1), q[j].kind # "error"
        PROVE  q[j].run # cur
    <3>1. q[i] = box[i + 1] /\ i + 1 \in 1..Len(box)
      BY <1>4
    <3>2. j \in 1..Len(q) /\ j + 1 \in 1..((i + 1) - 1)
      BY <1>4
    <3>3. q[j] = box[j + 1]
      BY <1>4, <3>2
    <3> QED BY <2>3, <3>1, <3>2, <3>3 DEF Stays
  <2> QED BY <2>1, <2>2, <2>3
<1> QED BY <1>1, <1>2, <1>3, <1>7, <1>8

LEMMA ReceiptFollows ==
  ASSUME NEW rs \in Seq(RunRecord), NEW cur \in 1..Len(rs), NEW s \in BrowserRecord,
         NEW box \in Seq(Frames), box # <<>>, NEW reqs \in Seq(Requests), NEW b,
         WireGrows(rs, s, box), Stays(cur, s, box), Stays(cur, Received(s, Head(box)), Tail(box)),
         Follows(rs, cur, s, box, reqs, b)
  PROVE  Follows(rs, cur, Received(s, Head(box)), Tail(box), reqs, b)
<1>1. PICK f : f = Head(box)
  OBVIOUS
<1>2. PICK t : t = Received(s, f)
  OBVIOUS
<1>3. PICK q : q = Tail(box)
  OBVIOUS
<1>4. /\ q \in Seq(Frames) /\ Len(q) = Len(box) - 1 /\ Len(box) \in Nat \ {0}
      /\ f = box[1] /\ f \in Frames
      /\ \A i \in 1..Len(q) : q[i] = box[i + 1] /\ i + 1 \in 2..Len(box) /\ i + 1 \in 1..Len(box)
  BY <1>1, <1>3, TailIs
<1>5. cur # None /\ cur \notin t.retired
  BY <1>1, <1>2 DEF Stays, None
<1>6. \A i \in 1..Len(box) : \A n : Ahead(t, q, i, cur, n) <=> Ahead(s, box, i + 1, cur, n)
  BY <1>1, <1>2, <1>3, <1>5, AheadShifts
<1>7. \A n : Showed(s, cur, n) => Showed(t, cur, n)
  BY <1>2, <1>4, ShowedStays
<1>8. /\ Settled(s, t)
      /\ \/ Untracked(s, t)
         \/ /\ f.kind # "error" /\ t.cursor = f.run
            /\ t.last = IF f.kind = "event" /\ f.seq > (IF s.cursor = f.run THEN s.last ELSE 0)
                        THEN f.seq ELSE IF s.cursor = f.run THEN s.last ELSE 0
  <2>1. CASE Drops(s, f)
    BY <1>2, <1>4, <2>1, ReceivedIs
  <2>2. CASE ~Drops(s, f)
    <3>1. Settled(s, t)
      BY <1>2, <1>4, ReceivedIs
    <3> QED BY <1>2, <1>4, <2>2, <3>1, TakenIs
  <2> QED BY <2>1, <2>2
<1>9. /\ Held(rs, cur) \in Nat \ {0} /\ Length(rs, cur) \in Nat
  BY Bases
<1>10. NothingLeftOut(rs, cur, t, q)
  <2> SUFFICES ASSUME NEW i \in 1..(Len(q) + 1), NEW m \in Held(rs, cur)..Length(rs, cur),
                      NEW n \in Held(rs, cur)..Length(rs, cur), n < m, Ahead(t, q, i, cur, m)
               PROVE  Ahead(t, q, i, cur, n)
    BY DEF NothingLeftOut
  <2>1. i \in 1..Len(box) /\ i + 1 \in 1..(Len(box) + 1)
    BY <1>4
  <2> QED BY <1>6, <2>1 DEF Follows, NothingLeftOut
<1>11. ASSUME t.cursor = cur, NEW n \in Held(rs, cur)..t.last
       PROVE  Showed(t, cur, n)
  <2>1. CASE s.cursor = cur /\ t.last = s.last
    BY <1>7, <1>11, <2>1 DEF Follows, CursorsTold, ShowedUpTo
  <2>2. CASE f.kind = "event" /\ f.run = cur /\ t.last = f.seq
    <3>1. f.seq \in 1..Length(rs, cur)
      BY <1>4, <2>2 DEF WireGrows, Happened
    <3>2. Ahead(s, box, 2, cur, f.seq)
      BY <1>4, <2>2 DEF Ahead, IsFrame
    <3>3. n = f.seq \/ (n < f.seq /\ n \in Held(rs, cur)..Length(rs, cur)
                          /\ f.seq \in Held(rs, cur)..Length(rs, cur))
      BY <1>9, <1>11, <2>2, <3>1
    <3>4. 2 \in 1..(Len(box) + 1)
      BY <1>4
    <3>5. Ahead(s, box, 2, cur, n)
      BY <3>2, <3>3, <3>4 DEF Follows, NothingLeftOut
    <3>6. Ahead(t, q, 1, cur, n)
      BY <1>4, <1>6, <3>5
    <3> QED BY <3>6 DEF Ahead
  <2>3. CASE t.last = 0
    BY <1>9, <1>11, <2>3
  <2> QED BY <1>8, <1>11, <2>1, <2>2, <2>3 DEF Untracked
<1>12. CursorsTold(rs, cur, t, reqs)
  BY <1>7, <1>11 DEF CursorsTold, ShowedUpTo, Follows
<1>13. ViewerIsAhead(rs, cur, t, q, b)
  <2>1. Len(q) + 1 \in 1..Len(box) /\ (Len(q) + 1) + 1 = Len(box) + 1
    BY <1>4
  <2> QED BY <1>6, <1>8, <2>1 DEF ViewerIsAhead, Follows, Settled
<1>14. FollowerIsViewer(rs, cur, t, q, reqs, b)
  <2> SUFFICES ASSUME b \notin rs[cur].viewers
               PROVE  /\ \A i \in 1..Len(q) : q[i].kind # "error" => q[i].run # cur
                      /\ \/ t.cursor # cur \/ ~t.online \/ t.owes
                         \/ \E i \in 1..Len(reqs) : reqs[i].kind = "subscribe"
    BY DEF FollowerIsViewer
  <2>1. /\ \A i \in 1..Len(box) : box[i].kind # "error" => box[i].run # cur
        /\ \/ s.cursor # cur \/ ~s.online \/ s.owes
           \/ \E i \in 1..Len(reqs) : reqs[i].kind = "subscribe"
    BY DEF Follows, FollowerIsViewer
  <2>2. \A i \in 1..Len(q) : q[i].kind # "error" => q[i].run # cur
    BY <1>4, <2>1
  <2>3. f.kind # "error" => f.run # cur
    BY <1>4, <2>1
  <2> QED BY <1>8, <2>1, <2>2, <2>3 DEF Untracked, Settled
<1> QED BY <1>1, <1>2, <1>3, <1>10, <1>12, <1>13, <1>14 DEF Follows

LEMMA Receipt ==
  ASSUME NEW rs \in Seq(RunRecord), NEW cur \in {None, Len(rs)}, NEW s \in BrowserRecord,
         NEW box \in Seq(Frames), box # <<>>, NEW reqs \in Seq(Requests), NEW b,
         Wired(rs, cur, s, box, reqs, b)
  PROVE  Wired(rs, cur, Received(s, Head(box)), Tail(box), reqs, b)
<1>1. cur \in Nat /\ (Goes(rs, cur) => cur \in 1..Len(rs))
  BY DEF Goes, None
<1>2. /\ ShownGrows(rs, Received(s, Head(box)))
      /\ WireGrows(rs, Received(s, Head(box)), Tail(box))
      /\ LateIsAgain(Received(s, Head(box)), Tail(box))
  BY ReceiptGrows DEF Wired
<1>3. /\ Bounded(rs, Received(s, Head(box)), Tail(box), reqs)
      /\ Stays(cur, Received(s, Head(box)), Tail(box))
  BY <1>1, ReceiptBounded DEF Wired
<1>4. Goes(rs, cur) => Follows(rs, cur, Received(s, Head(box)), Tail(box), reqs, b)
  BY <1>1, <1>3, ReceiptFollows DEF Wired
<1> QED BY <1>2, <1>3, <1>4 DEF Wired
-----------------------------------------------------------------------------
(* Frames are sent.                                                         *)
LEMMA JoinIs ==
  ASSUME NEW box \in Seq(Frames), NEW more \in Seq(Frames)
  PROVE  /\ box \o more \in Seq(Frames) /\ Len(box \o more) = Len(box) + Len(more)
         /\ Len(box) \in Nat /\ Len(more) \in Nat
         /\ \A i \in 1..Len(box) : (box \o more)[i] = box[i] /\ i \in 1..Len(box \o more)
         /\ \A i \in 1..Len(more) : (box \o more)[Len(box) + i] = more[i]
         /\ \A i \in 1..Len(box \o more) :
              i \in 1..Len(box) \/ \E k \in 1..Len(more) : i = Len(box) + k
<1>1. /\ box \o more \in Seq(Frames) /\ Len(box \o more) = Len(box) + Len(more)
      /\ Len(box) \in Nat /\ Len(more) \in Nat
  OBVIOUS
<1>2. \A i \in 1..Len(box) : (box \o more)[i] = box[i] /\ i \in 1..Len(box \o more)
  OBVIOUS
<1>3. \A i \in 1..Len(more) : (box \o more)[Len(box) + i] = more[i]
  OBVIOUS
<1>4. ASSUME NEW i \in 1..Len(box \o more), i \notin 1..Len(box)
      PROVE  i - Len(box) \in 1..Len(more) /\ i = Len(box) + (i - Len(box))
  BY <1>1, <1>4
<1> QED BY <1>1, <1>2, <1>3, <1>4

LEMMA AheadStays ==
  ASSUME NEW s, NEW box, NEW i \in Nat, NEW j \in Nat, i <= j, NEW g, NEW n, Ahead(s, box, i, g, n)
  PROVE  Ahead(s, box, j, g, n)
BY DEF Ahead

LEMMA AheadOfMore ==
  ASSUME NEW s, NEW box \in Seq(Frames), NEW more \in Seq(Frames), NEW g, NEW n
  PROVE  /\ \A i \in 1..(Len(box) + 1) :
              Ahead(s, box \o more, i, g, n) <=> Ahead(s, box, i, g, n)
         /\ \A k \in 1..Len(more), i \in Nat :
              i > Len(box) + k /\ IsFrame(more[k], g, n) => Ahead(s, box \o more, i, g, n)
         /\ \A i \in 1..(Len(box \o more) + 1) : Ahead(s, box \o more, i, g, n) =>
              \/ Ahead(s, box, Len(box) + 1, g, n)
              \/ \E k \in 1..Len(more) : Len(box) + k < i /\ IsFrame(more[k], g, n)
<1>1. ASSUME NEW i \in 1..(Len(box) + 1)
      PROVE  Ahead(s, box \o more, i, g, n) <=> Ahead(s, box, i, g, n)
  <2>1. \A k \in 1..(i - 1) : (box \o more)[k] = box[k]
    BY JoinIs
  <2> QED BY <2>1 DEF Ahead
<1>2. ASSUME NEW k \in 1..Len(more), NEW i \in Nat, i > Len(box) + k, IsFrame(more[k], g, n)
      PROVE  Ahead(s, box \o more, i, g, n)
  <2>1. Len(box) + k \in 1..(i - 1) /\ (box \o more)[Len(box) + k] = more[k]
    BY <1>2, JoinIs
  <2> QED BY <1>2, <2>1 DEF Ahead
<1>3. ASSUME NEW i \in 1..(Len(box \o more) + 1), Ahead(s, box \o more, i, g, n),
             ~Ahead(s, box, Len(box) + 1, g, n)
      PROVE  \E k \in 1..Len(more) : Len(box) + k < i /\ IsFrame(more[k], g, n)
  <2>1. PICK k \in 1..(i - 1) : IsFrame((box \o more)[k], g, n)
    BY <1>3 DEF Ahead
  <2>2. k \in 1..Len(box \o more) /\ k < i
    BY JoinIs
  <2>3. k \notin 1..Len(box)
    <3> SUFFICES ASSUME k \in 1..Len(box) PROVE FALSE
      OBVIOUS
    <3>1. IsFrame(box[k], g, n) /\ k \in 1..((Len(box) + 1) - 1)
      BY <2>1, JoinIs
    <3> QED BY <1>3, <3>1 DEF Ahead
  <2>4. PICK j \in 1..Len(more) : k = Len(box) + j
    BY <2>2, <2>3, JoinIs
  <2> QED BY <2>1, <2>2, <2>4, JoinIs
<1> QED BY <1>1, <1>2, <1>3

(* Every frame sent comes behind all that the ring holds before it.         *)
Behind(rs, cur, s, box, more) ==
  \A i \in 1..Len(more) : more[i].kind = "event" =>
    /\ cur # None /\ NothingLeftOut(rs, cur, s, box)
    /\ more[i].seq \in Held(rs, cur)..Length(rs, cur)
    /\ \A n \in Held(rs, cur)..(more[i].seq - 1) :
         Ahead(s, box \o more, Len(box) + i, cur, n)

LEMMA DeliveryGrows ==
  ASSUME NEW rs \in Seq(RunRecord), NEW cur \in {None, Len(rs)}, NEW s \in BrowserRecord,
         NEW box \in Seq(Frames), NEW more \in Seq(Frames), NEW reqs \in Seq(Requests),
         s.online, ShownGrows(rs, s), WireGrows(rs, s, box), LateIsAgain(s, box),
         Bounded(rs, s, box, reqs), Stays(cur, s, box),
         \A i \in 1..Len(more) : more[i].kind # "error" => more[i].run = cur,
         Behind(rs, cur, s, box, more)
  PROVE  /\ WireGrows(rs, s, box \o more) /\ LateIsAgain(s, box \o more)
         /\ Bounded(rs, s, box \o more, reqs) /\ Stays(cur, s, box \o more)
<1> DEFINE all == box \o more
<1>1. /\ all \in Seq(Frames) /\ Len(all) = Len(box) + Len(more)
      /\ Len(box) \in Nat /\ Len(more) \in Nat
      /\ \A i \in 1..Len(box) : all[i] = box[i] /\ i \in 1..Len(all)
      /\ \A i \in 1..Len(more) : all[Len(box) + i] = more[i]
      /\ \A i \in 1..Len(all) : i \in 1..Len(box) \/ \E k \in 1..Len(more) : i = Len(box) + k
  BY JoinIs
<1>2. Len(rs) \in Nat /\ cur \in Nat /\ cur <= Len(rs)
  BY DEF None
<1>3. \A g, n : /\ \A i \in 1..(Len(box) + 1) : Ahead(s, all, i, g, n) <=> Ahead(s, box, i, g, n)
                /\ \A k \in 1..Len(more), i \in Nat :
                     i > Len(box) + k /\ IsFrame(more[k], g, n) => Ahead(s, all, i, g, n)
                /\ \A i \in 1..(Len(all) + 1) : Ahead(s, all, i, g, n) =>
                     \/ Ahead(s, box, Len(box) + 1, g, n)
                     \/ \E k \in 1..Len(more) : Len(box) + k < i /\ IsFrame(more[k], g, n)
  BY AheadOfMore
<1> HIDE DEF all
<1>4. \A i \in 1..Len(all) : all[i].kind = "event" => all[i].run <= Len(rs)
  <2> SUFFICES ASSUME NEW i \in 1..Len(all), all[i].kind = "event" PROVE all[i].run <= Len(rs)
    OBVIOUS
  <2>1. CASE i \in 1..Len(box)
    BY <1>1, <2>1 DEF Bounded
  <2>2. ASSUME NEW k \in 1..Len(more), i = Len(box) + k PROVE all[i].run <= Len(rs)
    <3>1. all[i] = more[k]
      BY <1>1, <2>2
    <3>2. more[k].run = cur
      BY <3>1
    <3> QED BY <1>2, <3>1, <3>2
  <2> QED BY <1>1, <2>1, <2>2
<1>5. WireGrows(rs, s, all)
  <2> SUFFICES ASSUME NEW i \in 1..Len(all), all[i].kind = "event"
               PROVE  /\ Happened(rs, all[i].run, all[i].seq)
                      /\ \A j \in 1..Len(s.shown) : s.shown[j][1] <= all[i].run
                      /\ \A j \in 1..(i - 1) : all[j].kind = "event" => all[j].run <= all[i].run
    BY DEF WireGrows
  <2>1. CASE i \in 1..Len(box)
    <3>1. \A j \in 1..(i - 1) : all[j] = box[j]
      BY <1>1, <2>1
    <3> QED BY <1>1, <2>1, <3>1 DEF WireGrows
  <2>2. ASSUME NEW k \in 1..Len(more), i = Len(box) + k
        PROVE  /\ Happened(rs, all[i].run, all[i].seq)
               /\ \A j \in 1..Len(s.shown) : s.shown[j][1] <= all[i].run
               /\ \A j \in 1..(i - 1) : all[j].kind = "event" => all[j].run <= all[i].run
    <3>a. all[i] = more[k]
      BY <1>1, <2>2
    <3>b. more[k].run = cur /\ cur # None /\ more[k].seq \in Held(rs, cur)..Length(rs, cur)
      BY <3>a DEF Behind
    <3>1. /\ all[i] = more[k] /\ all[i].run = cur /\ cur = Len(rs) /\ cur \in 1..Len(rs)
          /\ more[k].seq \in Held(rs, cur)..Length(rs, cur)
      BY <1>2, <3>a, <3>b DEF None
    <3>2. Happened(rs, all[i].run, all[i].seq)
      <4>1. Held(rs, cur) \in Nat \ {0} /\ Length(rs, cur) \in Nat
        BY <3>1, Bases
      <4>2. all[i].seq \in 1..Length(rs, cur)
        BY <3>1, <4>1
      <4> QED BY <3>1, <4>2 DEF Happened
    <3>3. \A j \in 1..Len(s.shown) : s.shown[j][1] <= all[i].run
      BY <1>2, <3>1, SMTT(30) DEF ShownGrows, Happened
    <3>4. \A j \in 1..(i - 1) : all[j].kind = "event" => all[j].run <= all[i].run
      <4> SUFFICES ASSUME NEW j \in 1..(i - 1), all[j].kind = "event" PROVE all[j].run <= Len(rs)
        BY <3>1
      <4>1. j \in 1..Len(all)
        BY <1>1
      <4> QED BY <1>4, <4>1
    <3> QED BY <3>2, <3>3, <3>4
  <2> QED BY <1>1, <2>1, <2>2
<1>6. LateIsAgain(s, all)
  <2> SUFFICES ASSUME NEW i \in 1..Len(all), all[i].kind = "event", all[i].run \notin s.retired,
                      NEW m \in Nat, m > all[i].seq, Ahead(s, all, i, all[i].run, m)
               PROVE  Ahead(s, all, i, all[i].run, all[i].seq)
    BY DEF LateIsAgain
  <2>1. CASE i \in 1..Len(box)
    <3>1. all[i] = box[i] /\ i \in 1..(Len(box) + 1)
      BY <1>1, <2>1
    <3> QED BY <1>3, <2>1, <3>1 DEF LateIsAgain
  <2>2. ASSUME NEW k \in 1..Len(more), i = Len(box) + k
        PROVE  Ahead(s, all, i, all[i].run, all[i].seq)
    <3>a. all[i] = more[k]
      BY <1>1, <2>2
    <3>b. /\ more[k].run = cur /\ cur # None /\ NothingLeftOut(rs, cur, s, box)
          /\ more[k].seq \in Held(rs, cur)..Length(rs, cur)
      BY <3>a DEF Behind
    <3>1. /\ all[i] = more[k] /\ all[i].run = cur /\ cur # None /\ cur \in 1..Len(rs)
          /\ NothingLeftOut(rs, cur, s, box)
          /\ more[k].seq \in Held(rs, cur)..Length(rs, cur)
      BY <1>2, <3>a, <3>b DEF None
    <3>2. Held(rs, cur) \in Nat \ {0} /\ Length(rs, cur) \in Nat
      BY <3>1, Bases
    <3>3. CASE Ahead(s, box, Len(box) + 1, cur, m)
      <4>1. m \in 1..Length(rs, cur)
        <5>1. CASE Showed(s, cur, m)
          <6>1. PICK j \in 1..Len(s.shown) : s.shown[j] = <<cur, m>>
            BY <5>1 DEF Showed, Contains
          <6> QED BY <6>1 DEF ShownGrows, Happened
        <5>2. ASSUME NEW j \in 1..((Len(box) + 1) - 1), IsFrame(box[j], cur, m)
              PROVE  m \in 1..Length(rs, cur)
          BY <1>1, <5>2 DEF WireGrows, Happened, IsFrame
        <5> QED BY <3>3, <5>1, <5>2 DEF Ahead
      <4>2. m \in Held(rs, cur)..Length(rs, cur) /\ more[k].seq < m
        BY <3>1, <3>2, <4>1
      <4>3. Len(box) + 1 \in 1..(Len(box) + 1)
        BY <1>1
      <4>4. Ahead(s, box, Len(box) + 1, cur, more[k].seq)
        BY <3>1, <3>3, <4>2, <4>3 DEF NothingLeftOut
      <4>5. Ahead(s, all, Len(box) + 1, cur, more[k].seq)
        BY <1>3, <4>3, <4>4
      <4>6. Len(box) + 1 \in Nat /\ i \in Nat /\ Len(box) + 1 <= i
        BY <1>1, <2>2
      <4> QED BY <3>1, <4>5, <4>6, AheadStays
    <3>4. ASSUME NEW j \in 1..Len(more), Len(box) + j < i, IsFrame(more[j], cur, m)
          PROVE  Ahead(s, all, i, all[i].run, all[i].seq)
      <4>1. more[j].kind = "event" /\ more[j].seq = m
        BY <3>4 DEF IsFrame
      <4>2. more[k].seq \in Held(rs, cur)..(more[j].seq - 1)
        <5>1. more[k].seq < m
          BY <3>1
        <5> QED BY <3>1, <3>2, <4>1, <5>1, SMTT(30)
      <4>3. Ahead(s, all, Len(box) + j, cur, more[k].seq)
        BY <4>1, <4>2 DEF Behind, all
      <4>4. Len(box) + j \in Nat /\ i \in Nat /\ Len(box) + j <= i
        BY <1>1, <3>4
      <4> QED BY <3>1, <4>3, <4>4, AheadStays
    <3>5. i \in 1..(Len(all) + 1) /\ Ahead(s, all, i, cur, m)
      BY <1>1, <3>1
    <3> QED BY <1>3, <3>3, <3>4, <3>5
  <2> QED BY <1>1, <2>1, <2>2
<1>7. Bounded(rs, s, all, reqs)
  <2>1. ASSUME NEW i \in 1..Len(all), all[i].kind # "error"
        PROVE  all[i].run <= Len(rs)
    <3>1. CASE i \in 1..Len(box)
      BY <1>1, <2>1, <3>1 DEF Bounded
    <3>2. ASSUME NEW k \in 1..Len(more), i = Len(box) + k PROVE all[i].run <= Len(rs)
      <4>1. all[i] = more[k]
        BY <1>1, <3>2
      <4>2. more[k].run = cur
        BY <2>1, <4>1
      <4> QED BY <1>2, <4>1, <4>2
    <3> QED BY <1>1, <3>1, <3>2
  <2> QED BY <2>1 DEF Bounded
<1>8. Stays(cur, s, all)
  <2> SUFFICES ASSUME cur # None
               PROVE  /\ cur \notin s.retired
                      /\ \A i \in 1..Len(all) : all[i].kind # "error" /\ all[i].run # cur =>
                           /\ s.cursor # cur
                           /\ \A j \in 1..(i - 1) : all[j].kind # "error" => all[j].run # cur
    BY DEF Stays
  <2>1. ASSUME NEW i \in 1..Len(all), all[i].kind # "error" /\ all[i].run # cur
        PROVE  /\ s.cursor # cur
               /\ \A j \in 1..(i - 1) : all[j].kind # "error" => all[j].run # cur
    <3>1. i \in 1..Len(box)
      <4> SUFFICES ASSUME NEW k \in 1..Len(more), i = Len(box) + k PROVE FALSE
        BY <1>1
      <4>1. all[i] = more[k]
        BY <1>1
      <4>2. more[k].kind # "error" /\ more[k].run # cur
        BY <2>1, <4>1
      <4> QED BY <4>2
    <3>2. \A j \in 1..(i - 1) : all[j] = box[j]
      BY <1>1, <3>1
    <3>3. box[i].kind # "error" /\ box[i].run # cur
      BY <1>1, <2>1, <3>1
    <3>4. /\ s.cursor # cur
          /\ \A j \in 1..(i - 1) : box[j].kind # "error" => box[j].run # cur
      BY <3>1, <3>3, Zenon DEF Stays
    <3> QED BY <3>2, <3>4, Zenon
  <2> QED BY <2>1 DEF Stays
<1> QED BY <1>5, <1>6, <1>7, <1>8 DEF all

LEMMA DeliveryLeavesNothing ==
  ASSUME NEW rs \in Seq(RunRecord), NEW cur \in 1..Len(rs), NEW s \in BrowserRecord,
         NEW box \in Seq(Frames), NEW more \in Seq(Frames),
         \A i \in 1..Len(more) : more[i].kind # "error" => more[i].run = cur,
         NothingLeftOut(rs, cur, s, box), Behind(rs, cur, s, box, more)
  PROVE  NothingLeftOut(rs, cur, s, box \o more)
<1> DEFINE all == box \o more
<1>1. /\ all \in Seq(Frames) /\ Len(all) = Len(box) + Len(more)
      /\ Len(box) \in Nat /\ Len(more) \in Nat
  BY JoinIs
<1>2. Held(rs, cur) \in Nat \ {0} /\ Length(rs, cur) \in Nat
  BY Bases
<1>3. \A g, n : /\ \A i \in 1..(Len(box) + 1) : Ahead(s, all, i, g, n) <=> Ahead(s, box, i, g, n)
                /\ \A i \in 1..(Len(all) + 1) : Ahead(s, all, i, g, n) =>
                     \/ Ahead(s, box, Len(box) + 1, g, n)
                     \/ \E k \in 1..Len(more) : Len(box) + k < i /\ IsFrame(more[k], g, n)
  BY AheadOfMore
<1> HIDE DEF all
<1> SUFFICES ASSUME NEW i \in 1..(Len(all) + 1), NEW m \in Held(rs, cur)..Length(rs, cur),
                    NEW n \in Held(rs, cur)..Length(rs, cur), n < m, Ahead(s, all, i, cur, m)
             PROVE  Ahead(s, all, i, cur, n)
  BY DEF NothingLeftOut, all
<1>4. CASE i \in 1..(Len(box) + 1)
  BY <1>3, <1>4 DEF NothingLeftOut
<1>5. CASE i > Len(box) + 1 /\ Ahead(s, box, Len(box) + 1, cur, m)
  <2>1. Len(box) + 1 \in 1..(Len(box) + 1)
    BY <1>1
  <2>2. Ahead(s, box, Len(box) + 1, cur, n)
    BY <1>5, <2>1 DEF NothingLeftOut
  <2>3. Ahead(s, all, Len(box) + 1, cur, n)
    BY <1>3, <2>1, <2>2
  <2>4. Len(box) + 1 \in Nat /\ i \in Nat /\ Len(box) + 1 <= i
    BY <1>1, <1>5
  <2> QED BY <2>3, <2>4, AheadStays
<1>6. ASSUME NEW k \in 1..Len(more), Len(box) + k < i, IsFrame(more[k], cur, m)
      PROVE  Ahead(s, all, i, cur, n)
  <2>1. more[k].kind = "event" /\ more[k].seq = m
    BY <1>6 DEF IsFrame
  <2>2. n \in Held(rs, cur)..(more[k].seq - 1)
    BY <1>2, <2>1
  <2>3. Ahead(s, all, Len(box) + k, cur, n)
    BY <2>1, <2>2 DEF Behind, all
  <2>4. Len(box) + k \in Nat /\ i \in Nat /\ Len(box) + k <= i
    BY <1>1, <1>6
  <2> QED BY <2>3, <2>4, AheadStays
<1>7. i \in 1..(Len(box) + 1) \/ i > Len(box) + 1
  BY <1>1
<1> QED BY <1>3, <1>4, <1>5, <1>6, <1>7
LEMMA AheadHappened ==
  ASSUME NEW rs, NEW s \in BrowserRecord, NEW box \in Seq(Frames),
         ShownGrows(rs, s), WireGrows(rs, s, box),
         NEW i \in 1..(Len(box) + 1), NEW g, NEW n, Ahead(s, box, i, g, n)
  PROVE  Happened(rs, g, n)
<1>1. CASE Showed(s, g, n)
  <2>1. PICK j \in 1..Len(s.shown) : s.shown[j] = <<g, n>>
    BY <1>1 DEF Showed, Contains
  <2> QED BY <2>1 DEF ShownGrows
<1>2. ASSUME NEW k \in 1..(i - 1), IsFrame(box[k], g, n)
      PROVE  Happened(rs, g, n)
  <2>1. k \in 1..Len(box)
    BY <1>2
  <2> QED BY <1>2, <2>1 DEF WireGrows, IsFrame
<1> QED BY <1>1, <1>2 DEF Ahead

(* What the records get does not disturb what a browser holds: the ring     *)
(* only moves on.                                                           *)
LEMMA RecordsMove ==
  ASSUME NEW rs \in Seq(RunRecord), NEW rs2 \in Seq(RunRecord), Len(rs2) = Len(rs),
         NEW cur \in {None, Len(rs)}, NEW s \in BrowserRecord, NEW box \in Seq(Frames),
         NEW reqs \in Seq(Requests), NEW b, Wired(rs, cur, s, box, reqs, b),
         \A g \in 1..Len(rs) : Length(rs, g) <= Length(rs2, g)
  PROVE  /\ ShownGrows(rs2, s) /\ WireGrows(rs2, s, box) /\ Bounded(rs2, s, box, reqs)
         /\ Goes(rs, cur) => NothingLeftOut(rs2, cur, s, box) /\ CursorsTold(rs2, cur, s, reqs)
<1>1. ShownGrows(rs, s) /\ WireGrows(rs, s, box) /\ Bounded(rs, s, box, reqs)
  BY DEF Wired
<1>2. ASSUME NEW g, NEW n, Happened(rs, g, n)
      PROVE  Happened(rs2, g, n)
  <2>1. g \in 1..Len(rs) /\ g \in 1..Len(rs2)
    BY <1>2 DEF Happened
  <2>2. Length(rs, g) \in Nat /\ Length(rs2, g) \in Nat /\ Length(rs, g) <= Length(rs2, g)
    BY <2>1, Bases
  <2> QED BY <1>2, <2>1, <2>2 DEF Happened
<1>3. ShownGrows(rs2, s) /\ WireGrows(rs2, s, box) /\ Bounded(rs2, s, box, reqs)
  BY <1>1, <1>2 DEF ShownGrows, WireGrows, Bounded
<1>4. ASSUME Goes(rs, cur)
      PROVE  NothingLeftOut(rs2, cur, s, box) /\ CursorsTold(rs2, cur, s, reqs)
  <2>1. cur \in 1..Len(rs) /\ cur \in 1..Len(rs2) /\ Follows(rs, cur, s, box, reqs, b)
    BY <1>4 DEF Goes, None, Wired
  <2>2. Length(rs, cur) \in Nat /\ Length(rs2, cur) \in Nat /\ Length(rs, cur) <= Length(rs2, cur)
    BY <2>1, Bases
  <2>3. Held(rs, cur) \in Nat /\ Held(rs2, cur) \in Nat /\ Held(rs, cur) <= Held(rs2, cur)
    BY <2>2, BufferAssumption, SMTT(30) DEF Held
  <2>4. NothingLeftOut(rs2, cur, s, box)
    <3> SUFFICES ASSUME NEW i \in 1..(Len(box) + 1),
                        NEW m \in Held(rs2, cur)..Length(rs2, cur),
                        NEW n \in Held(rs2, cur)..Length(rs2, cur),
                        n < m, Ahead(s, box, i, cur, m)
                 PROVE  Ahead(s, box, i, cur, n)
      BY DEF NothingLeftOut
    <3>1. m \in 1..Length(rs, cur)
      BY <1>1, AheadHappened DEF Happened
    <3>2. m \in Held(rs, cur)..Length(rs, cur) /\ n \in Held(rs, cur)..Length(rs, cur)
      BY <2>2, <2>3, <3>1
    <3> QED BY <2>1, <3>2 DEF Follows, NothingLeftOut
  <2>5. CursorsTold(rs2, cur, s, reqs)
    <3>1. ASSUME NEW last \in Nat, ShowedUpTo(rs, cur, s, last)
          PROVE  ShowedUpTo(rs2, cur, s, last)
      <4>1. \A n \in Held(rs2, cur)..last : n \in Held(rs, cur)..last
        BY <2>3
      <4> QED BY <3>1, <4>1 DEF ShowedUpTo
    <3>2. s.last \in Nat
      BY DEF BrowserRecord
    <3>3. \A i \in 1..Len(reqs) : reqs[i].kind = "subscribe" => reqs[i].last \in Nat
      BY DEF Requests, Sends, Aborts
    <3> QED BY <2>1, <3>1, <3>2, <3>3 DEF Follows, CursorsTold
  <2> QED BY <2>4, <2>5
<1> QED BY <1>3, <1>4

LEMMA RecordsAlike ==
  ASSUME NEW rs \in Seq(RunRecord), NEW rs2 \in Seq(RunRecord), Len(rs2) = Len(rs),
         NEW cur \in {None, Len(rs)}, NEW s \in BrowserRecord, NEW box \in Seq(Frames),
         NEW reqs \in Seq(Requests), NEW b, Wired(rs, cur, s, box, reqs, b),
         \A g \in 1..Len(rs) : Length(rs, g) <= Length(rs2, g),
         Goes(rs2, cur) => /\ Goes(rs, cur) /\ (b \in rs[cur].viewers <=> b \in rs2[cur].viewers)
                           /\ b \in rs[cur].viewers => rs2[cur].events = rs[cur].events
  PROVE  Wired(rs2, cur, s, box, reqs, b)
<1>1. /\ ShownGrows(rs2, s) /\ WireGrows(rs2, s, box) /\ Bounded(rs2, s, box, reqs)
      /\ Goes(rs, cur) => NothingLeftOut(rs2, cur, s, box) /\ CursorsTold(rs2, cur, s, reqs)
  BY RecordsMove
<1>2. ASSUME Goes(rs2, cur)
      PROVE  Follows(rs2, cur, s, box, reqs, b)
  <2>1. /\ Goes(rs, cur) /\ (b \in rs[cur].viewers <=> b \in rs2[cur].viewers)
        /\ Follows(rs, cur, s, box, reqs, b)
        /\ b \in rs[cur].viewers => rs2[cur].events = rs[cur].events
    BY <1>2 DEF Wired
  <2>2. ViewerIsAhead(rs2, cur, s, box, b)
    BY <2>1 DEF Follows, ViewerIsAhead, Held, Length
  <2>3. FollowerIsViewer(rs2, cur, s, box, reqs, b)
    BY <2>1 DEF Follows, FollowerIsViewer
  <2> QED BY <1>1, <2>1, <2>2, <2>3 DEF Follows
<1> QED BY <1>1, <1>2 DEF Wired

(* An answer that shows nothing: a refusal, or the answer to a subscription *)
(* while no run goes.                                                       *)
LEMMA AnswerIsSent ==
  ASSUME NEW rs \in Seq(RunRecord), NEW cur \in {None, Len(rs)}, NEW s \in BrowserRecord,
         NEW box \in Seq(Frames), NEW more \in Seq(Frames), NEW reqs \in Seq(Requests), NEW b,
         s.online, Wired(rs, cur, s, box, reqs, b),
         \A i \in 1..Len(more) :
           more[i].kind = "error" \/ (more[i].kind = "subscribed" /\ more[i].run = cur /\ ~Goes(rs, cur))
  PROVE  Wired(rs, cur, s, box \o more, reqs, b)
<1>1. Behind(rs, cur, s, box, more)
  BY DEF Behind
<1>2. /\ WireGrows(rs, s, box \o more) /\ LateIsAgain(s, box \o more)
      /\ Bounded(rs, s, box \o more, reqs) /\ Stays(cur, s, box \o more)
  BY <1>1, DeliveryGrows DEF Wired
<1>3. ASSUME Goes(rs, cur)
      PROVE  Follows(rs, cur, s, box \o more, reqs, b)
  <2>1. cur \in 1..Len(rs) /\ Follows(rs, cur, s, box, reqs, b)
    BY <1>3 DEF Goes, None, Wired
  <2>2. \A i \in 1..Len(more) : more[i].kind = "error"
    BY <1>3
  <2>3. NothingLeftOut(rs, cur, s, box \o more)
    BY <1>1, <2>1, <2>2, DeliveryLeavesNothing DEF Follows
  <2>4. ViewerIsAhead(rs, cur, s, box \o more, b)
    <3> SUFFICES ASSUME b \in rs[cur].viewers, NEW n \in Held(rs, cur)..Length(rs, cur)
                 PROVE  Ahead(s, box \o more, Len(box \o more) + 1, cur, n)
      BY <2>1 DEF ViewerIsAhead, Follows
    <3>1. Ahead(s, box, Len(box) + 1, cur, n)
      BY <2>1 DEF Follows, ViewerIsAhead
    <3>2. Len(box \o more) = Len(box) + Len(more) /\ Len(box) \in Nat /\ Len(more) \in Nat
      BY JoinIs
    <3>3. Len(box) + 1 \in 1..(Len(box) + 1)
      BY <3>2
    <3>4. Ahead(s, box \o more, Len(box) + 1, cur, n)
      BY <3>1, <3>3, AheadOfMore
    <3>5. Len(box) + 1 \in Nat /\ Len(box \o more) + 1 \in Nat /\ Len(box) + 1 <= Len(box \o more) + 1
      BY <3>2
    <3> QED BY <3>4, <3>5, AheadStays
  <2>5. FollowerIsViewer(rs, cur, s, box \o more, reqs, b)
    <3>1. ASSUME \A i \in 1..Len(box) : box[i].kind # "error" => box[i].run # cur,
                 NEW i \in 1..Len(box \o more), (box \o more)[i].kind # "error"
          PROVE  (box \o more)[i].run # cur
      <4>1. ASSUME NEW k \in 1..Len(more), i = Len(box) + k
            PROVE  FALSE
        <5>1. (box \o more)[i] = more[k]
          BY <4>1, JoinIs
        <5> QED BY <2>2, <3>1, <5>1
      <4>2. i \in 1..Len(box)
        BY <4>1, JoinIs
      <4> QED BY <3>1, <4>2, JoinIs
    <3> QED BY <2>1, <3>1 DEF Follows, FollowerIsViewer
  <2> QED BY <2>1, <2>3, <2>4, <2>5 DEF Follows, CursorsTold
<1> QED BY <1>2, <1>3 DEF Wired
(* A frame of the run that goes is published.                               *)
LEMMA FrameIsPublished ==
  ASSUME NEW rs \in Seq(RunRecord), NEW rs2 \in Seq(RunRecord), Len(rs2) = Len(rs),
         NEW cur \in 1..Len(rs), cur = Len(rs), Goes(rs, cur),
         NEW what \in Whats, rs2[cur].events = Append(rs[cur].events, what),
         rs2[cur].viewers = rs[cur].viewers,
         \A g \in 1..Len(rs) : g # cur => rs2[g].events = rs[g].events,
         NEW s \in BrowserRecord, NEW box \in Seq(Frames), NEW reqs \in Seq(Requests), NEW b,
         Wired(rs, cur, s, box, reqs, b)
  PROVE  /\ b \in rs[cur].viewers =>
              Wired(rs2, cur, s, Append(box, Frame(cur, Length(rs, cur) + 1, what)), reqs, b)
         /\ b \notin rs[cur].viewers => Wired(rs2, cur, s, box, reqs, b)
<1>1. /\ rs[cur].events \in Seq(Whats) /\ Length(rs, cur) \in Nat
      /\ Held(rs, cur) \in Nat \ {0} /\ Held(rs, cur) <= Length(rs, cur) + 1
  BY Bases
<1>2. Length(rs2, cur) = Length(rs, cur) + 1
  BY <1>1 DEF Length
<1>3. \A g \in 1..Len(rs) : Length(rs, g) <= Length(rs2, g)
  <2> SUFFICES ASSUME NEW g \in 1..Len(rs) PROVE Length(rs, g) <= Length(rs2, g)
    OBVIOUS
  <2>1. Length(rs, g) \in Nat
    BY Bases
  <2>2. g # cur => Length(rs2, g) = Length(rs, g)
    BY DEF Length
  <2> QED BY <1>1, <1>2, <2>1, <2>2
<1>4. Held(rs2, cur) \in Held(rs, cur)..Length(rs2, cur)
  BY <1>1, <1>2, BufferAssumption DEF Held
<1>5. /\ ShownGrows(rs2, s) /\ WireGrows(rs2, s, box) /\ Bounded(rs2, s, box, reqs)
      /\ NothingLeftOut(rs2, cur, s, box) /\ CursorsTold(rs2, cur, s, reqs)
  BY <1>3, RecordsMove
<1>6. ASSUME b \notin rs[cur].viewers
      PROVE  Wired(rs2, cur, s, box, reqs, b)
  BY <1>3, <1>6, RecordsAlike
<1>7. ASSUME b \in rs[cur].viewers
      PROVE  Wired(rs2, cur, s, Append(box, Frame(cur, Length(rs, cur) + 1, what)), reqs, b)
  <2>1. PICK f : f = Frame(cur, Length(rs, cur) + 1, what)
    OBVIOUS
  <2>2. f \in EventFrames /\ f \in Frames /\ IsFrame(f, cur, Length(rs, cur) + 1)
    BY <1>1, <2>1 DEF Frame, EventFrames, Frames, IsFrame, Named, None
  <2>3. PICK more : more = <<f>>
    OBVIOUS
  <2>4. more \in Seq(Frames) /\ Len(more) = 1 /\ more[1] = f /\ Append(box, f) = box \o more
    BY <2>2, <2>3
  <2>5. /\ s.online
        /\ \A n \in Held(rs, cur)..Length(rs, cur) : Ahead(s, box, Len(box) + 1, cur, n)
    BY <1>7 DEF Wired, Follows, ViewerIsAhead
  <2>6. Len(box) \in Nat /\ Len(box) + 1 \in 1..(Len(box) + 1)
    OBVIOUS
  <2>7. Behind(rs2, cur, s, box, more)
    <3>1. more[1].seq = Length(rs2, cur) /\ \A i \in 1..Len(more) : i = 1
      BY <1>2, <2>2, <2>4 DEF IsFrame
    <3>2. ASSUME NEW n \in Held(rs2, cur)..(Length(rs2, cur) - 1)
          PROVE  Ahead(s, box \o more, Len(box) + 1, cur, n)
      <4>1. n \in Held(rs, cur)..Length(rs, cur)
        BY <1>1, <1>2, <1>4
      <4> QED BY <2>4, <2>5, <2>6, <4>1, AheadOfMore
    <3>3. more[1].seq \in Held(rs2, cur)..Length(rs2, cur)
      BY <1>1, <1>2, <1>4, <3>1
    <3>4. cur # None
      BY DEF None
    <3> QED BY <1>5, <3>1, <3>2, <3>3, <3>4 DEF Behind
  <2>8. \A i \in 1..Len(more) : more[i].run = cur
    BY <2>2, <2>4 DEF IsFrame
  <2>9. /\ WireGrows(rs2, s, box \o more) /\ LateIsAgain(s, box \o more)
        /\ Bounded(rs2, s, box \o more, reqs) /\ Stays(cur, s, box \o more)
    BY <1>5, <2>4, <2>5, <2>7, <2>8, DeliveryGrows DEF Wired
  <2>10. NothingLeftOut(rs2, cur, s, box \o more)
    BY <1>5, <2>4, <2>7, <2>8, DeliveryLeavesNothing
  <2>11. ViewerIsAhead(rs2, cur, s, box \o more, b)
    <3> SUFFICES ASSUME NEW n \in Held(rs2, cur)..Length(rs2, cur)
                 PROVE  Ahead(s, box \o more, Len(box \o more) + 1, cur, n)
      BY <2>5 DEF ViewerIsAhead
    <3>1. Len(box \o more) = Len(box) + 1
      BY <2>4, JoinIs
    <3>2. CASE n = Length(rs, cur) + 1
      <4>1. 1 \in 1..Len(more) /\ Len(box) + 1 + 1 \in Nat /\ Len(box) + 1 + 1 > Len(box) + 1
        BY <2>4, <2>6
      <4>2. IsFrame(more[1], cur, n)
        BY <2>2, <2>4, <3>2
      <4> QED BY <2>4, <3>1, <4>1, <4>2, AheadOfMore
    <3>3. CASE n # Length(rs, cur) + 1
      <4>1. n \in Held(rs, cur)..Length(rs, cur)
        BY <1>1, <1>2, <1>4, <3>3
      <4>2. Ahead(s, box \o more, Len(box) + 1, cur, n)
        BY <2>4, <2>5, <2>6, <4>1, AheadOfMore
      <4>3. Len(box) + 1 \in Nat /\ Len(box) + 1 + 1 \in Nat /\ Len(box) + 1 <= Len(box) + 1 + 1
        BY <2>6
      <4> QED BY <3>1, <4>2, <4>3, AheadStays
    <3> QED BY <3>2, <3>3
  <2>12. FollowerIsViewer(rs2, cur, s, box \o more, reqs, b)
    BY <1>7 DEF FollowerIsViewer
  <2> QED BY <1>5, <2>1, <2>4, <2>9, <2>10, <2>11, <2>12 DEF Wired, Follows
<1> QED BY <1>6, <1>7
-----------------------------------------------------------------------------
(* Requests are made and handled.                                           *)
LEMMA RestIs ==
  ASSUME NEW reqs \in Seq(Requests), reqs # <<>>
  PROVE  /\ Tail(reqs) \in Seq(Requests) /\ Head(reqs) = reqs[1] /\ Head(reqs) \in Requests
         /\ 1 \in 1..Len(reqs)
         /\ \A i \in 1..Len(Tail(reqs)) : i + 1 \in 1..Len(reqs) /\ Tail(reqs)[i] = reqs[i + 1]
         /\ \A i \in 1..Len(reqs) : i = 1 \/ (i - 1 \in 1..Len(Tail(reqs)) /\ Tail(reqs)[i - 1] = reqs[i])
OBVIOUS

LEMMA RestIsBounded ==
  ASSUME NEW rs, NEW s, NEW box, NEW reqs \in Seq(Requests), reqs # <<>>, Bounded(rs, s, box, reqs)
  PROVE  Bounded(rs, s, box, Tail(reqs)) /\ s.online
BY RestIs DEF Bounded

LEMMA RestIsTold ==
  ASSUME NEW rs, NEW cur, NEW s, NEW reqs \in Seq(Requests), reqs # <<>>, CursorsTold(rs, cur, s, reqs)
  PROVE  CursorsTold(rs, cur, s, Tail(reqs))
BY RestIs DEF CursorsTold

LEMMA RequestIsHandled ==
  ASSUME NEW rs, NEW cur, NEW s, NEW box, NEW reqs \in Seq(Requests), reqs # <<>>, NEW b,
         Wired(rs, cur, s, box, reqs, b), Head(reqs).kind # "subscribe" \/ ~Goes(rs, cur)
  PROVE  Wired(rs, cur, s, box, Tail(reqs), b)
<1>1. Bounded(rs, s, box, Tail(reqs))
  BY RestIsBounded DEF Wired
<1>2. ASSUME Goes(rs, cur)
      PROVE  Follows(rs, cur, s, box, Tail(reqs), b)
  <2>1. Follows(rs, cur, s, box, reqs, b) /\ Head(reqs).kind # "subscribe"
    BY <1>2 DEF Wired
  <2>2. CursorsTold(rs, cur, s, Tail(reqs))
    BY <2>1, RestIsTold DEF Follows
  <2>3. (\E i \in 1..Len(reqs) : reqs[i].kind = "subscribe")
          => \E i \in 1..Len(Tail(reqs)) : Tail(reqs)[i].kind = "subscribe"
    <3> SUFFICES ASSUME NEW i \in 1..Len(reqs), reqs[i].kind = "subscribe"
                 PROVE  \E j \in 1..Len(Tail(reqs)) : Tail(reqs)[j].kind = "subscribe"
      OBVIOUS
    <3>1. i # 1
      BY <2>1, RestIs
    <3>2. i - 1 \in 1..Len(Tail(reqs)) /\ Tail(reqs)[i - 1] = reqs[i]
      BY <3>1, RestIs
    <3> QED BY <3>2
  <2>4. FollowerIsViewer(rs, cur, s, box, Tail(reqs), b)
    BY <2>1, <2>3 DEF Follows, FollowerIsViewer
  <2> QED BY <2>1, <2>2, <2>4 DEF Follows
<1> QED BY <1>1, <1>2 DEF Wired

(* A request is made; a subscription carries the cursor.                    *)
LEMMA RequestIsMade ==
  ASSUME NEW rs, NEW cur, NEW s, NEW t, NEW box, NEW reqs \in Seq(Requests), NEW r \in Requests,
         NEW b, Wired(rs, cur, s, box, reqs, b), s.online, t.online, Untracked(s, t),
         t.owes = s.owes \/ r.kind = "subscribe", r.kind = "subscribe" => r = Cursor(s)
  PROVE  Wired(rs, cur, t, box, Append(reqs, r), b)
<1>1. PICK more : more = Append(reqs, r)
  OBVIOUS
<1>2. /\ \A i \in 1..Len(reqs) : i \in 1..Len(more) /\ more[i] = reqs[i]
      /\ \A i \in 1..Len(more) : i \in 1..Len(reqs) \/ more[i] = r
      /\ Len(more) \in 1..Len(more) /\ more[Len(more)] = r
  BY <1>1
<1>3. r.kind = "subscribe" => r.run = s.cursor /\ r.last = s.last
  BY DEF Cursor
<1>4. \A i, g, n : Ahead(t, box, i, g, n) <=> Ahead(s, box, i, g, n)
  BY DEF Untracked, Ahead, Showed
<1>5. ShownGrows(rs, t) /\ WireGrows(rs, t, box) /\ Stays(cur, t, box)
  BY DEF Wired, Untracked, ShownGrows, WireGrows, Stays
<1>6. LateIsAgain(t, box)
  BY <1>4 DEF Wired, Untracked, LateIsAgain
<1>7. Bounded(rs, t, box, more)
  BY <1>2, <1>3 DEF Wired, Untracked, Bounded
<1>8. ASSUME Goes(rs, cur)
      PROVE  Follows(rs, cur, t, box, more, b)
  <2>1. Follows(rs, cur, s, box, reqs, b)
    BY <1>8 DEF Wired
  <2>2. NothingLeftOut(rs, cur, t, box)
    BY <1>4, <2>1 DEF Follows, NothingLeftOut
  <2>3. \A last : ShowedUpTo(rs, cur, s, last) => ShowedUpTo(rs, cur, t, last)
    BY DEF ShowedUpTo, Showed, Untracked
  <2>4. CursorsTold(rs, cur, t, more)
    BY <1>2, <1>3, <2>1, <2>3 DEF Follows, CursorsTold, Untracked
  <2>5. ViewerIsAhead(rs, cur, t, box, b)
    BY <1>4, <2>1 DEF Follows, ViewerIsAhead
  <2>6. FollowerIsViewer(rs, cur, t, box, more, b)
    BY <1>2, <2>1 DEF Follows, FollowerIsViewer, Untracked
  <2> QED BY <2>2, <2>4, <2>5, <2>6 DEF Follows
<1> QED BY <1>1, <1>5, <1>6, <1>7, <1>8 DEF Wired
(* A viewer of the run that goes joins its stream: what the ring holds      *)
(* behind the cursor follows the answer.                                    *)
First(rs, cur, c) ==
  LET from == IF c.run = cur /\ c.last <= Length(rs, cur) THEN c.last + 1 ELSE 1
  IN IF from < Held(rs, cur) THEN Held(rs, cur) ELSE from

IsFirst(rs, cur, c, first) ==
  /\ first \in Nat /\ first \in Held(rs, cur)..(Length(rs, cur) + 1)
  /\ Held(rs, cur) <= first /\ first <= Length(rs, cur) + 1
  /\ first > Held(rs, cur) => c.run = cur /\ first = c.last + 1

LEMMA FirstIs ==
  ASSUME NEW rs \in Seq(RunRecord), NEW cur \in 1..Len(rs), NEW c, c.last \in Nat
  PROVE  IsFirst(rs, cur, c, First(rs, cur, c))
<1>1. PICK held : held = Held(rs, cur)
  OBVIOUS
<1>2. PICK last : last = Length(rs, cur)
  OBVIOUS
<1>3. PICK from : from = IF c.run = cur /\ c.last <= last THEN c.last + 1 ELSE 1
  OBVIOUS
<1>4. held \in Nat \ {0} /\ last \in Nat /\ held <= last + 1
  BY <1>1, <1>2, Bases
<1>5. from \in 1..(last + 1) /\ (from > 1 => c.run = cur /\ from = c.last + 1)
  BY <1>3, <1>4
<1>6. First(rs, cur, c) = IF from < held THEN held ELSE from
  BY <1>1, <1>2, <1>3 DEF First
<1>7. PICK first : first = First(rs, cur, c)
  OBVIOUS
<1>8. /\ first \in Nat /\ first \in held..(last + 1) /\ held <= first /\ first <= last + 1
      /\ first > held => c.run = cur /\ first = c.last + 1
  BY <1>4, <1>5, <1>6, <1>7
<1> QED BY <1>1, <1>2, <1>7, <1>8, Zenon DEF IsFirst

Replays(rs, cur, c, more) ==
  /\ Len(more) = Length(rs, cur) + 2 - First(rs, cur, c)
  /\ \A k \in 2..Len(more) : IsFrame(more[k], cur, First(rs, cur, c) + k - 2)

LEMMA PlaceIsHeld ==
  ASSUME NEW held \in Nat, NEW last \in Nat, NEW first \in Nat, held <= first, first <= last + 1,
         NEW k \in 2..(last + 2 - first)
  PROVE  first + k - 2 \in held..last /\ k >= 1
         /\ \A n \in held..((first + k - 2) - 1) : n \in held..last /\ n <= first + k - 3
OBVIOUS

LEMMA PlaceIsBefore ==
  ASSUME NEW last \in Nat, NEW first \in Nat, first <= last + 1, NEW k \in Nat,
         NEW n \in Nat, first <= n, n <= last, n <= first + k - 3
  PROVE  /\ n - first + 2 \in 2..(last + 2 - first) /\ first + (n - first + 2) - 2 = n
         /\ n - first + 2 < k
OBVIOUS

LEMMA PlaceIsLast ==
  ASSUME NEW last \in Nat, NEW first \in Nat, first <= last + 1, NEW n, n = last + 2 - first
  PROVE  first + (n + 1) - 3 = last
OBVIOUS

LEMMA ViewerJoins ==
  ASSUME NEW rs \in Seq(RunRecord), NEW rs2 \in Seq(RunRecord), Len(rs2) = Len(rs),
         NEW cur \in 1..Len(rs), cur = Len(rs), Goes(rs, cur),
         \A g \in 1..Len(rs) : rs2[g].events = rs[g].events,
         NEW s \in BrowserRecord, NEW box \in Seq(Frames),
         NEW reqs \in Seq(Requests), reqs # <<>>, Head(reqs).kind = "subscribe",
         NEW b, b \in rs2[cur].viewers, Wired(rs, cur, s, box, reqs, b),
         NEW more \in Seq(Frames), more # <<>>, more[1].kind = "subscribed", more[1].run = cur,
         Replays(rs, cur, Head(reqs), more)
  PROVE  Wired(rs2, cur, s, box \o more, Tail(reqs), b)
<1>1. PICK c : c = Head(reqs)
  OBVIOUS
<1>2. PICK first : first = First(rs, cur, c)
  OBVIOUS
<1>3. /\ c \in [kind : {"subscribe"}, run : Nat, last : Nat] /\ c = reqs[1]
      /\ 1 \in 1..Len(reqs)
  BY <1>1, RestIs DEF Requests, Sends, Aborts
<1>4. /\ Length(rs, cur) \in Nat /\ Held(rs, cur) \in Nat \ {0}
      /\ Held(rs, cur) <= Length(rs, cur) + 1
  BY Bases
<1>5. /\ first \in Held(rs, cur)..(Length(rs, cur) + 1)
      /\ first > Held(rs, cur) => c.run = cur /\ first = c.last + 1
      /\ first \in Nat /\ Held(rs, cur) <= first /\ first <= Length(rs, cur) + 1
  <2>1. c.last \in Nat
    BY <1>3
  <2>2. IsFirst(rs, cur, c, First(rs, cur, c))
    BY <2>1, FirstIs
  <2> QED BY <1>2, <2>2, Zenon DEF IsFirst
<1>6. /\ Len(more) = Length(rs, cur) + 2 - first /\ Len(more) \in Nat \ {0}
      /\ \A k \in 2..Len(more) : IsFrame(more[k], cur, first + k - 2)
  BY <1>1, <1>2, <1>4, <1>5 DEF Replays
<1>7. /\ Length(rs2, cur) = Length(rs, cur) /\ Held(rs2, cur) = Held(rs, cur) /\ cur # None
      /\ \A g \in 1..Len(rs) : Length(rs, g) <= Length(rs2, g)
  <2>1. \A g \in 1..Len(rs) : Length(rs2, g) = Length(rs, g) /\ Length(rs, g) \in Nat
    BY Bases DEF Length
  <2>2. Length(rs2, cur) = Length(rs, cur) /\ cur # None
    BY <2>1 DEF None
  <2>3. Held(rs2, cur) = Held(rs, cur)
    BY <2>2, Zenon DEF Held
  <2>4. \A g \in 1..Len(rs) : Length(rs, g) <= Length(rs2, g)
    BY <2>1
  <2> QED BY <2>2, <2>3, <2>4
<1>8. /\ ShownGrows(rs2, s) /\ WireGrows(rs2, s, box) /\ Bounded(rs2, s, box, reqs)
      /\ NothingLeftOut(rs2, cur, s, box) /\ CursorsTold(rs2, cur, s, reqs)
  BY <1>7, RecordsMove
<1>9. /\ Bounded(rs2, s, box, Tail(reqs)) /\ s.online /\ Tail(reqs) \in Seq(Requests)
      /\ CursorsTold(rs2, cur, s, Tail(reqs))
  BY <1>8, RestIs, RestIsBounded, RestIsTold
<1>10. Len(box) \in Nat /\ Len(box \o more) = Len(box) + Len(more)
  BY JoinIs
<1>11. ASSUME NEW n \in Held(rs, cur)..Length(rs, cur), NEW k \in Nat, k >= 1, n <= first + k - 3
       PROVE  Ahead(s, box \o more, Len(box) + k, cur, n)
  <2>1. n \in Nat /\ n <= Length(rs, cur)
    BY <1>4
  <2>2. CASE n < first
    <3>1. c.run = cur /\ n \in Held(rs2, cur)..c.last
      BY <1>3, <1>4, <1>5, <1>7, <2>2
    <3>2. ShowedUpTo(rs2, cur, s, c.last)
      BY <1>3, <1>8, <3>1 DEF CursorsTold
    <3> QED BY <3>1, <3>2 DEF ShowedUpTo, Ahead
  <2>3. CASE n >= first
    <3>1. /\ n - first + 2 \in 2..(Length(rs, cur) + 2 - first)
          /\ first + (n - first + 2) - 2 = n /\ n - first + 2 < k
      BY <1>4, <1>5, <1>11, <2>1, <2>3, PlaceIsBefore
    <3>2. PICK j \in 2..Len(more) : first + j - 2 = n /\ j < k
      BY <1>6, <3>1
    <3>3. IsFrame(more[j], cur, n)
      BY <1>6, <3>2
    <3>4. j \in 1..Len(more) /\ Len(box) + k \in Nat /\ Len(box) + k > Len(box) + j
      BY <1>6, <1>10, <3>2
    <3> QED BY <3>3, <3>4, AheadOfMore
  <2> QED BY <1>5, <2>1, <2>2, <2>3
<1>12. \A i \in 1..Len(more) : more[i].run = cur
  <2> SUFFICES ASSUME NEW i \in 1..Len(more) PROVE more[i].run = cur
    OBVIOUS
  <2>1. i = 1 \/ i \in 2..Len(more)
    BY <1>6
  <2> QED BY <1>6, <2>1 DEF IsFrame
<1>13. Behind(rs2, cur, s, box, more)
  <2> SUFFICES ASSUME NEW k \in 1..Len(more), more[k].kind = "event"
               PROVE  /\ more[k].seq \in Held(rs2, cur)..Length(rs2, cur)
                      /\ \A n \in Held(rs2, cur)..(more[k].seq - 1) :
                           Ahead(s, box \o more, Len(box) + k, cur, n)
    BY <1>7, <1>8 DEF Behind
  <2>1. k \in 2..Len(more)
    BY <1>6
  <2>2. more[k].seq = first + k - 2
    BY <1>6, <2>1 DEF IsFrame
  <2>3. /\ first + k - 2 \in Held(rs, cur)..Length(rs, cur) /\ k >= 1 /\ k \in Nat
        /\ \A n \in Held(rs, cur)..((first + k - 2) - 1) :
             n \in Held(rs, cur)..Length(rs, cur) /\ n <= first + k - 3
    <3>1. k \in 2..(Length(rs, cur) + 2 - first)
      BY <1>6, <2>1, Zenon
    <3>2. Held(rs, cur) \in Nat
      BY <1>4
    <3>3. k \in Nat
      BY <3>1
    <3>4. /\ first + k - 2 \in Held(rs, cur)..Length(rs, cur) /\ k >= 1
          /\ \A n \in Held(rs, cur)..((first + k - 2) - 1) :
               n \in Held(rs, cur)..Length(rs, cur) /\ n <= first + k - 3
      BY <1>4, <1>5, <3>1, <3>2, PlaceIsHeld, ZenonT(30)
    <3> QED BY <3>3, <3>4, Zenon
  <2>4. \A n \in Held(rs2, cur)..(more[k].seq - 1) : Ahead(s, box \o more, Len(box) + k, cur, n)
    BY <1>7, <1>11, <2>2, <2>3
  <2> QED BY <1>7, <2>2, <2>3, <2>4
<1>14. /\ WireGrows(rs2, s, box \o more) /\ LateIsAgain(s, box \o more)
       /\ Bounded(rs2, s, box \o more, Tail(reqs)) /\ Stays(cur, s, box \o more)
  BY <1>8, <1>9, <1>12, <1>13, DeliveryGrows DEF Wired
<1>15. NothingLeftOut(rs2, cur, s, box \o more)
  BY <1>8, <1>12, <1>13, DeliveryLeavesNothing
<1>16. ViewerIsAhead(rs2, cur, s, box \o more, b)
  <2> SUFFICES ASSUME NEW n \in Held(rs2, cur)..Length(rs2, cur)
               PROVE  Ahead(s, box \o more, Len(box \o more) + 1, cur, n)
    BY <1>9 DEF ViewerIsAhead
  <2>1. n \in Held(rs, cur)..Length(rs, cur) /\ n <= first + (Len(more) + 1) - 3
    <3>1. n \in Held(rs, cur)..Length(rs, cur)
      BY <1>7
    <3>2. n \in Nat /\ n <= Length(rs, cur) /\ Length(rs, cur) \in Nat
      BY <1>4, <3>1
    <3>3. first + (Len(more) + 1) - 3 = Length(rs, cur)
      <4>1. /\ Length(rs, cur) \in Nat /\ first \in Nat /\ first <= Length(rs, cur) + 1
            /\ Len(more) = Length(rs, cur) + 2 - first
        BY <1>5, <1>6, <3>2
      <4> QED BY <4>1, PlaceIsLast, Zenon
    <3>4. n <= first + (Len(more) + 1) - 3
      BY <3>2, <3>3, Zenon
    <3> QED BY <3>1, <3>4, Zenon
  <2>2. Len(box \o more) + 1 = Len(box) + (Len(more) + 1)
    <3>1. Len(box) \in Nat /\ Len(more) \in Nat /\ Len(box \o more) = Len(box) + Len(more)
      BY <1>6, <1>10, Zenon
    <3> QED BY <3>1
  <2>3. Len(more) + 1 \in Nat /\ Len(more) + 1 >= 1
    BY <1>6
  <2> QED BY <1>11, <2>1, <2>2, <2>3
<1>17. FollowerIsViewer(rs2, cur, s, box \o more, Tail(reqs), b)
  BY DEF FollowerIsViewer
<1> QED BY <1>8, <1>9, <1>14, <1>15, <1>16, <1>17 DEF Wired, Follows
-----------------------------------------------------------------------------
(* Sockets open and close; runs begin and are forgotten.                    *)
LEMMA SocketOpens ==
  ASSUME NEW rs, NEW cur, NEW s, NEW t, NEW box, NEW reqs, NEW b,
         Wired(rs, cur, s, box, reqs, b), ~s.online, t.online, t.owes, Untracked(s, t)
  PROVE  Wired(rs, cur, t, box, reqs, b)
<1>1. \A i, g, n : Ahead(t, box, i, g, n) <=> Ahead(s, box, i, g, n)
  BY DEF Untracked, Ahead, Showed
<1>2. /\ ShownGrows(rs, t) /\ WireGrows(rs, t, box) /\ Stays(cur, t, box)
      /\ Bounded(rs, t, box, reqs)
  BY DEF Wired, Untracked, ShownGrows, WireGrows, Stays, Bounded
<1>3. LateIsAgain(t, box)
  BY <1>1 DEF Wired, Untracked, LateIsAgain
<1>4. ASSUME Goes(rs, cur)
      PROVE  Follows(rs, cur, t, box, reqs, b)
  <2>1. Follows(rs, cur, s, box, reqs, b) /\ b \notin rs[cur].viewers
    BY <1>4 DEF Wired, Follows, ViewerIsAhead
  <2>2. NothingLeftOut(rs, cur, t, box)
    BY <1>1, <2>1 DEF Follows, NothingLeftOut
  <2>3. \A last : ShowedUpTo(rs, cur, s, last) => ShowedUpTo(rs, cur, t, last)
    BY DEF ShowedUpTo, Showed, Untracked
  <2>4. CursorsTold(rs, cur, t, reqs)
    BY <2>1, <2>3 DEF Follows, CursorsTold, Untracked
  <2>5. ViewerIsAhead(rs, cur, t, box, b) /\ FollowerIsViewer(rs, cur, t, box, reqs, b)
    BY <2>1 DEF Follows, ViewerIsAhead, FollowerIsViewer
  <2> QED BY <2>2, <2>4, <2>5 DEF Follows
<1> QED BY <1>2, <1>3, <1>4 DEF Wired

LEMMA SocketCloses ==
  ASSUME NEW rs \in Seq(RunRecord), NEW rs2 \in Seq(RunRecord), Len(rs2) = Len(rs),
         NEW cur \in {None, Len(rs)}, NEW cur2 \in {None, cur},
         NEW s \in BrowserRecord, NEW t \in BrowserRecord,
         NEW box \in Seq(Frames), NEW reqs \in Seq(Requests), NEW b,
         Wired(rs, cur, s, box, reqs, b), ~t.online, Untracked(s, t),
         \A g \in 1..Len(rs) : /\ rs2[g].events = rs[g].events /\ rs2[g].status = rs[g].status
                               /\ b \notin rs2[g].viewers
  PROVE  Wired(rs2, cur2, t, <<>>, <<>>, b)
<1>1. /\ ShownGrows(rs2, s) /\ Bounded(rs2, s, box, reqs)
      /\ Goes(rs, cur) => NothingLeftOut(rs2, cur, s, box) /\ CursorsTold(rs2, cur, s, reqs)
  <2>1. \A g \in 1..Len(rs) : Length(rs, g) \in Nat /\ Length(rs2, g) = Length(rs, g)
    BY Bases DEF Length
  <2>2. \A g \in 1..Len(rs) : Length(rs, g) <= Length(rs2, g)
    BY <2>1
  <2> QED BY <2>2, RecordsMove
<1>2. ShownGrows(rs2, t) /\ WireGrows(rs2, t, <<>>) /\ LateIsAgain(t, <<>>) /\ Stays(cur2, t, <<>>)
  BY <1>1 DEF Wired, Untracked, ShownGrows, WireGrows, LateIsAgain, Stays, None
<1>3. Bounded(rs2, t, <<>>, <<>>)
  BY <1>1 DEF Bounded, Untracked
<1>4. ASSUME Goes(rs2, cur2)
      PROVE  Follows(rs2, cur2, t, <<>>, <<>>, b)
  <2>1. cur2 = cur /\ Goes(rs, cur) /\ b \notin rs2[cur].viewers
    BY <1>4 DEF Goes, None
  <2>2. NothingLeftOut(rs2, cur, t, <<>>)
    <3> SUFFICES ASSUME NEW i \in 1..(Len(<<>>) + 1), NEW m \in Held(rs2, cur)..Length(rs2, cur),
                        NEW n \in Held(rs2, cur)..Length(rs2, cur),
                        n < m, Ahead(t, <<>>, i, cur, m)
                 PROVE  Ahead(t, <<>>, i, cur, n)
      BY DEF NothingLeftOut
    <3>1. i = 1 /\ 1 \in 1..(Len(box) + 1)
      OBVIOUS
    <3>2. Ahead(s, box, 1, cur, m)
      BY <3>1 DEF Ahead, Showed, Untracked
    <3>3. Ahead(s, box, 1, cur, n)
      BY <1>1, <2>1, <3>1, <3>2 DEF NothingLeftOut
    <3> QED BY <3>1, <3>3 DEF Ahead, Showed, Untracked
  <2>3. CursorsTold(rs2, cur, t, <<>>)
    BY <1>1, <2>1 DEF CursorsTold, ShowedUpTo, Showed, Untracked
  <2>4. ViewerIsAhead(rs2, cur, t, <<>>, b) /\ FollowerIsViewer(rs2, cur, t, <<>>, <<>>, b)
    BY <2>1 DEF ViewerIsAhead, FollowerIsViewer
  <2> QED BY <2>1, <2>2, <2>3, <2>4 DEF Follows
<1> QED BY <1>2, <1>3, <1>4 DEF Wired

LEMMA RunBegins ==
  ASSUME NEW rs \in Seq(RunRecord), NEW x \in RunRecord, x.events = <<>>,
         NEW rs2 \in Seq(RunRecord), rs2 = Append(rs, x), NEW cur, ~Goes(rs, cur),
         NEW s \in BrowserRecord, NEW box \in Seq(Frames), NEW reqs \in Seq(Requests), NEW b,
         b \in x.viewers => s.online, Wired(rs, cur, s, box, reqs, b)
  PROVE  Wired(rs2, Len(rs) + 1, s, box, reqs, b)
<1>1. PICK new : new = Len(rs) + 1
  OBVIOUS
<1>2. /\ Len(rs) \in Nat /\ new = Len(rs) + 1 /\ Len(rs2) = new /\ rs2[new] = x
      /\ \A g \in 1..Len(rs) : rs2[g] = rs[g] /\ g \in 1..Len(rs2)
  BY <1>1
<1>3. \A g, n : Happened(rs, g, n) => Happened(rs2, g, n)
  BY <1>2 DEF Happened, Length
<1>4. ShownGrows(rs2, s) /\ WireGrows(rs2, s, box)
  BY <1>3 DEF Wired, ShownGrows, WireGrows
<1>5. /\ s.cursor \in Nat /\ s.cursor <= Len(rs) /\ s.retired \subseteq 1..Len(rs)
      /\ \A i \in 1..Len(box) : box[i].kind # "error" => box[i].run <= Len(rs)
      /\ \A i \in 1..Len(reqs) : reqs[i].kind = "subscribe" => reqs[i].run <= Len(rs)
      /\ ~s.online => box = <<>> /\ reqs = <<>>
  BY DEF Wired, Bounded, BrowserRecord
<1>6. /\ \A i \in 1..Len(box) : box[i].kind # "error" => box[i].run # new /\ box[i].run <= new
      /\ \A i \in 1..Len(reqs) : reqs[i].kind = "subscribe" => reqs[i].run # new /\ reqs[i].run <= new
      /\ s.cursor # new /\ s.cursor <= new /\ new \notin s.retired
  <2>1. \A i \in 1..Len(box) : box[i].kind # "error" => box[i].run \in Nat
    BY FrameTypes
  <2>2. \A i \in 1..Len(reqs) : reqs[i].kind = "subscribe" => reqs[i].run \in Nat
    BY DEF Requests, Sends, Aborts
  <2>3. \A g \in Nat : g <= Len(rs) => g # new /\ g <= new
    BY <1>2
  <2>4. new \notin 1..Len(rs)
    BY <1>2
  <2>5. \A i \in 1..Len(box) : box[i].kind # "error" => box[i].run # new /\ box[i].run <= new
    BY <1>5, <2>1, <2>3
  <2>6. \A i \in 1..Len(reqs) : reqs[i].kind = "subscribe" => reqs[i].run # new /\ reqs[i].run <= new
    BY <1>5, <2>2, <2>3
  <2>7. s.cursor # new /\ s.cursor <= new
    BY <1>5, <2>3
  <2>8. new \notin s.retired
    BY <1>5, <2>4
  <2> QED BY <2>5, <2>6, <2>7, <2>8
<1>7. Bounded(rs2, s, box, reqs)
  BY <1>2, <1>5, <1>6 DEF Bounded
<1>8. Stays(new, s, box)
  BY <1>6 DEF Stays
<1>9. Follows(rs2, new, s, box, reqs, b)
  <2>1. Length(rs2, new) = 0 /\ Held(rs2, new) = 1
    <3>1. Length(rs2, new) = 0
      BY <1>2 DEF Length
    <3> QED BY <3>1, BufferAssumption DEF Held
  <2>2. Held(rs2, new)..Length(rs2, new) = {}
    BY <2>1
  <2>3. NothingLeftOut(rs2, new, s, box)
    BY <2>2 DEF NothingLeftOut
  <2>4. CursorsTold(rs2, new, s, reqs)
    BY <1>6 DEF CursorsTold
  <2>5. ViewerIsAhead(rs2, new, s, box, b)
    BY <1>2, <2>2 DEF ViewerIsAhead
  <2>6. FollowerIsViewer(rs2, new, s, box, reqs, b)
    BY <1>6 DEF FollowerIsViewer
  <2> QED BY <2>3, <2>4, <2>5, <2>6 DEF Follows
<1>10. LateIsAgain(s, box)
  BY DEF Wired
<1> QED BY <1>1, <1>4, <1>7, <1>8, <1>9, <1>10 DEF Wired

LEMMA RunIsForgotten ==
  ASSUME NEW rs, NEW cur, NEW s, NEW box, NEW reqs, NEW b, Wired(rs, cur, s, box, reqs, b)
  PROVE  Wired(rs, None, s, box, reqs, b)
BY DEF Wired, Stays, Goes
-----------------------------------------------------------------------------
(* The same, for all browsers of the session.                               *)
Agrees(rs, cur, bs, boxes, reqs) ==
  /\ rs \in Seq(RunRecord) /\ cur \in Nat /\ bs \in [Browsers -> BrowserRecord]
  /\ boxes \in [Browsers -> Seq(Frames)] /\ reqs \in [Browsers -> Seq(Requests)]
  /\ RunsAgree(rs, cur)
  /\ \A b \in Browsers : Wired(rs, cur, bs[b], boxes[b], reqs[b], b)

LEMMA AgreesIs == ChatInv <=> Agrees(run, current, browser, inbox, outbox)
BY DEF ChatInv, TypeInv, Agrees

LEMMA RecordIsChanged ==
  ASSUME NEW S, NEW rs \in Seq(S), NEW g \in 1..Len(rs), NEW y \in S
  PROVE  /\ [rs EXCEPT ![g] = y] \in Seq(S) /\ Len([rs EXCEPT ![g] = y]) = Len(rs)
         /\ [rs EXCEPT ![g] = y][g] = y
         /\ \A h \in 1..Len(rs) : h # g => [rs EXCEPT ![g] = y][h] = rs[h]
OBVIOUS

LEMMA EditAgrees ==
  ASSUME NEW rs, NEW cur, NEW bs, NEW boxes, NEW reqs, Agrees(rs, cur, bs, boxes, reqs),
         NEW g \in 1..Len(rs), NEW y \in RunRecord, y.events = rs[g].events,
         y.status = rs[g].status, y.viewers = rs[g].viewers, y.pending => rs[g].pending
  PROVE  Agrees([rs EXCEPT ![g] = y], cur, bs, boxes, reqs)
<1>1. PICK rs2 : rs2 = [rs EXCEPT ![g] = y]
  OBVIOUS
<1>2. /\ rs \in Seq(RunRecord) /\ cur \in {None, Len(rs)}
      /\ \A b \in Browsers : /\ bs[b] \in BrowserRecord /\ boxes[b] \in Seq(Frames)
                             /\ reqs[b] \in Seq(Requests)
                             /\ Wired(rs, cur, bs[b], boxes[b], reqs[b], b)
  BY DEF Agrees, RunsAgree
<1>3. /\ rs2 \in Seq(RunRecord) /\ Len(rs2) = Len(rs)
      /\ \A h \in 1..Len(rs) : rs2[h] = IF h = g THEN y ELSE rs[h]
  BY <1>1, <1>2, RecordIsChanged
<1>4. /\ \A h \in 1..Len(rs) : Length(rs, h) \in Nat /\ Length(rs2, h) = Length(rs, h)
      /\ \A h \in 1..Len(rs) : Length(rs, h) <= Length(rs2, h)
  <2>1. \A h \in 1..Len(rs) : Length(rs, h) \in Nat /\ Length(rs2, h) = Length(rs, h)
    BY <1>2, <1>3, Bases DEF Length
  <2> QED BY <2>1
<1>5. \A h \in 1..Len(rs) : /\ rs2[h].events = rs[h].events /\ rs2[h].status = rs[h].status
                            /\ rs2[h].viewers = rs[h].viewers
                            /\ rs2[h].pending => rs[h].pending
  BY <1>3
<1>6. RunsAgree(rs2, cur)
  BY <1>3, <1>5 DEF Agrees, RunsAgree, EndIsLast
<1>7. ASSUME NEW b \in Browsers
      PROVE  Wired(rs2, cur, bs[b], boxes[b], reqs[b], b)
  <2>1. Goes(rs2, cur) => cur \in 1..Len(rs)
    BY <1>2 DEF Goes, None
  <2> QED BY <1>2, <1>3, <1>4, <1>5, <2>1, RecordsAlike DEF Goes
<1> QED BY <1>1, <1>3, <1>6, <1>7 DEF Agrees

LEMMA EndStaysLast ==
  ASSUME NEW x \in RunRecord, EndIsLast(x), x.status = "running", NEW what \in Whats,
         NEW y \in RunRecord, y.events = Append(x.events, what),
         what = "complete" => y.status = "completed" /\ ~y.pending,
         what # "complete" => y.status = "running"
  PROVE  EndIsLast(y)
<1>1. x.events \in Seq(Whats) /\ \A i \in 1..Len(x.events) : x.events[i] # "complete"
  BY DEF EndIsLast, RunRecord
<1>2. \A i \in 1..Len(y.events) : y.events[i] = "complete" => i = Len(y.events) /\ what = "complete"
  BY <1>1
<1> QED BY <1>2 DEF EndIsLast

LEMMA PublicationAgrees ==
  ASSUME NEW rs, NEW cur, NEW bs, NEW boxes, NEW reqs, Agrees(rs, cur, bs, boxes, reqs),
         Goes(rs, cur), NEW what \in Whats,
         NEW y \in RunRecord, y.events = Append(rs[cur].events, what), y.viewers = rs[cur].viewers,
         what = "complete" => y.status = "completed" /\ ~y.pending,
         what # "complete" => y.status = "running"
  PROVE  Agrees([rs EXCEPT ![cur] = y], cur, bs,
                [b \in Browsers |->
                   IF b \in rs[cur].viewers
                   THEN Append(boxes[b], Frame(cur, Len(rs[cur].events) + 1, what)) ELSE boxes[b]], reqs)
<1>1. PICK rs2 : rs2 = [rs EXCEPT ![cur] = y]
  OBVIOUS
<1>2. PICK boxes2 : boxes2 = [b \in Browsers |->
                   IF b \in rs[cur].viewers
                   THEN Append(boxes[b], Frame(cur, Len(rs[cur].events) + 1, what)) ELSE boxes[b]]
  OBVIOUS
<1>3. /\ rs \in Seq(RunRecord) /\ cur \in 1..Len(rs) /\ cur = Len(rs)
      /\ \A b \in Browsers : /\ bs[b] \in BrowserRecord /\ boxes[b] \in Seq(Frames)
                             /\ reqs[b] \in Seq(Requests)
                             /\ Wired(rs, cur, bs[b], boxes[b], reqs[b], b)
  BY DEF Agrees, RunsAgree, Goes, None
<1>4. /\ rs2 \in Seq(RunRecord) /\ Len(rs2) = Len(rs) /\ rs2[cur] = y
      /\ \A h \in 1..Len(rs) : h # cur => rs2[h] = rs[h]
  BY <1>1, <1>3, RecordIsChanged
<1>5. /\ rs[cur] \in RunRecord /\ rs[cur].events \in Seq(Whats) /\ Length(rs, cur) \in Nat
      /\ rs[cur].status = "running" /\ EndIsLast(rs[cur])
  BY <1>3, Bases DEF Goes, Agrees, RunsAgree
<1>6. RunsAgree(rs2, cur)
  <2>1. EndIsLast(y)
    BY <1>5, EndStaysLast
  <2> QED BY <1>3, <1>4, <2>1 DEF Agrees, RunsAgree
<1>7. Frame(cur, Len(rs[cur].events) + 1, what) \in Frames
  BY <1>3, <1>5 DEF Frame, Frames, EventFrames, Named, None
<1>8. boxes2 \in [Browsers -> Seq(Frames)]
  BY <1>2, <1>3, <1>7
<1>9. ASSUME NEW b \in Browsers
      PROVE  Wired(rs2, cur, bs[b], boxes2[b], reqs[b], b)
  <2>1. boxes2[b] = IF b \in rs[cur].viewers
                    THEN Append(boxes[b], Frame(cur, Length(rs, cur) + 1, what)) ELSE boxes[b]
    BY <1>2 DEF Length
  <2>2. /\ rs2[cur].events = Append(rs[cur].events, what) /\ rs2[cur].viewers = rs[cur].viewers
        /\ \A g \in 1..Len(rs) : g # cur => rs2[g].events = rs[g].events
    BY <1>4
  <2>3. /\ rs \in Seq(RunRecord) /\ rs2 \in Seq(RunRecord) /\ Len(rs2) = Len(rs)
        /\ cur \in 1..Len(rs) /\ cur = Len(rs)
    BY <1>3, <1>4
  <2>4. /\ bs[b] \in BrowserRecord /\ boxes[b] \in Seq(Frames) /\ reqs[b] \in Seq(Requests)
        /\ Wired(rs, cur, bs[b], boxes[b], reqs[b], b)
    BY <1>3
  <2>5. /\ b \in rs[cur].viewers =>
             Wired(rs2, cur, bs[b], Append(boxes[b], Frame(cur, Length(rs, cur) + 1, what)), reqs[b], b)
        /\ b \notin rs[cur].viewers => Wired(rs2, cur, bs[b], boxes[b], reqs[b], b)
    BY <2>2, <2>3, <2>4, FrameIsPublished
  <2> QED BY <2>1, <2>5
<1> QED BY <1>1, <1>2, <1>4, <1>6, <1>8, <1>9 DEF Agrees
LEMMA RefusalAgrees ==
  ASSUME NEW rs, NEW cur, NEW bs, NEW boxes, NEW reqs, Agrees(rs, cur, bs, boxes, reqs),
         NEW b \in Browsers, bs[b].online
  PROVE  Agrees(rs, cur, bs, [boxes EXCEPT ![b] = @ \o <<Error>>], reqs)
<1>1. PICK boxes2 : boxes2 = [boxes EXCEPT ![b] = @ \o <<Error>>]
  OBVIOUS
<1>2. PICK more : more = <<Error>>
  OBVIOUS
<1>3. more \in Seq(Frames) /\ \A i \in 1..Len(more) : more[i].kind = "error"
  BY <1>2 DEF Frames, Error
<1>4. /\ rs \in Seq(RunRecord) /\ cur \in {None, Len(rs)}
      /\ \A c \in Browsers : /\ bs[c] \in BrowserRecord /\ boxes[c] \in Seq(Frames)
                             /\ reqs[c] \in Seq(Requests)
                             /\ Wired(rs, cur, bs[c], boxes[c], reqs[c], c)
  BY DEF Agrees, RunsAgree
<1>5. Wired(rs, cur, bs[b], boxes[b] \o more, reqs[b], b)
  BY <1>3, <1>4, AnswerIsSent
<1>6. boxes2[b] = boxes[b] \o more /\ \A c \in Browsers : c # b => boxes2[c] = boxes[c]
  BY <1>1, <1>2 DEF Agrees
<1>7. boxes2 \in [Browsers -> Seq(Frames)]
  BY <1>1, <1>2, <1>3 DEF Agrees
<1>8. \A c \in Browsers : Wired(rs, cur, bs[c], boxes2[c], reqs[c], c)
  BY <1>4, <1>5, <1>6
<1> QED BY <1>1, <1>7, <1>8 DEF Agrees

LEMMA HandledAgrees ==
  ASSUME NEW rs, NEW cur, NEW bs, NEW boxes, NEW reqs, Agrees(rs, cur, bs, boxes, reqs),
         NEW b \in Browsers, reqs[b] # <<>>, Head(reqs[b]).kind # "subscribe" \/ ~Goes(rs, cur)
  PROVE  Agrees(rs, cur, bs, boxes, [reqs EXCEPT ![b] = Tail(@)]) /\ bs[b].online
<1>1. PICK reqs2 : reqs2 = [reqs EXCEPT ![b] = Tail(@)]
  OBVIOUS
<1>2. \A c \in Browsers : /\ reqs[c] \in Seq(Requests)
                          /\ Wired(rs, cur, bs[c], boxes[c], reqs[c], c)
  BY DEF Agrees
<1>3. Wired(rs, cur, bs[b], boxes[b], Tail(reqs[b]), b) /\ bs[b].online
  BY <1>2, RequestIsHandled DEF Wired, Bounded
<1>4. reqs2[b] = Tail(reqs[b]) /\ \A c \in Browsers : c # b => reqs2[c] = reqs[c]
  BY <1>1 DEF Agrees
<1>5. reqs2 \in [Browsers -> Seq(Requests)]
  BY <1>1, <1>2, RestIs DEF Agrees
<1>6. \A c \in Browsers : Wired(rs, cur, bs[c], boxes[c], reqs2[c], c)
  BY <1>2, <1>3, <1>4
<1> QED BY <1>1, <1>3, <1>5, <1>6 DEF Agrees

LEMMA RequestAgrees ==
  ASSUME NEW rs, NEW cur, NEW bs, NEW boxes, NEW reqs, Agrees(rs, cur, bs, boxes, reqs),
         NEW b \in Browsers, NEW r \in Requests, NEW t \in BrowserRecord,
         bs[b].online, t.online, Untracked(bs[b], t), t.owes = bs[b].owes \/ r.kind = "subscribe",
         r.kind = "subscribe" => r = Cursor(bs[b])
  PROVE  Agrees(rs, cur, [bs EXCEPT ![b] = t], boxes, [reqs EXCEPT ![b] = Append(@, r)])
<1>1. PICK reqs2 : reqs2 = [reqs EXCEPT ![b] = Append(@, r)]
  OBVIOUS
<1>2. PICK bs2 : bs2 = [bs EXCEPT ![b] = t]
  OBVIOUS
<1>3. \A c \in Browsers : /\ reqs[c] \in Seq(Requests)
                          /\ Wired(rs, cur, bs[c], boxes[c], reqs[c], c)
  BY DEF Agrees
<1>4. Wired(rs, cur, t, boxes[b], Append(reqs[b], r), b)
  BY <1>3, RequestIsMade
<1>5. /\ reqs2[b] = Append(reqs[b], r) /\ bs2[b] = t
      /\ \A c \in Browsers : c # b => reqs2[c] = reqs[c] /\ bs2[c] = bs[c]
  BY <1>1, <1>2 DEF Agrees
<1>6. bs2 \in [Browsers -> BrowserRecord] /\ reqs2 \in [Browsers -> Seq(Requests)]
  BY <1>1, <1>2 DEF Agrees
<1>7. \A c \in Browsers : Wired(rs, cur, bs2[c], boxes[c], reqs2[c], c)
  BY <1>3, <1>4, <1>5
<1> QED BY <1>1, <1>2, <1>6, <1>7 DEF Agrees

LEMMA ReceiptAgrees ==
  ASSUME NEW rs, NEW cur, NEW bs, NEW boxes, NEW reqs, Agrees(rs, cur, bs, boxes, reqs),
         NEW b \in Browsers, boxes[b] # <<>>
  PROVE  Agrees(rs, cur, [bs EXCEPT ![b] = Received(@, Head(boxes[b]))],
                [boxes EXCEPT ![b] = Tail(@)], reqs)
<1>1. PICK boxes2 : boxes2 = [boxes EXCEPT ![b] = Tail(@)]
  OBVIOUS
<1>2. PICK t : t = Received(bs[b], Head(boxes[b]))
  OBVIOUS
<1>3. PICK bs2 : bs2 = [bs EXCEPT ![b] = Received(@, Head(boxes[b]))]
  OBVIOUS
<1>4. /\ rs \in Seq(RunRecord) /\ cur \in {None, Len(rs)}
      /\ \A c \in Browsers : /\ bs[c] \in BrowserRecord /\ boxes[c] \in Seq(Frames)
                             /\ reqs[c] \in Seq(Requests)
                             /\ Wired(rs, cur, bs[c], boxes[c], reqs[c], c)
  BY DEF Agrees, RunsAgree
<1>5. Wired(rs, cur, t, Tail(boxes[b]), reqs[b], b)
  BY <1>2, <1>4, Receipt
<1>6. /\ boxes2[b] = Tail(boxes[b]) /\ bs2[b] = t
      /\ \A c \in Browsers : c # b => boxes2[c] = boxes[c] /\ bs2[c] = bs[c]
  BY <1>1, <1>2, <1>3 DEF Agrees
<1>7. t \in BrowserRecord /\ Tail(boxes[b]) \in Seq(Frames)
  BY <1>2, <1>4, TailIs, ReceivedIs
<1>8. bs2 \in [Browsers -> BrowserRecord] /\ boxes2 \in [Browsers -> Seq(Frames)]
  BY <1>1, <1>2, <1>3, <1>7 DEF Agrees
<1>9. \A c \in Browsers : Wired(rs, cur, bs2[c], boxes2[c], reqs[c], c)
  BY <1>4, <1>5, <1>6
<1> QED BY <1>1, <1>3, <1>8, <1>9 DEF Agrees
(* A subscription is answered, while no run goes and while one does.        *)
LEMMA IdleAnswerAgrees ==
  ASSUME NEW rs, NEW cur, NEW bs, NEW boxes, NEW reqs, Agrees(rs, cur, bs, boxes, reqs),
         NEW b \in Browsers, bs[b].online, ~Goes(rs, cur),
         NEW f \in Frames, f.kind = "subscribed", f.run = cur
  PROVE  Agrees(rs, cur, bs, [boxes EXCEPT ![b] = @ \o <<f>>], reqs)
<1>1. PICK boxes2 : boxes2 = [boxes EXCEPT ![b] = @ \o <<f>>]
  OBVIOUS
<1>2. PICK more : more = <<f>>
  OBVIOUS
<1>3. more \in Seq(Frames) /\ \A i \in 1..Len(more) : more[i].kind = "subscribed" /\ more[i].run = cur
  BY <1>2
<1>4. /\ rs \in Seq(RunRecord) /\ cur \in {None, Len(rs)}
      /\ \A c \in Browsers : /\ bs[c] \in BrowserRecord /\ boxes[c] \in Seq(Frames)
                             /\ reqs[c] \in Seq(Requests)
                             /\ Wired(rs, cur, bs[c], boxes[c], reqs[c], c)
  BY DEF Agrees, RunsAgree
<1>5. Wired(rs, cur, bs[b], boxes[b] \o more, reqs[b], b)
  BY <1>3, <1>4, AnswerIsSent
<1>6. boxes2[b] = boxes[b] \o more /\ \A c \in Browsers : c # b => boxes2[c] = boxes[c]
  BY <1>1, <1>2 DEF Agrees
<1>7. boxes2 \in [Browsers -> Seq(Frames)]
  BY <1>1, <1>2, <1>3 DEF Agrees
<1>8. \A c \in Browsers : Wired(rs, cur, bs[c], boxes2[c], reqs[c], c)
  BY <1>4, <1>5, <1>6
<1> QED BY <1>1, <1>7, <1>8 DEF Agrees

LEMMA JoinAgrees ==
  ASSUME NEW rs, NEW cur, NEW bs, NEW boxes, NEW reqs, Agrees(rs, cur, bs, boxes, reqs),
         Goes(rs, cur), NEW b \in Browsers, reqs[b] # <<>>, Head(reqs[b]).kind = "subscribe",
         NEW y \in RunRecord, y.events = rs[cur].events, y.status = rs[cur].status,
         y.pending = rs[cur].pending, y.viewers = rs[cur].viewers \cup {b},
         NEW more \in Seq(Frames), more # <<>>, more[1].kind = "subscribed", more[1].run = cur,
         Replays(rs, cur, Head(reqs[b]), more)
  PROVE  Agrees([rs EXCEPT ![cur] = y], cur, bs, [boxes EXCEPT ![b] = @ \o more],
                [reqs EXCEPT ![b] = Tail(@)])
<1>1. PICK boxes2 : boxes2 = [boxes EXCEPT ![b] = @ \o more]
  OBVIOUS
<1>2. PICK reqs2 : reqs2 = [reqs EXCEPT ![b] = Tail(@)]
  OBVIOUS
<1>3. PICK rs2 : rs2 = [rs EXCEPT ![cur] = y]
  OBVIOUS
<1>4. /\ rs \in Seq(RunRecord) /\ cur \in 1..Len(rs) /\ cur = Len(rs)
      /\ \A c \in Browsers : /\ bs[c] \in BrowserRecord /\ boxes[c] \in Seq(Frames)
                             /\ reqs[c] \in Seq(Requests)
                             /\ Wired(rs, cur, bs[c], boxes[c], reqs[c], c)
  BY DEF Agrees, RunsAgree, Goes, None
<1>5. /\ rs2 \in Seq(RunRecord) /\ Len(rs2) = Len(rs) /\ rs2[cur] = y
      /\ \A h \in 1..Len(rs) : h # cur => rs2[h] = rs[h]
  BY <1>3, <1>4, RecordIsChanged
<1>6. /\ \A h \in 1..Len(rs) : rs2[h].events = rs[h].events
      /\ \A h \in 1..Len(rs) : Length(rs, h) <= Length(rs2, h)
  <2>1. \A h \in 1..Len(rs) : rs2[h].events = rs[h].events
    BY <1>5
  <2>2. \A h \in 1..Len(rs) : Length(rs, h) \in Nat /\ Length(rs2, h) = Length(rs, h)
    BY <1>4, <2>1, Bases DEF Length
  <2> QED BY <2>1, <2>2
<1>7. RunsAgree(rs2, cur)
  <2>1. EndIsLast(rs[cur])
    BY <1>4 DEF Agrees, RunsAgree
  <2>2. EndIsLast(y)
    BY <2>1 DEF EndIsLast
  <2> QED BY <1>4, <1>5, <2>2 DEF Agrees, RunsAgree
<1>8. Wired(rs2, cur, bs[b], boxes[b] \o more, Tail(reqs[b]), b)
  <2>1. b \in rs2[cur].viewers
    BY <1>5
  <2>2. /\ bs[b] \in BrowserRecord /\ boxes[b] \in Seq(Frames) /\ reqs[b] \in Seq(Requests)
        /\ Wired(rs, cur, bs[b], boxes[b], reqs[b], b)
    BY <1>4
  <2>3. /\ rs \in Seq(RunRecord) /\ rs2 \in Seq(RunRecord) /\ Len(rs2) = Len(rs)
        /\ cur \in 1..Len(rs) /\ cur = Len(rs) /\ \A h \in 1..Len(rs) : rs2[h].events = rs[h].events
    BY <1>4, <1>5, <1>6
  <2> QED BY <2>1, <2>2, <2>3, ViewerJoins
<1>9. ASSUME NEW c \in Browsers, c # b
      PROVE  Wired(rs2, cur, bs[c], boxes[c], reqs[c], c)
  <2>1. rs2[cur].events = rs[cur].events /\ (c \in rs[cur].viewers <=> c \in rs2[cur].viewers)
    BY <1>5, <1>9
  <2>2. /\ bs[c] \in BrowserRecord /\ boxes[c] \in Seq(Frames) /\ reqs[c] \in Seq(Requests)
        /\ Wired(rs, cur, bs[c], boxes[c], reqs[c], c)
    BY <1>4
  <2>3. /\ rs \in Seq(RunRecord) /\ rs2 \in Seq(RunRecord) /\ Len(rs2) = Len(rs)
        /\ cur \in {None, Len(rs)} /\ \A h \in 1..Len(rs) : Length(rs, h) <= Length(rs2, h)
    BY <1>4, <1>5, <1>6
  <2> QED BY <2>1, <2>2, <2>3, RecordsAlike
<1>10. /\ boxes2[b] = boxes[b] \o more /\ reqs2[b] = Tail(reqs[b])
       /\ \A c \in Browsers : c # b => boxes2[c] = boxes[c] /\ reqs2[c] = reqs[c]
  BY <1>1, <1>2 DEF Agrees
<1>11. boxes2 \in [Browsers -> Seq(Frames)] /\ reqs2 \in [Browsers -> Seq(Requests)]
  BY <1>1, <1>2, <1>4, RestIs DEF Agrees
<1>12. \A c \in Browsers : Wired(rs2, cur, bs[c], boxes2[c], reqs2[c], c)
  BY <1>8, <1>9, <1>10
<1> QED BY <1>1, <1>2, <1>3, <1>5, <1>7, <1>11, <1>12 DEF Agrees

LEMMA OpeningAgrees ==
  ASSUME NEW rs, NEW cur, NEW bs, NEW boxes, NEW reqs, Agrees(rs, cur, bs, boxes, reqs),
         NEW b \in Browsers, NEW t \in BrowserRecord, ~bs[b].online, t.online, t.owes,
         Untracked(bs[b], t)
  PROVE  Agrees(rs, cur, [bs EXCEPT ![b] = t], boxes, reqs)
<1>1. PICK bs2 : bs2 = [bs EXCEPT ![b] = t]
  OBVIOUS
<1>2. \A c \in Browsers : Wired(rs, cur, bs[c], boxes[c], reqs[c], c)
  BY DEF Agrees
<1>3. Wired(rs, cur, t, boxes[b], reqs[b], b)
  BY <1>2, SocketOpens
<1>4. bs2[b] = t /\ \A c \in Browsers : c # b => bs2[c] = bs[c]
  BY <1>1 DEF Agrees
<1>5. bs2 \in [Browsers -> BrowserRecord]
  BY <1>1 DEF Agrees
<1>6. \A c \in Browsers : Wired(rs, cur, bs2[c], boxes[c], reqs[c], c)
  BY <1>2, <1>3, <1>4
<1> QED BY <1>1, <1>5, <1>6 DEF Agrees

LEMMA BeginningAgrees ==
  ASSUME NEW rs, NEW cur, NEW bs, NEW boxes, NEW reqs, Agrees(rs, cur, bs, boxes, reqs),
         ~Goes(rs, cur), NEW x \in RunRecord, x.events = <<>>, ~x.pending,
         \A b \in x.viewers : bs[b].online
  PROVE  Agrees(Append(rs, x), Len(rs) + 1, bs, boxes, reqs)
<1>1. PICK rs2 : rs2 = Append(rs, x)
  OBVIOUS
<1>2. /\ rs \in Seq(RunRecord)
      /\ \A c \in Browsers : /\ bs[c] \in BrowserRecord /\ boxes[c] \in Seq(Frames)
                             /\ reqs[c] \in Seq(Requests)
                             /\ Wired(rs, cur, bs[c], boxes[c], reqs[c], c)
  BY DEF Agrees
<1>3. /\ rs2 \in Seq(RunRecord) /\ Len(rs2) = Len(rs) + 1 /\ Len(rs) \in Nat
      /\ \A g \in 1..Len(rs2) : (g \in 1..Len(rs) /\ rs2[g] = rs[g]) \/ rs2[g] = x
  BY <1>1, <1>2
<1>4. RunsAgree(rs2, Len(rs) + 1)
  <2>1. EndIsLast(x)
    BY DEF EndIsLast
  <2>2. \A g \in 1..Len(rs) : EndIsLast(rs[g])
    BY DEF Agrees, RunsAgree
  <2>3. \A g \in 1..Len(rs2) : EndIsLast(rs2[g])
    BY <1>3, <2>1, <2>2
  <2> QED BY <1>3, <2>3 DEF RunsAgree
<1>5. \A c \in Browsers : Wired(rs2, Len(rs) + 1, bs[c], boxes[c], reqs[c], c)
  BY <1>1, <1>2, <1>3, RunBegins
<1> QED BY <1>1, <1>3, <1>4, <1>5 DEF Agrees

LEMMA ForgettingAgrees ==
  ASSUME NEW rs, NEW cur, NEW bs, NEW boxes, NEW reqs, Agrees(rs, cur, bs, boxes, reqs)
  PROVE  Agrees(rs, None, bs, boxes, reqs)
<1>1. \A c \in Browsers : Wired(rs, None, bs[c], boxes[c], reqs[c], c)
  BY RunIsForgotten DEF Agrees
<1>2. RunsAgree(rs, None) /\ None \in Nat
  BY DEF Agrees, RunsAgree, None
<1> QED BY <1>1, <1>2 DEF Agrees
(* Sockets close: that of one browser, or all of them with the server.      *)
Unviewed(rs, rs2, K) ==
  \A g \in 1..Len(rs) : /\ rs2[g].events = rs[g].events /\ rs2[g].status = rs[g].status
                        /\ rs2[g].pending = rs[g].pending /\ rs2[g].viewers = rs[g].viewers \ K

Unplugged(s, t, box, reqs) == ~t.online /\ Untracked(s, t) /\ box = <<>> /\ reqs = <<>>

Hangup(bs, boxes, reqs, bs2, boxes2, reqs2, K) ==
  \A b \in Browsers :
    /\ b \in K => Unplugged(bs[b], bs2[b], boxes2[b], reqs2[b])
    /\ b \notin K => bs2[b] = bs[b] /\ boxes2[b] = boxes[b] /\ reqs2[b] = reqs[b]

LEMMA ClosingAgrees ==
  ASSUME NEW rs, NEW cur, NEW bs, NEW boxes, NEW reqs, Agrees(rs, cur, bs, boxes, reqs),
         NEW K, NEW cur2 \in {None, cur}, cur2 = cur \/ K = Browsers,
         NEW rs2 \in Seq(RunRecord), Len(rs2) = Len(rs), Unviewed(rs, rs2, K),
         NEW bs2 \in [Browsers -> BrowserRecord], NEW boxes2 \in [Browsers -> Seq(Frames)],
         NEW reqs2 \in [Browsers -> Seq(Requests)],
         Hangup(bs, boxes, reqs, bs2, boxes2, reqs2, K)
  PROVE  Agrees(rs2, cur2, bs2, boxes2, reqs2)
<1>1. /\ rs \in Seq(RunRecord) /\ cur \in {None, Len(rs)} /\ \A g \in 1..Len(rs) : EndIsLast(rs[g])
      /\ \A c \in Browsers : /\ bs[c] \in BrowserRecord /\ boxes[c] \in Seq(Frames)
                             /\ reqs[c] \in Seq(Requests)
                             /\ Wired(rs, cur, bs[c], boxes[c], reqs[c], c)
  BY DEF Agrees, RunsAgree
<1>2. RunsAgree(rs2, cur2)
  <2>1. ASSUME NEW g \in 1..Len(rs2) PROVE EndIsLast(rs2[g])
    <3>1. EndIsLast(rs[g])
      BY <1>1
    <3> QED BY <3>1 DEF Unviewed, EndIsLast
  <2> QED BY <1>1, <2>1 DEF RunsAgree
<1>3. ASSUME NEW b \in Browsers, b \in K
      PROVE  Wired(rs2, cur2, bs2[b], boxes2[b], reqs2[b], b)
  <2>1. Unplugged(bs[b], bs2[b], boxes2[b], reqs2[b]) /\ bs2[b] \in BrowserRecord
    BY <1>3 DEF Hangup
  <2>2. \A g \in 1..Len(rs) : /\ rs2[g].events = rs[g].events /\ rs2[g].status = rs[g].status
                              /\ b \notin rs2[g].viewers
    BY <1>3 DEF Unviewed
  <2>3. /\ bs[b] \in BrowserRecord /\ boxes[b] \in Seq(Frames) /\ reqs[b] \in Seq(Requests)
        /\ Wired(rs, cur, bs[b], boxes[b], reqs[b], b)
    BY <1>1
  <2>4. Wired(rs2, cur2, bs2[b], <<>>, <<>>, b)
    <3>1. ~bs2[b].online /\ Untracked(bs[b], bs2[b]) /\ bs2[b] \in BrowserRecord
      BY <2>1 DEF Unplugged
    <3>2. rs \in Seq(RunRecord) /\ cur \in {None, Len(rs)}
      BY <1>1
    <3> QED BY <2>2, <2>3, <3>1, <3>2, SocketCloses
  <2> QED BY <2>1, <2>4 DEF Unplugged
<1>4. ASSUME NEW b \in Browsers, b \notin K
      PROVE  Wired(rs2, cur2, bs2[b], boxes2[b], reqs2[b], b)
  <2>1. bs2[b] = bs[b] /\ boxes2[b] = boxes[b] /\ reqs2[b] = reqs[b] /\ cur2 = cur
    BY <1>4 DEF Hangup
  <2>2. \A g \in 1..Len(rs) : Length(rs, g) <= Length(rs2, g)
    <3> SUFFICES ASSUME NEW g \in 1..Len(rs) PROVE Length(rs, g) <= Length(rs2, g)
      OBVIOUS
    <3>1. Length(rs, g) \in Nat
      BY <1>1, Bases
    <3>2. Length(rs2, g) = Length(rs, g)
      BY DEF Length, Unviewed
    <3> QED BY <3>1, <3>2
  <2>3. Goes(rs2, cur) => /\ Goes(rs, cur) /\ rs2[cur].events = rs[cur].events
                          /\ (b \in rs[cur].viewers <=> b \in rs2[cur].viewers)
    <3> SUFFICES ASSUME Goes(rs2, cur)
                 PROVE  /\ Goes(rs, cur) /\ rs2[cur].events = rs[cur].events
                        /\ (b \in rs[cur].viewers <=> b \in rs2[cur].viewers)
      OBVIOUS
    <3>1. cur \in 1..Len(rs)
      BY <1>1 DEF Goes, None
    <3> QED BY <1>4, <3>1 DEF Goes, Unviewed
  <2>4. /\ bs[b] \in BrowserRecord /\ boxes[b] \in Seq(Frames) /\ reqs[b] \in Seq(Requests)
        /\ Wired(rs, cur, bs[b], boxes[b], reqs[b], b)
    BY <1>1
  <2>5. Wired(rs2, cur, bs[b], boxes[b], reqs[b], b)
    BY <1>1, <2>2, <2>3, <2>4, RecordsAlike
  <2> QED BY <2>1, <2>5
<1>5. cur2 \in Nat
  BY DEF Agrees, None
<1> QED BY <1>2, <1>3, <1>4, <1>5 DEF Agrees
-----------------------------------------------------------------------------
(* The steps of the server.                                                 *)
LEMMA RunsAre ==
  ASSUME ChatInv
  PROVE  /\ run \in Seq(RunRecord) /\ DOMAIN run = 1..Len(run) /\ Len(run) \in Nat
         /\ \A g \in DOMAIN run : g \in 1..Len(run) /\ run[g] \in RunRecord
         /\ Agrees(run, current, browser, inbox, outbox)
         /\ \A g \in DOMAIN run : Live(g) <=> current = g /\ Goes(run, current)
         /\ Processing <=> Goes(run, current)
         /\ Processing => current \in DOMAIN run /\ current \in 1..Len(run)
<1>1. /\ run \in Seq(RunRecord) /\ DOMAIN run = 1..Len(run) /\ Len(run) \in Nat
      /\ Agrees(run, current, browser, inbox, outbox)
  BY AgreesIs DEF ChatInv, TypeInv
<1>2. \A g \in DOMAIN run : g \in 1..Len(run) /\ run[g] \in RunRecord
  BY <1>1
<1>3. \A g \in DOMAIN run : Live(g) <=> current = g /\ Goes(run, current)
  BY <1>1 DEF Live, Goes, None
<1>4. /\ Processing <=> Goes(run, current)
      /\ Processing => current \in DOMAIN run
  <2>1. current = 0 \/ current = Len(run)
    BY DEF ChatInv, RunsAgree, None
  <2>5. Len(run) \in Nat
    BY <1>1
  <2>2. Processing <=> Goes(run, current)
    BY DEF Processing, Goes
  <2>3. Processing => current # 0
    BY DEF Processing, None
  <2>4. current # 0 => current \in 1..Len(run)
    BY <2>1, <2>5
  <2> QED BY <1>1, <2>2, <2>3, <2>4
<1> QED BY <1>1, <1>2, <1>3, <1>4

LEMMA StillAgrees ==
  ASSUME Agrees(run', current', browser', inbox', outbox')
  PROVE  ChatInv'
BY DEF ChatInv, TypeInv, Agrees

(* A frame of the run that goes is published by a step.                     *)
LEMMA PublishedStep ==
  ASSUME ChatInv, NEW g \in DOMAIN run, Live(g), NEW what \in Whats,
         NEW boxes, Agrees(run, current, browser, boxes, outbox),
         NEW y \in RunRecord, y.events = Append(run[g].events, what), y.viewers = run[g].viewers,
         what = "complete" => y.status = "completed" /\ ~y.pending,
         what # "complete" => y.status = "running"
  PROVE  Agrees([run EXCEPT ![g] = y], current, browser, Seen(g, what, boxes), outbox)
<1>1. current = g /\ Goes(run, current)
  BY RunsAre
<1> QED BY <1>1, PublicationAgrees DEF Seen

LEMMA EndStep ==
  ASSUME ChatInv, NEW g \in DOMAIN run, NEW x \in RunRecord, x.events = run[g].events,
         x.status = run[g].status, x.viewers = run[g].viewers, x.pending = run[g].pending,
         NEW boxes, Agrees(run, current, browser, boxes, outbox),
         Ends(g, [run EXCEPT ![g] = x], boxes), UNCHANGED <<current, browser, outbox>>
  PROVE  ChatInv' /\ \E y : run' = [run EXCEPT ![g] = y]
<1>1. CASE Live(g)
  <2>1. PICK y : y = [x EXCEPT !.events = Append(@, "complete"), !.status = "completed", !.pending = FALSE]
    OBVIOUS
  <2>2. /\ y \in RunRecord /\ y.events = Append(run[g].events, "complete")
        /\ y.viewers = run[g].viewers /\ y.status = "completed" /\ ~y.pending
    <3>1. Append(x.events, "complete") \in Seq(Whats)
      BY DEF RunRecord, Whats
    <3> QED BY <2>1, <3>1 DEF RunRecord
  <2>3. run' = [[run EXCEPT ![g] = x] EXCEPT ![g].events = Append(@, "complete"),
                                           ![g].status = "completed", ![g].pending = FALSE]
        /\ inbox' = Seen(g, "complete", boxes)
    BY <1>1 DEF Ends
  <2>4. run' = [run EXCEPT ![g] = y]
    BY <2>1, <2>3
  <2>5. "complete" \in Whats
    BY DEF Whats
  <2>6. Agrees([run EXCEPT ![g] = y], current, browser, Seen(g, "complete", boxes), outbox)
    BY <1>1, <2>2, <2>5, PublishedStep
  <2> QED BY <2>3, <2>4, <2>6, StillAgrees
<1>2. CASE ~Live(g)
  <2>1. run' = [run EXCEPT ![g] = x] /\ inbox' = boxes
    BY <1>2 DEF Ends
  <2>2. Agrees([run EXCEPT ![g] = x], current, browser, boxes, outbox)
    BY RunsAre, EditAgrees
  <2> QED BY <2>1, <2>2, StillAgrees
<1> QED BY <1>1, <1>2

LEMMA TellsAgree ==
  ASSUME ChatInv, NEW b \in Browsers \cup {None}
  PROVE  Agrees(run, current, browser, Tells(b, inbox), outbox)
<1>1. Agrees(run, current, browser, inbox, outbox)
  BY RunsAre
<1>2. CASE b # None /\ browser[b].online
  <2>0. b \in Browsers
    BY <1>2
  <2>1. inbox[b] \in Seq(Frames) /\ Error \in Frames
    BY <1>1, <2>0 DEF Agrees, Frames
  <2>2. Append(inbox[b], Error) = inbox[b] \o <<Error>>
    BY <2>1
  <2>3. Tells(b, inbox) = [inbox EXCEPT ![b] = Append(@, Error)]
    BY <1>2 DEF Tells
  <2>4. Tells(b, inbox) = [inbox EXCEPT ![b] = @ \o <<Error>>]
    BY <2>2, <2>3
  <2>5. Agrees(run, current, browser, [inbox EXCEPT ![b] = @ \o <<Error>>], outbox)
    BY <1>1, <1>2, <2>0, RefusalAgrees
  <2> QED BY <2>4, <2>5
<1>3. CASE ~(b # None /\ browser[b].online)
  <2>1. Tells(b, inbox) = inbox
    BY <1>3 DEF Tells
  <2> QED BY <1>1, <2>1
<1> QED BY <1>2, <1>3

LEMMA ModelStep ==
  ASSUME ChatInv, NEW g \in DOMAIN run, ModelKnown(g) \/ ModelUnknown(g)
  PROVE  ChatInv' /\ \E y : run' = [run EXCEPT ![g] = y]
<1>1. run[g] \in RunRecord /\ g \in 1..Len(run) /\ Agrees(run, current, browser, inbox, outbox)
  BY RunsAre
<1>2. CASE ModelKnown(g)
  <2>1. PICK x : x = [run[g] EXCEPT !.turn = "spawned"]
    OBVIOUS
  <2>2. /\ x \in RunRecord /\ x.events = run[g].events /\ x.status = run[g].status
        /\ x.viewers = run[g].viewers /\ x.pending = run[g].pending
    BY <1>1, <2>1 DEF RunRecord
  <2>3. run' = [run EXCEPT ![g] = x] /\ UNCHANGED <<current, browser, inbox, outbox>>
    BY <1>2, <2>1 DEF ModelKnown
  <2>4. Agrees([run EXCEPT ![g] = x], current, browser, inbox, outbox)
    BY <1>1, <2>2, EditAgrees
  <2> QED BY <2>3, <2>4, StillAgrees
<1>3. CASE ModelUnknown(g)
  <2>1. PICK x : x = [run[g] EXCEPT !.turn = "settled"]
    OBVIOUS
  <2>2. /\ x \in RunRecord /\ x.events = run[g].events /\ x.status = run[g].status
        /\ x.viewers = run[g].viewers /\ x.pending = run[g].pending
    BY <1>1, <2>1 DEF RunRecord
  <2>3. [run EXCEPT ![g].turn = "settled"] = [run EXCEPT ![g] = x]
    BY <2>1
  <2>4. run[g].sender \in Browsers \cup {None}
    BY <1>1 DEF RunRecord
  <2>5. PICK boxes : boxes = Tells(run[g].sender, inbox)
    OBVIOUS
  <2>6. Agrees(run, current, browser, boxes, outbox)
    BY <2>4, <2>5, TellsAgree
  <2>7. Ends(g, [run EXCEPT ![g] = x], boxes) /\ UNCHANGED <<current, browser, outbox>>
    BY <1>3, <2>3, <2>5 DEF ModelUnknown
  <2> QED BY <2>2, <2>6, <2>7, EndStep
<1> QED BY <1>2, <1>3
LEMMA SettlesStep ==
  ASSUME ChatInv, NEW g \in DOMAIN run, Settles(g)
  PROVE  ChatInv' /\ \E y : run' = [run EXCEPT ![g] = y]
<1>1. run[g] \in RunRecord /\ g \in 1..Len(run) /\ Agrees(run, current, browser, inbox, outbox)
  BY RunsAre
<1>2. PICK x : x = [run[g] EXCEPT !.turn = "settled", !.open = FALSE, !.reply = FALSE]
  OBVIOUS
<1>3. /\ x \in RunRecord /\ x.events = run[g].events /\ x.status = run[g].status
      /\ x.viewers = run[g].viewers /\ x.pending = run[g].pending
  BY <1>1, <1>2 DEF RunRecord
<1>4. [run EXCEPT ![g].turn = "settled", ![g].open = FALSE, ![g].reply = FALSE] = [run EXCEPT ![g] = x]
  BY <1>2
<1>5. UNCHANGED <<current, browser, outbox>>
  BY DEF Settles
<1>6. CASE Ends(g, [run EXCEPT ![g] = x], inbox)
  BY <1>1, <1>3, <1>5, <1>6, EndStep
<1>7. CASE Ends(g, [run EXCEPT ![g] = x], Tells(run[g].sender, inbox))
  <2>1. run[g].sender \in Browsers \cup {None}
    BY <1>1 DEF RunRecord
  <2>2. PICK boxes : boxes = Tells(run[g].sender, inbox)
    OBVIOUS
  <2>3. Agrees(run, current, browser, boxes, outbox)
    BY <2>1, <2>2, TellsAgree
  <2> QED BY <1>3, <1>5, <1>7, <2>2, <2>3, EndStep
<1>8. CASE /\ Live(g)
           /\ run' = [[run EXCEPT ![g] = x] EXCEPT ![g].events = @ \o <<"text", "complete">>,
                                                   ![g].status = "completed", ![g].pending = FALSE]
           /\ inbox' = [b \in Browsers |->
                IF b \in run[g].viewers
                THEN inbox[b] \o <<Frame(g, Len(run[g].events) + 1, "text"),
                                   Frame(g, Len(run[g].events) + 2, "complete")>>
                ELSE inbox[b]]
  <2>1. PICK y : y = [run[g] EXCEPT !.events = Append(@, "text")]
    OBVIOUS
  <2>2. PICK z : z = [x EXCEPT !.events = Append(Append(@, "text"), "complete"),
                               !.status = "completed", !.pending = FALSE]
    OBVIOUS
  <2>3. PICK boxes : boxes = Seen(g, "text", inbox)
    OBVIOUS
  <2>4. PICK rs : rs = [run EXCEPT ![g] = y]
    OBVIOUS
  <2>5. /\ run[g].events \in Seq(Whats) /\ "text" \in Whats /\ "complete" \in Whats
        /\ Append(run[g].events, "text") \in Seq(Whats)
        /\ Append(Append(run[g].events, "text"), "complete") \in Seq(Whats)
        /\ Append(Append(run[g].events, "text"), "complete") = run[g].events \o <<"text", "complete">>
        /\ Len(Append(run[g].events, "text")) = Len(run[g].events) + 1 /\ Len(run[g].events) \in Nat
    BY <1>1 DEF RunRecord, Whats
  <2>6. current = g /\ Goes(run, current) /\ run[g].status = "running"
    BY <1>8, RunsAre DEF Goes
  <2>7. /\ y \in RunRecord /\ y.events = Append(run[g].events, "text")
        /\ y.viewers = run[g].viewers /\ y.status = "running"
    BY <1>1, <2>1, <2>5, <2>6 DEF RunRecord
  <2>8. /\ z \in RunRecord /\ z.events = Append(y.events, "complete") /\ z.viewers = y.viewers
        /\ z.status = "completed" /\ ~z.pending
    BY <1>3, <2>2, <2>5, <2>7 DEF RunRecord
  <2>9. Agrees(rs, current, browser, boxes, outbox)
    BY <1>1, <1>8, <2>3, <2>4, <2>5, <2>7, PublishedStep
  <2>10. /\ rs[g] = y /\ [rs EXCEPT ![g] = z] = [run EXCEPT ![g] = z] /\ Goes(rs, g)
    BY <1>1, <2>4, <2>6, <2>7, RunsAre DEF Goes
  <2>11. PICK boxes2 : boxes2 = [b \in Browsers |->
             IF b \in rs[g].viewers
             THEN Append(boxes[b], Frame(g, Len(rs[g].events) + 1, "complete")) ELSE boxes[b]]
    OBVIOUS
  <2>12. Agrees([rs EXCEPT ![g] = z], current, browser, boxes2, outbox)
    BY <2>5, <2>6, <2>8, <2>9, <2>10, <2>11, PublicationAgrees
  <2>13. boxes2 = inbox'
    <3> SUFFICES ASSUME NEW b \in Browsers
                 PROVE  boxes2[b] = IF b \in run[g].viewers
                                    THEN inbox[b] \o <<Frame(g, Len(run[g].events) + 1, "text"),
                                                       Frame(g, Len(run[g].events) + 2, "complete")>>
                                    ELSE inbox[b]
      BY <1>8, <2>11
    <3>1. boxes[b] = IF b \in run[g].viewers
                     THEN Append(inbox[b], Frame(g, Len(run[g].events) + 1, "text")) ELSE inbox[b]
      BY <2>3 DEF Seen
    <3>2. Len(rs[g].events) + 1 = Len(run[g].events) + 2 /\ rs[g].viewers = run[g].viewers
      BY <2>5, <2>7, <2>10
    <3>3. boxes2[b] = IF b \in run[g].viewers
                      THEN Append(boxes[b], Frame(g, Len(run[g].events) + 2, "complete"))
                      ELSE boxes[b]
      BY <2>11, <3>2
    <3>4. PICK e, f : e = Frame(g, Len(run[g].events) + 1, "text")
                      /\ f = Frame(g, Len(run[g].events) + 2, "complete")
      OBVIOUS
    <3>5. inbox[b] \in Seq(Frames)
      BY <1>1 DEF Agrees
    <3>6. Append(Append(inbox[b], e), f) = inbox[b] \o <<e, f>>
      BY <3>5
    <3> QED BY <3>1, <3>3, <3>4, <3>6
  <2>14. run' = [run EXCEPT ![g] = z]
    BY <1>3, <1>8, <2>2, <2>5
  <2> QED BY <1>5, <2>10, <2>12, <2>13, <2>14, StillAgrees
<1> QED BY <1>4, <1>6, <1>7, <1>8 DEF Settles
(* The worker's frames.                                                     *)
Reported(g, what, o, p) == [Recorded(g, what) EXCEPT !.open = o, !.reply = p]

LEMMA RecordedIs ==
  ASSUME ChatInv, NEW g \in DOMAIN run, Live(g), NEW what \in Whats, NEW o \in BOOLEAN,
         NEW q \in BOOLEAN, NEW y, y = Reported(g, what, o, q)
  PROVE  /\ y \in RunRecord /\ y.events = Append(run[g].events, what)
         /\ y.viewers = run[g].viewers
         /\ what = "complete" => y.status = "completed" /\ ~y.pending
         /\ what # "complete" => y.status = "running"
<1>1. run[g] \in RunRecord /\ run[g].status = "running"
  BY RunsAre DEF Goes
<1>2. Append(run[g].events, what) \in Seq(Whats) /\ what \in {"text", "ask", "cancel", "complete"}
  BY <1>1 DEF RunRecord, Whats
<1>3. Pending(g, what) \in BOOLEAN /\ (what = "complete" => ~Pending(g, what))
  BY <1>1, <1>2 DEF Pending, RunRecord
<1>4. PICK p : p = Pending(g, what)
  OBVIOUS
<1>5. PICK st : st = IF what = "complete" THEN "completed" ELSE run[g].status
  OBVIOUS
<1>6. PICK es : es = Append(run[g].events, what)
  OBVIOUS
<1>7. y = [[run[g] EXCEPT !.events = es, !.pending = p, !.status = st] EXCEPT !.open = o, !.reply = q]
  BY <1>4, <1>5, <1>6 DEF Recorded, Reported
<1>8. p \in BOOLEAN /\ st \in {"running", "completed"} /\ es \in Seq(Whats)
  BY <1>1, <1>2, <1>3, <1>4, <1>5, <1>6
<1>9. /\ y \in RunRecord /\ y.events = es /\ y.viewers = run[g].viewers /\ y.status = st
      /\ y.pending = p
  BY <1>1, <1>7, <1>8 DEF RunRecord
<1> QED BY <1>1, <1>3, <1>4, <1>5, <1>6, <1>9

LEMMA WorkerStep ==
  ASSUME ChatInv, NEW g \in DOMAIN run,
         Emit(g) \/ Ask(g) \/ Reoffer(g) \/ Withdraw(g) \/ Complete(g)
  PROVE  ChatInv' /\ \E y : run' = [run EXCEPT ![g] = y]
<1>1. /\ run[g] \in RunRecord /\ g \in 1..Len(run) /\ run \in Seq(RunRecord)
      /\ Agrees(run, current, browser, inbox, outbox)
  BY RunsAre
<1>2. UNCHANGED <<current, browser, outbox>>
  BY DEF Emit, Ask, Reoffer, Offered, Withdraw, Complete
<1>3. ASSUME NEW what \in Whats, NEW o \in BOOLEAN, NEW q \in BOOLEAN, Live(g),
             run' = [run EXCEPT ![g] = Reported(g, what, o, q)],
             inbox' = Seen(g, what, inbox)
      PROVE  ChatInv' /\ \E y : run' = [run EXCEPT ![g] = y]
  <2>1. PICK y : y = Reported(g, what, o, q)
    OBVIOUS
  <2>2. /\ y \in RunRecord /\ y.events = Append(run[g].events, what)
        /\ y.viewers = run[g].viewers
        /\ what = "complete" => y.status = "completed" /\ ~y.pending
        /\ what # "complete" => y.status = "running"
    <3>1. Live(g) /\ what \in Whats /\ o \in BOOLEAN /\ q \in BOOLEAN
      BY <1>3
    <3> QED BY <2>1, <3>1, RecordedIs
  <2>3. Agrees([run EXCEPT ![g] = y], current, browser, Seen(g, what, inbox), outbox)
    BY <1>1, <1>3, <2>2, PublishedStep
  <2> QED BY <1>2, <1>3, <2>1, <2>3, StillAgrees
<1>4. {"text", "ask", "cancel", "complete"} \subseteq Whats
  BY DEF Whats
<1>5. CASE Emit(g)
  <2>1. CASE Live(g)
    <3>1. run' = [run EXCEPT ![g] = Recorded(g, "text")] /\ inbox' = Seen(g, "text", inbox)
      BY <1>5, <2>1 DEF Emit, Publishes, Decorated
    <3>2. PICK o, q : o = run[g].open /\ q = run[g].reply
      OBVIOUS
    <3>3. o \in BOOLEAN /\ q \in BOOLEAN
      BY <1>1, <3>2 DEF RunRecord
    <3>4. Recorded(g, "text") = [Recorded(g, "text") EXCEPT !.open = o, !.reply = q]
      BY <1>1, <3>2 DEF Recorded, RunRecord
    <3>5. run' = [run EXCEPT ![g] = Reported(g, "text", o, q)]
      BY <3>1, <3>4 DEF Reported
    <3> QED BY <1>3, <1>4, <2>1, <3>1, <3>3, <3>5
  <2>2. CASE ~Live(g)
    <3>1. run' = run /\ inbox' = inbox
      BY <1>5, <2>2 DEF Emit, Publishes, Decorated
    <3>2. run = [run EXCEPT ![g] = run[g]]
      BY <1>1
    <3> QED BY <1>1, <1>2, <3>1, <3>2, StillAgrees
  <2> QED BY <2>1, <2>2
<1>6. CASE Ask(g) \/ Reoffer(g)
  BY <1>3, <1>4, <1>6 DEF Ask, Reoffer, Offered, Reported
<1>7. CASE Withdraw(g)
  BY <1>3, <1>4, <1>7 DEF Withdraw, Reported
<1>8. CASE Complete(g)
  BY <1>3, <1>4, <1>8 DEF Complete, Reported
<1> QED BY <1>5, <1>6, <1>7, <1>8

(* The handlers of an abort and of an answer.                               *)
LEMMA AbortSettlesStep ==
  ASSUME ChatInv, NEW g \in DOMAIN run, NEW b \in Browsers \cup {None}, AbortSettles(b, g)
  PROVE  ChatInv' /\ \E y : run' = [run EXCEPT ![g] = y]
<1>1. run[g] \in RunRecord /\ g \in 1..Len(run) /\ Agrees(run, current, browser, inbox, outbox)
  BY RunsAre
<1>2. UNCHANGED <<current, browser, outbox>>
  BY DEF AbortSettles
<1>3. CASE Ends(g, [run EXCEPT ![g].open = FALSE, ![g].reply = FALSE], inbox)
  <2>1. PICK x : x = [run[g] EXCEPT !.open = FALSE, !.reply = FALSE]
    OBVIOUS
  <2>2. /\ x \in RunRecord /\ x.events = run[g].events /\ x.status = run[g].status
        /\ x.viewers = run[g].viewers /\ x.pending = run[g].pending
    BY <1>1, <2>1 DEF RunRecord
  <2>3. [run EXCEPT ![g].open = FALSE, ![g].reply = FALSE] = [run EXCEPT ![g] = x]
    BY <2>1
  <2>4. Ends(g, [run EXCEPT ![g] = x], inbox)
    BY <1>3, <2>3
  <2> QED BY <1>1, <1>2, <2>2, <2>4, EndStep
<1>4. CASE inbox' = Tells(b, inbox) /\ run' = run
  <2>1. Agrees(run, current, browser, Tells(b, inbox), outbox)
    BY TellsAgree
  <2>2. run = [run EXCEPT ![g] = run[g]]
    BY RunsAre
  <2> QED BY <1>2, <1>4, <2>1, <2>2, StillAgrees
<1> QED BY <1>3, <1>4 DEF AbortSettles
(* A request that is not a subscription was read.                           *)
LEMMA ReadAgrees ==
  ASSUME ChatInv, NEW b \in Browsers, outbox[b] # <<>>, Head(outbox[b]).kind # "subscribe"
  PROVE  /\ Agrees(run, current, browser, inbox, [outbox EXCEPT ![b] = Tail(@)])
         /\ Agrees(run, current, browser, [inbox EXCEPT ![b] = @ \o <<Error>>],
                   [outbox EXCEPT ![b] = Tail(@)])
<1>1. Agrees(run, current, browser, inbox, outbox)
  BY RunsAre
<1>2. PICK reqs : reqs = [outbox EXCEPT ![b] = Tail(@)]
  OBVIOUS
<1>3. Agrees(run, current, browser, inbox, reqs) /\ browser[b].online
  BY <1>1, <1>2, HandledAgrees
<1>4. Agrees(run, current, browser, [inbox EXCEPT ![b] = @ \o <<Error>>], reqs)
  BY <1>3, RefusalAgrees
<1> QED BY <1>2, <1>3, <1>4

LEMMA AbortStep ==
  ASSUME ChatInv, NEW b \in Browsers, Abort(b)
  PROVE  ChatInv' /\ run' = run
<1>1. /\ outbox[b] # <<>> /\ Head(outbox[b]).kind # "subscribe"
      /\ outbox' = [outbox EXCEPT ![b] = Tail(@)] /\ UNCHANGED <<run, current, browser>>
      /\ inbox' = inbox \/ inbox' = [inbox EXCEPT ![b] = @ \o <<Error>>]
  BY DEF Abort, Reads, Handled, Told
<1> QED BY <1>1, ReadAgrees, StillAgrees

LEMMA PermissionStep ==
  ASSUME ChatInv, NEW b \in Browsers, Permission(b)
  PROVE  /\ ChatInv'
         /\ \A h \in DOMAIN run : run'[h].status = run[h].status
<1>1. /\ outbox[b] # <<>> /\ Head(outbox[b]).kind # "subscribe"
      /\ outbox' = [outbox EXCEPT ![b] = Tail(@)] /\ UNCHANGED <<current, browser>>
  BY DEF Permission, Reads, Handled
<1>2. Agrees(run, current, browser, inbox, outbox') /\ Agrees(run, current, browser, inbox, outbox)
  BY <1>1, ReadAgrees, RunsAre
<1>3. PICK g : g = Head(outbox[b]).run
  OBVIOUS
<1>4. CASE current = g /\ run[g].pending
  <2>1. /\ run' = [[run EXCEPT ![g].open = FALSE, ![g].reply = @ \/ run[g].open]
                     EXCEPT ![g].pending = FALSE, ![g].events = Append(@, "cancel")]
        /\ inbox' = Seen(g, "cancel", inbox)
    BY <1>3, <1>4 DEF Permission
  <2>2. g \in Nat /\ current \in {None, Len(run)} /\ run \in Seq(RunRecord)
    BY <1>2, <1>4 DEF Agrees, RunsAgree
  <2>3. CASE g \in DOMAIN run
    <3>1. /\ run[g] \in RunRecord /\ g \in 1..Len(run) /\ run[g].status = "running"
      BY <1>4, <2>3, RunsAre DEF ChatInv, RunsAgree, EndIsLast
    <3>2. Live(g) /\ Goes(run, current)
      BY <1>4, <2>3, <3>1, RunsAre DEF Live
    <3>3. PICK y : y = [run[g] EXCEPT !.open = FALSE, !.reply = @ \/ run[g].open,
                                      !.pending = FALSE, !.events = Append(@, "cancel")]
      OBVIOUS
    <3>4. Append(run[g].events, "cancel") \in Seq(Whats) /\ "cancel" \in Whats
      BY <3>1 DEF RunRecord, Whats
    <3>5. /\ y \in RunRecord /\ y.events = Append(run[g].events, "cancel")
          /\ y.viewers = run[g].viewers /\ y.status = "running"
      BY <3>1, <3>3, <3>4 DEF RunRecord
    <3>6. run' = [run EXCEPT ![g] = y]
      BY <2>1, <3>1, <3>3 DEF RunRecord
    <3>7. Agrees([run EXCEPT ![g] = y], current, browser, inbox', outbox')
      <4>1. "cancel" = "complete" => y.status = "completed" /\ ~y.pending
        OBVIOUS
      <4>2. Agrees([run EXCEPT ![current] = y], current, browser,
                   [c \in Browsers |->
                      IF c \in run[current].viewers
                      THEN Append(inbox[c], Frame(current, Len(run[current].events) + 1, "cancel"))
                      ELSE inbox[c]], outbox')
        BY <1>2, <1>4, <3>2, <3>4, <3>5, <4>1, PublicationAgrees
      <4> QED BY <1>4, <2>1, <4>2 DEF Seen
    <3>8. \A h \in DOMAIN run : run'[h].status = run[h].status
      BY <3>1, <3>5, <3>6
    <3> QED BY <1>1, <3>6, <3>7, <3>8, StillAgrees
  <2>4. g \in DOMAIN run
    <3>1. g # None
      <4>1. Head(outbox[b]) \in Requests /\ Head(outbox[b]).kind = "answer"
        BY <1>1, <1>2, RestIs DEF Agrees, Permission, Reads
      <4> QED BY <1>3, <4>1, SMTT(30) DEF Requests, Sends, Aborts, Named
    <3>2. g = Len(run) /\ Len(run) \in Nat
      BY <1>4, <2>2, <3>1
    <3> QED BY <2>2, <3>1, <3>2 DEF None
  <2> QED BY <2>3, <2>4
<1>5. CASE ~(current = g /\ run[g].pending)
  <2>1. run' = [run EXCEPT ![g].open = FALSE, ![g].reply = @ \/ run[g].open] /\ inbox' = inbox
    BY <1>3, <1>5 DEF Permission
  <2>2. CASE g \in DOMAIN run
    <3>1. PICK x : x = [run[g] EXCEPT !.open = FALSE, !.reply = @ \/ run[g].open]
      OBVIOUS
    <3>2. run[g] \in RunRecord /\ g \in 1..Len(run)
      BY <2>2, RunsAre
    <3>3. /\ x \in RunRecord /\ x.events = run[g].events /\ x.status = run[g].status
          /\ x.viewers = run[g].viewers /\ x.pending = run[g].pending
      BY <3>1, <3>2 DEF RunRecord
    <3>4. run' = [run EXCEPT ![g] = x]
      BY <2>1, <3>1
    <3>5. Agrees([run EXCEPT ![g] = x], current, browser, inbox, outbox')
      BY <1>2, <3>2, <3>3, EditAgrees
    <3>6. \A h \in DOMAIN run : run'[h].status = run[h].status
      BY <3>2, <3>3, <3>4
    <3> QED BY <1>1, <2>1, <3>4, <3>5, <3>6, StillAgrees
  <2>3. CASE g \notin DOMAIN run
    <3>1. run' = run
      BY <1>2, <2>1, <2>3, RunsAre
    <3> QED BY <1>1, <1>2, <2>1, <3>1, StillAgrees
  <2> QED BY <2>2, <2>3, SMTT(30)
<1> QED BY <1>4, <1>5
(* The handler of a message.                                                *)
LEMMA SendStep ==
  ASSUME ChatInv, NEW b \in Browsers, Send(b)
  PROVE  ChatInv' /\ \A h \in DOMAIN run : run'[h] = run[h]
<1>1. /\ outbox[b] # <<>> /\ Head(outbox[b]).kind # "subscribe"
      /\ outbox' = [outbox EXCEPT ![b] = Tail(@)] /\ UNCHANGED browser
  BY DEF Send, Reads, Handled
<1>2. CASE Told(b, <<Error>>) /\ UNCHANGED <<run, current>>
  <2>1. inbox' = [inbox EXCEPT ![b] = @ \o <<Error>>] /\ UNCHANGED <<run, current>>
    BY <1>2 DEF Told
  <2> QED BY <1>1, <2>1, ReadAgrees, StillAgrees
<1>3. CASE /\ ~Processing
           /\ run' = Append(run, NewRun(b))
           /\ current' = Len(run) + 1
           /\ UNCHANGED inbox
  <2>1. run' = Append(run, NewRun(b)) /\ current' = Len(run) + 1 /\ inbox' = inbox
    BY <1>3
  <2>2. PICK x : x = NewRun(b)
    OBVIOUS
  <2>3. x \in RunRecord /\ x.events = <<>> /\ ~x.pending /\ x.viewers = {b}
    BY <2>2 DEF NewRun, RunRecord
  <2>4. Agrees(run, current, browser, inbox, outbox') /\ ~Goes(run, current)
    BY <1>1, <1>3, ReadAgrees, RunsAre
  <2>5. browser[b].online
    BY <1>1, HandledAgrees, RunsAre
  <2>6. Agrees(Append(run, x), Len(run) + 1, browser, inbox, outbox')
    BY <2>3, <2>4, <2>5, BeginningAgrees
  <2>7. \A h \in DOMAIN run : run'[h] = run[h]
    BY <2>1, RunsAre
  <2> QED BY <1>1, <2>1, <2>2, <2>6, <2>7, StillAgrees
<1> QED BY <1>2, <1>3 DEF Send

(* What a subscription is answered with.                                    *)
LEMMA SubscribedIs ==
  ASSUME ChatInv
  PROVE  Subscribed \in Frames /\ Subscribed.kind = "subscribed" /\ Subscribed.run = current
<1>1. current \in Nat /\ current \in {None, Len(run)} /\ run \in Seq(RunRecord)
  BY RunsAre DEF Agrees, RunsAgree
<1>2. current # None => run[current] \in RunRecord
  BY <1>1 DEF None
<1>3. (IF current = None THEN 0 ELSE Len(run[current].events)) \in Nat
  BY <1>2 DEF RunRecord
<1>4. (IF current # None /\ run[current].open THEN {current} ELSE {}) \in SUBSET Named
  BY <1>1 DEF Named
<1>5. Processing \in BOOLEAN
  BY DEF Processing
<1> QED BY <1>1, <1>3, <1>4, <1>5 DEF Subscribed, Frames, SubscribedFrames

LEMMA ReplayIs ==
  ASSUME ChatInv, Processing, NEW c \in [kind : {"subscribe"}, run : Nat, last : Nat]
  PROVE  /\ Replay(current, c) \in Seq(Frames)
         /\ Len(Replay(current, c)) = Length(run, current) + 1 - First(run, current, c)
         /\ \A i \in 1..Len(Replay(current, c)) :
              IsFrame(Replay(current, c)[i], current, First(run, current, c) + i - 1)
<1>1. run \in Seq(RunRecord) /\ current \in 1..Len(run) /\ Goes(run, current)
  BY RunsAre
<1>2. /\ run[current].events \in Seq(Whats) /\ Length(run, current) \in Nat
      /\ Held(run, current) \in Nat \ {0} /\ Held(run, current) <= Length(run, current) + 1
  BY <1>1, Bases
<1>3. PICK first : first = First(run, current, c)
  OBVIOUS
<1>4. first \in 1..(Length(run, current) + 1)
  <2>1. IsFirst(run, current, c, first)
    BY <1>1, <1>3, FirstIs
  <2>2. Held(run, current) \in Nat \ {0} /\ Length(run, current) \in Nat
    BY <1>1, Bases
  <2> QED BY <2>1, <2>2 DEF IsFirst
<1>5. PICK n : n = Length(run, current) + 1 - first
  OBVIOUS
<1>6. n \in Nat /\ \A i \in 1..n : first + i - 1 \in 1..Length(run, current)
  BY <1>2, <1>4, <1>5
<1>7. \A i \in 1..n : /\ Frame(current, first + i - 1, run[current].events[first + i - 1]) \in Frames
                      /\ IsFrame(Frame(current, first + i - 1, run[current].events[first + i - 1]),
                                 current, first + i - 1)
  <2> SUFFICES ASSUME NEW i \in 1..n
               PROVE  /\ Frame(current, first + i - 1, run[current].events[first + i - 1]) \in Frames
                      /\ IsFrame(Frame(current, first + i - 1, run[current].events[first + i - 1]),
                                 current, first + i - 1)
    OBVIOUS
  <2>1. PICK k : k = first + i - 1
    OBVIOUS
  <2>2. k \in 1..Len(run[current].events) /\ k \in Nat
    BY <1>6, <2>1 DEF Length
  <2>3. run[current].events[k] \in Whats /\ current \in Named
    BY <1>1, <1>2, <2>2 DEF Named, None
  <2>4. Frame(current, k, run[current].events[k]) \in EventFrames
    BY <2>2, <2>3 DEF Frame, EventFrames
  <2> QED BY <2>1, <2>4 DEF Frame, Frames, IsFrame
<1>8. Replay(current, c) = [i \in 1..n |-> Frame(current, first + i - 1, run[current].events[first + i - 1])]
  <2>1. First(run, current, c) = IF ReplayFrom(current, c) < Oldest(current)
                                 THEN Oldest(current) ELSE ReplayFrom(current, c)
    BY DEF First, ReplayFrom, Oldest, Held, Length
  <2> QED BY <1>3, <1>5, <2>1 DEF Replay, Length
<1>9. PICK q : q = [i \in 1..n |-> Frame(current, first + i - 1, run[current].events[first + i - 1])]
  OBVIOUS
<1>10. \A i \in 1..n : q[i] \in Frames /\ IsFrame(q[i], current, first + i - 1)
  BY <1>7, <1>9
<1>11. q \in Seq(Frames) /\ Len(q) = n
  <2>1. q \in [1..n -> Frames]
    BY <1>9, <1>10
  <2> QED BY <1>6, <1>9, <2>1
<1> QED BY <1>3, <1>5, <1>8, <1>9, <1>10, <1>11
LEMMA SubscribeStep ==
  ASSUME ChatInv, NEW b \in Browsers, Subscribe(b)
  PROVE  ChatInv' /\ \A h \in DOMAIN run : run'[h].status = run[h].status
<1>1. /\ outbox[b] # <<>> /\ Head(outbox[b]).kind = "subscribe"
      /\ outbox' = [outbox EXCEPT ![b] = Tail(@)] /\ UNCHANGED <<current, browser>>
  BY DEF Subscribe, Reads, Handled
<1>2. Agrees(run, current, browser, inbox, outbox)
  BY RunsAre
<1>3. PICK sub : sub = Subscribed
  OBVIOUS
<1>4. sub \in Frames /\ sub.kind = "subscribed" /\ sub.run = current
  BY <1>3, SubscribedIs
<1>5. CASE ~Processing
  <2>1. inbox' = [inbox EXCEPT ![b] = @ \o <<sub>>] /\ run' = run
    BY <1>3, <1>5 DEF Subscribe, Told
  <2>2. ~Goes(run, current)
    BY <1>5, RunsAre
  <2>3. Agrees(run, current, browser, inbox, outbox') /\ browser[b].online
    BY <1>1, <1>2, <2>2, HandledAgrees
  <2>4. Agrees(run, current, browser, [inbox EXCEPT ![b] = @ \o <<sub>>], outbox')
    BY <1>4, <2>2, <2>3, IdleAnswerAgrees
  <2> QED BY <1>1, <2>1, <2>4, StillAgrees
<1>6. CASE Processing
  <2>1. PICK c : c = Head(outbox[b])
    OBVIOUS
  <2>2. PICK rep : rep = Replay(current, c)
    OBVIOUS
  <2>3. PICK more : more = <<sub>> \o rep
    OBVIOUS
  <2>4. c \in [kind : {"subscribe"}, run : Nat, last : Nat]
    <3>1. outbox[b] \in Seq(Requests)
      BY <1>2 DEF Agrees
    <3> QED BY <1>1, <2>1, <3>1, RestIs DEF Requests, Sends, Aborts
  <2>5. /\ current \in DOMAIN run /\ current \in 1..Len(run) /\ Goes(run, current)
        /\ run[current] \in RunRecord
    BY <1>6, RunsAre
  <2>6. PICK first : first = First(run, current, c)
    OBVIOUS
  <2>7. /\ rep \in Seq(Frames) /\ Len(rep) = Length(run, current) + 1 - first
        /\ \A i \in 1..Len(rep) : IsFrame(rep[i], current, first + i - 1)
    BY <1>6, <2>2, <2>4, <2>6, ReplayIs
  <2>8. /\ more \in Seq(Frames) /\ more # <<>> /\ more[1] = sub /\ Len(more) = Len(rep) + 1
        /\ \A k \in 2..Len(more) : k - 1 \in 1..Len(rep) /\ more[k] = rep[k - 1]
    BY <1>4, <2>3, <2>7
  <2>9. Length(run, current) \in Nat /\ first \in Nat
    <3>1. c.last \in Nat /\ run \in Seq(RunRecord)
      BY <2>4, RunsAre
    <3>2. Length(run, current) \in Nat
      BY <2>5, <2>6, <3>1, Bases
    <3>3. IsFirst(run, current, c, first)
      BY <2>5, <2>6, <3>1, FirstIs
    <3> QED BY <3>2, <3>3, Zenon DEF IsFirst
  <2>10. Len(more) = Length(run, current) + 2 - First(run, current, c)
    BY <2>6, <2>7, <2>8, <2>9
  <2>11. \A k \in 2..Len(more) : IsFrame(more[k], current, First(run, current, c) + k - 2)
    <3> SUFFICES ASSUME NEW k \in 2..Len(more)
                 PROVE  IsFrame(more[k], current, First(run, current, c) + k - 2)
      OBVIOUS
    <3>1. IsFrame(rep[k - 1], current, first + (k - 1) - 1)
      BY <2>7, <2>8
    <3>2. first + (k - 1) - 1 = first + k - 2
      BY <2>9
    <3> QED BY <2>6, <2>8, <3>1, <3>2
  <2>12. PICK y : y = [run[current] EXCEPT !.viewers = @ \cup {b}]
    OBVIOUS
  <2>13. /\ y \in RunRecord /\ y.events = run[current].events /\ y.status = run[current].status
         /\ y.pending = run[current].pending /\ y.viewers = run[current].viewers \cup {b}
    BY <2>5, <2>12 DEF RunRecord
  <2>14. run' = [run EXCEPT ![current] = y] /\ inbox' = [inbox EXCEPT ![b] = @ \o more]
    BY <1>3, <1>6, <2>1, <2>2, <2>3, <2>12 DEF Subscribe, Told
  <2>15. Agrees([run EXCEPT ![current] = y], current, browser, [inbox EXCEPT ![b] = @ \o more],
                [outbox EXCEPT ![b] = Tail(@)])
    <3>1. more[1].kind = "subscribed" /\ more[1].run = current
      BY <1>4, <2>8
    <3>2. Replays(run, current, c, more)
      BY <2>10, <2>11 DEF Replays
    <3> QED BY <1>1, <1>2, <2>1, <2>5, <2>8, <2>13, <3>1, <3>2, JoinAgrees
  <2>16. \A h \in DOMAIN run : run'[h].status = run[h].status
    BY <2>13, <2>14
  <2> QED BY <1>1, <2>14, <2>15, <2>16, StillAgrees
<1> QED BY <1>5, <1>6
-----------------------------------------------------------------------------
(* The steps of the browsers and of the sockets.                            *)
LEMMA AsksStep ==
  ASSUME ChatInv, NEW b \in Browsers, NEW r \in Requests, NEW s \in BrowserRecord,
         Untracked(browser[b], s), Settled(browser[b], s), Asks(b, r, s),
         r.kind = "subscribe" => r = Cursor(browser[b])
  PROVE  ChatInv' /\ run' = run
<1>1. PICK t : t = [s EXCEPT !.asked = @ + 1]
  OBVIOUS
<1>2. t \in BrowserRecord /\ Untracked(browser[b], t) /\ Settled(browser[b], t)
  <2>1. s.asked + 1 \in Nat
    BY DEF BrowserRecord
  <2>2. t = [s EXCEPT !.asked = s.asked + 1]
    BY <1>1
  <2>3. t \in BrowserRecord
    BY <2>1, <2>2 DEF BrowserRecord
  <2>4. /\ t.cursor = s.cursor /\ t.last = s.last /\ t.retired = s.retired /\ t.shown = s.shown
        /\ t.online = s.online /\ t.owes = s.owes
    BY <2>2 DEF BrowserRecord
  <2> QED BY <2>3, <2>4 DEF Untracked, Settled
<1>3. /\ browser[b].online /\ browser' = [browser EXCEPT ![b] = t]
      /\ outbox' = [outbox EXCEPT ![b] = Append(@, r)] /\ UNCHANGED <<run, current, inbox>>
  BY <1>1 DEF Asks
<1>4. Agrees(run, current, browser, inbox, outbox)
  BY RunsAre
<1>5. Agrees(run, current, [browser EXCEPT ![b] = t], inbox, [outbox EXCEPT ![b] = Append(@, r)])
  BY <1>2, <1>3, <1>4, RequestAgrees DEF Settled
<1> QED BY <1>3, <1>5, StillAgrees

LEMMA UserStep ==
  ASSUME ChatInv, NEW b \in Browsers, AskSubscribe(b) \/ AskSend(b) \/ AskAbort(b) \/ AskAnswer(b)
  PROVE  ChatInv' /\ run' = run
<1>1. browser[b] \in BrowserRecord
  BY RunsAre DEF Agrees
<1>2. CASE AskSubscribe(b)
  <2>1. Cursor(browser[b]) \in Requests
    BY <1>1 DEF Cursor, Requests, BrowserRecord
  <2>2. /\ Checked(browser[b]) \in BrowserRecord /\ Untracked(browser[b], Checked(browser[b]))
        /\ Settled(browser[b], Checked(browser[b]))
    BY <1>1 DEF Checked, BrowserRecord, Untracked, Settled
  <2> QED BY <1>2, <2>1, <2>2, AsksStep DEF AskSubscribe
<1>3. CASE AskSend(b)
  <2>1. Sends \in Requests /\ Sends.kind # "subscribe"
    BY DEF Requests, Sends
  <2>2. /\ Marked(browser[b]) \in BrowserRecord /\ Untracked(browser[b], Marked(browser[b]))
        /\ Settled(browser[b], Marked(browser[b]))
    BY <1>1 DEF Marked, BrowserRecord, Untracked, Settled
  <2> QED BY <1>3, <2>1, <2>2, AsksStep DEF AskSend
<1>4. CASE AskAbort(b)
  <2>1. Aborts \in Requests /\ Aborts.kind # "subscribe"
    BY DEF Requests, Aborts
  <2>2. Untracked(browser[b], browser[b]) /\ Settled(browser[b], browser[b])
    BY DEF Untracked, Settled
  <2> QED BY <1>1, <1>4, <2>1, <2>2, AsksStep DEF AskAbort
<1>5. CASE AskAnswer(b)
  <2>1. PICK g \in browser[b].cards : Asks(b, Answers(g), [browser[b] EXCEPT !.cards = @ \ {g}])
    BY <1>5 DEF AskAnswer
  <2>2. Answers(g) \in Requests /\ Answers(g).kind # "subscribe"
    BY <1>1 DEF Requests, Answers, BrowserRecord
  <2>3. PICK s : s = [browser[b] EXCEPT !.cards = @ \ {g}]
    OBVIOUS
  <2>4. s \in BrowserRecord /\ Untracked(browser[b], s) /\ Settled(browser[b], s)
    BY <1>1, <2>3 DEF BrowserRecord, Untracked, Settled
  <2> QED BY <2>1, <2>2, <2>3, <2>4, AsksStep
<1> QED BY <1>2, <1>3, <1>4, <1>5

LEMMA BrowserStep ==
  ASSUME ChatInv, NEW b \in Browsers, Receive(b) \/ Reconnect(b) \/ Resubscribe(b)
  PROVE  ChatInv' /\ run' = run
<1>1. Agrees(run, current, browser, inbox, outbox) /\ browser[b] \in BrowserRecord
  BY RunsAre DEF Agrees
<1>2. UNCHANGED <<run, current>>
  BY DEF Receive, Reconnect, Resubscribe
<1>3. CASE Receive(b)
  <2>1. Agrees(run, current, [browser EXCEPT ![b] = Received(@, Head(inbox[b]))],
               [inbox EXCEPT ![b] = Tail(@)], outbox)
    BY <1>1, <1>3, ReceiptAgrees DEF Receive
  <2> QED BY <1>2, <1>3, <2>1, StillAgrees DEF Receive
<1>4. CASE Reconnect(b)
  <2>1. PICK t : t = [browser[b] EXCEPT !.online = TRUE, !.owes = TRUE]
    OBVIOUS
  <2>2. t \in BrowserRecord /\ Untracked(browser[b], t) /\ t.online /\ t.owes
    BY <1>1, <2>1 DEF BrowserRecord, Untracked
  <2>3. browser' = [browser EXCEPT ![b] = t]
    BY <1>4, <2>1 DEF Reconnect
  <2>4. Agrees(run, current, [browser EXCEPT ![b] = t], inbox, outbox)
    BY <1>1, <1>4, <2>2, OpeningAgrees DEF Reconnect
  <2> QED BY <1>2, <1>4, <2>3, <2>4, StillAgrees DEF Reconnect
<1>5. CASE Resubscribe(b)
  <2>1. PICK t : t = [Checked(browser[b]) EXCEPT !.owes = FALSE]
    OBVIOUS
  <2>2. PICK r : r = Cursor(browser[b])
    OBVIOUS
  <2>3. t \in BrowserRecord /\ Untracked(browser[b], t) /\ t.online = browser[b].online
    BY <1>1, <2>1 DEF Checked, BrowserRecord, Untracked
  <2>4. r \in Requests /\ r.kind = "subscribe"
    BY <1>1, <2>2 DEF Cursor, Requests, BrowserRecord
  <2>5. /\ browser[b].online /\ browser' = [browser EXCEPT ![b] = t]
        /\ outbox' = [outbox EXCEPT ![b] = Append(@, r)] /\ inbox' = inbox
    BY <1>5, <2>1, <2>2 DEF Resubscribe
  <2>6. Agrees(run, current, [browser EXCEPT ![b] = t], inbox, [outbox EXCEPT ![b] = Append(@, r)])
    BY <1>1, <2>2, <2>3, <2>4, <2>5, RequestAgrees
  <2> QED BY <1>2, <2>5, <2>6, StillAgrees
<1> QED BY <1>3, <1>4, <1>5
LEMMA SequenceIs ==
  ASSUME NEW S, NEW n \in Nat, NEW q \in [1..n -> S]
  PROVE  q \in Seq(S) /\ Len(q) = n
OBVIOUS

LEMMA CloseStep ==
  ASSUME ChatInv, NEW b \in Browsers, Close(b)
  PROVE  ChatInv' /\ \A h \in DOMAIN run : run'[h].status = run[h].status
<1>1. /\ run \in Seq(RunRecord) /\ DOMAIN run = 1..Len(run) /\ Len(run) \in Nat
      /\ \A g \in 1..Len(run) : run[g] \in RunRecord
      /\ Agrees(run, current, browser, inbox, outbox) /\ browser[b] \in BrowserRecord
  BY RunsAre DEF Agrees
<1>2. PICK t : t = [browser[b] EXCEPT !.online = FALSE, !.owes = FALSE]
  OBVIOUS
<1>3. t \in BrowserRecord /\ Untracked(browser[b], t) /\ ~t.online
  BY <1>1, <1>2 DEF BrowserRecord, Untracked
<1>4. /\ browser' = [browser EXCEPT ![b] = t] /\ inbox' = [inbox EXCEPT ![b] = <<>>]
      /\ outbox' = [outbox EXCEPT ![b] = <<>>] /\ current' = current
      /\ run' = [g \in 1..Len(run) |->
                   [run[g] EXCEPT !.viewers = @ \ {b}, !.sender = IF @ = b THEN None ELSE @]]
  BY <1>1, <1>2 DEF Close
<1>5. \A g \in 1..Len(run) : /\ run'[g] \in RunRecord /\ run'[g].events = run[g].events
                             /\ run'[g].status = run[g].status /\ run'[g].pending = run[g].pending
                             /\ run'[g].viewers = run[g].viewers \ {b}
  BY <1>1, <1>4 DEF RunRecord
<1>6. run' \in Seq(RunRecord) /\ Len(run') = Len(run)
  <2>1. run' \in [1..Len(run) -> RunRecord]
    BY <1>4, <1>5
  <2> QED BY <1>1, <2>1, SequenceIs
<1>7. Unviewed(run, run', {b})
  BY <1>5 DEF Unviewed
<1>8. /\ browser' \in [Browsers -> BrowserRecord] /\ inbox' \in [Browsers -> Seq(Frames)]
      /\ outbox' \in [Browsers -> Seq(Requests)]
      /\ \A c \in Browsers : c \in {b} => Unplugged(browser[c], browser'[c], inbox'[c], outbox'[c])
      /\ \A c \in Browsers : c \notin {b} =>
           browser'[c] = browser[c] /\ inbox'[c] = inbox[c] /\ outbox'[c] = outbox[c]
  <2>1. /\ browser' = [browser EXCEPT ![b] = t] /\ inbox' = [inbox EXCEPT ![b] = <<>>]
        /\ outbox' = [outbox EXCEPT ![b] = <<>>]
    BY <1>4
  <2>2. /\ browser \in [Browsers -> BrowserRecord] /\ inbox \in [Browsers -> Seq(Frames)]
        /\ outbox \in [Browsers -> Seq(Requests)]
    BY <1>1 DEF Agrees
  <2>3. /\ browser' \in [Browsers -> BrowserRecord] /\ inbox' \in [Browsers -> Seq(Frames)]
        /\ outbox' \in [Browsers -> Seq(Requests)]
    BY <1>3, <2>1, <2>2
  <2>4. browser'[b] = t /\ inbox'[b] = <<>> /\ outbox'[b] = <<>>
    BY <2>1, <2>2
  <2>5. \A c \in Browsers : c \notin {b} =>
          browser'[c] = browser[c] /\ inbox'[c] = inbox[c] /\ outbox'[c] = outbox[c]
    BY <2>1, <2>2
  <2> QED BY <1>3, <2>3, <2>4, <2>5 DEF Unplugged
<1>9. Agrees(run', current', browser', inbox', outbox')
  <2>1. PICK K : K = {b}
    OBVIOUS
  <2>2. current \in {None, current} /\ (current = current \/ K = Browsers)
    OBVIOUS
  <2>3. Unviewed(run, run', K)
    BY <1>7, <2>1
  <2>4. Hangup(browser, inbox, outbox, browser', inbox', outbox', K)
    BY <1>8, <2>1 DEF Hangup
  <2>5. /\ browser' \in [Browsers -> BrowserRecord] /\ inbox' \in [Browsers -> Seq(Frames)]
        /\ outbox' \in [Browsers -> Seq(Requests)]
        /\ Agrees(run, current, browser, inbox, outbox)
    BY <1>1, <1>8
  <2>6. Agrees(run', current, browser', inbox', outbox')
    BY ONLY <1>6, <2>2, <2>3, <2>4, <2>5, ClosingAgrees
  <2> QED BY <1>4, <2>6
<1> QED BY <1>1, <1>5, <1>9, StillAgrees

LEMMA RestartStep ==
  ASSUME ChatInv, Restart
  PROVE  ChatInv' /\ \A h \in DOMAIN run : run'[h].status = run[h].status
<1>1. /\ run \in Seq(RunRecord) /\ DOMAIN run = 1..Len(run) /\ Len(run) \in Nat
      /\ \A g \in 1..Len(run) : run[g] \in RunRecord
      /\ Agrees(run, current, browser, inbox, outbox)
      /\ \A b \in Browsers : browser[b] \in BrowserRecord
  BY RunsAre DEF Agrees
<1>2. /\ browser' = [b \in Browsers |-> [browser[b] EXCEPT !.online = FALSE, !.owes = FALSE]]
      /\ inbox' = [b \in Browsers |-> <<>>] /\ outbox' = [b \in Browsers |-> <<>>] /\ current' = None
      /\ run' = [g \in 1..Len(run) |->
                  [run[g] EXCEPT !.turn = "settled", !.viewers = {}, !.sender = None,
                                 !.open = FALSE, !.reply = FALSE]]
  BY <1>1 DEF Restart
<1>3. \A g \in 1..Len(run) : /\ run'[g] \in RunRecord /\ run'[g].events = run[g].events
                             /\ run'[g].status = run[g].status /\ run'[g].pending = run[g].pending
                             /\ run'[g].viewers = {} /\ run[g].viewers \subseteq Browsers
  BY <1>1, <1>2 DEF RunRecord
<1>4. run' \in Seq(RunRecord) /\ Len(run') = Len(run)
  <2>1. run' \in [1..Len(run) -> RunRecord]
    BY <1>2, <1>3
  <2> QED BY <1>1, <2>1, SequenceIs
<1>5. Unviewed(run, run', Browsers)
  BY <1>3 DEF Unviewed
<1>6. \A b \in Browsers :
        browser'[b] \in BrowserRecord /\ ~browser'[b].online /\ Untracked(browser[b], browser'[b])
  <2> SUFFICES ASSUME NEW b \in Browsers
               PROVE  /\ browser'[b] \in BrowserRecord /\ ~browser'[b].online
                      /\ Untracked(browser[b], browser'[b])
    OBVIOUS
  <2>1. browser'[b] = [browser[b] EXCEPT !.online = FALSE, !.owes = FALSE] /\ browser[b] \in BrowserRecord
    BY <1>1, <1>2
  <2> QED BY <2>1 DEF BrowserRecord, Untracked
<1>7. /\ browser' \in [Browsers -> BrowserRecord] /\ inbox' \in [Browsers -> Seq(Frames)]
      /\ outbox' \in [Browsers -> Seq(Requests)]
  <2>1. inbox' = [b \in Browsers |-> <<>>] /\ outbox' = [b \in Browsers |-> <<>>]
    BY <1>2
  <2>2. browser' \in [Browsers -> BrowserRecord]
    BY <1>2, <1>6
  <2>3. /\ [b \in Browsers |-> <<>>] \in [Browsers -> Seq(Frames)]
        /\ [b \in Browsers |-> <<>>] \in [Browsers -> Seq(Requests)]
    OBVIOUS
  <2> QED BY <2>1, <2>2, <2>3
<1>8. Hangup(browser, inbox, outbox, browser', inbox', outbox', Browsers)
  BY <1>2, <1>6 DEF Unplugged, Hangup
<1>9. Agrees(run', None, browser', inbox', outbox')
  BY ONLY <1>1, <1>4, <1>5, <1>7, <1>8, ClosingAgrees
<1> QED BY <1>1, <1>2, <1>3, <1>9, StillAgrees

LEMMA ForgetStep ==
  ASSUME ChatInv, Forget
  PROVE  ChatInv' /\ run' = run
<1>1. Agrees(run, None, browser, inbox, outbox)
  BY RunsAre, ForgettingAgrees
<1> QED BY <1>1, StillAgrees DEF Forget
-----------------------------------------------------------------------------
LEMMA ChatInit == Init => ChatInv
<1> SUFFICES ASSUME Init
             PROVE  ChatInv
  OBVIOUS
<1>1. NewBrowser \in BrowserRecord
  BY DEF NewBrowser, BrowserRecord, None
<1>2. TypeInv
  BY <1>1 DEF Init, TypeInv, None
<1>3. RunsAgree(run, current)
  BY DEF Init, RunsAgree
<1>4. ASSUME NEW b \in Browsers
      PROVE  Wired(run, current, browser[b], inbox[b], outbox[b], b)
  <2>1. /\ browser[b] = NewBrowser /\ inbox[b] = <<>> /\ outbox[b] = <<>> /\ run = <<>> /\ current = None
    BY DEF Init
  <2>2. /\ NewBrowser.shown = <<>> /\ NewBrowser.cursor = 0 /\ NewBrowser.retired = {}
    BY DEF NewBrowser, None
  <2>3. /\ ShownGrows(run, browser[b]) /\ WireGrows(run, browser[b], inbox[b])
        /\ LateIsAgain(browser[b], inbox[b])
    BY <2>1, <2>2 DEF ShownGrows, WireGrows, LateIsAgain
  <2>4. Bounded(run, browser[b], inbox[b], outbox[b])
    BY <2>1, <2>2 DEF Bounded
  <2>5. Stays(current, browser[b], inbox[b]) /\ ~Goes(run, current)
    BY <2>1 DEF Stays, Goes
  <2> QED BY <2>3, <2>4, <2>5 DEF Wired
<1> QED BY <1>2, <1>3, <1>4 DEF ChatInv
(* Of a step, what EndsAreOwn says.                                         *)
OwnEnds ==
  \A g, h \in DOMAIN run :
    g # h /\ run[h].status = "running" /\ run'[h].status = "completed" =>
      /\ run'[g] = run[g]
      /\ \A a \in aborts : a[2] = g => a \in aborts'

LEMMA NobodyEnds ==
  ASSUME \A h \in DOMAIN run : run'[h].status = run[h].status
  PROVE  OwnEnds
BY DEF OwnEnds

(* A step that changes the record of one run, and takes no abort but its.   *)
LEMMA OneEnds ==
  ASSUME ChatInv, NEW k \in DOMAIN run, NEW y, run' = [run EXCEPT ![k] = y],
         \A g \in DOMAIN run : g # k =>
           \A a \in aborts : a[2] = g => a \in aborts'
  PROVE  OwnEnds
<1> SUFFICES ASSUME NEW g \in DOMAIN run, NEW h \in DOMAIN run, g # h,
                    run[h].status = "running", run'[h].status = "completed"
             PROVE  /\ run'[g] = run[g]
                    /\ \A a \in aborts : a[2] = g => a \in aborts'
  BY DEF OwnEnds
<1>1. h = k
  <2> SUFFICES ASSUME h # k PROVE FALSE
    OBVIOUS
  <2>1. run'[h] = run[h]
    OBVIOUS
  <2> QED BY <2>1
<1>2. g # k /\ run'[g] = run[g]
  BY <1>1
<1> QED BY <1>2

LEMMA ChatStep == ChatInv /\ [Next]_vars => ChatInv' /\ OwnEnds
<1> SUFFICES ASSUME ChatInv, [Next]_vars
             PROVE  ChatInv' /\ OwnEnds
  OBVIOUS
<1>1. ASSUME NEW b \in Browsers, AskSubscribe(b) \/ AskSend(b) \/ AskAbort(b) \/ AskAnswer(b)
      PROVE  ChatInv' /\ OwnEnds
  BY <1>1, UserStep, NobodyEnds
<1>2. ASSUME NEW b \in Browsers, Handler(b)
      PROVE  ChatInv' /\ OwnEnds
  <2>1. CASE Send(b)
    BY <2>1, SendStep, NobodyEnds
  <2>2. CASE Abort(b)
    BY <2>2, AbortStep, NobodyEnds
  <2>3. CASE Subscribe(b)
    BY <2>3, SubscribeStep, NobodyEnds
  <2>4. CASE Permission(b)
    BY <2>4, PermissionStep, NobodyEnds
  <2> QED BY <1>2, <2>1, <2>2, <2>3, <2>4 DEF Handler
<1>3. ASSUME NEW b \in Browsers, Receive(b) \/ Reconnect(b) \/ Resubscribe(b)
      PROVE  ChatInv' /\ OwnEnds
  BY <1>3, BrowserStep, NobodyEnds
<1>4. ASSUME NEW b \in Browsers, Close(b)
      PROVE  ChatInv' /\ OwnEnds
  BY <1>4, CloseStep, NobodyEnds
<1>5. ASSUME NEW g \in DOMAIN run, Turn(g)
      PROVE  ChatInv' /\ OwnEnds
  <2>1. aborts' = aborts
    BY <1>5 DEF Turn, ModelKnown, ModelUnknown, Settles
  <2>2. ChatInv' /\ \E y : run' = [run EXCEPT ![g] = y]
    BY <1>5, ModelStep, SettlesStep DEF Turn
  <2> QED BY <2>1, <2>2, OneEnds
<1>6. ASSUME NEW g \in DOMAIN run,
             Emit(g) \/ Ask(g) \/ Reoffer(g) \/ Withdraw(g) \/ Complete(g)
      PROVE  ChatInv' /\ OwnEnds
  <2>1. aborts' = aborts
    BY <1>6 DEF Emit, Ask, Reoffer, Offered, Withdraw, Complete
  <2>2. ChatInv' /\ \E y : run' = [run EXCEPT ![g] = y]
    BY <1>6, WorkerStep
  <2> QED BY <2>1, <2>2, OneEnds
<1>7. ASSUME NEW g \in DOMAIN run, NEW b \in Browsers \cup {None}, AbortSettles(b, g)
      PROVE  ChatInv' /\ OwnEnds
  <2>1. \A h \in DOMAIN run : h # g =>
          \A a \in aborts : a[2] = h => a \in aborts'
    BY <1>7 DEF AbortSettles
  <2>2. ChatInv' /\ \E y : run' = [run EXCEPT ![g] = y]
    BY <1>7, AbortSettlesStep
  <2> QED BY <2>1, <2>2, OneEnds
<1>8. CASE Forget
  BY <1>8, ForgetStep, NobodyEnds
<1>9. CASE Restart
  BY <1>9, RestartStep, NobodyEnds
<1>10. CASE UNCHANGED vars
  <2>1. run' = run /\ Agrees(run', current', browser', inbox', outbox')
    BY <1>10, RunsAre DEF vars
  <2> QED BY <2>1, StillAgrees, NobodyEnds
<1> QED BY <1>1, <1>2, <1>3, <1>4, <1>5, <1>6, <1>7, <1>8, <1>9, <1>10 DEF Next

(* Whatever sockets close, however often the server restarts and whenever   *)
(* a viewer joins: the registry, the frames on their way and the browsers   *)
(* stay in agreement (chat-run-registry.service.ts, chat-websocket.service. *)
(* ts, ChatRealtimeContext and the session store).                          *)
THEOREM ChatInvHolds == Spec => []ChatInv
<1>1. Init => ChatInv
  BY ChatInit
<1>2. ChatInv /\ [Next]_vars => ChatInv'
  BY ChatStep
<1> QED BY <1>1, <1>2, PTL DEF Spec

(* Every viewer of a run that runs is shown, or will be shown, every frame  *)
(* the ring holds, in order and once (writer, replay, dedupe).              *)
THEOREM TranscriptAlwaysFaithful == Spec => []TranscriptIsFaithful
BY ChatInvHolds, TranscriptFollows, PTL

(* A late end, or the late answer to an abort, ends its own run only        *)
(* (completeRunIfCurrent).                                                  *)
THEOREM EndsAlwaysOwn == Spec => EndsAreOwn
<1>1. ChatInv /\ [Next]_vars => [OwnEnds]_vars
  BY ChatStep
<1>2. Spec => [][OwnEnds]_vars
  BY <1>1, ChatInvHolds, PTL DEF Spec
<1> QED BY <1>2 DEF EndsAreOwn, OwnEnds
=============================================================================
