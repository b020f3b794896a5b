------------------------------ MODULE ChatRuns ------------------------------
(***************************************************************************)
(* The chat of one session: the server's registry of runs, the writer of a *)
(* run with its viewers, the handlers of the chat messages                 *)
(* (server/modules/websocket/services), and the browsers that show the     *)
(* session: their socket, replay cursor, approval cards and the indicator  *)
(* that the session is busy (src/contexts, src/stores, src/components/chat *)
(* and src/hooks).                                                         *)
(*                                                                         *)
(* A socket keeps the order of its frames and loses what is under way when *)
(* it closes.  A handler of the server runs to its first await, which only *)
(* chat.send (the model) and chat.abort (the worker) reach.  The worker is *)
(* what the environment of the registry is: it emits frames, asks, cancels *)
(* questions, ends a run, and may emit frames behind that end.             *)
(***************************************************************************)
EXTENDS Naturals, Sequences, SequencesExt, FiniteSets

CONSTANTS
  Browsers,
  BufferLimit,  \* eventBufferLimit of a run
  MaxRuns,      \* bound: runs
  MaxSeq,       \* bound: frames of a run before its end
  MaxOffers,    \* bound: how often the question of a run is offered
  MaxRequests,  \* bound: requests of a browser, those of a reconnect aside
  MaxDrops      \* bound: closed sockets and restarts of the server

ASSUME BufferAssumption == BufferLimit \in Nat \ {0}

VARIABLES
  run,      \* every run there was; a run is its replay generation
  current,  \* the registry's run of the session, or none
  aborts,   \* chat.abort handlers that wait for the worker
  browser,  \* what a browser holds of the session
  inbox,    \* frames on their way to a browser
  outbox,   \* requests on their way to the server
  drops

vars == <<run, current, aborts, browser, inbox, outbox, drops>>

None == 0
Runs == 1..MaxRuns
Live(g) == run[g].status = "running" /\ current = g
Processing == current # None /\ run[current].status = "running"

Sends == [kind |-> "send"]
Aborts == [kind |-> "abort"]
Answers(g) == [kind |-> "answer", run |-> g]

Error == [kind |-> "error"]
Frame(g, n, what) == [kind |-> "event", run |-> g, seq |-> n, what |-> what]

(* A browser's slot of the session.  shown is what it accepted, in order;   *)
(* busy says whether the mark is older than the last status check.          *)
NewBrowser ==
  [online |-> FALSE, owes |-> FALSE, cursor |-> None, last |-> 0, retired |-> {}, shown |-> <<>>,
   cards |-> {}, busy |-> "no", asked |-> 0]

Init ==
  /\ run = <<>> /\ current = None /\ aborts = {}
  /\ browser = [b \in Browsers |-> NewBrowser]
  /\ inbox = [b \in Browsers |-> <<>>]
  /\ outbox = [b \in Browsers |-> <<>>]
  /\ drops = 0
---------------------------------------------------------------------------
(* The registry and the writer.                                             *)

Told(b, frames) == inbox' = [inbox EXCEPT ![b] = @ \o frames]

(* Mutant: frames behind the end are published.                             *)
DecoratedLate(g) == current = g

(* decorateRunEvent: a frame of a run that is over, or no longer the        *)
(* session's run, is dropped.                                               *)
Decorated(g) == Live(g)

(* decorateRunEvent, publish: the frame gets its number and goes to every   *)
(* viewer whose socket is open.                                             *)
Pending(g, what) ==
  CASE what = "ask" -> TRUE
    [] what \in {"cancel", "complete"} -> FALSE
    [] OTHER -> run[g].pending

Recorded(g, what) ==
  [run[g] EXCEPT !.events = Append(@, what),
                 !.pending = Pending(g, what),
                 !.status = IF what = "complete" THEN "completed" ELSE @]

Seen(g, what, boxes) ==
  [b \in Browsers |->
     IF b \in run[g].viewers
     THEN Append(boxes[b], Frame(g, Len(run[g].events) + 1, what)) ELSE boxes[b]]

Publishes(g, what) ==
  IF Decorated(g)
  THEN /\ run' = [run EXCEPT ![g] = Recorded(g, what)]
       /\ inbox' = Seen(g, what, inbox)
  ELSE UNCHANGED <<run, inbox>>

(* replayEvents: what the ring still holds behind the cursor, which counts  *)
(* only inside its run.                                                     *)
Oldest(g) == IF Len(run[g].events) > BufferLimit THEN Len(run[g].events) - BufferLimit + 1 ELSE 1
ReplayFrom(g, c) ==
  IF c.run = g /\ c.last <= Len(run[g].events) THEN c.last + 1 ELSE 1

Replay(g, c) ==
  LET first == IF ReplayFrom(g, c) < Oldest(g) THEN Oldest(g) ELSE ReplayFrom(g, c)
  IN [i \in 1..(Len(run[g].events) + 1 - first) |-> Frame(g, first + i - 1, run[g].events[first + i - 1])]
---------------------------------------------------------------------------
(* The handlers.                                                            *)

NewRun(b) ==
  [status |-> "running", turn |-> "resolving", events |-> <<>>,
   pending |-> FALSE, open |-> FALSE, reply |-> FALSE, viewers |-> {b}, sender |-> b]

Handled(b) == outbox' = [outbox EXCEPT ![b] = Tail(@)]
Reads(b, kind) == outbox[b] # <<>> /\ Head(outbox[b]).kind = kind

(* chat.send up to the model: it is refused while a run goes, for what it   *)
(* says, or because nothing can run the session; or a run begins.           *)
Send(b) ==
  /\ Reads(b, "send")
  /\ \/ /\ Told(b, <<Error>>)
        /\ UNCHANGED <<run, current>>
     \/ /\ ~Processing
        /\ run' = Append(run, NewRun(b))
        /\ current' = Len(run) + 1
        /\ UNCHANGED inbox
  /\ Handled(b)
  /\ UNCHANGED <<aborts, browser, drops>>

(* A handler answers on the socket its message came from, which is None     *)
(* once that socket closed: its browser may have another one by then.       *)
Tells(b, boxes) ==
  IF b # None /\ browser[b].online THEN [boxes EXCEPT ![b] = Append(@, Error)] ELSE boxes

(* Mutant: the end of an old turn ends whatever runs now.                   *)
EndsCurrent(g, records, boxes) ==
  IF Processing
  THEN /\ run' = [records EXCEPT ![current].events = Append(@, "complete"),
                                 ![current].status = "completed", ![current].pending = FALSE]
       /\ inbox' = Seen(current, "complete", boxes)
  ELSE run' = records /\ inbox' = boxes

(* completeRunIfCurrent *)
Ends(g, records, boxes) ==
  IF Live(g)
  THEN /\ run' = [records EXCEPT ![g].events = Append(@, "complete"),
                                 ![g].status = "completed", ![g].pending = FALSE]
       /\ inbox' = Seen(g, "complete", boxes)
  ELSE run' = records /\ inbox' = boxes

(* The model is known, and the worker is asked for a run; or it is not, and *)
(* the run is over.                                                         *)
ModelKnown(g) ==
  /\ run[g].turn = "resolving"
  /\ run' = [run EXCEPT ![g].turn = "spawned"]
  /\ UNCHANGED <<current, aborts, browser, inbox, outbox, drops>>

ModelUnknown(g) ==
  /\ run[g].turn = "resolving"
  /\ Ends(g, [run EXCEPT ![g].turn = "settled"], Tells(run[g].sender, inbox))
  /\ UNCHANGED <<current, aborts, browser, outbox, drops>>

(* The promise of the run settles.  A rejection with a code is told to the  *)
(* sender alone; one without, while the run runs, to every viewer.          *)
Settles(g) ==
  /\ run[g].turn = "spawned"
  /\ LET records == [run EXCEPT ![g].turn = "settled", ![g].open = FALSE, ![g].reply = FALSE]
     IN \/ Ends(g, records, inbox)
        \/ Ends(g, records, Tells(run[g].sender, inbox))
        \/ /\ Live(g) /\ Len(run[g].events) < MaxSeq
           /\ run' = [records EXCEPT ![g].events = @ \o <<"text", "complete">>,
                                     ![g].status = "completed", ![g].pending = FALSE]
           /\ inbox' = [b \in Browsers |->
                IF b \in run[g].viewers
                THEN inbox[b] \o <<Frame(g, Len(run[g].events) + 1, "text"),
                                   Frame(g, Len(run[g].events) + 2, "complete")>>
                ELSE inbox[b]]
  /\ UNCHANGED <<current, aborts, browser, outbox, drops>>

(* chat.abort: the worker is asked to stop the run.  One whose model is not *)
(* known yet has a handle in a worktree or a resumed session only.          *)
Abort(b) ==
  /\ Reads(b, "abort")
  /\ \/ /\ Processing
        /\ aborts' = aborts \cup {<<b, current>>}
        /\ UNCHANGED inbox
     \/ /\ ~(Processing /\ run[current].turn = "spawned")
        /\ Told(b, <<Error>>)
        /\ UNCHANGED aborts
  /\ Handled(b)
  /\ UNCHANGED <<run, current, browser, drops>>

(* The worker answered: it stopped the run, or it could not.                *)
AbortSettles(b, g) ==
  /\ <<b, g>> \in aborts
  /\ aborts' = aborts \ {<<b, g>>}
  /\ \/ Ends(g, [run EXCEPT ![g].open = FALSE, ![g].reply = FALSE], inbox)
     \/ /\ inbox' = Tells(b, inbox)
        /\ UNCHANGED run
  /\ UNCHANGED <<current, browser, outbox, drops>>

(* chat.subscribe: a viewer of a run that runs joins its stream and gets    *)
(* what it missed behind the answer, in one step.                           *)
Subscribed ==
  [kind |-> "subscribed", run |-> current, processing |-> Processing,
   last |-> IF current = None THEN 0 ELSE Len(run[current].events),
   cards |-> IF current # None /\ run[current].open THEN {current} ELSE {}]

(* Mutant: only one viewer is attached at a time.                           *)
SubscribeStealing(b) ==
  /\ Reads(b, "subscribe")
  /\ IF Processing
     THEN /\ run' = [run EXCEPT ![current].viewers = {b}]
          /\ Told(b, <<Subscribed>> \o Replay(current, Head(outbox[b])))
     ELSE /\ Told(b, <<Subscribed>>)
          /\ UNCHANGED run
  /\ Handled(b)
  /\ UNCHANGED <<current, aborts, browser, drops>>

Subscribe(b) ==
  /\ Reads(b, "subscribe")
  /\ IF Processing
     THEN /\ run' = [run EXCEPT ![current].viewers = @ \cup {b}]
          /\ Told(b, <<Subscribed>> \o Replay(current, Head(outbox[b])))
     ELSE /\ Told(b, <<Subscribed>>)
          /\ UNCHANGED run
  /\ Handled(b)
  /\ UNCHANGED <<current, aborts, browser, drops>>

(* Mutant: the other viewers are not told that the question is closed.      *)
PermissionSilent(b) ==
  /\ Reads(b, "answer")
  /\ LET g == Head(outbox[b]).run
     IN run' = [run EXCEPT ![g].open = FALSE, ![g].pending = FALSE, ![g].reply = @ \/ run[g].open]
  /\ Handled(b)
  /\ UNCHANGED <<current, aborts, browser, inbox, drops>>

(* chat.permission-response: the worker is told of the answer to a question *)
(* it has open, the viewers when the registry still knew it.                *)
Permission(b) ==
  /\ Reads(b, "answer")
  /\ LET g == Head(outbox[b]).run
         told == [run EXCEPT ![g].open = FALSE, ![g].reply = @ \/ run[g].open]
     IN IF current = g /\ run[g].pending
        THEN /\ run' = [told EXCEPT ![g].pending = FALSE, ![g].events = Append(@, "cancel")]
             /\ inbox' = Seen(g, "cancel", inbox)
        ELSE /\ run' = told
             /\ UNCHANGED inbox
  /\ Handled(b)
  /\ UNCHANGED <<current, aborts, browser, drops>>

(* scheduleCompletedRunRemoval *)
Forget ==
  /\ current # None /\ run[current].status = "completed"
  /\ current' = None
  /\ UNCHANGED <<run, aborts, browser, inbox, outbox, drops>>
---------------------------------------------------------------------------
(* The worker.                                                              *)

Emit(g) ==
  /\ run[g].turn = "spawned" /\ Len(run[g].events) < MaxSeq
  /\ Publishes(g, "text")
  /\ UNCHANGED <<current, aborts, browser, outbox, drops>>

(* A run asks one question at most.                                         *)
Offers(g) == Len(SelectSeq(run[g].events, LAMBDA what : what = "ask"))

Offered(g) ==
  /\ run' = [run EXCEPT ![g] = [Recorded(g, "ask") EXCEPT !.open = TRUE, !.reply = FALSE]]
  /\ inbox' = Seen(g, "ask", inbox)
  /\ UNCHANGED <<current, aborts, browser, outbox, drops>>

Ask(g) ==
  /\ run[g].turn = "spawned" /\ Len(run[g].events) < MaxSeq
  /\ Live(g) /\ Offers(g) = 0
  /\ Offered(g)

(* restoreApproval: the worker did not accept the answer, and the question  *)
(* is offered again.                                                        *)
Reoffer(g) ==
  /\ run[g].turn = "spawned" /\ run[g].reply
  /\ Live(g) /\ Offers(g) < MaxOffers
  /\ Offered(g)

Withdraw(g) ==
  /\ run[g].turn = "spawned" /\ Live(g)
  /\ run[g].open \/ run[g].reply
  /\ run' = [run EXCEPT ![g] = [Recorded(g, "cancel") EXCEPT !.open = FALSE, !.reply = FALSE]]
  /\ inbox' = Seen(g, "cancel", inbox)
  /\ UNCHANGED <<current, aborts, browser, outbox, drops>>

(* The worker's own end of the run, before its promise settles.             *)
Complete(g) ==
  /\ run[g].turn = "spawned" /\ Live(g)
  /\ run' = [run EXCEPT ![g] = [Recorded(g, "complete") EXCEPT !.open = FALSE, !.reply = FALSE]]
  /\ inbox' = Seen(g, "complete", inbox)
  /\ UNCHANGED <<current, aborts, browser, outbox, drops>>
---------------------------------------------------------------------------
(* The browsers.                                                            *)

Marked(s) == [s EXCEPT !.busy = IF @ = "no" THEN "after" ELSE @]

Asks(b, request, s) ==
  /\ browser[b].online /\ browser[b].asked < MaxRequests
  /\ browser' = [browser EXCEPT ![b] = [s EXCEPT !.asked = @ + 1]]
  /\ outbox' = [outbox EXCEPT ![b] = Append(@, request)]
  /\ UNCHANGED <<run, current, aborts, inbox, drops>>

(* The status check carries the replay cursor, and what was marked busy     *)
(* before it may be cleared by its answer.                                  *)
Cursor(s) == [kind |-> "subscribe", run |-> s.cursor, last |-> s.last]
Checked(s) == [s EXCEPT !.busy = IF @ = "no" THEN "no" ELSE "before"]

AskSubscribe(b) == Asks(b, Cursor(browser[b]), Checked(browser[b]))
Sent(b) == Len(SelectSeq(outbox[b], LAMBDA r : r.kind = "send"))

AskSend(b) ==
  /\ Len(run) + FoldFunction(+, 0, [c \in Browsers |-> Sent(c)]) < MaxRuns
  /\ Asks(b, Sends, Marked(browser[b]))

AskAbort(b) == browser[b].busy # "no" /\ Asks(b, Aborts, browser[b])
AskAnswer(b) ==
  \E g \in browser[b].cards :
    Asks(b, Answers(g), [browser[b] EXCEPT !.cards = @ \ {g}])

(* trackReplayFrame.  Mutant: the answer's high-water mark becomes the      *)
(* cursor before the replay behind it was received.                         *)
TrackedEarly(s, f) ==
  [s EXCEPT !.cursor = f.run,
            !.retired = IF s.cursor \in {None, f.run} THEN @ ELSE @ \cup {s.cursor},
            !.last = IF f.kind = "subscribed" THEN f.last ELSE f.seq]

Tracked(s, f) ==
  [s EXCEPT !.cursor = f.run,
            !.retired = IF s.cursor \in {None, f.run} THEN @ ELSE @ \cup {s.cursor},
            !.last = LET kept == IF s.cursor = f.run THEN s.last ELSE 0
                     IN IF f.kind = "event" /\ f.seq > kept THEN f.seq ELSE kept]

(* acceptRealtimeEvent.  Mutant: what a second subscription replays is      *)
(* shown twice.                                                             *)
AcceptedTwice(s, f) == TRUE
Accepted(s, f) == ~Contains(s.shown, <<f.run, f.seq>>)

(* receive, for the session on the screen.                                  *)
Idle(s) == [s EXCEPT !.busy = "no"]

Shown(s, f) ==
  LET t == [s EXCEPT !.shown = Append(@, <<f.run, f.seq>>)]
  IN CASE f.what = "complete" -> [Idle(t) EXCEPT !.cards = {}]
       [] f.what = "ask" -> [Marked(t) EXCEPT !.cards = @ \cup {f.run}]
       [] f.what = "cancel" -> [t EXCEPT !.cards = @ \ {f.run}]
       [] OTHER -> t

(* Mutant: the answer to the status check does not clear the indicator.     *)
AnsweredLazily(s, f) == [(IF f.processing THEN Marked(s) ELSE s) EXCEPT !.cards = f.cards]

Answered(s, f) ==
  [(CASE f.processing -> Marked(s)
      [] ~f.processing /\ s.busy = "before" -> Idle(s)
      [] OTHER -> s) EXCEPT !.cards = f.cards]

Received(s, f) ==
  CASE f.kind = "error" -> Idle(s)
    [] f.kind # "error" /\ f.run \in s.retired -> s
    [] f.kind = "subscribed" /\ f.run \notin s.retired -> Answered(Tracked(s, f), f)
    [] OTHER -> IF Accepted(s, f) THEN Shown(Tracked(s, f), f) ELSE Tracked(s, f)

Receive(b) ==
  /\ inbox[b] # <<>>
  /\ browser' = [browser EXCEPT ![b] = Received(@, Head(inbox[b]))]
  /\ inbox' = [inbox EXCEPT ![b] = Tail(@)]
  /\ UNCHANGED <<run, current, aborts, outbox, drops>>

(* The socket opens, for the first time or again; the session is subscribed *)
(* to once its history was read, and the user does not wait for that.       *)
Reconnect(b) ==
  /\ ~browser[b].online
  /\ browser' = [browser EXCEPT ![b].online = TRUE, ![b].owes = TRUE]
  /\ UNCHANGED <<run, current, aborts, inbox, outbox, drops>>

Resubscribe(b) ==
  /\ browser[b].online /\ browser[b].owes
  /\ browser' = [browser EXCEPT ![b] = [Checked(@) EXCEPT !.owes = FALSE]]
  /\ outbox' = [outbox EXCEPT ![b] = Append(@, Cursor(browser[b]))]
  /\ UNCHANGED <<run, current, aborts, inbox, drops>>
---------------------------------------------------------------------------
(* A socket closes: what was under way is lost, and so is what a handler    *)
(* that waits will answer on it.                                            *)
Close(b) ==
  /\ browser[b].online /\ drops < MaxDrops
  /\ drops' = drops + 1
  /\ browser' = [browser EXCEPT ![b].online = FALSE, ![b].owes = FALSE]
  /\ inbox' = [inbox EXCEPT ![b] = <<>>]
  /\ outbox' = [outbox EXCEPT ![b] = <<>>]
  /\ run' = [g \in DOMAIN run |->
               [run[g] EXCEPT !.viewers = @ \ {b}, !.sender = IF @ = b THEN None ELSE @]]
  /\ aborts' = {IF a[1] = b THEN <<None, a[2]>> ELSE a : a \in aborts}
  /\ UNCHANGED current

(* The server restarts: the registry is empty, no run goes on.              *)
Restart ==
  /\ drops < MaxDrops
  /\ drops' = drops + 1
  /\ browser' = [b \in Browsers |-> [browser[b] EXCEPT !.online = FALSE, !.owes = FALSE]]
  /\ inbox' = [b \in Browsers |-> <<>>]
  /\ outbox' = [b \in Browsers |-> <<>>]
  /\ run' = [g \in DOMAIN run |-> [run[g] EXCEPT !.turn = "settled", !.viewers = {}, !.sender = None,
                                                 !.open = FALSE, !.reply = FALSE]]
  /\ current' = None
  /\ aborts' = {}

Handler(b) == Send(b) \/ Abort(b) \/ Subscribe(b) \/ Permission(b)
Turn(g) == ModelKnown(g) \/ ModelUnknown(g) \/ Settles(g)

Next ==
  \/ \E b \in Browsers :
       \/ AskSubscribe(b) \/ AskSend(b) \/ AskAbort(b) \/ AskAnswer(b)
       \/ Handler(b) \/ Receive(b) \/ Reconnect(b) \/ Resubscribe(b) \/ Close(b)
  \/ \E g \in DOMAIN run :
       \/ Turn(g) \/ Emit(g) \/ Ask(g) \/ Reoffer(g) \/ Withdraw(g) \/ Complete(g)
       \/ \E b \in Browsers \cup {None} : AbortSettles(b, g)
  \/ Forget \/ Restart

Spec == Init /\ [][Next]_vars

(* Sockets deliver, handlers run, a browser reconnects after its delay, the *)
(* model is resolved or not, and the promise of a run settles.              *)
Delivery == \A b \in Browsers : WF_vars(Handler(b)) /\ WF_vars(Receive(b)) /\ WF_vars(Resubscribe(b))
Settlement == \A g \in Runs : WF_vars(g \in DOMAIN run /\ Turn(g))
Reconnection(b) == WF_vars(Reconnect(b))

FairSpec == Spec /\ Delivery /\ Settlement /\ \A b \in Browsers : Reconnection(b)
=============================================================================
