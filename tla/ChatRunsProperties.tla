------------------------- MODULE ChatRunsProperties -------------------------
(* What the viewers of a session rely on.                                  *)
EXTENDS ChatRuns

LastOf(g) == Len(run[g].events)

OnItsWay(b, g, n) ==
  \E i \in 1..Len(inbox[b]) :
    inbox[b][i].kind = "event" /\ inbox[b][i].run = g /\ inbox[b][i].seq = n

Requested(b, kind) == \E i \in 1..Len(outbox[b]) : outbox[b][i].kind = kind

(* A browser is a viewer of the running run for the registry, or by what it *)
(* holds itself: it follows that run, and waits for no subscription.        *)
Watches(b) ==
  \/ b \in run[current].viewers
  \/ browser[b].online /\ browser[b].cursor = current
     /\ ~browser[b].owes /\ ~Requested(b, "subscribe")

(* Who watches the running run misses nothing the ring still holds: every  *)
(* frame was shown or is on its way to a browser that will show it,        *)
(* whatever sockets closed and however many viewers joined in between      *)
(* (subscribeChat, replayEvents, trackReplayFrame).                        *)
ViewersMissNothing ==
  Processing =>
    \A b \in Browsers :
      Watches(b) =>
        /\ browser[b].online
        /\ current \notin browser[b].retired
        /\ \A n \in Oldest(current)..LastOf(current) :
             Contains(browser[b].shown, <<current, n>>) \/ OnItsWay(b, current, n)

(* A transcript is shown in order, once, and never continues behind its    *)
(* end or behind the start of a later run (decorateRunEvent, the dedupe    *)
(* and the retired generations of a browser).                              *)
ShownInOrder ==
  \A b \in Browsers :
    LET shown == browser[b].shown
    IN \A i \in 1..Len(shown) :
         /\ shown[i][2] <= LastOf(shown[i][1])
         /\ run[shown[i][1]].events[shown[i][2]] = "complete" => shown[i][2] = LastOf(shown[i][1])
         /\ i > 1 => \/ shown[i - 1][1] < shown[i][1]
                     \/ shown[i - 1][1] = shown[i][1] /\ shown[i - 1][2] < shown[i][2]

(* The transcript of a viewer is whole and in order, across reconnects,    *)
(* second viewers and the end of the run (writer, registry and store).     *)
TranscriptIsFaithful == ViewersMissNothing /\ ShownInOrder

UpToDate(b) ==
  /\ inbox[b] = <<>> /\ ~browser[b].owes
  /\ ~Requested(b, "subscribe") /\ ~Requested(b, "answer")

(* Between two events on the wire, a viewer's cards are the questions the  *)
(* worker still has open, and the registry says the same when it is asked  *)
(* who waits for input.                                                    *)
CardsAreOpen ==
  Processing =>
    \A b \in Browsers :
      b \in run[current].viewers /\ UpToDate(b) =>
        /\ browser[b].cards = IF run[current].open THEN {current} ELSE {}
        /\ run[current].pending = run[current].open

(* A run is ended by what belongs to it: the late end of an old turn, or  *)
(* an abort that is answered late, never ends the run that was started    *)
(* after it (completeRunIfCurrent).                                       *)
EndsAreOwn ==
  [][\A g, h \in DOMAIN run :
       g # h /\ run[h].status = "running" /\ run'[h].status = "completed" =>
         /\ run'[g] = run[g]
         /\ \A a \in aborts : a[2] = g => a \in aborts']_vars

(* The indicator that a session is busy goes out: with the end of its run, *)
(* with a refusal, or with the answer to the check that follows a          *)
(* reconnect.                                                              *)
BusyEnds == \A b \in Browsers : browser[b].busy # "no" ~> browser[b].busy = "no"
=============================================================================
