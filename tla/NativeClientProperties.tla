----------------------- MODULE NativeClientProperties -----------------------
(* What the callers of a native client and the restart of the application  *)
(* rely on.                                                                *)
EXTENDS NativeClient

(* A request takes effect once at most: it is never replayed, whatever     *)
(* fails between its write and its answer.  A Git request that took effect *)
(* or still may, and was rejected, has left the mark that keeps the        *)
(* application from being restarted on a guess (failed, close).            *)
NothingReplayed ==
  \A r \in Requests :
    /\ executed[r] <= 1
    /\ call[r] = "answered" => executed[r] = 1
    /\ call[r] = "rejected" /\ client.command = "git"
         /\ (executed[r] = 1 \/ \E g \in Generations : r \in process[g].inbox)
         => client.uncertain

(* A process that may still work is the child or is retired, never         *)
(* forgotten, also by a client that was closed and left the group.         *)
Tracked ==
  \A g \in Generations : Alive(g) =>
    /\ g = client.child \/ g \in client.retiring
    /\ client.attached

(* While an idle report stands (no activity generation has passed since),  *)
(* no process works on a request and no call is about to reach one:        *)
(* activity() counts starts, restarts, calls, retired processes and late   *)
(* observations, and every change of them moves the generation.            *)
IdleIsQuiet ==
  report =>
    /\ \A r \in Requests : call[r] \notin Waiting
    /\ \A g \in Generations : Alive(g) => process[g].inbox \cap Requests = {}

ClientIsHonest == NothingReplayed /\ Tracked /\ IdleIsQuiet

(* What a well-behaved process says is never taken for a fault: every      *)
(* answer of the current child finds its request, also after a timeout.    *)
AnswersAreExpected ==
  client.child # None => process[client.child].answers \subseteq client.pending

(* Every request is settled: by its answer, by the failure of its process, *)
(* or, when nothing can be started, by that.                               *)
RequestsSettle == \A r \in Requests : call[r] \in Waiting ~> call[r] \in Ended
=============================================================================
