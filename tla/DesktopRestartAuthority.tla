----------------------- MODULE DesktopRestartAuthority -----------------------
(***************************************************************************)
(* The restart authority of the desktop app (server/services/              *)
(* desktop-restart-authority.ts): before an update restarts the server, it *)
(* closes the admission of new work, fences the agent worker, collects an  *)
(* idle proof from every owner of work, hands out a token, and on commit   *)
(* collects the proof again.                                               *)
(*                                                                         *)
(* JavaScript runs one callback at a time.  An action is the code between  *)
(* two awaits; every await of an abandoned attempt still comes back, so    *)
(* attempts keep their own step.  Owners change while they are being read. *)
(* The worker's side of the fence is gjc-worker-client.ts; what the owners *)
(* do is only their contract: every change of activity is a new generation.*)
(***************************************************************************)
EXTENDS Integers, FiniteSets

CONSTANTS
  Owners,      \* the required owners of work
  Worker,      \* the owner the preparation fence belongs to
  Epochs,      \* controller epochs
  MaxAttempts, \* bound: prepare calls that begin an attempt
  MaxRevision, \* bound: no new ingress from this revision on
  MaxGen,      \* bound: no owner change from this generation on
  NULL

ASSUME WorkerAssumption == Worker \in Owners
ASSUME OwnersAssumption == IsFiniteSet(Owners)
ASSUME BoundsAssumption == MaxAttempts \in Nat /\ MaxRevision \in Nat /\ MaxGen \in Nat
ASSUME NoEpochAssumption == NULL \notin Epochs

Attempts == 1..MaxAttempts

VARIABLES
  auth,   \* the fields of the authority object
  guests, \* ingress leases callers hold (enter, enterCompletion)
  busy,   \* per owner: it has work
  gen,    \* per owner: the generation of its activity
  fence   \* the worker's restartFence

vars == <<auth, guests, busy, gen, fence>>
-----------------------------------------------------------------------------
(* step: where prepareInner or commitInner of the attempt waits.           *)
(* closing: the promise of fence.close; cleanup: what reopen started.      *)
NoAttempt ==
  [phase |-> "unused", epoch |-> NULL, step |-> "none", closing |-> "none",
   cleanup |-> "none", late |-> FALSE, lapsed |-> FALSE, clean |-> FALSE,
   readRevision |-> 0, readGen |-> [o \in Owners |-> 0],
   seen |-> [o \in Owners |-> "pending"],
   generations |-> [o \in Owners |-> 0], preparedRevision |-> 0,
   committing |-> FALSE, answer |-> "none"]

NoFence == [id |-> 0, acknowledged |-> FALSE]

(* acquire *)
Acquired(st) == [st EXCEPT !.ingress = @ + 1, !.revision = @ + 1]

(* The closure acquire returns. *)
LeaseReleased(st) == [st EXCEPT !.ingress = @ - 1, !.revision = @ + 1]

(* An attempt that is given up: its cleanup begins, its commit fails.      *)
GivenUp(my) ==
  [my EXCEPT !.phase = "reopened", !.cleanup = "joining",
             !.answer = IF my.committing /\ @ = "none" THEN "failed" ELSE @]

(* Mutant: a committed attempt can be reopened. *)
ReopenedAlways(st, a) ==
  Acquired([st EXCEPT !.current = 0, !.revision = @ + 1, !.att[a] = GivenUp(@)])

(* Mutant: the cleanup of the fence is not counted as ingress. *)
ReopenedUncounted(st, a) ==
  IF st.current # a \/ st.att[a].phase = "committed"
  THEN st
  ELSE [st EXCEPT !.current = 0, !.revision = @ + 1, !.att[a] = GivenUp(@)]

(* reopen: gives up the attempt and starts the release of its fence, which *)
(* counts as ingress until it is over.                                     *)
Reopened(st, a) ==
  IF st.current # a \/ st.att[a].phase = "committed"
  THEN st
  ELSE Acquired([st EXCEPT !.current = 0, !.revision = @ + 1, !.att[a] = GivenUp(@)])

(* Mutant: only the timer would expire a token. *)
NeverExpired(st) == st

(* expire: the first call of every entry point. *)
Expired(st) ==
  IF st.current # 0 /\ st.att[st.current].phase = "prepared" /\ st.att[st.current].lapsed
  THEN Reopened(st, st.current)
  ELSE st

(* snapshot, up to its await: revision and generations are read and every  *)
(* reader is called.                                                       *)
Asking(my, step, revision) ==
  [my EXCEPT !.step = step, !.readRevision = revision, !.readGen = gen,
             !.seen = [o \in Owners |-> "pending"]]

Reading(st, a, step) == [st EXCEPT !.att[a] = Asking(@, step, st.revision)]

(* The function returned: its local variables are gone. *)
Over(my) ==
  [my EXCEPT !.step = "done", !.late = FALSE, !.clean = FALSE, !.readRevision = 0,
             !.readGen = [o \in Owners |-> 0], !.seen = [o \in Owners |-> "pending"]]

Ended(st, a) == [st EXCEPT !.att[a] = Over(@)]

(* checkGenerations: every owner is still at the generation it was read at.*)
GenerationsHold(a) == auth.att[a].readGen = gen
-----------------------------------------------------------------------------
Init ==
  /\ auth = [ingress |-> 0, revision |-> 0, current |-> 0, sequence |-> 0, lost |-> {},
             latch |-> FALSE, att |-> [a \in Attempts |-> NoAttempt]]
  /\ guests = 0
  /\ busy \in [Owners -> BOOLEAN]
  /\ gen = [o \in Owners |-> 0]
  /\ fence = NoFence

(* enter: new work is admitted only while there is no attempt. *)
Enter ==
  LET st == Expired(auth)
  IN /\ st.current = 0
     /\ st.revision < MaxRevision
     /\ auth' = Acquired(st)
     /\ guests' = guests + 1
     /\ UNCHANGED <<busy, gen, fence>>

(* enterCompletion: work that is already owned may finish until the commit.*)
EnterCompletion ==
  LET st == Expired(auth)
  IN /\ st.current # 0 => st.att[st.current].phase # "committed"
     /\ st.revision < MaxRevision
     /\ auth' = Acquired(st)
     /\ guests' = guests + 1
     /\ UNCHANGED <<busy, gen, fence>>

Leave ==
  /\ guests > 0
  /\ auth' = LeaseReleased(auth)
  /\ guests' = guests - 1
  /\ UNCHANGED <<busy, gen, fence>>

(* prepare, with the synchronous head of prepareInner: admission is closed *)
(* before anything is awaited.  Repeating the call joins the attempt.      *)
Prepare(e) ==
  LET st == Expired(auth)
      a == st.sequence + 1
  IN /\ e \notin st.lost
     /\ st.current = 0
     /\ st.ingress = 0
     /\ a \in Attempts
     /\ auth' = [st EXCEPT !.current = a, !.sequence = a, !.revision = @ + 1,
                           !.att[a] =
                             [@ EXCEPT !.phase = "preparing", !.epoch = e,
                                       !.step = "fencing", !.closing = "called",
                                       !.readRevision = st.revision + 1]]
     /\ UNCHANGED <<guests, busy, gen, fence>>

(* An entry point that finds a lapsed token gives up the attempt even when *)
(* the call itself is then refused; so does the timer.                     *)
Expire ==
  /\ Expired(auth) # auth
  /\ auth' = Expired(auth)
  /\ UNCHANGED <<guests, busy, gen, fence>>

(* Time: the deadline of an attempt's reads passes, its token lapses.      *)
DeadlinePasses(a) ==
  /\ auth.att[a].step \in {"fencing", "reading", "returned", "rereading", "rereturned"}
  /\ ~auth.att[a].late
  /\ auth' = [auth EXCEPT !.att[a].late = TRUE]
  /\ UNCHANGED <<guests, busy, gen, fence>>

TokenLapses(a) ==
  /\ auth.att[a].phase = "prepared"
  /\ ~auth.att[a].lapsed
  /\ auth' = [auth EXCEPT !.att[a].lapsed = TRUE]
  /\ UNCHANGED <<guests, busy, gen, fence>>
-----------------------------------------------------------------------------
(* The worker's half of the fence (fenceForDesktopRestart and              *)
(* releaseDesktopRestartFence).                                            *)

(* The fence is set before the worker looks whether it may be: accepted    *)
(* work, an unready or an unreaped child reject it all the same.           *)
WorkerCloses(a) ==
  /\ auth.att[a].closing = "called"
  /\ \/ /\ fence.id # 0
        /\ auth' = [auth EXCEPT !.att[a].closing = "rejected"]
        /\ UNCHANGED <<fence, gen>>
     \/ /\ fence.id = 0
        /\ fence' = [id |-> a, acknowledged |-> FALSE]
        /\ gen' = [gen EXCEPT ![Worker] = @ + 1]
        /\ \E outcome \in {"requested", "rejected"} :
             /\ busy[Worker] => outcome = "rejected"
             /\ auth' = [auth EXCEPT !.att[a].closing = outcome]
  /\ UNCHANGED <<guests, busy>>

(* The child's answer, or the request's timeout. *)
WorkerAnswersClose(a) ==
  /\ auth.att[a].closing = "requested"
  /\ \/ /\ fence' = [fence EXCEPT !.acknowledged = TRUE]
        /\ gen' = [gen EXCEPT ![Worker] = @ + 1]
        /\ auth' = [auth EXCEPT !.att[a].closing = "closed"]
     \/ /\ auth' = [auth EXCEPT !.att[a].closing = "rejected"]
        /\ UNCHANGED <<fence, gen>>
  /\ UNCHANGED <<guests, busy>>

(* Mutant: the release does not wait for the close to settle. *)
ReleaseStartsAtOnce(a) ==
  /\ auth.att[a].cleanup = "joining"
  /\ auth' = [auth EXCEPT !.att[a].cleanup = "releasing"]
  /\ UNCHANGED <<guests, busy, gen, fence>>

(* The cleanup of reopen joins the close, however it settled. *)
ReleaseStarts(a) ==
  /\ auth.att[a].cleanup = "joining"
  /\ auth.att[a].closing \in {"closed", "rejected"}
  /\ auth' = [auth EXCEPT !.att[a].cleanup = "releasing"]
  /\ UNCHANGED <<guests, busy, gen, fence>>

(* Another attempt's fence is a conflict; a failed or unacknowledged       *)
(* release leaves the worker closed and latches the failure.               *)
WorkerReleases(a) ==
  /\ auth.att[a].cleanup = "releasing"
  /\ \/ /\ fence.id \in {0, a}
        /\ fence' = NoFence
        /\ gen' = IF fence.id = a THEN [gen EXCEPT ![Worker] = @ + 1] ELSE gen
        /\ auth' = LeaseReleased([auth EXCEPT !.att[a].cleanup = "done"])
     \/ /\ fence.id # 0
        /\ auth' = LeaseReleased([auth EXCEPT !.att[a].cleanup = "done", !.latch = TRUE])
        /\ UNCHANGED <<fence, gen>>
  /\ UNCHANGED <<guests, busy>>
-----------------------------------------------------------------------------
(* prepareInner after the fence: the attempt may be gone, the close may    *)
(* have failed or be too late, something may have happened meanwhile.      *)
Fenced(a) ==
  LET my == auth.att[a]
  IN /\ my.step = "fencing"
     /\ \/ my.closing \in {"closed", "rejected"}
        \/ my.late
     /\ \/ /\ auth.current # a
           /\ auth' = Ended(auth, a)
        \/ /\ auth.current = a
           /\ my.closing = "rejected" \/ my.late
              \/ my.readRevision # auth.revision \/ auth.ingress # 0
           /\ auth' = Reopened(Ended(auth, a), a)
        \/ /\ auth.current = a
           /\ my.closing = "closed"
           /\ my.readRevision = auth.revision /\ auth.ingress = 0
           /\ auth' = Reading(auth, a, "reading")
     /\ UNCHANGED <<guests, busy, gen, fence>>

(* One reader answers: idle at the generation the read began at, or else   *)
(* busy, stale, incomplete, failed or too late.                            *)
ReadOwner(a, o) ==
  LET my == auth.att[a]
  IN /\ my.step \in {"reading", "rereading"}
     /\ my.seen[o] = "pending"
     /\ \E result \in {"idle", "blocked"} :
          /\ result = "idle" =>
               /\ ~busy[o] /\ gen[o] = my.readGen[o] /\ ~my.late
               /\ o = Worker => fence.id = a /\ fence.acknowledged
          /\ auth' = [auth EXCEPT !.att[a].seen[o] = result]
     /\ UNCHANGED <<guests, busy, gen, fence>>

(* snapshot after all reads. *)
SnapshotReturns(a) ==
  LET st == Expired(auth)
      my == auth.att[a]
  IN /\ my.step \in {"reading", "rereading"}
     /\ \A o \in Owners : my.seen[o] # "pending"
     /\ auth' = [st EXCEPT !.att[a] =
          [@ EXCEPT
             !.step = IF my.step = "reading" THEN "returned" ELSE "rereturned",
             !.readRevision = st.revision,
             !.clean = /\ \A o \in Owners : my.seen[o] = "idle"
                       /\ ~auth.latch /\ GenerationsHold(a) /\ ~my.late
                       /\ st.revision = my.readRevision /\ st.ingress = 0]]
     /\ UNCHANGED <<guests, busy, gen, fence>>

(* The proof still stands when the awaiting function continues. *)
ProofStands(st, a) ==
  /\ st.att[a].clean
  /\ GenerationsHold(a)
  /\ ~st.att[a].late
  /\ st.revision = st.att[a].readRevision
  /\ st.ingress = 0

(* The token is drawn and stands for the generations of the proof. *)
Proven(my, revision) ==
  [my EXCEPT !.phase = "prepared", !.step = "holding", !.late = FALSE,
             !.generations = my.readGen, !.preparedRevision = revision]

Holding(st, a) ==
  [st EXCEPT !.revision = @ + 1, !.att[a] = Proven(@, st.revision + 1)]

(* Mutant: an abandoned attempt that comes back is not noticed. *)
PrepareConcludesAnyway(a) ==
  /\ auth.att[a].step = "returned"
  /\ auth' = IF auth.att[a].clean
             THEN Holding(auth, a)
             ELSE Reopened(Ended(auth, a), a)
  /\ UNCHANGED <<guests, busy, gen, fence>>

(* The rest of prepareInner; drawing the token may fail. *)
PrepareConcludes(a) ==
  /\ auth.att[a].step = "returned"
  /\ \/ /\ auth.current # a
        /\ auth' = Ended(auth, a)
     \/ /\ auth.current = a
        /\ auth' = Reopened(Ended(auth, a), a)
     \/ /\ auth.current = a
        /\ ProofStands(auth, a)
        /\ auth' = Holding(auth, a)
  /\ UNCHANGED <<guests, busy, gen, fence>>
-----------------------------------------------------------------------------
(* commit, with the synchronous head of commitInner; a second call joins.  *)
Commit(a, e) ==
  LET st == Expired(auth)
  IN /\ st.current = a
     /\ st.att[a].phase = "prepared"
     /\ st.att[a].epoch = e
     /\ ~st.att[a].committing
     /\ auth' = Reading([st EXCEPT !.att[a].committing = TRUE], a, "rereading")
     /\ UNCHANGED <<guests, busy, gen, fence>>

Granted(my) == [my EXCEPT !.phase = "committed", !.answer = "ok"]

Committed(st, a) == [st EXCEPT !.revision = @ + 1, !.att[a] = Granted(@)]

(* Mutant: the generations are not compared with those of the proof the    *)
(* token stands for, nor looked at again after the await.                  *)
CommitConcludesUnchecked(a) ==
  LET st == Expired(auth)
  IN /\ auth.att[a].step = "rereturned"
     /\ auth' = IF st.current # a
                THEN Ended(st, a)
                ELSE IF st.att[a].clean /\ st.revision = st.att[a].preparedRevision
                        /\ st.ingress = 0
                THEN Committed(Ended(st, a), a)
                ELSE Reopened(Ended(st, a), a)
     /\ UNCHANGED <<guests, busy, gen, fence>>

(* The rest of commitInner: the second proof is at the generations of the  *)
(* first and nothing was admitted in between.                              *)
CommitConcludes(a) ==
  LET st == Expired(auth)
      proven == /\ ProofStands(st, a)
                /\ st.att[a].preparedRevision = st.att[a].readRevision
                /\ st.att[a].generations = st.att[a].readGen
  IN /\ auth.att[a].step = "rereturned"
     /\ \/ /\ st.current # a
           /\ auth' = Ended(st, a)
        \/ /\ st.current = a /\ ~proven
           /\ auth' = Reopened(Ended(st, a), a)
        \/ /\ st.current = a /\ proven
           /\ auth' = Committed(Ended(st, a), a)
     /\ UNCHANGED <<guests, busy, gen, fence>>

(* cancel; any token that was ever handed out may come back. *)
Cancel(a) ==
  LET st == Expired(auth)
  IN /\ st.current = a
     /\ st.att[a].phase \in {"prepared", "committed"}
     /\ auth' = Reopened(st, a)
     /\ UNCHANGED <<guests, busy, gen, fence>>

(* controllerLost does not look at the clock. *)
ControllerLost(e) ==
  /\ auth.current # 0 => auth.att[auth.current].phase # "committed"
  /\ LET st == [auth EXCEPT !.lost = @ \cup {e}]
     IN auth' = IF st.current # 0 /\ st.att[st.current].epoch = e
                THEN Reopened(st, st.current)
                ELSE st
  /\ UNCHANGED <<guests, busy, gen, fence>>

(* The contract of an owner: work begins and ends at any time, also without *)
(* an ingress, and the generation tells; a fenced worker begins none.       *)
OwnerChanges(o) ==
  /\ gen[o] < MaxGen
  /\ o = Worker /\ ~busy[o] => fence.id = 0
  /\ busy' = [busy EXCEPT ![o] = ~@]
  /\ gen' = [gen EXCEPT ![o] = @ + 1]
  /\ UNCHANGED <<auth, guests, fence>>
-----------------------------------------------------------------------------
(* The callbacks the runtime owes an attempt. *)
Continuation(a) ==
  \/ WorkerCloses(a) \/ WorkerAnswersClose(a)
  \/ ReleaseStarts(a) \/ WorkerReleases(a)
  \/ Fenced(a) \/ SnapshotReturns(a) \/ PrepareConcludes(a) \/ CommitConcludes(a)
  \/ \E o \in Owners : ReadOwner(a, o)

Next ==
  \/ Enter \/ EnterCompletion \/ Leave
  \/ \E e \in Epochs : Prepare(e) \/ ControllerLost(e)
  \/ Expire
  \/ \E a \in Attempts :
       \/ Continuation(a) \/ DeadlinePasses(a) \/ TokenLapses(a) \/ Cancel(a)
       \/ \E e \in Epochs : Commit(a, e)
  \/ \E o \in Owners : OwnerChanges(o)

Spec == Init /\ [][Next]_vars
=============================================================================
