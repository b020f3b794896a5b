---------------------- MODULE DesktopRestartProperties ----------------------
(* What the restart authority promises the updater and the users' work.    *)
EXTENDS DesktopRestartAuthority

Phases == {"unused", "preparing", "prepared", "committed", "reopened"}

Steps == {"none", "fencing", "reading", "returned", "holding", "rereading",
          "rereturned", "done"}

AttemptRecord ==
  [phase : Phases, epoch : Epochs \cup {NULL}, step : Steps,
   closing : {"none", "called", "requested", "closed", "rejected"},
   cleanup : {"none", "joining", "releasing", "done"},
   late : BOOLEAN, lapsed : BOOLEAN, clean : BOOLEAN,
   readRevision : Nat, readGen : [Owners -> Nat],
   seen : [Owners -> {"pending", "idle", "blocked"}],
   generations : [Owners -> Nat], preparedRevision : Nat,
   committing : BOOLEAN, answer : {"none", "ok", "failed"}]

(* The authority's fields, its attempts and its owners are well-typed.     *)
TypeOK ==
  /\ auth \in [ingress : Nat, revision : Nat, current : 0..MaxAttempts,
               sequence : 0..MaxAttempts, lost : SUBSET Epochs, latch : BOOLEAN,
               att : [Attempts -> AttemptRecord]]
  /\ guests \in Nat
  /\ busy \in [Owners -> BOOLEAN]
  /\ gen \in [Owners -> Nat]
  /\ fence \in [id : 0..MaxAttempts, acknowledged : BOOLEAN]

CleaningUp == {a \in Attempts : auth.att[a].cleanup \in {"joining", "releasing"}}

(* The ingress counter is the leases callers hold plus the fences being    *)
(* released: it never leaks a lease, and nothing is released twice.        *)
IngressIsAccounted == auth.ingress = guests + Cardinality(CleaningUp)

(* While a token can be committed, or is, its own fence keeps the worker   *)
(* closed: no earlier attempt's late cleanup opened it, and nobody but the *)
(* current attempt is past admission.                                      *)
TokenHoldsWorker ==
  \A a \in Attempts : auth.att[a].phase \in {"prepared", "committed"} =>
    auth.current = a /\ fence = [id |-> a, acknowledged |-> TRUE]

(* The worker is closed only for the current attempt, for one whose        *)
(* release is under way, or because a release failed and was latched: a    *)
(* close that settles after its attempt was given up is undone.            *)
NoStrayFence ==
  fence.id # 0 => \/ fence.id = auth.current
                  \/ fence.id \in CleaningUp
                  \/ auth.latch

(* The answer to a commit is the truth, also when a cancel, an expiry or a *)
(* lost controller raced it: "ok" is told of the attempt that is committed *)
(* and "failed" of one that never will be.                                 *)
CommitAnswerIsTrue ==
  \A a \in Attempts :
    /\ auth.att[a].answer = "ok" <=> auth.att[a].phase = "committed"
    /\ auth.att[a].answer = "failed" => auth.att[a].phase = "reopened"

(* What an attempt holds is what it was told: fences and tokens belong to  *)
(* the current attempt and commits are answered truthfully, in whatever    *)
(* order cancels, expiries, lost controllers and late cleanups come back.  *)
AttemptsAreKept == TokenHoldsWorker /\ NoStrayFence /\ CommitAnswerIsTrue

(* At the very moment of the commit every owner is idle, at the generation *)
(* it had when the token was earned, and nobody is inside: the reads are   *)
(* asynchronous and of different moments, the proof is of one.             *)
CommitIsProven ==
  [][\A a \in Attempts :
       auth.att[a].phase # "committed" /\ auth'.att[a].phase = "committed" =>
         /\ \A o \in Owners : ~busy[o] /\ gen[o] = auth.att[a].generations[o]
         /\ guests = 0 /\ CleaningUp = {}]_vars

(* A committed restart is final and admits nothing: no timer, cancel or    *)
(* completion gets in before the process is replaced.                      *)
CommitIsFinal ==
  [][\A a \in Attempts : auth.att[a].phase = "committed" =>
       auth'.att[a].phase = "committed" /\ guests' = 0 /\ fence' = fence]_vars

=============================================================================
