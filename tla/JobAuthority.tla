---------------------------- MODULE JobAuthority ----------------------------
(***************************************************************************)
(* The durable job authority: the SQLite store of native/gajae-core        *)
(* (jobs.rs) that every job, run, event and session binding goes through.  *)
(*                                                                         *)
(* One process owns the database (an exclusive file lock), serves one      *)
(* request at a time and wraps every mutation in an IMMEDIATE transaction, *)
(* so an operation is one atomic step.  A rejected request rolls back and  *)
(* changes nothing: it is an action that is not enabled here.              *)
(*                                                                         *)
(* Callers are concurrent and may be arbitrarily late.  A mutation of an   *)
(* admitted job carries the lease (owner and generation) of the admission  *)
(* it belongs to, so the actions take a lease as a parameter and Next lets *)
(* a caller present every lease that was ever granted on the job.          *)
(***************************************************************************)
EXTENDS Integers, Sequences, FiniteSets

CONSTANTS
  Jobs,             \* job ids a caller may use
  Runs,             \* run ids; a run id is inserted at most once
  Sessions,         \* app session ids (the provider is always 'gjc')
  Owners,           \* lease owners: the orchestrator processes of the server
  Worktrees,        \* worktree descriptions: id, branch, base commit and root
  ProviderSessions, \* session ids the agent provider hands out
  EventIds,         \* event ids a caller makes up
  Payloads,         \* payloads of such events
  ArchivableJobs,   \* the jobs a user archives and unarchives
  Cap,              \* the concurrency limit a caller passes to an admission
  NULL              \* SQL NULL

(* The set of ended run states doubles as the set of terminal payloads. *)
Outcomes == {"succeeded", "failed", "aborted", "interrupted"}

(* job.interruptForShutdown names one event per run, and the client names  *)
(* the terminal event of a run after the run.                              *)
ShutdownId(r) == <<"shutdown-interrupted", r>>
TerminalId(r) == <<"run-terminal", r>>

AllEventIds ==
  EventIds \cup {ShutdownId(r) : r \in Runs} \cup {TerminalId(r) : r \in Runs}

AllPayloads == Payloads \cup Outcomes

ASSUME CapAssumption == Cap \in 1..64
ASSUME FiniteAssumption == IsFiniteSet(Jobs) /\ IsFiniteSet(Runs)
ASSUME ArchivableAssumption == ArchivableJobs \subseteq Jobs
ASSUME NullAssumption ==
  /\ NULL \notin Jobs /\ NULL \notin Runs /\ NULL \notin Sessions
  /\ NULL \notin Owners /\ NULL \notin Worktrees /\ NULL \notin ProviderSessions
ASSUME EventIdAssumption ==
  \A r \in Runs : ShutdownId(r) \notin EventIds /\ TerminalId(r) \notin EventIds

VARIABLES
  jobs,     \* the jobs table
  runs,     \* the runs table
  latest,   \* per job, its run with the largest rowid
  bindings, \* session_job_bindings: at most one row per job (UNIQUE(job_id))
  log       \* job_events, per job in sequence order (sequence = MAX + 1)

vars == <<jobs, runs, latest, bindings, log>>
-----------------------------------------------------------------------------
(* The job state machine (JobState). *)

Consuming == {"reserved", "queued", "running", "aborting"}
Terminal  == {"succeeded", "failed", "aborted"}
JobStates == Consuming \cup Terminal \cup {"ready", "interrupted"}

(* "ready" -> "queued" is not an edge: it is an admission (TurnAdmit). *)
CanTransitionTo(from, to) ==
  <<from, to>> \in
       ({"reserved"} \X {"queued", "aborted", "failed"})
  \cup ({"queued"}   \X {"running", "aborted", "failed"})
  \cup ({"running"}  \X {"aborting", "succeeded", "failed", "interrupted"})
  \cup ({"aborting"} \X {"aborted", "succeeded", "failed", "interrupted"})

Lease(owner, generation) == [owner |-> owner, generation |-> generation]

NoJob == [state |-> "absent", owner |-> NULL, generation |-> 0, next |-> 1,
          worktree |-> NULL, archived |-> FALSE]
NoRun == [job |-> NULL, session |-> NULL, state |-> "absent",
          provider |-> NULL, dispatched |-> FALSE]
NoBinding == [session |-> NULL, active |-> FALSE, provider |-> NULL]

Event(id, payload, run) == [id |-> id, payload |-> payload, run |-> run]
-----------------------------------------------------------------------------
(* Queries the operations share. *)

ConsumingJobs == {j \in Jobs : jobs[j].state \in Consuming}

(* Mutant: the limit is compared with <= instead of <. *)
HasCapacityOffByOne == Cardinality(ConsumingJobs) <= Cap

HasCapacity == Cardinality(ConsumingJobs) < Cap

(* verify_lease: the stored owner is set and both halves match. *)
VerifyLease(j, lease) ==
  /\ jobs[j].owner # NULL
  /\ lease = Lease(jobs[j].owner, jobs[j].generation)

OpenRun(r) == runs[r].state = "queued"

(* Mutant: the latest run of the job, ended or not. *)
LatestRun(j, r) == latest[j] = r

(* verify_current_run: the latest row of the job, and it has not ended. *)
CurrentRun(j, r) == latest[j] = r /\ OpenRun(r)

ActiveBinding(j, s) == bindings[j].active /\ bindings[j].session = s

(* Mutant: without the partial unique index on active bindings. *)
SessionNeedNotBeFree(s) == s \in Sessions

SessionIsFree(s) == \A k \in Jobs : ~ActiveBinding(k, s)

(* append: an id already in the log must come back with the same payload   *)
(* (then nothing is written), append_for_run also with the same run.       *)
Appendable(events, id, payload) ==
  \A i \in DOMAIN events : events[i].id = id => events[i].payload = payload

AppendableForRun(events, id, payload, r) ==
  \A i \in DOMAIN events :
    events[i].id = id => events[i].payload = payload /\ events[i].run = r

(* Mutant: a retried event is written again. *)
AppendedAgain(events, id, payload, r) == Append(events, Event(id, payload, r))

Appended(events, id, payload, r) ==
  IF \E i \in DOMAIN events : events[i].id = id
  THEN events
  ELSE Append(events, Event(id, payload, r))

(* Mutant: the new row starts in the state of its job. *)
InsertRunInJobState(j, r, s) ==
  /\ runs[r].state = "absent"
  /\ runs' = [runs EXCEPT ![r] = [NoRun EXCEPT !.job = j, !.session = s,
                                               !.state = jobs[j].state]]
  /\ latest' = [latest EXCEPT ![j] = r]

(* insert_run: run ids are a primary key; a new row is the job's latest. *)
InsertRun(j, r, s) ==
  /\ runs[r].state = "absent"
  /\ runs' = [runs EXCEPT ![r] = [NoRun EXCEPT !.job = j, !.session = s,
                                               !.state = "queued"]]
  /\ latest' = [latest EXCEPT ![j] = r]

(* Mutant: the new lease keeps the generation it finds. *)
LeasedSameGeneration(j, owner, state) ==
  [jobs EXCEPT ![j] = [jobs[j] EXCEPT !.state = state, !.owner = owner]]

(* A new tenure: the owner takes the next generation. *)
Leased(j, owner, state) ==
  [jobs EXCEPT ![j] = [jobs[j] EXCEPT !.state = state, !.owner = owner,
                                      !.generation = jobs[j].next,
                                      !.next = jobs[j].next + 1]]

(* The row a reservation inserts: its first lease has generation 1. *)
ReservedRow(owner) ==
  [state |-> "reserved", owner |-> owner, generation |-> 1, next |-> 2,
   worktree |-> NULL, archived |-> FALSE]

SetState(j, state) == [jobs EXCEPT ![j].state = state]

(* Mutant: the lease survives the end of the tenure. *)
ReleasedKeepingLease(j, state) == [jobs EXCEPT ![j].state = state]

Released(j, state) ==
  [jobs EXCEPT ![j] = [jobs[j] EXCEPT !.state = state, !.owner = NULL]]
-----------------------------------------------------------------------------
Init ==
  /\ jobs = [j \in Jobs |-> NoJob]
  /\ runs = [r \in Runs |-> NoRun]
  /\ latest = [j \in Jobs |-> NULL]
  /\ bindings = [j \in Jobs |-> NoBinding]
  /\ log = [j \in Jobs |-> <<>>]

(* lease.acquire *)
Acquire(j, owner) ==
  /\ jobs[j].state \notin Terminal \cup {"absent", "interrupted"}
  /\ jobs[j].owner = NULL
  /\ jobs' = Leased(j, owner, jobs[j].state)
  /\ UNCHANGED <<runs, latest, bindings, log>>

(* capacity.reserve: a job without a session binding. *)
Reserve(j, owner) ==
  /\ jobs[j].state = "absent"
  /\ HasCapacity
  /\ jobs' = [jobs EXCEPT ![j] = ReservedRow(owner)]
  /\ UNCHANGED <<runs, latest, bindings, log>>

(* job.reserveStart: the job row and its binding, or neither. *)
ReserveStart(j, s, owner) ==
  /\ HasCapacity
  /\ jobs[j].state = "absent"
  /\ SessionIsFree(s)
  /\ jobs' = [jobs EXCEPT ![j] = ReservedRow(owner)]
  /\ bindings' = [bindings EXCEPT ![j] = [session |-> s, active |-> TRUE,
                                          provider |-> NULL]]
  /\ UNCHANGED <<runs, latest, log>>

(* job.prepare: the worktree is recorded once; the same one is a no-op. *)
Prepare(j, lease, w) ==
  /\ VerifyLease(j, lease)
  /\ jobs[j].state = "reserved"
  /\ jobs[j].worktree = NULL
  /\ jobs' = [jobs EXCEPT ![j].worktree = w]
  /\ UNCHANGED <<runs, latest, bindings, log>>

(* Mutant: the job need not have been prepared. *)
AdmitUnprepared(j, lease, r, s) ==
  /\ VerifyLease(j, lease)
  /\ jobs[j].state = "reserved"
  /\ jobs' = SetState(j, "queued")
  /\ InsertRun(j, r, s)
  /\ UNCHANGED <<bindings, log>>

(* job.admit; on a queued job it only confirms the run it already has. *)
Admit(j, lease, r, s) ==
  /\ VerifyLease(j, lease)
  /\ jobs[j].worktree # NULL
  /\ jobs[j].state = "reserved"
  /\ jobs' = SetState(j, "queued")
  /\ InsertRun(j, r, s)
  /\ UNCHANGED <<bindings, log>>

(* job.readmit: an interrupted job becomes queued under a new generation;  *)
(* a live binding must be the caller's, a released one stops nobody.       *)
Readmit(j, owner, r, s) ==
  /\ jobs[j].state = "interrupted"
  /\ jobs[j].owner = NULL
  /\ bindings[j].active => ActiveBinding(j, s)
  /\ HasCapacity
  /\ jobs' = Leased(j, owner, "queued")
  /\ InsertRun(j, r, s)
  /\ UNCHANGED <<bindings, log>>

(* job.turnAdmit: the next turn of a ready job.  It does not look at  *)
(* the lease: one taken with Acquire on the ready job is fenced off.       *)
TurnAdmit(j, s, owner, r) ==
  /\ jobs[j].state = "ready"
  /\ HasCapacity
  /\ ActiveBinding(j, s)
  /\ jobs' = Leased(j, owner, "queued")
  /\ InsertRun(j, r, s)
  /\ UNCHANGED <<bindings, log>>

(* job.transition: edges to states that are not terminal; runs untouched. *)
Transition(j, lease, to) ==
  /\ to \notin Terminal
  /\ VerifyLease(j, lease)
  /\ CanTransitionTo(jobs[j].state, to)
  /\ jobs' = IF to = "interrupted" THEN Released(j, to) ELSE SetState(j, to)
  /\ UNCHANGED <<runs, latest, bindings, log>>

(* job.finalize: a terminal event and state for the job; runs untouched. *)
Finalize(j, lease, id, payload, to) ==
  /\ to \in Terminal
  /\ VerifyLease(j, lease)
  /\ CanTransitionTo(jobs[j].state, to)
  /\ Appendable(log[j], id, payload)
  /\ log' = [log EXCEPT ![j] = Appended(@, id, payload, NULL)]
  /\ jobs' = Released(j, to)
  /\ UNCHANGED <<runs, latest, bindings>>

(* job.markDispatching *)
MarkDispatching(j, lease, r) ==
  /\ VerifyLease(j, lease)
  /\ CurrentRun(j, r)
  /\ jobs[j].state \in {"queued", "running"}
  /\ runs' = [runs EXCEPT ![r].dispatched = TRUE]
  /\ UNCHANGED <<jobs, latest, bindings, log>>

(* run.bindProviderSession: set once, copied to the job's live binding if  *)
(* the run belongs to the bound session.                                   *)
BindProviderSession(j, lease, r, p) ==
  /\ VerifyLease(j, lease)
  /\ CurrentRun(j, r)
  /\ runs[r].provider \in {NULL, p}
  /\ runs' = [runs EXCEPT ![r].provider = p]
  /\ bindings' = IF ActiveBinding(j, runs[r].session)
                 THEN [bindings EXCEPT ![j].provider = p]
                 ELSE bindings
  /\ UNCHANGED <<jobs, latest, log>>

(* Mutant: the run ends and frees the slot without its terminal event. *)
FinalizeRunSilently(j, lease, r, outcome, id, payload) ==
  /\ VerifyLease(j, lease)
  /\ CurrentRun(j, r)
  /\ AppendableForRun(log[j], id, payload, r)
  /\ runs' = [runs EXCEPT ![r].state = outcome]
  /\ jobs' = Released(j, IF outcome = "interrupted" THEN "interrupted" ELSE "ready")
  /\ UNCHANGED <<latest, bindings, log>>

(* run.finalize: ends the current run, logs its terminal event, frees the  *)
(* slot and drops the lease, together.                                     *)
FinalizeRun(j, lease, r, outcome, id, payload) ==
  /\ VerifyLease(j, lease)
  /\ CurrentRun(j, r)
  /\ AppendableForRun(log[j], id, payload, r)
  /\ runs' = [runs EXCEPT ![r].state = outcome]
  /\ log' = [log EXCEPT ![j] = Appended(@, id, payload, r)]
  /\ jobs' = Released(j, IF outcome = "interrupted" THEN "interrupted" ELSE "ready")
  /\ UNCHANGED <<latest, bindings>>

(* Mutant: the job fails but its queued run stays open. *)
CancelAdmissionKeepingRun(j, lease, id, payload, terminal) ==
  /\ VerifyLease(j, lease)
  /\ jobs[j].state \in {"reserved", "queued"}
  /\ bindings' = [bindings EXCEPT ![j].active = FALSE]
  /\ jobs' = Released(j, "failed")
  /\ UNCHANGED <<runs, latest, log>>

(* job.cancelAdmission: a reservation or a queued run that was never       *)
(* dispatched fails; "terminal" is NULL or the id of a second event.       *)
CancelAdmission(j, lease, id, payload, terminal) ==
  LET noted == Appended(log[j], id, payload, NULL)
  IN /\ VerifyLease(j, lease)
     /\ jobs[j].state \in {"reserved", "queued"}
     /\ Appendable(log[j], id, payload)
     /\ terminal # NULL => Appendable(noted, terminal, "failed")
     /\ log' = [log EXCEPT ![j] =
                  IF terminal = NULL THEN noted
                  ELSE Appended(noted, terminal, "failed", NULL)]
     /\ runs' = [r \in Runs |-> IF runs[r].job = j /\ OpenRun(r)
                                THEN [runs[r] EXCEPT !.state = "failed"]
                                ELSE runs[r]]
     /\ bindings' = [bindings EXCEPT ![j].active = FALSE]
     /\ jobs' = Released(j, "failed")
     /\ UNCHANGED latest

(* event.append without a run *)
AppendEvent(j, lease, id, payload) ==
  /\ VerifyLease(j, lease)
  /\ Appendable(log[j], id, payload)
  /\ log' = [log EXCEPT ![j] = Appended(@, id, payload, NULL)]
  /\ UNCHANGED <<jobs, runs, latest, bindings>>

(* Mutant: a run's event is accepted on the lease alone. *)
AppendEventForAnyRun(j, lease, r, id, payload) ==
  /\ VerifyLease(j, lease)
  /\ runs[r].job = j
  /\ AppendableForRun(log[j], id, payload, r)
  /\ log' = [log EXCEPT ![j] = Appended(@, id, payload, r)]
  /\ UNCHANGED <<jobs, runs, latest, bindings>>

(* event.append with a run *)
AppendEventForRun(j, lease, r, id, payload) ==
  /\ VerifyLease(j, lease)
  /\ CurrentRun(j, r)
  /\ AppendableForRun(log[j], id, payload, r)
  /\ log' = [log EXCEPT ![j] = Appended(@, id, payload, r)]
  /\ UNCHANGED <<jobs, runs, latest, bindings>>

(* job.appendAdminEvent: post-run records, no lease needed. *)
AppendAdminEvent(j, id, payload) ==
  /\ jobs[j].state = "ready"
  /\ Appendable(log[j], id, payload)
  /\ log' = [log EXCEPT ![j] = Appended(@, id, payload, NULL)]
  /\ UNCHANGED <<jobs, runs, latest, bindings>>

(* binding.release: no lease is asked for. *)
ReleaseBinding(j) ==
  /\ bindings[j].active
  /\ bindings' = [bindings EXCEPT ![j].active = FALSE]
  /\ UNCHANGED <<jobs, runs, latest, log>>

(* job.archive and job.unarchive *)
Archive(j) ==
  /\ jobs[j].state \notin Consuming \cup {"absent"}
  /\ jobs' = [jobs EXCEPT ![j].archived = TRUE]
  /\ UNCHANGED <<runs, latest, bindings, log>>

Unarchive(j) ==
  /\ jobs[j].state # "absent"
  /\ jobs' = [jobs EXCEPT ![j].archived = FALSE]
  /\ UNCHANGED <<runs, latest, bindings, log>>

(* job.reconcile, job.interruptForShutdown and the opening of the store    *)
(* after a crash: whatever was in flight is interrupted, in one            *)
(* transaction.  The query names no order, so the events of one job's runs *)
(* land in any order.                                                      *)
ActiveRuns(j) ==
  {r \in Runs : /\ runs[r].job = j /\ OpenRun(r)
                /\ jobs[j].state \in {"queued", "running", "aborting"}}

Listings(S) ==
  {f \in [1..Cardinality(S) -> S] : \A x, y \in DOMAIN f : f[x] = f[y] => x = y}

(* Mutant: the jobs are interrupted, their runs are not. *)
ReconcileJobsOnly ==
  /\ jobs' = [j \in Jobs |->
                IF jobs[j].state \in Consuming
                THEN [jobs[j] EXCEPT !.state = "interrupted", !.owner = NULL]
                ELSE jobs[j]]
  /\ UNCHANGED <<runs, latest, bindings, log>>

Reconcile ==
  \E order \in [Jobs -> UNION {Listings(ActiveRuns(j)) : j \in Jobs}] :
    /\ \A j \in Jobs : order[j] \in Listings(ActiveRuns(j))
    /\ log' = [j \in Jobs |->
                 log[j] \o [i \in DOMAIN order[j] |->
                              Event(ShutdownId(order[j][i]), "interrupted", order[j][i])]]
    /\ runs' = [r \in Runs |->
                  IF \E j \in Jobs : r \in ActiveRuns(j)
                  THEN [runs[r] EXCEPT !.state = "interrupted"]
                  ELSE runs[r]]
    /\ jobs' = [j \in Jobs |->
                  IF jobs[j].state \in Consuming
                  THEN [jobs[j] EXCEPT !.state = "interrupted", !.owner = NULL]
                  ELSE jobs[j]]
    /\ UNCHANGED <<latest, bindings>>
-----------------------------------------------------------------------------
(* Every lease ever granted on j, current or stale. *)
GrantedLeases(j) == [owner : Owners, generation : 1..(jobs[j].next - 1)]

(* The operations of the store's protocol that anyone may call. *)
AdministrativeStep ==
  \/ \E j \in ArchivableJobs : Archive(j) \/ Unarchive(j)
  \/ \E j \in Jobs : ReleaseBinding(j)
  \/ \E j \in Jobs, id \in EventIds, payload \in Payloads :
       AppendAdminEvent(j, id, payload)
  \/ Reconcile

(* Any lease holder, using the whole protocol the process serves. *)
LeasedStep(j, lease) ==
  \/ \E w \in Worktrees : Prepare(j, lease, w)
  \/ \E r \in Runs, s \in Sessions : Admit(j, lease, r, s)
  \/ \E to \in JobStates : Transition(j, lease, to)
  \/ \E r \in Runs : MarkDispatching(j, lease, r)
  \/ \E r \in Runs, p \in ProviderSessions : BindProviderSession(j, lease, r, p)
  \/ \E id \in EventIds, payload \in Payloads :
       \/ \E to \in Terminal : Finalize(j, lease, id, payload, to)
       \/ \E terminal \in EventIds \cup {NULL} :
            CancelAdmission(j, lease, id, payload, terminal)
       \/ AppendEvent(j, lease, id, payload)
       \/ \E r \in Runs : AppendEventForRun(j, lease, r, id, payload)
       \/ \E r \in Runs, outcome \in Outcomes :
            FinalizeRun(j, lease, r, outcome, id, payload)

AdmissionStep(j) ==
  \E owner \in Owners :
    \/ Acquire(j, owner)
    \/ Reserve(j, owner)
    \/ \E s \in Sessions : ReserveStart(j, s, owner)
    \/ \E r \in Runs, s \in Sessions :
         Readmit(j, owner, r, s) \/ TurnAdmit(j, s, owner, r)

Next ==
  \/ AdministrativeStep
  \/ \E j \in Jobs : AdmissionStep(j)
  \/ \E j \in Jobs : \E lease \in GrantedLeases(j) : LeasedStep(j, lease)

Spec == Init /\ [][Next]_vars
-----------------------------------------------------------------------------
(***************************************************************************)
(* The part of the protocol the server uses: gjc-job-orchestrator.ts and   *)
(* its client never acquire a bare lease, finalize a job, reserve without  *)
(* a session or append an event outside a run; a terminal event is named   *)
(* after its run and carries the outcome; an interrupted job is readmitted *)
(* only with a worktree and through the session bound to it.               *)
(***************************************************************************)
ClientLeasedStep(j, lease) ==
  \/ \E w \in Worktrees : Prepare(j, lease, w)
  \/ \E r \in Runs, s \in Sessions : Admit(j, lease, r, s)
  \/ \E to \in {"running", "aborting"} : Transition(j, lease, to)
  \/ \E r \in Runs : MarkDispatching(j, lease, r)
  \/ \E r \in Runs, p \in ProviderSessions : BindProviderSession(j, lease, r, p)
  \/ \E id \in EventIds, payload \in Payloads :
       \/ \E r \in Runs : AppendEventForRun(j, lease, r, id, payload)
       \/ CancelAdmission(j, lease, id, payload, NULL)
       \/ \E r \in Runs : /\ latest[j] = r
                          /\ CancelAdmission(j, lease, id, payload, TerminalId(r))
  \/ \E r \in Runs, outcome \in Outcomes :
       FinalizeRun(j, lease, r, outcome, TerminalId(r), outcome)

ClientAdmissionStep(j) ==
  \E owner \in Owners, s \in Sessions :
    \/ ReserveStart(j, s, owner)
    \/ \E r \in Runs :
         \/ /\ jobs[j].worktree # NULL
            /\ ActiveBinding(j, s)
            /\ Readmit(j, owner, r, s)
         \/ TurnAdmit(j, s, owner, r)

ClientNext ==
  \/ AdministrativeStep
  \/ \E j \in Jobs : ClientAdmissionStep(j)
  \/ \E j \in Jobs : \E lease \in GrantedLeases(j) : ClientLeasedStep(j, lease)

ClientSpec == Init /\ [][ClientNext]_vars
=============================================================================
