------------------------- MODULE JobAuthorityProofs -------------------------
(***************************************************************************)
(* Theorems about the job authority, for any jobs, runs, sessions, owners, *)
(* events and any cap.                                                     *)
(***************************************************************************)
EXTENDS JobAuthorityProperties, FiniteSetTheorems, TLAPS

(***************************************************************************)
(* The two next-state relations differ in the event ids and payloads they  *)
(* use and in guards.  AnyNext covers both, so each invariant is proved    *)
(* once.                                                                   *)
(***************************************************************************)
AnyLeasedStep(j, lease) ==
  \/ \E w \in Worktrees : Prepare(j, lease, w)
  \/ \E r \in Runs, s \in Sessions : Admit(j, lease, r, s)
  \/ \E to \in JobStates : Transition(j, lease, to)
  \/ \E r \in Runs : MarkDispatching(j, lease, r)
  \/ \E r \in Runs, p \in ProviderSessions : BindProviderSession(j, lease, r, p)
  \/ \E id \in AllEventIds, payload \in AllPayloads :
       \/ \E to \in Terminal : Finalize(j, lease, id, payload, to)
       \/ \E terminal \in AllEventIds \cup {NULL} :
            CancelAdmission(j, lease, id, payload, terminal)
       \/ AppendEvent(j, lease, id, payload)
       \/ \E r \in Runs : AppendEventForRun(j, lease, r, id, payload)
       \/ \E r \in Runs, outcome \in Outcomes :
            FinalizeRun(j, lease, r, outcome, id, payload)

AnyAdministrativeStep ==
  \/ \E j \in Jobs : Archive(j) \/ Unarchive(j)
  \/ \E j \in Jobs : ReleaseBinding(j)
  \/ \E j \in Jobs, id \in AllEventIds, payload \in AllPayloads :
       AppendAdminEvent(j, id, payload)
  \/ Reconcile

AnyNext ==
  \/ AnyAdministrativeStep
  \/ \E j \in Jobs : AdmissionStep(j)
  \/ \E j \in Jobs : \E lease \in GrantedLeases(j) : AnyLeasedStep(j, lease)

(* Whatever anyone may do is an instance of AnyNext. *)
LEMMA NextIsAny == Next => AnyNext
<1>1. AdministrativeStep => AnyAdministrativeStep
  BY ArchivableAssumption
     DEF AdministrativeStep, AnyAdministrativeStep, AllEventIds, AllPayloads
<1>2. ASSUME NEW j \in Jobs, NEW lease \in GrantedLeases(j), LeasedStep(j, lease)
      PROVE  AnyLeasedStep(j, lease)
  BY <1>2 DEF LeasedStep, AnyLeasedStep, AllEventIds, AllPayloads
<1> QED BY <1>1, <1>2 DEF Next, AnyNext

(* Every step of the server's client is a step of the whole protocol or a  *)
(* use of it with a terminal event id, so facts about AnyNext serve both.  *)
LEMMA ClientNextIsAny == ClientNext => AnyNext
<1>1. AdministrativeStep => AnyAdministrativeStep
  BY ArchivableAssumption
     DEF AdministrativeStep, AnyAdministrativeStep, AllEventIds, AllPayloads
<1>2. ASSUME NEW j \in Jobs, NEW lease \in GrantedLeases(j), ClientLeasedStep(j, lease)
      PROVE  AnyLeasedStep(j, lease)
  BY <1>2 DEF ClientLeasedStep, AnyLeasedStep, AllEventIds, AllPayloads,
              JobStates, Consuming
<1>3. ASSUME NEW j \in Jobs, ClientAdmissionStep(j)
      PROVE  AdmissionStep(j)
  BY <1>3 DEF ClientAdmissionStep, AdmissionStep
<1> QED BY <1>1, <1>2, <1>3 DEF ClientNext, AnyNext
-----------------------------------------------------------------------------
(* Lemmas about the operators the actions are built from. *)

(* Every id and payload an action writes makes a well-typed event. *)
LEMMA EventType ==
  ASSUME NEW id \in AllEventIds, NEW payload \in AllPayloads, NEW r \in Runs \cup {NULL}
  PROVE  Event(id, payload, r) \in EventRow
BY DEF Event, EventRow

(* Appending to a log, or finding the event there, keeps it a log. *)
LEMMA AppendedType ==
  ASSUME NEW events \in Seq(EventRow),
         NEW id \in AllEventIds, NEW payload \in AllPayloads, NEW r \in Runs \cup {NULL}
  PROVE  Appended(events, id, payload, r) \in Seq(EventRow)
BY EventType DEF Appended

(* insert_run writes a well-typed row and makes it the job's latest.       *)
LEMMA InsertRunType ==
  ASSUME TypeOK, NEW j \in Jobs, NEW r \in Runs, NEW s \in Sessions, InsertRun(j, r, s)
  PROVE  /\ runs' \in [Runs -> RunRow]
         /\ latest' \in [Jobs -> Runs \cup {NULL}]
BY DEF TypeOK, InsertRun, NoRun, RunRow

(* Replacing one row of the jobs table by a well-typed row keeps its type. *)
LEMMA JobRowChanged ==
  ASSUME TypeOK, NEW j \in Jobs, NEW row \in JobRow
  PROVE  [jobs EXCEPT ![j] = row] \in [Jobs -> JobRow]
BY DEF TypeOK

(* The row a reservation inserts is well-typed.                            *)
LEMMA ReservedRowType ==
  ASSUME NEW owner \in Owners
  PROVE  ReservedRow(owner) \in JobRow
BY DEF ReservedRow, JobRow, JobStates, Consuming

(* A new tenure leaves the jobs table well-typed.                          *)
LEMMA LeasedType ==
  ASSUME TypeOK, NEW j \in Jobs, NEW owner \in Owners, NEW state \in JobStates \cup {"absent"}
  PROVE  Leased(j, owner, state) \in [Jobs -> JobRow]
<1> DEFINE row == [jobs[j] EXCEPT !.state = state, !.owner = owner,
                                  !.generation = jobs[j].next,
                                  !.next = jobs[j].next + 1]
<1>1. jobs[j] \in JobRow
  BY DEF TypeOK
<1>2. /\ jobs[j].next \in Nat
      /\ jobs[j].next + 1 \in Nat \ {0}
  BY <1>1 DEF JobRow
<1>3. row \in JobRow
  BY <1>1, <1>2 DEF JobRow
<1> QED BY <1>3, JobRowChanged DEF Leased

(* A change of state leaves the jobs table well-typed.                     *)
LEMMA SetStateType ==
  ASSUME TypeOK, NEW j \in Jobs, NEW state \in JobStates
  PROVE  SetState(j, state) \in [Jobs -> JobRow]
BY DEF TypeOK, SetState, JobRow

(* The end of a tenure leaves the jobs table well-typed.                   *)
LEMMA ReleasedType ==
  ASSUME TypeOK, NEW j \in Jobs, NEW state \in JobStates
  PROVE  Released(j, state) \in [Jobs -> JobRow]
BY DEF TypeOK, Released, JobRow
-----------------------------------------------------------------------------
(* Type correctness. *)

(* job.reconcile leaves all tables well-typed.                             *)
LEMMA ReconcileType ==
  ASSUME TypeOK, Reconcile
  PROVE  TypeOK'
<1>1. PICK order \in [Jobs -> UNION {Listings(ActiveRuns(j)) : j \in Jobs}] :
        /\ \A j \in Jobs : order[j] \in Listings(ActiveRuns(j))
        /\ log' = [j \in Jobs |->
             log[j] \o [i \in DOMAIN order[j] |->
                Event(ShutdownId(order[j][i]), "interrupted", order[j][i])]]
  BY DEF Reconcile
<1>2. log' \in [Jobs -> Seq(EventRow)]
  <2> SUFFICES ASSUME NEW j \in Jobs
               PROVE  log'[j] \in Seq(EventRow)
    BY <1>1
  <2> DEFINE n == Cardinality(ActiveRuns(j))
             added == [i \in DOMAIN order[j] |->
                        Event(ShutdownId(order[j][i]), "interrupted", order[j][i])]
  <2>1. n \in Nat
    BY FiniteAssumption, FS_Subset, FS_CardinalityType DEF ActiveRuns
  <2>2. order[j] \in [1..n -> Runs]
    BY <1>1 DEF Listings, ActiveRuns
  <2>3. \A i \in 1..n :
          Event(ShutdownId(order[j][i]), "interrupted", order[j][i]) \in EventRow
    <3> TAKE i \in 1..n
    <3>1. order[j][i] \in Runs
      BY <2>2
    <3>2. ShutdownId(order[j][i]) \in AllEventIds
      BY <3>1 DEF AllEventIds
    <3> QED BY <3>1, <3>2, EventType DEF AllPayloads, Outcomes
  <2>4. added \in [1..n -> EventRow]
    BY <2>2, <2>3
  <2>5. added \in Seq(EventRow)
    BY <2>1, <2>4
  <2>6. log[j] \in Seq(EventRow)
    BY DEF TypeOK
  <2> HIDE DEF added
  <2>7. log[j] \o added \in Seq(EventRow)
    BY <2>5, <2>6
  <2> QED BY <1>1, <2>7 DEF added
<1>3. runs' \in [Runs -> RunRow]
  <2>1. \A r \in Runs : /\ runs[r] \in RunRow
                        /\ [runs[r] EXCEPT !.state = "interrupted"] \in RunRow
    BY DEF TypeOK, RunRow, Outcomes
  <2> QED BY <2>1 DEF Reconcile
<1>4. jobs' \in [Jobs -> JobRow]
  <2>1. \A j \in Jobs :
          /\ jobs[j] \in JobRow
          /\ [jobs[j] EXCEPT !.state = "interrupted", !.owner = NULL] \in JobRow
    BY DEF TypeOK, JobRow, JobStates
  <2> QED BY <2>1 DEF Reconcile
<1> QED BY <1>2, <1>3, <1>4 DEF TypeOK, Reconcile

(* Every operation writes rows of the right type. *)
LEMMA TypePreserved ==
  ASSUME TypeOK, AnyNext
  PROVE  TypeOK'
<1>1. ASSUME NEW j \in Jobs, AdmissionStep(j)
      PROVE  TypeOK'
  <2>1. ASSUME NEW owner \in Owners, Acquire(j, owner)
        PROVE  TypeOK'
    <3>1. jobs[j].state \in JobStates \cup {"absent"}
      BY DEF TypeOK, JobRow
    <3>2. jobs' \in [Jobs -> JobRow]
      BY <2>1, <3>1, LeasedType DEF Acquire
    <3> QED BY <2>1, <3>2 DEF TypeOK, Acquire
  <2>2. ASSUME NEW owner \in Owners, Reserve(j, owner)
        PROVE  TypeOK'
    <3>1. jobs' \in [Jobs -> JobRow]
      BY <2>2, ReservedRowType, JobRowChanged DEF Reserve
    <3> QED BY <2>2, <3>1 DEF TypeOK, Reserve
  <2>3. ASSUME NEW owner \in Owners, NEW s \in Sessions, ReserveStart(j, s, owner)
        PROVE  TypeOK'
    <3>1. jobs' \in [Jobs -> JobRow]
      BY <2>3, ReservedRowType, JobRowChanged DEF ReserveStart
    <3>2. bindings' \in [Jobs -> BindingRow]
      BY <2>3 DEF TypeOK, ReserveStart, BindingRow
    <3> QED BY <2>3, <3>1, <3>2 DEF TypeOK, ReserveStart
  <2>4. ASSUME NEW owner \in Owners, NEW r \in Runs, NEW s \in Sessions,
               Readmit(j, owner, r, s) \/ TurnAdmit(j, s, owner, r)
        PROVE  TypeOK'
    <3>1. jobs' \in [Jobs -> JobRow]
      BY <2>4, LeasedType DEF Readmit, TurnAdmit, JobStates, Consuming
    <3>2. runs' \in [Runs -> RunRow] /\ latest' \in [Jobs -> Runs \cup {NULL}]
      BY <2>4, InsertRunType DEF Readmit, TurnAdmit
    <3> QED BY <2>4, <3>1, <3>2 DEF TypeOK, Readmit, TurnAdmit
  <2> QED BY <1>1, <2>1, <2>2, <2>3, <2>4 DEF AdmissionStep
<1>2. ASSUME NEW j \in Jobs, NEW lease \in GrantedLeases(j), AnyLeasedStep(j, lease)
      PROVE  TypeOK'
  <2>1. ASSUME NEW w \in Worktrees, Prepare(j, lease, w)
        PROVE  TypeOK'
    <3>1. [jobs[j] EXCEPT !.worktree = w] \in JobRow
      BY DEF TypeOK, JobRow
    <3>2. jobs' \in [Jobs -> JobRow]
      BY <2>1, <3>1, JobRowChanged DEF Prepare
    <3> QED BY <2>1, <3>2 DEF TypeOK, Prepare
  <2>2. ASSUME NEW r \in Runs, NEW s \in Sessions, Admit(j, lease, r, s)
        PROVE  TypeOK'
    <3>1. jobs' \in [Jobs -> JobRow]
      BY <2>2, SetStateType DEF Admit, JobStates, Consuming
    <3> QED BY <2>2, <3>1, InsertRunType DEF TypeOK, Admit
  <2>3. ASSUME NEW to \in JobStates, Transition(j, lease, to)
        PROVE  TypeOK'
    BY <2>3, SetStateType, ReleasedType DEF TypeOK, Transition
  <2>4. ASSUME NEW r \in Runs, MarkDispatching(j, lease, r)
        PROVE  TypeOK'
    BY <2>4 DEF TypeOK, MarkDispatching, RunRow
  <2>5. ASSUME NEW r \in Runs, NEW p \in ProviderSessions,
               BindProviderSession(j, lease, r, p)
        PROVE  TypeOK'
    <3>1. runs' \in [Runs -> RunRow]
      BY <2>5 DEF TypeOK, BindProviderSession, RunRow
    <3>2. bindings' \in [Jobs -> BindingRow]
      BY <2>5 DEF TypeOK, BindProviderSession, BindingRow
    <3> QED BY <2>5, <3>1, <3>2 DEF TypeOK, BindProviderSession
  <2>6. ASSUME NEW id \in AllEventIds, NEW payload \in AllPayloads, NEW to \in Terminal,
               Finalize(j, lease, id, payload, to)
        PROVE  TypeOK'
    <3>1. jobs' \in [Jobs -> JobRow]
      BY <2>6, ReleasedType DEF Finalize, JobStates
    <3>2. log' \in [Jobs -> Seq(EventRow)]
      BY <2>6, AppendedType DEF TypeOK, Finalize
    <3> QED BY <2>6, <3>1, <3>2 DEF TypeOK, Finalize
  <2>7. ASSUME NEW id \in AllEventIds, NEW payload \in AllPayloads,
               NEW terminal \in AllEventIds \cup {NULL},
               CancelAdmission(j, lease, id, payload, terminal)
        PROVE  TypeOK'
    <3>1. jobs' \in [Jobs -> JobRow]
      BY <2>7, ReleasedType DEF CancelAdmission, JobStates, Terminal
    <3>2. log' \in [Jobs -> Seq(EventRow)]
      <4> DEFINE noted == Appended(log[j], id, payload, NULL)
      <4>1. noted \in Seq(EventRow)
        BY AppendedType DEF TypeOK
      <4>2. terminal # NULL => Appended(noted, terminal, "failed", NULL) \in Seq(EventRow)
        BY <4>1, AppendedType DEF AllPayloads, Outcomes
      <4> QED BY <2>7, <4>1, <4>2 DEF TypeOK, CancelAdmission
    <3>3. runs' \in [Runs -> RunRow]
      <4>1. \A r \in Runs : [runs[r] EXCEPT !.state = "failed"] \in RunRow
        BY DEF TypeOK, RunRow, Outcomes
      <4>2. \A r \in Runs : runs[r] \in RunRow
        BY DEF TypeOK
      <4> QED BY <2>7, <4>1, <4>2 DEF CancelAdmission
    <3>4. bindings' \in [Jobs -> BindingRow]
      BY <2>7 DEF TypeOK, CancelAdmission, BindingRow
    <3> QED BY <2>7, <3>1, <3>2, <3>3, <3>4 DEF TypeOK, CancelAdmission
  <2>8. ASSUME NEW id \in AllEventIds, NEW payload \in AllPayloads,
               AppendEvent(j, lease, id, payload)
        PROVE  TypeOK'
    BY <2>8, AppendedType DEF TypeOK, AppendEvent
  <2>9. ASSUME NEW id \in AllEventIds, NEW payload \in AllPayloads, NEW r \in Runs,
               AppendEventForRun(j, lease, r, id, payload)
        PROVE  TypeOK'
    BY <2>9, AppendedType DEF TypeOK, AppendEventForRun
  <2>10. ASSUME NEW id \in AllEventIds, NEW payload \in AllPayloads, NEW r \in Runs,
                NEW outcome \in Outcomes, FinalizeRun(j, lease, r, outcome, id, payload)
         PROVE  TypeOK'
    <3>1. jobs' \in [Jobs -> JobRow]
      BY <2>10, ReleasedType DEF FinalizeRun, JobStates
    <3>2. log' \in [Jobs -> Seq(EventRow)]
      BY <2>10, AppendedType DEF TypeOK, FinalizeRun
    <3>3. runs' \in [Runs -> RunRow]
      BY <2>10 DEF TypeOK, FinalizeRun, RunRow
    <3> QED BY <2>10, <3>1, <3>2, <3>3 DEF TypeOK, FinalizeRun
  <2> QED BY <1>2, <2>1, <2>2, <2>3, <2>4, <2>5, <2>6, <2>7, <2>8, <2>9, <2>10
          DEF AnyLeasedStep
<1>3. ASSUME AnyAdministrativeStep
      PROVE  TypeOK'
  <2>1. ASSUME NEW j \in Jobs, Archive(j) \/ Unarchive(j)
        PROVE  TypeOK'
    <3>1. \A flag \in BOOLEAN : [jobs[j] EXCEPT !.archived = flag] \in JobRow
      BY DEF TypeOK, JobRow
    <3>2. jobs' \in [Jobs -> JobRow]
      BY <2>1, <3>1, JobRowChanged DEF Archive, Unarchive
    <3> QED BY <2>1, <3>2 DEF TypeOK, Archive, Unarchive
  <2>2. ASSUME NEW j \in Jobs, ReleaseBinding(j)
        PROVE  TypeOK'
    BY <2>2 DEF TypeOK, ReleaseBinding, BindingRow
  <2>3. ASSUME NEW j \in Jobs, NEW id \in AllEventIds, NEW payload \in AllPayloads,
               AppendAdminEvent(j, id, payload)
        PROVE  TypeOK'
    BY <2>3, AppendedType DEF TypeOK, AppendAdminEvent
  <2> QED BY <1>3, <2>1, <2>2, <2>3, ReconcileType DEF AnyAdministrativeStep
<1> QED BY <1>1, <1>2, <1>3 DEF AnyNext

(* The empty store is well-typed.                                          *)
LEMMA TypeInit == Init => TypeOK
BY DEF Init, TypeOK, NoJob, NoRun, NoBinding, JobRow, RunRow, BindingRow

(* A stutter keeps the types.                                              *)
LEMMA TypeUnchanged == TypeOK /\ UNCHANGED vars => TypeOK'
BY DEF TypeOK, vars

(* The tables keep their types, for anyone using the protocol. *)
THEOREM TypeCorrect == Spec => []TypeOK
<1>1. TypeOK /\ [Next]_vars => TypeOK'
  BY NextIsAny, TypePreserved, TypeUnchanged
<1> QED BY TypeInit, <1>1, PTL DEF Spec

(* The tables stay well-typed under the server's own client as well.       *)
THEOREM ClientTypeCorrect == ClientSpec => []TypeOK
<1>1. TypeOK /\ [ClientNext]_vars => TypeOK'
  BY ClientNextIsAny, TypePreserved, TypeUnchanged
<1> QED BY TypeInit, <1>1, PTL DEF ClientSpec
-----------------------------------------------------------------------------
(***************************************************************************)
(* Leases and capacity.  What one step does to one row of the jobs table,  *)
(* as far as its state and its lease go, is one of four things.            *)
(***************************************************************************)
SameTenure(j) ==
  /\ jobs'[j].owner = jobs[j].owner
  /\ jobs'[j].generation = jobs[j].generation
  /\ jobs'[j].next = jobs[j].next

Untouched(j) == SameTenure(j) /\ jobs'[j].state = jobs[j].state

MovedOn(j) ==
  /\ SameTenure(j)
  /\ jobs[j].owner # NULL
  /\ jobs[j].state \in Consuming /\ jobs'[j].state \in Consuming

TenureEnded(j) ==
  /\ jobs'[j].owner = NULL
  /\ jobs'[j].generation = jobs[j].generation
  /\ jobs'[j].next = jobs[j].next
  /\ jobs[j].state # "absent"
  /\ jobs'[j].state \notin Consuming \cup {"absent"}

TenureBegun(j) ==
  /\ jobs'[j].owner # NULL
  /\ jobs'[j].generation = jobs[j].next
  /\ jobs'[j].next = jobs[j].next + 1
  /\ \/ jobs'[j].state = jobs[j].state /\ jobs[j].state \in Consuming \cup {"ready"}
     \/ jobs'[j].state \in Consuming /\ HasCapacity

RowStep(j) == Untouched(j) \/ MovedOn(j) \/ TenureEnded(j) \/ TenureBegun(j)

(* At most one row begins a tenure, and a consuming row either was one or  *)
(* is that row.                                                            *)
JobStep ==
  \/ \A k \in Jobs : Untouched(k) \/ TenureEnded(k)
  \/ \E j \in Jobs : RowStep(j) /\ \A k \in Jobs \ {j} : Untouched(k)

(* A row that does not exist yet has given out no generation. *)
AbsentIsFresh ==
  \A j \in Jobs : jobs[j].state = "absent" =>
    jobs[j].owner = NULL /\ jobs[j].generation = 0 /\ jobs[j].next = 1

LeaseInv == TypeOK /\ LeaseMatchesState /\ AbsentIsFresh

(* A step that replaces the row of one job is a job step of all jobs.      *)
LEMMA OneRowStep ==
  ASSUME TypeOK, NEW j \in Jobs, NEW row, jobs' = [jobs EXCEPT ![j] = row], RowStep(j)
  PROVE  JobStep
BY DEF TypeOK, JobStep, Untouched, SameTenure

(* An edge of the state machine that is not terminal stays among the       *)
(* consuming states or interrupts the job.                                 *)
LEMMA StateMovesOn ==
  ASSUME NEW from, NEW to, CanTransitionTo(from, to)
  PROVE  /\ from \in Consuming
         /\ to \notin Terminal \cup {"interrupted"} => to \in Consuming
BY DEF CanTransitionTo, Consuming, Terminal

(* Whatever the operation, what it does to a job row is one of the few     *)
(* kinds of change JobStep names.                                          *)
LEMMA EveryStepIsJobStep ==
  ASSUME LeaseInv, AnyNext
  PROVE  JobStep
<1> USE DEF LeaseInv
<1>1. ASSUME UNCHANGED jobs
      PROVE  JobStep
  BY <1>1 DEF JobStep, Untouched, SameTenure
<1>2. ASSUME NEW j \in Jobs, AdmissionStep(j)
      PROVE  JobStep
  <2>1. ASSUME NEW owner \in Owners, Acquire(j, owner)
        PROVE  JobStep
    <3>1. jobs' = [jobs EXCEPT ![j] =
             [jobs[j] EXCEPT !.state = jobs[j].state, !.owner = owner,
                             !.generation = jobs[j].next, !.next = jobs[j].next + 1]]
      BY <2>1 DEF Acquire, Leased
    <3>2. TenureBegun(j)
      BY <2>1, <3>1, NullAssumption
         DEF TypeOK, JobRow, TenureBegun, Acquire, JobStates, Terminal
    <3> QED BY <3>1, <3>2, OneRowStep DEF RowStep
  <2>2. ASSUME NEW owner \in Owners,
               Reserve(j, owner) \/ \E s \in Sessions : ReserveStart(j, s, owner)
        PROVE  JobStep
    <3>1. jobs' = [jobs EXCEPT ![j] = ReservedRow(owner)] /\ HasCapacity
      BY <2>2 DEF Reserve, ReserveStart
    <3>2. TenureBegun(j)
      BY <2>2, <3>1, NullAssumption
         DEF TypeOK, AbsentIsFresh, Reserve, ReserveStart, ReservedRow, TenureBegun, Consuming
    <3> QED BY <3>1, <3>2, OneRowStep DEF RowStep
  <2>3. ASSUME NEW owner \in Owners, NEW r \in Runs, NEW s \in Sessions,
               Readmit(j, owner, r, s) \/ TurnAdmit(j, s, owner, r)
        PROVE  JobStep
    <3>1. /\ HasCapacity
          /\ jobs' = [jobs EXCEPT ![j] =
               [jobs[j] EXCEPT !.state = "queued", !.owner = owner,
                               !.generation = jobs[j].next, !.next = jobs[j].next + 1]]
      BY <2>3 DEF Readmit, TurnAdmit, Leased
    <3>2. TenureBegun(j)
      BY <3>1, NullAssumption DEF TypeOK, JobRow, TenureBegun, Consuming
    <3> QED BY <3>1, <3>2, OneRowStep DEF RowStep
  <2> QED BY <1>2, <2>1, <2>2, <2>3 DEF AdmissionStep
<1>3. ASSUME NEW j \in Jobs, NEW lease \in GrantedLeases(j), AnyLeasedStep(j, lease)
      PROVE  JobStep
  <2>1. ASSUME NEW state \in JobStates, jobs[j].state # "absent",
               jobs' = Released(j, state), state \notin Consuming
        PROVE  JobStep
    <3>1. jobs' = [jobs EXCEPT ![j] = [jobs[j] EXCEPT !.state = state, !.owner = NULL]]
      BY <2>1 DEF Released
    <3>2. TenureEnded(j)
      BY <2>1, <3>1 DEF TypeOK, JobRow, TenureEnded, JobStates, Consuming, Terminal
    <3> QED BY <3>1, <3>2, OneRowStep DEF RowStep
  <2>2. ASSUME NEW state \in Consuming, jobs[j].owner # NULL, jobs[j].state \in Consuming,
               jobs' = SetState(j, state)
        PROVE  JobStep
    <3>1. jobs' = [jobs EXCEPT ![j] = [jobs[j] EXCEPT !.state = state]]
      BY <2>2 DEF TypeOK, JobRow, SetState
    <3>2. MovedOn(j)
      BY <2>2, <3>1 DEF TypeOK, JobRow, MovedOn, SameTenure
    <3> QED BY <3>1, <3>2, OneRowStep DEF RowStep
  <2>3. ASSUME VerifyLease(j, lease)
        PROVE  jobs[j].owner # NULL /\ jobs[j].state # "absent"
    BY <2>3 DEF VerifyLease, AbsentIsFresh
  <2>4. ASSUME NEW w \in Worktrees, Prepare(j, lease, w)
        PROVE  JobStep
    <3>1. jobs' = [jobs EXCEPT ![j] = [jobs[j] EXCEPT !.worktree = w]]
      BY <2>4 DEF TypeOK, JobRow, Prepare
    <3>2. Untouched(j)
      BY <3>1 DEF TypeOK, JobRow, Untouched, SameTenure
    <3> QED BY <3>1, <3>2, OneRowStep DEF RowStep
  <2>5. ASSUME NEW r \in Runs, NEW s \in Sessions, Admit(j, lease, r, s)
        PROVE  JobStep
    BY <2>5, <2>2, <2>3 DEF Admit, Consuming
  <2>6. ASSUME NEW to \in JobStates, Transition(j, lease, to)
        PROVE  JobStep
    <3>1. CASE to = "interrupted"
      BY <2>6, <3>1, <2>1, <2>3 DEF Transition, Consuming
    <3>2. CASE to # "interrupted"
      BY <2>6, <3>2, <2>2, <2>3, StateMovesOn DEF Transition
    <3> QED BY <3>1, <3>2
  <2>7. ASSUME NEW id \in AllEventIds, NEW payload \in AllPayloads, NEW to \in Terminal,
               Finalize(j, lease, id, payload, to)
        PROVE  JobStep
    BY <2>7, <2>1, <2>3 DEF Finalize, Terminal, Consuming, JobStates
  <2>8. ASSUME NEW id \in AllEventIds, NEW payload \in AllPayloads,
               NEW terminal \in AllEventIds \cup {NULL},
               CancelAdmission(j, lease, id, payload, terminal)
        PROVE  JobStep
    BY <2>8, <2>1, <2>3 DEF CancelAdmission, Terminal, Consuming, JobStates
  <2>9. ASSUME NEW id \in AllEventIds, NEW payload \in AllPayloads, NEW r \in Runs,
               NEW outcome \in Outcomes, FinalizeRun(j, lease, r, outcome, id, payload)
        PROVE  JobStep
    BY <2>9, <2>1, <2>3 DEF FinalizeRun, Consuming, JobStates
  <2>10. ASSUME NEW id \in AllEventIds, NEW payload \in AllPayloads, NEW r \in Runs,
                \/ MarkDispatching(j, lease, r)
                \/ \E p \in ProviderSessions : BindProviderSession(j, lease, r, p)
                \/ AppendEvent(j, lease, id, payload)
                \/ AppendEventForRun(j, lease, r, id, payload)
         PROVE  JobStep
    BY <2>10, <1>1 DEF MarkDispatching, BindProviderSession, AppendEvent, AppendEventForRun
  <2> QED
    BY <1>1, <1>3, <2>4, <2>5, <2>6, <2>7, <2>8, <2>9, <2>10
       DEF AnyLeasedStep, MarkDispatching, BindProviderSession, AppendEvent,
           AppendEventForRun
<1>4. ASSUME AnyAdministrativeStep
      PROVE  JobStep
  <2>1. ASSUME NEW j \in Jobs, Archive(j) \/ Unarchive(j)
        PROVE  JobStep
    <3>1. PICK flag \in BOOLEAN :
             jobs' = [jobs EXCEPT ![j] = [jobs[j] EXCEPT !.archived = flag]]
      BY <2>1 DEF TypeOK, JobRow, Archive, Unarchive
    <3>2. Untouched(j)
      BY <3>1 DEF TypeOK, JobRow, Untouched, SameTenure
    <3> QED BY <3>1, <3>2, OneRowStep DEF RowStep
  <2>2. ASSUME Reconcile
        PROVE  JobStep
    <3> SUFFICES ASSUME NEW k \in Jobs
                 PROVE  Untouched(k) \/ TenureEnded(k)
      BY DEF JobStep
    <3>1. jobs'[k] = IF jobs[k].state \in Consuming
                     THEN [jobs[k] EXCEPT !.state = "interrupted", !.owner = NULL]
                     ELSE jobs[k]
      BY <2>2 DEF Reconcile
    <3>2. jobs[k] \in JobRow
      BY DEF TypeOK
    <3> QED BY <3>1, <3>2 DEF JobRow, Untouched, SameTenure, TenureEnded, Consuming
  <2> QED
    BY <1>1, <1>4, <2>1, <2>2 DEF AnyAdministrativeStep, ReleaseBinding, AppendAdminEvent
<1> QED BY <1>2, <1>3, <1>4 DEF AnyNext

(* The empty store satisfies the inductive invariant.                      *)
LEMMA LeaseInvInit == Init => LeaseInv
BY TypeInit DEF Init, LeaseInv, LeaseMatchesState, AbsentIsFresh, NoJob, Consuming

(* Every operation preserves the inductive invariant.                      *)
LEMMA LeaseInvStep ==
  ASSUME LeaseInv, AnyNext \/ UNCHANGED vars
  PROVE  LeaseInv'
<1>1. CASE UNCHANGED vars
  BY <1>1, TypeUnchanged DEF LeaseInv, LeaseMatchesState, AbsentIsFresh, vars
<1>2. CASE AnyNext
  <2>1. TypeOK'
    BY <1>2, TypePreserved DEF LeaseInv
  <2>2. ASSUME NEW j \in Jobs
        PROVE  RowStep(j)
    BY <1>2, EveryStepIsJobStep DEF JobStep, RowStep
  <2>3. ASSUME NEW j \in Jobs
        PROVE  /\ jobs'[j].state \in Consuming => jobs'[j].owner # NULL
               /\ jobs'[j].owner # NULL => jobs'[j].state \in Consuming \cup {"ready"}
               /\ jobs'[j].generation < jobs'[j].next
               /\ jobs'[j].state = "absent" =>
                    /\ jobs'[j].owner = NULL
                    /\ jobs'[j].generation = 0 /\ jobs'[j].next = 1
    <3>1. /\ jobs[j].generation \in Nat /\ jobs[j].next \in Nat
          /\ jobs[j].generation < jobs[j].next
          /\ jobs[j].state \in Consuming => jobs[j].owner # NULL
          /\ jobs[j].owner # NULL => jobs[j].state \in Consuming \cup {"ready"}
          /\ jobs[j].state = "absent" =>
               jobs[j].owner = NULL /\ jobs[j].generation = 0 /\ jobs[j].next = 1
      BY DEF LeaseInv, TypeOK, JobRow, LeaseMatchesState, AbsentIsFresh
    <3>2. CASE Untouched(j)
      BY <3>1, <3>2 DEF Untouched, SameTenure
    <3>3. CASE MovedOn(j)
      BY <3>1, <3>3 DEF MovedOn, SameTenure, Consuming
    <3>4. CASE TenureEnded(j)
      BY <3>1, <3>4 DEF TenureEnded
    <3>5. CASE TenureBegun(j)
      BY <3>1, <3>5 DEF TenureBegun, Consuming
    <3> QED BY <2>2, <3>2, <3>3, <3>4, <3>5 DEF RowStep
  <2> QED BY <2>1, <2>3 DEF LeaseInv, LeaseMatchesState, AbsentIsFresh
<1> QED BY <1>1, <1>2

(* The inductive invariant of the lease theorems, for any caller.          *)
LEMMA LeaseInvHolds == Spec => []LeaseInv
<1>1. LeaseInv /\ [Next]_vars => LeaseInv'
  BY NextIsAny, LeaseInvStep
<1> QED BY LeaseInvInit, <1>1, PTL DEF Spec

(* A slot always has a holder and nothing else does but a ready job; no    *)
(* granted generation reaches the counter.                                 *)
THEOREM LeaseAlwaysMatchesState == Spec => []LeaseMatchesState
<1>1. LeaseInv => LeaseMatchesState
  BY DEF LeaseInv
<1> QED BY LeaseInvHolds, <1>1, PTL

(* Fencing: the generation under which a job is next held is larger than   *)
(* every generation it was held under before.                              *)
THEOREM FencingHolds == Spec => FencingTokenGrows
<1>1. ASSUME LeaseInv, [Next]_vars, NEW j \in Jobs,
             jobs'[j].owner # NULL,
             Lease(jobs'[j].owner, jobs'[j].generation)
               # Lease(jobs[j].owner, jobs[j].generation)
      PROVE  jobs'[j].generation > jobs[j].generation
  <2>1. CASE UNCHANGED vars
    BY <1>1, <2>1 DEF vars
  <2>2. CASE Next
    <3>1. RowStep(j)
      BY <1>1, <2>2, NextIsAny, EveryStepIsJobStep DEF JobStep, RowStep
    <3>2. /\ jobs[j].generation \in Nat /\ jobs[j].next \in Nat
          /\ jobs[j].generation < jobs[j].next
      BY <1>1 DEF LeaseInv, TypeOK, JobRow, LeaseMatchesState
    <3>3. TenureBegun(j)
      BY <1>1, <3>1 DEF RowStep, Untouched, MovedOn, SameTenure, TenureEnded, Lease
    <3> QED BY <3>2, <3>3 DEF TenureBegun
  <2> QED BY <1>1, <2>1, <2>2
<1>2. LeaseInv /\ [Next]_vars =>
        [\A j \in Jobs :
           jobs'[j].owner # NULL /\ Lease(jobs'[j].owner, jobs'[j].generation)
                                      # Lease(jobs[j].owner, jobs[j].generation)
             => jobs'[j].generation > jobs[j].generation]_vars
  BY <1>1
<1> QED BY LeaseInvHolds, <1>2, PTL DEF Spec, FencingTokenGrows
-----------------------------------------------------------------------------
(* Capacity. *)

(* The jobs counted by consuming_count are finitely many.                  *)
LEMMA ConsumingIsFinite ==
  /\ IsFiniteSet(ConsumingJobs)
  /\ Cardinality(ConsumingJobs) \in Nat
BY FiniteAssumption, FS_Subset, FS_CardinalityType DEF ConsumingJobs

(* Adding an element to a finite set adds at most one to its size.        *)
LEMMA OneMore ==
  ASSUME NEW S, NEW x, IsFiniteSet(S)
  PROVE  /\ IsFiniteSet(S \cup {x})
         /\ Cardinality(S \cup {x}) <= Cardinality(S) + 1
<1>0. Cardinality(S) \in Nat
  BY FS_CardinalityType
<1>1. CASE x \in S
  <2>1. S \cup {x} = S
    BY <1>1
  <2>2. IsFiniteSet(S \cup {x}) /\ Cardinality(S \cup {x}) = Cardinality(S)
    BY <2>1, Zenon
  <2> QED BY <1>0, <2>2
<1>2. CASE x \notin S
  <2>1. IsFiniteSet(S \cup {x}) /\ Cardinality(S \cup {x}) = Cardinality(S) + 1
    BY <1>2, FS_AddElement
  <2> QED BY <1>0, <2>1
<1> QED BY <1>1, <1>2

(* A step under the cap stays under it.                                   *)
LEMMA CapacityStep ==
  ASSUME LeaseInv, CapacityBound, AnyNext \/ UNCHANGED vars
  PROVE  CapacityBound'
<1>1. CASE UNCHANGED vars
  BY <1>1 DEF CapacityBound, ConsumingJobs, vars
<1>2. CASE AnyNext
  <2>1. Cap \in Int
    BY CapAssumption
  <2>2. CASE ConsumingJobs' \subseteq ConsumingJobs
    <3>1. Cardinality(ConsumingJobs') <= Cardinality(ConsumingJobs)
      BY <2>2, ConsumingIsFinite, FS_Subset
    <3>2. Cardinality(ConsumingJobs') \in Nat
      BY <2>2, ConsumingIsFinite, FS_Subset, FS_CardinalityType
    <3> QED BY <2>1, <3>1, <3>2, ConsumingIsFinite DEF CapacityBound
  <2>3. CASE /\ HasCapacity
             /\ \E j \in Jobs : ConsumingJobs' \subseteq ConsumingJobs \cup {j}
    <3>1. PICK j \in Jobs : ConsumingJobs' \subseteq ConsumingJobs \cup {j}
      BY <2>3
    <3>2. /\ IsFiniteSet(ConsumingJobs \cup {j})
          /\ Cardinality(ConsumingJobs \cup {j}) <= Cardinality(ConsumingJobs) + 1
      BY ConsumingIsFinite, OneMore
    <3>3. Cardinality(ConsumingJobs') <= Cardinality(ConsumingJobs \cup {j})
      BY <3>1, <3>2, FS_Subset
    <3>4. Cardinality(ConsumingJobs') \in Nat /\ Cardinality(ConsumingJobs \cup {j}) \in Nat
      BY <3>1, <3>2, FS_Subset, FS_CardinalityType
    <3> QED BY <2>1, <2>3, <3>2, <3>3, <3>4, ConsumingIsFinite DEF CapacityBound, HasCapacity
  <2>4. \/ ConsumingJobs' \subseteq ConsumingJobs
        \/ /\ HasCapacity
           /\ \E j \in Jobs : ConsumingJobs' \subseteq ConsumingJobs \cup {j}
    <3>1. JobStep
      BY <1>2, EveryStepIsJobStep
    <3>2. CASE \A k \in Jobs : Untouched(k) \/ TenureEnded(k)
      BY <3>2 DEF Untouched, TenureEnded, ConsumingJobs
    <3>3. CASE \E j \in Jobs : RowStep(j) /\ \A k \in Jobs \ {j} : Untouched(k)
      <4>1. PICK j \in Jobs : RowStep(j) /\ \A k \in Jobs \ {j} : Untouched(k)
        BY <3>3
      <4>2. ConsumingJobs' \subseteq ConsumingJobs \cup {j}
        BY <4>1 DEF Untouched, ConsumingJobs
      <4>3. CASE HasCapacity
        BY <4>2, <4>3
      <4>4. CASE ~HasCapacity
        <5>1. jobs'[j].state \in Consuming => jobs[j].state \in Consuming
          BY <4>1, <4>4 DEF RowStep, Untouched, MovedOn, TenureEnded, TenureBegun, Consuming
        <5> QED BY <4>2, <5>1 DEF ConsumingJobs
      <4> QED BY <4>3, <4>4
    <3> QED BY <3>1, <3>2, <3>3 DEF JobStep
  <2> QED BY <2>2, <2>3, <2>4
<1> QED BY <1>1, <1>2

(* The cap is never exceeded, whatever the cap and however many jobs.      *)
THEOREM CapacityHolds == Spec => []CapacityBound
<1>1. Init => CapacityBound
  <2>1. Init => ConsumingJobs = {}
    BY DEF Init, ConsumingJobs, NoJob, Consuming
  <2>2. Cardinality({}) = 0
    BY FS_EmptySet
  <2> QED BY <2>1, <2>2, CapAssumption DEF CapacityBound
<1>2. LeaseInv /\ CapacityBound /\ [Next]_vars => CapacityBound'
  BY NextIsAny, CapacityStep
<1> QED BY LeaseInvHolds, <1>1, <1>2, PTL DEF Spec
-----------------------------------------------------------------------------
(* Sessions.  A step activates at most one binding, for a free session.    *)

NoNewBinding ==
  \A k \in Jobs : bindings'[k].active =>
    bindings[k].active /\ bindings'[k].session = bindings[k].session

BindingStep ==
  \/ NoNewBinding
  \/ \E j \in Jobs, s \in Sessions :
       /\ SessionIsFree(s)
       /\ bindings' = [bindings EXCEPT ![j] = [session |-> s, active |-> TRUE,
                                               provider |-> NULL]]

(* Only reserveStart activates a binding.                                  *)
LEMMA EveryStepIsBindingStep ==
  ASSUME TypeOK, AnyNext \/ UNCHANGED vars
  PROVE  BindingStep
<1>1. ASSUME UNCHANGED bindings
      PROVE  BindingStep
  BY <1>1 DEF BindingStep, NoNewBinding
<1>2. ASSUME NEW j \in Jobs, AdmissionStep(j)
      PROVE  BindingStep
  <2>1. ASSUME NEW owner \in Owners, NEW s \in Sessions, ReserveStart(j, s, owner)
        PROVE  BindingStep
    BY <2>1 DEF ReserveStart, BindingStep
  <2> QED BY <1>1, <1>2, <2>1 DEF AdmissionStep, Acquire, Reserve, Readmit, TurnAdmit
<1>3. ASSUME NEW j \in Jobs, bindings' = [bindings EXCEPT ![j].active = FALSE]
      PROVE  BindingStep
  BY <1>3 DEF TypeOK, BindingRow, BindingStep, NoNewBinding
<1>4. ASSUME NEW j \in Jobs, NEW lease \in GrantedLeases(j), AnyLeasedStep(j, lease)
      PROVE  BindingStep
  <2>1. ASSUME NEW r \in Runs, NEW p \in ProviderSessions,
               BindProviderSession(j, lease, r, p)
        PROVE  BindingStep
    BY <2>1 DEF TypeOK, BindingRow, BindProviderSession, BindingStep, NoNewBinding
  <2>2. ASSUME NEW id, NEW payload, NEW terminal,
               CancelAdmission(j, lease, id, payload, terminal)
        PROVE  BindingStep
    BY <1>3, <2>2 DEF CancelAdmission
  <2> QED
    BY <1>1, <1>4, <2>1, <2>2
       DEF AnyLeasedStep, Prepare, Admit, Transition, MarkDispatching, Finalize,
           AppendEvent, AppendEventForRun, FinalizeRun
<1>5. ASSUME AnyAdministrativeStep
      PROVE  BindingStep
  BY <1>1, <1>3, <1>5
     DEF AnyAdministrativeStep, Archive, Unarchive, ReleaseBinding, AppendAdminEvent,
         Reconcile
<1> QED BY <1>1, <1>2, <1>4, <1>5 DEF AnyNext, vars

(* No two jobs are ever bound to one session at a time.                    *)
THEOREM SessionsHaveOneJob == Spec => []SessionHasOneJob
<1>1. Init => SessionHasOneJob
  BY DEF Init, NoBinding, SessionHasOneJob, ActiveBinding
<1>2. TypeOK /\ SessionHasOneJob /\ [Next]_vars => SessionHasOneJob'
  <2> SUFFICES ASSUME TypeOK, SessionHasOneJob, [Next]_vars
               PROVE  SessionHasOneJob'
    OBVIOUS
  <2>1. BindingStep
    BY NextIsAny, EveryStepIsBindingStep
  <2>2. CASE NoNewBinding
    BY <2>2 DEF NoNewBinding, SessionHasOneJob, ActiveBinding
  <2>3. ASSUME NEW j \in Jobs, NEW s \in Sessions, SessionIsFree(s),
               bindings' = [bindings EXCEPT ![j] = [session |-> s, active |-> TRUE,
                                                    provider |-> NULL]]
        PROVE  SessionHasOneJob'
    BY <2>3 DEF TypeOK, SessionIsFree, SessionHasOneJob, ActiveBinding
  <2> QED BY <2>1, <2>2, <2>3 DEF BindingStep
<1> QED BY TypeCorrect, <1>1, <1>2, PTL DEF Spec
-----------------------------------------------------------------------------
(* Runs.  Only an open run, or a run id that was never used, changes.      *)

(* What every write to the runs table leaves alone.                        *)
LEMMA EndedRowsStay ==
  ASSUME TypeOK, AnyNext \/ UNCHANGED vars, NEW r \in Runs, runs[r].state \in Outcomes
  PROVE  runs'[r] = runs[r]
<1>1. runs[r].state # "queued" /\ runs[r].state # "absent"
  BY DEF Outcomes
<1>2. ASSUME NEW j \in Jobs, NEW q \in Runs, NEW s \in Sessions, InsertRun(j, q, s)
      PROVE  runs'[r] = runs[r]
  BY <1>1, <1>2 DEF TypeOK, InsertRun
<1>3. ASSUME NEW j \in Jobs, AdmissionStep(j)
      PROVE  runs'[r] = runs[r]
  BY <1>2, <1>3 DEF AdmissionStep, Acquire, Reserve, ReserveStart, Readmit, TurnAdmit
<1>4. ASSUME NEW j \in Jobs, NEW lease \in GrantedLeases(j), AnyLeasedStep(j, lease)
      PROVE  runs'[r] = runs[r]
  <2>1. ASSUME NEW q \in Runs, NEW s \in Sessions, Admit(j, lease, q, s)
        PROVE  runs'[r] = runs[r]
    BY <1>2, <2>1 DEF Admit
  <2>2. ASSUME NEW q \in Runs, NEW id, NEW payload,
               \/ MarkDispatching(j, lease, q)
               \/ \E p \in ProviderSessions : BindProviderSession(j, lease, q, p)
               \/ \E outcome \in Outcomes : FinalizeRun(j, lease, q, outcome, id, payload)
        PROVE  runs'[r] = runs[r]
    BY <1>1, <2>2
       DEF TypeOK, CurrentRun, OpenRun, MarkDispatching, BindProviderSession, FinalizeRun
  <2>3. ASSUME NEW id, NEW payload, NEW terminal,
               CancelAdmission(j, lease, id, payload, terminal)
        PROVE  runs'[r] = runs[r]
    BY <1>1, <2>3 DEF CancelAdmission, OpenRun
  <2>4. ASSUME UNCHANGED runs
        PROVE  runs'[r] = runs[r]
    BY <2>4
  <2> QED
    BY <1>4, <2>1, <2>2, <2>3, <2>4
       DEF AnyLeasedStep, Prepare, Transition, MarkDispatching, BindProviderSession,
           Finalize, FinalizeRun, AppendEvent, AppendEventForRun
<1>5. ASSUME AnyAdministrativeStep
      PROVE  runs'[r] = runs[r]
  <2>1. CASE Reconcile
    BY <1>1, <2>1 DEF Reconcile, ActiveRuns, OpenRun
  <2> QED BY <1>5, <2>1
          DEF AnyAdministrativeStep, Archive, Unarchive, ReleaseBinding, AppendAdminEvent
<1> QED BY <1>3, <1>4, <1>5 DEF AnyNext, vars

(* A run that has ended is never written again: late calls are fenced.     *)
THEOREM EndedRunsStay == Spec => EndedRunIsFrozen
<1>1. TypeOK /\ [Next]_vars =>
        [\A r \in Runs : runs[r].state \in Outcomes => runs'[r] = runs[r]]_vars
  BY NextIsAny, EndedRowsStay
<1> QED BY TypeCorrect, <1>1, PTL DEF Spec, EndedRunIsFrozen
-----------------------------------------------------------------------------
(***************************************************************************)
(* What the tables of the job authority say about one another: the log is  *)
(* sealed for any caller; under the server's client the tables agree, and  *)
(* the store implements RunLedger.                                         *)
(***************************************************************************)
(***************************************************************************)
(* Rows.  Every operation but job.reconcile concerns one job: it writes    *)
(* the row of that job, and of runs only those that are its own or new.    *)
(***************************************************************************)
Working == {"queued", "running", "aborting"}

(* What a job row promises of the run it looks up as its latest. *)
JobRowAgrees(j) ==
  /\ latest[j] # NULL => runs[latest[j]].job = j /\ runs[latest[j]].state # "absent"
  /\ jobs[j].state \in {"absent", "reserved"} => latest[j] = NULL
  /\ jobs[j].state \in Working =>
       jobs[j].worktree # NULL /\ latest[j] # NULL /\ OpenRun(latest[j])
  /\ jobs[j].state = "ready" =>
       /\ jobs[j].worktree # NULL /\ jobs[j].owner = NULL
       /\ latest[j] # NULL /\ runs[latest[j]].state \in Outcomes

(* What an open run promises of its job. *)
RunRowAgrees(r) ==
  OpenRun(r) => \E j \in Jobs : /\ latest[j] = r /\ runs[r].job = j
                                /\ jobs[j].state \in Working

RowsAgree ==
  /\ \A j \in Jobs : JobRowAgrees(j)
  /\ \A r \in Runs : RunRowAgrees(r)

(* The rows a step on job j may write. *)
OnlyJob(j) ==
  /\ \A k \in Jobs \ {j} : jobs'[k] = jobs[k] /\ latest'[k] = latest[k]
  /\ \A r \in Runs : runs'[r] # runs[r] =>
       /\ runs[r].job = j \/ runs[r].state = "absent"
       /\ runs'[r].job = j /\ runs'[r].state # "absent"

(* A step on one job keeps all rows in agreement if it keeps that job and  *)
(* its open run in agreement.                                              *)
LEMMA OneJobStep ==
  ASSUME RowsAgree, TypeOK, NEW j \in Jobs, OnlyJob(j), JobRowAgrees(j)',
         \A r \in Runs : runs'[r].job = j /\ runs'[r].state = "queued" =>
           latest'[j] = r /\ jobs'[j].state \in Working
  PROVE  RowsAgree'
<1>1. ASSUME NEW k \in Jobs \ {j}
      PROVE  JobRowAgrees(k)'
  <2>1. JobRowAgrees(k) /\ jobs'[k] = jobs[k] /\ latest'[k] = latest[k]
    BY DEF RowsAgree, OnlyJob
  <2>2. latest[k] # NULL => latest[k] \in Runs /\ runs'[latest[k]] = runs[latest[k]]
    BY <2>1 DEF TypeOK, OnlyJob, JobRowAgrees
  <2> QED BY <2>1, <2>2 DEF JobRowAgrees, OpenRun
<1>2. ASSUME NEW r \in Runs
      PROVE  RunRowAgrees(r)'
  <2>1. CASE runs'[r] = runs[r]
    BY <2>1 DEF RowsAgree, RunRowAgrees, OpenRun, OnlyJob
  <2>2. CASE runs'[r] # runs[r]
    BY <2>2 DEF OnlyJob, RunRowAgrees, OpenRun
  <2> QED BY <2>1, <2>2
<1> QED BY <1>1, <1>2 DEF RowsAgree

(* A reservation has no run.                                               *)
LEMMA ReserveStartRows ==
  ASSUME RowsAgree, TypeOK, NEW j \in Jobs, NEW s \in Sessions, NEW owner \in Owners,
         ReserveStart(j, s, owner)
  PROVE  RowsAgree'
<1>1. OnlyJob(j)
  BY DEF ReserveStart, OnlyJob, TypeOK
<1>2. latest[j] = NULL /\ latest'[j] = NULL /\ runs' = runs /\ jobs'[j] = ReservedRow(owner)
  BY DEF ReserveStart, RowsAgree, JobRowAgrees, TypeOK
<1>3. JobRowAgrees(j)'
  BY <1>2 DEF JobRowAgrees, ReservedRow, Working
<1>4. \A r \in Runs : runs[r].job = j => ~OpenRun(r)
  BY <1>2, NullAssumption DEF RowsAgree, RunRowAgrees
<1> QED BY <1>1, <1>2, <1>3, <1>4, OneJobStep DEF OpenRun

(* A new run of a job that had none open is its latest and only one.       *)
LEMMA AdmissionRows ==
  ASSUME RowsAgree, TypeOK, NEW j \in Jobs, NEW r \in Runs, NEW s \in Sessions,
         InsertRun(j, r, s), jobs[j].state \notin Working,
         \A k \in Jobs \ {j} : jobs'[k] = jobs[k],
         jobs'[j].state = "queued", jobs'[j].worktree # NULL
  PROVE  RowsAgree'
<1>1. /\ runs[r].state = "absent"
      /\ runs'[r].job = j /\ runs'[r].state = "queued"
      /\ \A q \in Runs \ {r} : runs'[q] = runs[q]
      /\ latest'[j] = r /\ \A k \in Jobs \ {j} : latest'[k] = latest[k]
  BY DEF InsertRun, NoRun, TypeOK
<1>2. OnlyJob(j)
  BY <1>1 DEF OnlyJob
<1>3. JobRowAgrees(j)'
  BY <1>1, NullAssumption DEF JobRowAgrees, OpenRun, Working
<1>4. \A q \in Runs : runs[q].job = j => ~OpenRun(q)
  BY DEF RowsAgree, RunRowAgrees
<1> QED BY <1>1, <1>2, <1>3, <1>4, OneJobStep DEF OpenRun, Working

(* The state of a working job moves on, and its run stays open.            *)
LEMMA TransitionRows ==
  ASSUME RowsAgree, TypeOK, NEW j \in Jobs, NEW lease, NEW to \in {"running", "aborting"},
         Transition(j, lease, to)
  PROVE  RowsAgree'
<1>1. /\ jobs'[j].state = to /\ jobs'[j].worktree = jobs[j].worktree
      /\ \A k \in Jobs \ {j} : jobs'[k] = jobs[k]
      /\ runs' = runs /\ latest' = latest
  BY DEF Transition, SetState, TypeOK, JobRow
<1>2. jobs[j].state \in Working
  BY DEF Transition, CanTransitionTo, Working
<1>3. OnlyJob(j)
  BY <1>1 DEF OnlyJob
<1>4. JobRowAgrees(j)'
  BY <1>1, <1>2 DEF RowsAgree, JobRowAgrees, OpenRun, Working
<1>5. \A r \in Runs : runs[r].job = j /\ OpenRun(r) => latest[j] = r
  BY DEF RowsAgree, RunRowAgrees
<1> QED BY <1>1, <1>3, <1>4, <1>5, OneJobStep DEF OpenRun, Working

(* Writes to columns that no other table speaks of.                        *)
LEMMA ColumnRows ==
  ASSUME RowsAgree, TypeOK, latest' = latest,
         \A k \in Jobs : /\ jobs'[k].state = jobs[k].state
                         /\ jobs'[k].owner = jobs[k].owner
                         /\ jobs[k].worktree # NULL => jobs'[k].worktree # NULL,
         \A r \in Runs : runs'[r].state = runs[r].state /\ runs'[r].job = runs[r].job
  PROVE  RowsAgree'
<1>1. ASSUME NEW j \in Jobs
      PROVE  JobRowAgrees(j)'
  <2>1. latest[j] # NULL => latest[j] \in Runs
    BY DEF TypeOK
  <2> QED BY <2>1 DEF RowsAgree, JobRowAgrees, OpenRun
<1>2. ASSUME NEW r \in Runs
      PROVE  RunRowAgrees(r)'
  BY DEF RowsAgree, RunRowAgrees, OpenRun
<1> QED BY <1>1, <1>2 DEF RowsAgree

(* An open run that is the latest of a job belongs to it, and the job is   *)
(* at work.                                                                *)
LEMMA CurrentRunWorks ==
  ASSUME RowsAgree, NEW j \in Jobs, NEW r \in Runs, CurrentRun(j, r)
  PROVE  runs[r].job = j /\ jobs[j].state \in Working /\ jobs[j].worktree # NULL
BY NullAssumption DEF RowsAgree, RunRowAgrees, JobRowAgrees, CurrentRun

(* The end of a run leaves a job that is over with it.                     *)
LEMMA FinalizeRunRows ==
  ASSUME RowsAgree, TypeOK, NEW j \in Jobs, NEW lease, NEW r \in Runs,
         NEW outcome \in Outcomes, NEW id, NEW payload,
         FinalizeRun(j, lease, r, outcome, id, payload)
  PROVE  RowsAgree'
<1>1. /\ jobs'[j].state = IF outcome = "interrupted" THEN "interrupted" ELSE "ready"
      /\ jobs'[j].owner = NULL /\ jobs'[j].worktree = jobs[j].worktree
      /\ \A k \in Jobs \ {j} : jobs'[k] = jobs[k]
      /\ latest' = latest /\ latest[j] = r
      /\ runs'[r].state = outcome /\ runs'[r].job = runs[r].job
      /\ \A q \in Runs \ {r} : runs'[q] = runs[q]
  BY DEF FinalizeRun, Released, TypeOK, JobRow, RunRow, CurrentRun
<1>2. runs[r].job = j /\ jobs[j].worktree # NULL /\ outcome # "absent" /\ outcome # "queued"
  BY CurrentRunWorks DEF FinalizeRun, Outcomes
<1>3. OnlyJob(j)
  BY <1>1, <1>2 DEF OnlyJob
<1>4. JobRowAgrees(j)'
  BY <1>1, <1>2, NullAssumption DEF JobRowAgrees, Working
<1>5. \A q \in Runs : runs'[q].job = j => runs'[q].state # "queued"
  BY <1>1, <1>2 DEF RowsAgree, RunRowAgrees, OpenRun
<1> QED BY <1>3, <1>4, <1>5, OneJobStep

(* A cancelled admission leaves no open run.                               *)
LEMMA CancelAdmissionRows ==
  ASSUME RowsAgree, TypeOK, NEW j \in Jobs, NEW lease, NEW id, NEW payload, NEW terminal,
         CancelAdmission(j, lease, id, payload, terminal)
  PROVE  RowsAgree'
<1>1. /\ jobs'[j].state = "failed"
      /\ \A k \in Jobs \ {j} : jobs'[k] = jobs[k]
      /\ latest' = latest
      /\ \A r \in Runs : /\ runs'[r].job = runs[r].job
                         /\ runs[r].job = j /\ OpenRun(r) => runs'[r].state = "failed"
                         /\ ~(runs[r].job = j /\ OpenRun(r)) => runs'[r] = runs[r]
  BY DEF CancelAdmission, Released, TypeOK, JobRow, RunRow
<1>2. OnlyJob(j)
  BY <1>1 DEF OnlyJob
<1>3. JobRowAgrees(j)'
  BY <1>1 DEF RowsAgree, JobRowAgrees, Working, TypeOK
<1>4. \A r \in Runs : runs'[r].job = j => runs'[r].state # "queued"
  BY <1>1 DEF OpenRun
<1> QED BY <1>2, <1>3, <1>4, OneJobStep

(* The runs job.reconcile finds are exactly the open ones.                 *)
LEMMA ActiveRunsAreOpen ==
  ASSUME RowsAgree, TypeOK, NEW r \in Runs
  PROVE  OpenRun(r) <=> \E j \in Jobs : r \in ActiveRuns(j)
BY DEF RowsAgree, RunRowAgrees, ActiveRuns, Working

(* After a reconciliation nobody is at work and no run is open.            *)
LEMMA ReconcileRows ==
  ASSUME RowsAgree, TypeOK, Reconcile
  PROVE  RowsAgree'
<1>1. /\ latest' = latest
      /\ \A j \in Jobs : jobs'[j] = IF jobs[j].state \in Consuming
                           THEN [jobs[j] EXCEPT !.state = "interrupted", !.owner = NULL]
                           ELSE jobs[j]
      /\ \A r \in Runs : runs'[r] = IF \E j \in Jobs : r \in ActiveRuns(j)
                           THEN [runs[r] EXCEPT !.state = "interrupted"]
                           ELSE runs[r]
  BY DEF Reconcile
<1>2. \A r \in Runs : /\ runs'[r].job = runs[r].job
                      /\ OpenRun(r) => runs'[r].state = "interrupted"
                      /\ ~OpenRun(r) => runs'[r] = runs[r]
  BY <1>1, ActiveRunsAreOpen DEF TypeOK, RunRow
<1>3. \A j \in Jobs : \/ jobs'[j].state = "interrupted"
                      \/ jobs'[j] = jobs[j] /\ jobs[j].state \notin Consuming
  BY <1>1 DEF TypeOK, JobRow
<1>4. ASSUME NEW j \in Jobs
      PROVE  JobRowAgrees(j)'
  <2>1. latest[j] # NULL => latest[j] \in Runs
    BY DEF TypeOK
  <2>2. JobRowAgrees(j)
    BY DEF RowsAgree
  <2>3. latest[j] # NULL => /\ runs'[latest[j]].job = runs[latest[j]].job
                            /\ runs'[latest[j]].state \in {"interrupted", runs[latest[j]].state}
    BY <1>2, <2>1
  <2>4. CASE jobs'[j].state = "interrupted"
    BY <1>1, <2>2, <2>3, <2>4 DEF JobRowAgrees, Working
  <2>5. CASE jobs'[j] = jobs[j] /\ jobs[j].state \notin Consuming
    BY <1>1, <2>2, <2>3, <2>5 DEF JobRowAgrees, Working, Consuming, Outcomes
  <2> QED BY <1>3, <2>4, <2>5
<1>5. ASSUME NEW r \in Runs
      PROVE  RunRowAgrees(r)'
  BY <1>2 DEF RunRowAgrees, OpenRun
<1> QED BY <1>4, <1>5 DEF RowsAgree

(* Every operation of the server's client keeps the rows in agreement.     *)
LEMMA RowsStep ==
  ASSUME RowsAgree, TypeOK, ClientNext \/ UNCHANGED vars
  PROVE  RowsAgree'
<1>1. ASSUME latest' = latest, jobs' = jobs, runs' = runs
      PROVE  RowsAgree'
  BY <1>1, ColumnRows
<1>2. ASSUME NEW j \in Jobs, ClientAdmissionStep(j)
      PROVE  RowsAgree'
  <2>1. ASSUME NEW owner \in Owners, NEW r \in Runs, NEW s \in Sessions,
               jobs[j].worktree # NULL, Readmit(j, owner, r, s)
        PROVE  RowsAgree'
    <3>1. /\ \A k \in Jobs \ {j} : jobs'[k] = jobs[k]
          /\ jobs'[j].state = "queued" /\ jobs'[j].worktree = jobs[j].worktree
      BY <2>1 DEF Readmit, Leased, TypeOK, JobRow
    <3> QED BY <2>1, <3>1, AdmissionRows DEF Readmit, Working
  <2>2. ASSUME NEW owner \in Owners, NEW r \in Runs, NEW s \in Sessions,
               TurnAdmit(j, s, owner, r)
        PROVE  RowsAgree'
    <3>1. /\ \A k \in Jobs \ {j} : jobs'[k] = jobs[k]
          /\ jobs'[j].state = "queued" /\ jobs'[j].worktree = jobs[j].worktree
      BY <2>2 DEF TurnAdmit, Leased, TypeOK, JobRow
    <3>2. jobs[j].worktree # NULL
      BY <2>2 DEF TurnAdmit, RowsAgree, JobRowAgrees
    <3> QED BY <2>2, <3>1, <3>2, AdmissionRows DEF TurnAdmit, Working
  <2> QED BY <1>2, <2>1, <2>2, ReserveStartRows DEF ClientAdmissionStep
<1>3. ASSUME NEW j \in Jobs, NEW lease \in GrantedLeases(j), ClientLeasedStep(j, lease)
      PROVE  RowsAgree'
  <2>1. ASSUME NEW w \in Worktrees, Prepare(j, lease, w)
        PROVE  RowsAgree'
    BY <2>1, NullAssumption, ColumnRows DEF Prepare, TypeOK, JobRow
  <2>2. ASSUME NEW r \in Runs, NEW s \in Sessions, Admit(j, lease, r, s)
        PROVE  RowsAgree'
    <3>1. /\ \A k \in Jobs \ {j} : jobs'[k] = jobs[k]
          /\ jobs'[j].state = "queued" /\ jobs'[j].worktree = jobs[j].worktree
      BY <2>2 DEF Admit, SetState, TypeOK, JobRow
    <3> QED BY <2>2, <3>1, AdmissionRows DEF Admit, Working
  <2>3. ASSUME NEW r \in Runs, MarkDispatching(j, lease, r)
        PROVE  RowsAgree'
    BY <2>3, ColumnRows DEF MarkDispatching, TypeOK, RunRow
  <2>4. ASSUME NEW r \in Runs, NEW p \in ProviderSessions,
               BindProviderSession(j, lease, r, p)
        PROVE  RowsAgree'
    BY <2>4, ColumnRows DEF BindProviderSession, TypeOK, RunRow
  <2>5. ASSUME NEW r, NEW id, NEW payload, AppendEventForRun(j, lease, r, id, payload)
        PROVE  RowsAgree'
    BY <1>1, <2>5 DEF AppendEventForRun
  <2> QED BY <1>3, <2>1, <2>2, <2>3, <2>4, <2>5, TransitionRows, CancelAdmissionRows,
             FinalizeRunRows DEF ClientLeasedStep
<1>4. ASSUME AdministrativeStep
      PROVE  RowsAgree'
  <2>1. ASSUME NEW j \in Jobs, Archive(j) \/ Unarchive(j)
        PROVE  RowsAgree'
    <3>1. PICK flag \in BOOLEAN :
             jobs' = [jobs EXCEPT ![j] = [jobs[j] EXCEPT !.archived = flag]]
      BY <2>1 DEF TypeOK, JobRow, Archive, Unarchive
    <3>2. \A k \in Jobs : /\ jobs'[k].state = jobs[k].state
                          /\ jobs'[k].owner = jobs[k].owner
                          /\ jobs'[k].worktree = jobs[k].worktree
      BY <3>1 DEF TypeOK, JobRow
    <3> QED BY <2>1, <3>2, ColumnRows DEF Archive, Unarchive
  <2> QED BY <1>1, <1>4, <2>1, ReconcileRows, ArchivableAssumption
          DEF AdministrativeStep, ReleaseBinding, AppendAdminEvent
<1> QED BY <1>1, <1>2, <1>3, <1>4 DEF ClientNext, vars

(* The empty store agrees with itself.                                     *)
LEMMA RowsInit == Init => RowsAgree
BY DEF Init, RowsAgree, JobRowAgrees, RunRowAgrees, OpenRun, NoJob, NoRun, Working
-----------------------------------------------------------------------------
(***************************************************************************)
(* The log, for any caller: what is written is written behind what is      *)
(* there, and in the name of a run only while that run is open.            *)
(***************************************************************************)
Grows(old, new) ==
  /\ Len(new) >= Len(old)
  /\ \A i \in DOMAIN old : new[i] = old[i]

(* The positions a step adds to a log. *)
Added(old, new) == DOMAIN new \ DOMAIN old

(* An event carries no run, or one that is open. *)
InOpenRun(event) == event.run # NULL => OpenRun(event.run)

(* append and append_for_run write one event behind the others or none.    *)
LEMMA AppendedGrows ==
  ASSUME NEW events \in Seq(EventRow), NEW id \in AllEventIds,
         NEW payload \in AllPayloads, NEW r \in Runs \cup {NULL}
  PROVE  /\ Appended(events, id, payload, r) \in Seq(EventRow)
         /\ Grows(events, Appended(events, id, payload, r))
         /\ \A i \in Added(events, Appended(events, id, payload, r)) :
              /\ Appended(events, id, payload, r)[i] = Event(id, payload, r)
              /\ \A x \in DOMAIN events : events[x].id # id
<1>1. Appended(events, id, payload, r) \in Seq(EventRow)
  BY AppendedType
<1>2. CASE \E i \in DOMAIN events : events[i].id = id
  BY <1>1, <1>2 DEF Appended, Grows, Added
<1>3. CASE ~\E i \in DOMAIN events : events[i].id = id
  <2>1. Appended(events, id, payload, r) = Append(events, Event(id, payload, r))
    BY <1>3 DEF Appended
  <2>2. Event(id, payload, r) \in EventRow
    BY EventType
  <2> HIDE DEF Event
  <2>3. Grows(events, Append(events, Event(id, payload, r)))
    BY <2>2 DEF Grows
  <2>4. \A i \in Added(events, Append(events, Event(id, payload, r))) :
          Append(events, Event(id, payload, r))[i] = Event(id, payload, r)
    BY <2>2 DEF Added
  <2> QED BY <1>1, <1>3, <2>1, <2>3, <2>4
<1> QED BY <1>2, <1>3

(* What grows twice grows, and adds what either step added.                *)
LEMMA GrowsTwice ==
  ASSUME NEW S, NEW a \in Seq(S), NEW b \in Seq(S), NEW c \in Seq(S), Grows(a, b), Grows(b, c)
  PROVE  /\ Grows(a, c)
         /\ \A i \in Added(a, c) : \/ i \in Added(b, c)
                                   \/ i \in Added(a, b) /\ c[i] = b[i]
BY DEF Grows, Added

(* The entries of a concatenation.                                         *)
LEMMA Concatenated ==
  ASSUME NEW S, NEW a \in Seq(S), NEW b \in Seq(S)
  PROVE  /\ a \o b \in Seq(S)
         /\ Len(a \o b) = Len(a) + Len(b)
         /\ \A i \in 1..Len(a) : (a \o b)[i] = a[i]
         /\ \A x \in 1..Len(b) : (a \o b)[Len(a) + x] = b[x]
OBVIOUS

(* The list numbers the open runs of a job, and the step writes one event  *)
(* for each, in this order, behind the others.                             *)
Numbered(j, list) ==
  \E n \in Nat :
    /\ list \in [1..n -> ActiveRuns(j)]
    /\ \A x, y \in 1..n : list[x] = list[y] => x = y
    /\ \A r \in ActiveRuns(j) : \E x \in 1..n : list[x] = r
    /\ log'[j] \in Seq(EventRow)
    /\ Len(log'[j]) = Len(log[j]) + n
    /\ \A i \in 1..Len(log[j]) : log'[j][i] = log[j][i]
    /\ \A x \in 1..n :
         log'[j][Len(log[j]) + x] = Event(ShutdownId(list[x]), "interrupted", list[x])

(* job.reconcile numbers every job's open runs.                            *)
LEMMA ReconcileLog ==
  ASSUME TypeOK, Reconcile
  PROVE  \E order : \A j \in Jobs : Numbered(j, order[j])
<1>1. PICK order \in [Jobs -> UNION {Listings(ActiveRuns(j)) : j \in Jobs}] :
        /\ \A j \in Jobs : order[j] \in Listings(ActiveRuns(j))
        /\ log' = [j \in Jobs |->
             log[j] \o [i \in DOMAIN order[j] |->
                Event(ShutdownId(order[j][i]), "interrupted", order[j][i])]]
  BY DEF Reconcile
<1> SUFFICES ASSUME NEW j \in Jobs
             PROVE  Numbered(j, order[j])
  OBVIOUS
<1> DEFINE n == Cardinality(ActiveRuns(j))
           shut(i) == Event(ShutdownId(order[j][i]), "interrupted", order[j][i])
           added == [i \in 1..n |-> shut(i)]
<1>2. IsFiniteSet(ActiveRuns(j)) /\ n \in Nat
  BY FiniteAssumption, FS_Subset, FS_CardinalityType DEF ActiveRuns
<1>3. /\ order[j] \in [1..n -> ActiveRuns(j)]
      /\ \A x, y \in 1..n : order[j][x] = order[j][y] => x = y
  BY <1>1 DEF Listings
<1>4. \A r \in ActiveRuns(j) : \E x \in 1..n : order[j][x] = r
  <2>1. order[j] \in Injection(1..n, ActiveRuns(j))
    BY <1>3 DEF Injection, IsInjective
  <2>2. Cardinality(1..n) = n
    BY <1>2, FS_Interval
  <2>3. order[j] \in Surjection(1..n, ActiveRuns(j))
    BY <1>2, <2>1, <2>2, FS_Injection
  <2> QED BY <2>3 DEF Surjection
<1>5. \A i \in 1..n : shut(i) \in EventRow
  <2> TAKE i \in 1..n
  <2>1. order[j][i] \in Runs
    BY <1>3 DEF ActiveRuns
  <2>2. ShutdownId(order[j][i]) \in AllEventIds
    BY <2>1 DEF AllEventIds
  <2> QED BY <2>1, <2>2, EventType DEF AllPayloads, Outcomes
<1> HIDE DEF shut
<1>6. added \in Seq(EventRow) /\ Len(added) = n /\ \A i \in 1..n : added[i] = shut(i)
  BY <1>2, <1>5
<1>7. log'[j] = log[j] \o added
  BY <1>1, <1>3 DEF shut
<1>8. log[j] \in Seq(EventRow)
  BY DEF TypeOK
<1> HIDE DEF added, n
<1>9. /\ log'[j] \in Seq(EventRow)
      /\ Len(log'[j]) = Len(log[j]) + n
      /\ \A i \in 1..Len(log[j]) : log'[j][i] = log[j][i]
      /\ \A x \in 1..n : log'[j][Len(log[j]) + x] = shut(x)
  <2>0. added \in Seq(EventRow) /\ log[j] \in Seq(EventRow)
    BY <1>6, <1>8
  <2>1. /\ log[j] \o added \in Seq(EventRow)
        /\ Len(log[j] \o added) = Len(log[j]) + Len(added)
        /\ \A i \in 1..Len(log[j]) : (log[j] \o added)[i] = log[j][i]
        /\ \A x \in 1..Len(added) : (log[j] \o added)[Len(log[j]) + x] = added[x]
    BY ONLY <2>0, Concatenated
  <2> QED BY <1>6, <1>7, <2>1, Zenon
<1> QED BY <1>2, <1>3, <1>4, <1>9 DEF shut, Numbered

(* What a step may do to the log of one job. *)
SealedStep(j) ==
  /\ Grows(log[j], log'[j])
  /\ \A i \in Added(log[j], log'[j]) : InOpenRun(log'[j][i])

(* Writing one event into the log of one job, in the name of no run or of  *)
(* an open one, is a sealed step of all jobs.                              *)
LEMMA AppendIsSealed ==
  ASSUME TypeOK, NEW k \in Jobs, NEW id \in AllEventIds, NEW payload \in AllPayloads,
         NEW r \in Runs \cup {NULL}, r # NULL => OpenRun(r),
         log' = [log EXCEPT ![k] = Appended(@, id, payload, r)], NEW j \in Jobs
  PROVE  SealedStep(j)
<1>1. log[j] \in Seq(EventRow)
  BY DEF TypeOK
<1>2. CASE j = k
  <2>1. log'[j] = Appended(log[j], id, payload, r)
    BY <1>2 DEF TypeOK
  <2>2. /\ Grows(log[j], log'[j])
        /\ \A i \in Added(log[j], log'[j]) : log'[j][i] = Event(id, payload, r)
    BY <1>1, <2>1, AppendedGrows
  <2> QED BY <2>2 DEF SealedStep, InOpenRun, Event
<1>3. CASE j # k
  <2>1. log'[j] = log[j]
    BY <1>3 DEF TypeOK
  <2> QED BY <1>1, <2>1 DEF SealedStep, Grows, Added
<1> QED BY <1>2, <1>3

(* Every operation is sealed for every log, whoever calls it.              *)
LEMMA EveryStepIsSealed ==
  ASSUME TypeOK, AnyNext \/ UNCHANGED vars, NEW j \in Jobs
  PROVE  SealedStep(j)
<1>1. ASSUME log' = log
      PROVE  SealedStep(j)
  BY <1>1 DEF TypeOK, SealedStep, Grows, Added
<1>2. ASSUME NEW k \in Jobs, AdmissionStep(k)
      PROVE  SealedStep(j)
  BY <1>1, <1>2 DEF AdmissionStep, Acquire, Reserve, ReserveStart, Readmit, TurnAdmit
<1>3. ASSUME NEW k \in Jobs, NEW lease \in GrantedLeases(k), AnyLeasedStep(k, lease)
      PROVE  SealedStep(j)
  <2>1. ASSUME NEW id \in AllEventIds, NEW payload \in AllPayloads,
               NEW terminal \in AllEventIds \cup {NULL},
               CancelAdmission(k, lease, id, payload, terminal)
        PROVE  SealedStep(j)
    <3> DEFINE noted == Appended(log[k], id, payload, NULL)
               all == Appended(noted, terminal, "failed", NULL)
    <3>1. log' = [log EXCEPT ![k] = IF terminal = NULL THEN noted ELSE all]
      BY <2>1 DEF CancelAdmission
    <3>2. CASE terminal = NULL
      BY <3>1, <3>2, AppendIsSealed
    <3>3. CASE terminal # NULL /\ j # k
      BY <3>1, <3>3 DEF TypeOK, SealedStep, Grows, Added
    <3>4. CASE terminal # NULL /\ j = k
      <4>1. log[j] \in Seq(EventRow) /\ log'[j] = all
        BY <3>1, <3>4 DEF TypeOK
      <4>2. /\ noted \in Seq(EventRow) /\ Grows(log[j], noted)
            /\ \A i \in Added(log[j], noted) : noted[i] = Event(id, payload, NULL)
        BY <3>4, <4>1, AppendedGrows
      <4>3. terminal \in AllEventIds /\ "failed" \in AllPayloads
        BY <3>4 DEF AllPayloads, Outcomes
      <4>4. /\ all \in Seq(EventRow) /\ Grows(noted, all)
            /\ \A i \in Added(noted, all) : all[i] = Event(terminal, "failed", NULL)
        BY <4>2, <4>3, AppendedGrows
      <4> HIDE DEF noted, all
      <4>5. /\ Grows(log[j], all)
            /\ \A i \in Added(log[j], all) :
                 \/ i \in Added(noted, all)
                 \/ i \in Added(log[j], noted) /\ all[i] = noted[i]
        BY <4>1, <4>2, <4>4, GrowsTwice
      <4> QED BY <4>1, <4>2, <4>4, <4>5 DEF SealedStep, InOpenRun, Event
    <3> QED BY <3>2, <3>3, <3>4
  <2>2. ASSUME NEW id \in AllEventIds, NEW payload \in AllPayloads,
               \/ AppendEvent(k, lease, id, payload)
               \/ \E to \in Terminal : Finalize(k, lease, id, payload, to)
        PROVE  SealedStep(j)
    BY <2>2, AppendIsSealed DEF AppendEvent, Finalize
  <2>3. ASSUME NEW id \in AllEventIds, NEW payload \in AllPayloads, NEW r \in Runs,
               \/ AppendEventForRun(k, lease, r, id, payload)
               \/ \E outcome \in Outcomes : FinalizeRun(k, lease, r, outcome, id, payload)
        PROVE  SealedStep(j)
    BY <2>3, AppendIsSealed DEF AppendEventForRun, FinalizeRun, CurrentRun
  <2> QED
    BY <1>1, <1>3, <2>1, <2>2, <2>3
       DEF AnyLeasedStep, Prepare, Admit, Transition, MarkDispatching, BindProviderSession
<1>4. ASSUME AnyAdministrativeStep
      PROVE  SealedStep(j)
  <2>1. CASE Reconcile
    <3>1. PICK order : Numbered(j, order)
      BY <2>1, ReconcileLog
    <3>2. log[j] \in Seq(EventRow)
      BY DEF TypeOK
    <3>3. PICK n \in Nat :
            /\ order \in [1..n -> ActiveRuns(j)]
            /\ log'[j] \in Seq(EventRow)
            /\ Len(log'[j]) = Len(log[j]) + n
            /\ \A i \in 1..Len(log[j]) : log'[j][i] = log[j][i]
            /\ \A x \in 1..n :
                 log'[j][Len(log[j]) + x] = Event(ShutdownId(order[x]), "interrupted", order[x])
      BY <3>1 DEF Numbered
    <3>4. /\ DOMAIN log[j] = 1..Len(log[j]) /\ Len(log[j]) \in Nat
          /\ DOMAIN log'[j] = 1..(Len(log[j]) + n)
      BY <3>2, <3>3
    <3>5. Grows(log[j], log'[j])
      BY ONLY <3>3, <3>4 DEF Grows
    <3>6. ASSUME NEW i \in Added(log[j], log'[j])
          PROVE  InOpenRun(log'[j][i])
      <4>1. PICK x \in 1..n : i = Len(log[j]) + x
        <5>1. i - Len(log[j]) \in 1..n /\ i = Len(log[j]) + (i - Len(log[j]))
          BY <3>4 DEF Added
        <5> QED BY <5>1
      <4>2. order[x] \in ActiveRuns(j)
        BY <3>3
      <4>3. log'[j][i] = Event(ShutdownId(order[x]), "interrupted", order[x])
        BY <3>3, <4>1
      <4> QED BY <4>2, <4>3 DEF InOpenRun, ActiveRuns, Event
    <3> QED BY <3>5, <3>6 DEF SealedStep
  <2>2. ASSUME NEW k \in Jobs, NEW id \in AllEventIds, NEW payload \in AllPayloads,
               AppendAdminEvent(k, id, payload)
        PROVE  SealedStep(j)
    BY <2>2, AppendIsSealed DEF AppendAdminEvent
  <2> QED BY <1>1, <1>4, <2>1, <2>2
          DEF AnyAdministrativeStep, Archive, Unarchive, ReleaseBinding
<1> QED BY <1>1, <1>2, <1>3, <1>4 DEF AnyNext, vars

(* The log of a job only grows, and nothing is written in the name of a    *)
(* run that is over: who has replayed to the end of a run has seen it all. *)
THEOREM LogsAreSealed == Spec => LogIsSealed
<1>1. TypeOK /\ [Next]_vars =>
        [\A j \in Jobs :
           /\ Len(log'[j]) >= Len(log[j])
           /\ \A i \in DOMAIN log[j] : log'[j][i] = log[j][i]
           /\ \A i \in DOMAIN log'[j] \ DOMAIN log[j] :
                log'[j][i].run # NULL => OpenRun(log'[j][i].run)]_vars
  BY NextIsAny, EveryStepIsSealed DEF SealedStep, Grows, Added, InOpenRun
<1> QED BY TypeCorrect, <1>1, PTL DEF Spec, LogIsSealed

(* The same for the server's client. *)
COROLLARY ClientLogsAreSealed == ClientSpec => LogIsSealed
<1>1. TypeOK /\ [ClientNext]_vars =>
        [\A j \in Jobs :
           /\ Len(log'[j]) >= Len(log[j])
           /\ \A i \in DOMAIN log[j] : log'[j][i] = log[j][i]
           /\ \A i \in DOMAIN log'[j] \ DOMAIN log[j] :
                log'[j][i].run # NULL => OpenRun(log'[j][i].run)]_vars
  BY ClientNextIsAny, EveryStepIsSealed DEF SealedStep, Grows, Added, InOpenRun
<1> QED BY ClientTypeCorrect, <1>1, PTL DEF ClientSpec, LogIsSealed
-----------------------------------------------------------------------------
(***************************************************************************)
(* The log and the runs, for the server's client.                          *)
(***************************************************************************)

(* What an event in the log of a job says of the run it names. *)
EventAgrees(j, event) ==
  /\ event.run # NULL => runs[event.run].job = j /\ runs[event.run].state # "absent"
  /\ \A r \in Runs :
       /\ event.id = ShutdownId(r) =>
            /\ event.run = r /\ event.payload = "interrupted"
            /\ runs[r].state = "interrupted"
       /\ event.id = TerminalId(r) =>
            /\ runs[r].job = j
            /\ runs[r].state \in Outcomes /\ event.payload = runs[r].state

UniqueIds(events) == \A x, y \in DOMAIN events : events[x].id = events[y].id => x = y

HasEvent(id) == \E j \in Jobs : \E i \in DOMAIN log[j] : log[j][i].id = id

(* How a run that ended otherwise than by a failed admission is told. *)
EndIsTold(r) ==
  runs[r].state \in Outcomes \ {"failed"} =>
    \/ HasEvent(TerminalId(r))
    \/ runs[r].state = "interrupted" /\ HasEvent(ShutdownId(r))

LogAgrees ==
  /\ \A j \in Jobs : UniqueIds(log[j]) /\ \A i \in DOMAIN log[j] : EventAgrees(j, log[j][i])
  /\ \A r \in Runs : /\ ~(HasEvent(TerminalId(r)) /\ HasEvent(ShutdownId(r)))
                     /\ EndIsTold(r)

TablesInv == TypeOK /\ RowsAgree /\ LogAgrees

(* An event a step of the client may add: in the name of nothing, of an    *)
(* open run of the job, or of one that this very step ends as it says.     *)
WellWritten(j, event) ==
  /\ event.run # NULL => runs[event.run].job = j /\ OpenRun(event.run)
  /\ \A r \in Runs :
       /\ event.id = ShutdownId(r) =>
            /\ event.run = r /\ event.payload = "interrupted"
            /\ OpenRun(r) /\ runs'[r].state = "interrupted"
       /\ event.id = TerminalId(r) =>
            /\ runs[r].job = j /\ OpenRun(r)
            /\ runs'[r].state \in Outcomes /\ event.payload = runs'[r].state

(* What a step does to the logs, and which ends of runs it must tell.      *)
LogStep ==
  /\ \A j \in Jobs :
       /\ Grows(log[j], log'[j]) /\ UniqueIds(log'[j])
       /\ \A i \in Added(log[j], log'[j]) : WellWritten(j, log'[j][i])
  /\ \/ \A j \in Jobs : \A i \in Added(log[j], log'[j]) : \A r \in Runs :
          log'[j][i].id # ShutdownId(r)
     \/ \A j \in Jobs : \A i \in Added(log[j], log'[j]) : \A r \in Runs :
          log'[j][i].id # TerminalId(r)
  /\ \A r \in Runs : OpenRun(r) => EndIsTold(r)'

(* What a step does to the runs. *)
RunStep ==
  \A r \in Runs :
    /\ runs[r].state # "absent" => runs'[r].job = runs[r].job /\ runs'[r].state # "absent"
    /\ runs[r].state \in Outcomes => runs'[r].state = runs[r].state
    /\ runs[r].state = "absent" => runs'[r].state \notin Outcomes

(* The two reserved ids are different, and tell their run.                 *)
LEMMA ReservedIds ==
  ASSUME NEW r \in Runs, NEW q \in Runs
  PROVE  /\ ShutdownId(r) # TerminalId(q)
         /\ ShutdownId(r) = ShutdownId(q) => r = q
         /\ TerminalId(r) = TerminalId(q) => r = q
BY DEF ShutdownId, TerminalId

(* Whatever was said of a run stays true, whatever is added is true, and   *)
(* no end is told twice.                                                   *)
LEMMA LogAgreesStep ==
  ASSUME TypeOK, LogAgrees, TypeOK', RunStep, LogStep
  PROVE  LogAgrees'
<1>1. ASSUME NEW j \in Jobs
      PROVE  /\ DOMAIN log[j] \subseteq DOMAIN log'[j]
             /\ \A i \in DOMAIN log'[j] : log'[j][i] \in EventRow
             /\ \A i \in DOMAIN log[j] : log[j][i] \in EventRow /\ log'[j][i] = log[j][i]
             /\ \A i \in DOMAIN log'[j] : i \in DOMAIN log[j] \/ i \in Added(log[j], log'[j])
  <2>1. log[j] \in Seq(EventRow) /\ log'[j] \in Seq(EventRow)
    BY DEF TypeOK
  <2>2. Grows(log[j], log'[j])
    BY DEF LogStep
  <2> QED BY <2>1, <2>2 DEF Grows, Added
<1>2. ASSUME NEW j \in Jobs, NEW i \in DOMAIN log'[j]
      PROVE  EventAgrees(j, log[j][i])'
  <2> DEFINE e == log'[j][i]
  <2>1. e.run \in Runs \cup {NULL}
    BY <1>1 DEF EventRow
  <2>2. CASE i \in DOMAIN log[j]
    <3>1. EventAgrees(j, e)
      BY <1>1, <2>2 DEF LogAgrees
    <3> HIDE DEF e
    <3>2. e.run # NULL => runs'[e.run].job = j /\ runs'[e.run].state # "absent"
      BY <2>1, <3>1 DEF EventAgrees, RunStep
    <3>3. ASSUME NEW r \in Runs
          PROVE  /\ e.id = ShutdownId(r) => /\ e.run = r /\ e.payload = "interrupted"
                                            /\ runs'[r].state = "interrupted"
                 /\ e.id = TerminalId(r) =>
                      /\ runs'[r].job = j
                      /\ runs'[r].state \in Outcomes /\ e.payload = runs'[r].state
      <4>1. /\ runs[r].state \in Outcomes =>
                 runs'[r].state = runs[r].state /\ runs'[r].job = runs[r].job
            /\ runs[r].state = "interrupted" => runs[r].state \in Outcomes
        BY DEF RunStep, Outcomes
      <4>2. /\ e.id = ShutdownId(r) => /\ e.run = r /\ e.payload = "interrupted"
                                       /\ runs[r].state = "interrupted"
            /\ e.id = TerminalId(r) =>
                 /\ runs[r].job = j
                 /\ runs[r].state \in Outcomes /\ e.payload = runs[r].state
        BY <3>1 DEF EventAgrees
      <4> QED BY <4>1, <4>2
    <3> QED BY <3>2, <3>3 DEF EventAgrees, e
  <2>3. CASE i \in Added(log[j], log'[j])
    <3>1. WellWritten(j, e)
      BY <2>3 DEF LogStep
    <3> HIDE DEF e
    <3>2. \A r \in Runs : OpenRun(r) =>
            runs'[r].job = runs[r].job /\ runs'[r].state # "absent"
      BY DEF RunStep, OpenRun
    <3>3. e.run # NULL => runs'[e.run].job = j /\ runs'[e.run].state # "absent"
      BY <2>1, <3>1, <3>2 DEF WellWritten
    <3> QED BY <3>1, <3>2, <3>3 DEF WellWritten, EventAgrees, e
  <2> QED BY <1>1, <2>2, <2>3
<1>3. ASSUME NEW r \in Runs, HasEvent(TerminalId(r))', HasEvent(ShutdownId(r))'
      PROVE  FALSE
  <2>1a. PICK j \in Jobs : \E i \in DOMAIN log'[j] : log'[j][i].id = TerminalId(r)
    BY <1>3 DEF HasEvent
  <2>1. PICK i \in DOMAIN log'[j] : log'[j][i].id = TerminalId(r)
    BY <2>1a
  <2>2a. PICK k \in Jobs : \E x \in DOMAIN log'[k] : log'[k][x].id = ShutdownId(r)
    BY <1>3 DEF HasEvent
  <2>2. PICK x \in DOMAIN log'[k] : log'[k][x].id = ShutdownId(r)
    BY <2>2a
  <2>3. CASE i \in DOMAIN log[j] /\ x \in DOMAIN log[k]
    BY <1>1, <2>1, <2>2, <2>3 DEF LogAgrees, HasEvent
  <2>4. CASE i \in DOMAIN log[j] /\ x \in Added(log[k], log'[k])
    <3>1. runs[r].state \in Outcomes
      BY <1>1, <2>1, <2>4 DEF LogAgrees, EventAgrees
    <3> QED BY <2>2, <2>4, <3>1 DEF LogStep, WellWritten, OpenRun, Outcomes
  <2>5. CASE i \in Added(log[j], log'[j]) /\ x \in DOMAIN log[k]
    <3>1. runs[r].state = "interrupted"
      BY <1>1, <2>2, <2>5 DEF LogAgrees, EventAgrees
    <3> QED BY <2>1, <2>5, <3>1 DEF LogStep, WellWritten, OpenRun
  <2>6. CASE i \in Added(log[j], log'[j]) /\ x \in Added(log[k], log'[k])
    BY <2>1, <2>2, <2>6 DEF LogStep
  <2> QED BY <1>1, <2>3, <2>4, <2>5, <2>6
<1>4. ASSUME NEW r \in Runs
      PROVE  EndIsTold(r)'
  <2>1. CASE OpenRun(r)
    BY <2>1 DEF LogStep
  <2>2. CASE runs[r].state \in Outcomes
    <3>1. runs'[r].state = runs[r].state /\ EndIsTold(r)
      BY <2>2 DEF RunStep, LogAgrees
    <3>2. \A id : HasEvent(id) => HasEvent(id)'
      BY <1>1 DEF HasEvent
    <3> QED BY <3>1, <3>2 DEF EndIsTold
  <2>3. CASE runs[r].state = "absent"
    BY <2>3 DEF RunStep, EndIsTold
  <2> QED BY <2>1, <2>2, <2>3 DEF TypeOK, RunRow, OpenRun
<1> QED BY <1>2, <1>3, <1>4 DEF LogAgrees, LogStep

(* Appending an event that is not there, or finding it, keeps ids unique,  *)
(* and the event is there afterwards.                                      *)
LEMMA AppendedUnique ==
  ASSUME NEW events \in Seq(EventRow), NEW id \in AllEventIds,
         NEW payload \in AllPayloads, NEW r \in Runs \cup {NULL}, UniqueIds(events)
  PROVE  /\ UniqueIds(Appended(events, id, payload, r))
         /\ \E i \in DOMAIN Appended(events, id, payload, r) :
              Appended(events, id, payload, r)[i].id = id
<1>1. CASE \E i \in DOMAIN events : events[i].id = id
  BY <1>1 DEF Appended
<1>2. CASE ~\E i \in DOMAIN events : events[i].id = id
  <2> DEFINE e == Event(id, payload, r)
  <2>1. e \in EventRow /\ e.id = id
    BY EventType DEF Event
  <2>2. Appended(events, id, payload, r) = Append(events, e)
    BY <1>2 DEF Appended
  <2> HIDE DEF e
  <2>3. /\ DOMAIN Append(events, e) = 1..(Len(events) + 1)
        /\ Append(events, e)[Len(events) + 1] = e
        /\ \A i \in 1..Len(events) : Append(events, e)[i] = events[i]
        /\ DOMAIN events = 1..Len(events) /\ Len(events) \in Nat
    BY <2>1
  <2>4. \A x \in 1..(Len(events) + 1) : x \in 1..Len(events) \/ x = Len(events) + 1
    BY <2>3
  <2>5. UniqueIds(Append(events, e))
    BY <1>2, <2>1, <2>3, <2>4 DEF UniqueIds
  <2>6. \E i \in DOMAIN Append(events, e) : Append(events, e)[i].id = id
    BY <2>1, <2>3
  <2> QED BY <2>2, <2>5, <2>6
<1> QED BY <1>1, <1>2

(* An open run that a step may leave without an event of its end.          *)
Untold(r) == runs'[r].state \notin Outcomes \ {"failed"}

(* A step that writes no event ends runs by failure only.                  *)
LEMMA NoEvent ==
  ASSUME TypeOK, LogAgrees, log' = log, \A r \in Runs : OpenRun(r) => Untold(r)
  PROVE  LogStep
<1>1. \A j \in Jobs : Grows(log[j], log'[j]) /\ Added(log[j], log'[j]) = {}
  BY DEF TypeOK, Grows, Added
<1> QED BY <1>1 DEF LogStep, LogAgrees, EndIsTold, Untold

(* Writing one event where it belongs.                                     *)
LEMMA OneEvent ==
  ASSUME TypeOK, LogAgrees, NEW k \in Jobs, NEW id \in AllEventIds,
         NEW payload \in AllPayloads, NEW q \in Runs \cup {NULL},
         log' = [log EXCEPT ![k] = Appended(@, id, payload, q)],
         WellWritten(k, Event(id, payload, q)),
         \A r \in Runs : OpenRun(r) => Untold(r) \/ id = TerminalId(r)
  PROVE  LogStep
<1> DEFINE e == Event(id, payload, q)
<1>1. ASSUME NEW j \in Jobs
      PROVE  /\ Grows(log[j], log'[j]) /\ UniqueIds(log'[j])
             /\ \A i \in Added(log[j], log'[j]) : j = k /\ log'[j][i] = e
  <2>1. log[j] \in Seq(EventRow) /\ UniqueIds(log[j])
    BY DEF TypeOK, LogAgrees
  <2>2. CASE j = k
    <3>1. log'[j] = Appended(log[j], id, payload, q)
      BY <2>2 DEF TypeOK
    <3> QED BY <2>1, <2>2, <3>1, AppendedGrows, AppendedUnique
  <2>3. CASE j # k
    <3>1. log'[j] = log[j]
      BY <2>3 DEF TypeOK
    <3> QED BY <2>1, <3>1 DEF Grows, Added
  <2> QED BY <2>2, <2>3
<1>2. HasEvent(id)'
  <2>1. log[k] \in Seq(EventRow) /\ UniqueIds(log[k])
    BY DEF TypeOK, LogAgrees
  <2>2. log'[k] = Appended(log[k], id, payload, q)
    BY DEF TypeOK
  <2>3. \E i \in DOMAIN log'[k] : log'[k][i].id = id
    BY <2>1, <2>2, AppendedUnique
  <2> QED BY <2>3 DEF HasEvent
<1>3. e.id = id
  BY DEF Event
<1> HIDE DEF e
<1>4. (\A r \in Runs : id # ShutdownId(r)) \/ \A r \in Runs : id # TerminalId(r)
  BY ReservedIds
<1>5. \A r \in Runs : OpenRun(r) => EndIsTold(r)'
  BY <1>2 DEF EndIsTold, Untold
<1>6. WellWritten(k, e)
  BY DEF e
<1> QED BY <1>1, <1>3, <1>4, <1>5, <1>6 DEF LogStep

(* Every operation of the client leaves a run its job, does not bring an   *)
(* ended one back, and ends only open ones.                                *)
LEMMA ClientRunStep ==
  ASSUME TypeOK, ClientNext \/ UNCHANGED vars
  PROVE  RunStep
<1>1. AnyNext \/ UNCHANGED vars
  BY ClientNextIsAny
<1> SUFFICES ASSUME NEW r \in Runs
             PROVE  /\ runs[r].state # "absent" =>
                         runs'[r].job = runs[r].job /\ runs'[r].state # "absent"
                    /\ runs[r].state = "absent" => runs'[r].state \notin Outcomes
  BY <1>1, EndedRowsStay DEF RunStep
<1> DEFINE Kept == /\ runs[r].state # "absent" =>
                        runs'[r].job = runs[r].job /\ runs'[r].state # "absent"
                   /\ runs[r].state = "absent" => runs'[r].state \notin Outcomes
<1>2. ASSUME runs' = runs
      PROVE  Kept
  BY <1>2 DEF Outcomes
<1>3. ASSUME NEW j \in Jobs, NEW q \in Runs, NEW s \in Sessions, InsertRun(j, q, s)
      PROVE  Kept
  BY <1>3 DEF TypeOK, InsertRun, NoRun, Outcomes
<1>4. ASSUME NEW j \in Jobs, AdmissionStep(j)
      PROVE  Kept
  BY <1>2, <1>3, <1>4 DEF AdmissionStep, Acquire, Reserve, ReserveStart, Readmit, TurnAdmit
<1>5. ASSUME NEW j \in Jobs, NEW lease \in GrantedLeases(j), AnyLeasedStep(j, lease)
      PROVE  Kept
  <2>1. ASSUME NEW q \in Runs, NEW s \in Sessions, Admit(j, lease, q, s)
        PROVE  Kept
    BY <1>3, <2>1 DEF Admit
  <2>2. ASSUME NEW q \in Runs, NEW outcome \in Outcomes,
               runs[q].state = "queued", runs'[q].state \in {"queued", outcome},
               runs'[q].job = runs[q].job, \A x \in Runs \ {q} : runs'[x] = runs[x]
        PROVE  Kept
    BY <2>2 DEF Outcomes
  <2>2a. ASSUME NEW q \in Runs, MarkDispatching(j, lease, q)
        PROVE  Kept
    BY <2>2, <2>2a DEF TypeOK, RunRow, Outcomes, CurrentRun, OpenRun, MarkDispatching
  <2>2b. ASSUME NEW q \in Runs, NEW p \in ProviderSessions, BindProviderSession(j, lease, q, p)
        PROVE  Kept
    BY <2>2, <2>2b DEF TypeOK, RunRow, Outcomes, CurrentRun, OpenRun, BindProviderSession
  <2>2c. ASSUME NEW q \in Runs, NEW id, NEW payload, NEW outcome \in Outcomes,
               FinalizeRun(j, lease, q, outcome, id, payload)
        PROVE  Kept
    BY <2>2, <2>2c DEF TypeOK, RunRow, CurrentRun, OpenRun, FinalizeRun
  <2>3. ASSUME NEW id, NEW payload, NEW terminal,
               CancelAdmission(j, lease, id, payload, terminal)
        PROVE  Kept
    BY <2>3 DEF TypeOK, RunRow, Outcomes, CancelAdmission, OpenRun
  <2> QED
    BY <1>2, <1>5, <2>1, <2>2a, <2>2b, <2>2c, <2>3
       DEF AnyLeasedStep, Prepare, Transition, Finalize, AppendEvent, AppendEventForRun
<1>6. ASSUME AnyAdministrativeStep
      PROVE  Kept
  <2>1. CASE Reconcile
    <3>1. \/ runs'[r] = runs[r]
          \/ /\ OpenRun(r)
             /\ runs'[r] = [runs[r] EXCEPT !.state = "interrupted"]
      BY <2>1 DEF Reconcile, ActiveRuns
    <3>2. runs[r] \in RunRow
      BY DEF TypeOK
    <3> QED BY <3>1, <3>2 DEF RunRow, OpenRun, Outcomes
  <2> QED BY <1>2, <1>6, <2>1
          DEF AnyAdministrativeStep, Archive, Unarchive, ReleaseBinding, AppendAdminEvent
<1> QED BY <1>1, <1>2, <1>4, <1>5, <1>6 DEF AnyNext, vars

(* job.cancelAdmission logs a request and may log the failure of the run   *)
(* it ends.                                                                *)
LEMMA CancelEvents ==
  ASSUME TypeOK, RowsAgree, LogAgrees, NEW k \in Jobs, NEW lease,
         NEW id \in EventIds, NEW payload \in Payloads, NEW q \in Runs, latest[k] = q,
         TerminalId(q) # NULL, CancelAdmission(k, lease, id, payload, TerminalId(q))
  PROVE  LogStep
<1> DEFINE terminal == TerminalId(q)
           noted == Appended(log[k], id, payload, NULL)
           all == Appended(noted, terminal, "failed", NULL)
           request == Event(id, payload, NULL)
           failure == Event(terminal, "failed", NULL)
<1>1. /\ q # NULL /\ runs[q].job = k /\ OpenRun(q)
      /\ runs'[q].state = "failed"
  <2>1. q # NULL
    BY NullAssumption
  <2>2. jobs[k].state = "queued"
    BY <2>1 DEF CancelAdmission, RowsAgree, JobRowAgrees
  <2>3. runs[q].job = k /\ OpenRun(q)
    BY <2>1, <2>2 DEF RowsAgree, JobRowAgrees, Working
  <2> QED BY <2>1, <2>3 DEF CancelAdmission, TypeOK, RunRow
<1>2. /\ id \in AllEventIds /\ terminal \in AllEventIds
      /\ payload \in AllPayloads /\ "failed" \in AllPayloads
  BY DEF AllEventIds, AllPayloads, Outcomes
<1>3. /\ \A r \in Runs : id # ShutdownId(r) /\ id # TerminalId(r)
      /\ \A r \in Runs : terminal # ShutdownId(r) /\ (terminal = TerminalId(r) => r = q)
  BY EventIdAssumption, ReservedIds
<1>4. WellWritten(k, request)
  BY <1>3 DEF WellWritten, Event
<1>5. WellWritten(k, failure)
  BY <1>1, <1>3 DEF WellWritten, Event, Outcomes
<1>7. /\ log' = [log EXCEPT ![k] = all]
      /\ log[k] \in Seq(EventRow) /\ UniqueIds(log[k])
  BY DEF CancelAdmission, TypeOK, LogAgrees
<1>8. /\ noted \in Seq(EventRow) /\ Grows(log[k], noted) /\ UniqueIds(noted)
      /\ \A i \in Added(log[k], noted) : noted[i] = request
  BY <1>2, <1>7, AppendedGrows, AppendedUnique
<1>9. /\ all \in Seq(EventRow) /\ Grows(noted, all) /\ UniqueIds(all)
      /\ \A i \in Added(noted, all) : all[i] = failure
      /\ \E i \in DOMAIN all : all[i].id = terminal
  BY <1>2, <1>8, AppendedGrows, AppendedUnique
<1>10. request.id = id /\ failure.id = terminal
  BY DEF Event
<1> HIDE DEF noted, all, request, failure, terminal
<1>11. /\ Grows(log[k], all)
       /\ \A i \in Added(log[k], all) : \/ i \in Added(noted, all)
                                        \/ i \in Added(log[k], noted) /\ all[i] = noted[i]
  BY <1>7, <1>8, <1>9, GrowsTwice
<1>12. \A i \in Added(log[k], all) : all[i] \in {request, failure}
  BY <1>8, <1>9, <1>11
<1>13. ASSUME NEW j \in Jobs
       PROVE  /\ Grows(log[j], log'[j]) /\ UniqueIds(log'[j])
              /\ \A i \in Added(log[j], log'[j]) : j = k /\ log'[j][i] \in {request, failure}
  <2>1. CASE j = k
    <3>1. log'[j] = all
      BY <1>7, <2>1 DEF TypeOK
    <3> QED BY <1>9, <1>11, <1>12, <2>1, <3>1
  <2>2. CASE j # k
    <3>1. log'[j] = log[j]
      BY <1>7, <2>2 DEF TypeOK
    <3> QED BY <3>1 DEF TypeOK, LogAgrees, Grows, Added
  <2> QED BY <2>1, <2>2
<1>14. \A r \in Runs : OpenRun(r) => EndIsTold(r)'
  BY DEF CancelAdmission, TypeOK, RunRow, EndIsTold, OpenRun, Outcomes
<1> QED BY <1>3, <1>4, <1>5, <1>10, <1>13, <1>14 DEF LogStep

(* job.reconcile tells the interruption of every run it interrupts.        *)
LEMMA ReconcileEvents ==
  ASSUME TypeOK, RowsAgree, LogAgrees, Reconcile
  PROVE  LogStep
<1>1. PICK order : \A j \in Jobs : Numbered(j, order[j])
  BY ReconcileLog
<1>2. \A r \in Runs : OpenRun(r) => runs'[r].state = "interrupted"
  <2>1. \A r \in Runs : OpenRun(r) =>
          runs'[r] = [runs[r] EXCEPT !.state = "interrupted"] /\ runs[r] \in RunRow
    BY ActiveRunsAreOpen DEF Reconcile, TypeOK
  <2> QED BY <2>1 DEF RunRow
<1>3. ASSUME NEW j \in Jobs
      PROVE  /\ Grows(log[j], log'[j]) /\ UniqueIds(log'[j])
             /\ \A i \in Added(log[j], log'[j]) : \E r \in ActiveRuns(j) :
                  log'[j][i] = Event(ShutdownId(r), "interrupted", r)
             /\ \A r \in ActiveRuns(j) : HasEvent(ShutdownId(r))'
  <2>1. PICK n \in Nat :
          /\ order[j] \in [1..n -> ActiveRuns(j)]
          /\ \A x, y \in 1..n : order[j][x] = order[j][y] => x = y
          /\ \A r \in ActiveRuns(j) : \E x \in 1..n : order[j][x] = r
          /\ log'[j] \in Seq(EventRow)
          /\ Len(log'[j]) = Len(log[j]) + n
          /\ \A i \in 1..Len(log[j]) : log'[j][i] = log[j][i]
          /\ \A x \in 1..n :
               log'[j][Len(log[j]) + x] = Event(ShutdownId(order[j][x]), "interrupted", order[j][x])
    BY <1>1 DEF Numbered
  <2>2. log[j] \in Seq(EventRow) /\ UniqueIds(log[j])
    BY DEF TypeOK, LogAgrees
  <2> DEFINE m == Len(log[j])
  <2>3. /\ DOMAIN log[j] = 1..m /\ m \in Nat
        /\ DOMAIN log'[j] = 1..(m + n)
    BY <2>1, <2>2
  <2> HIDE DEF m
  <2>4. Grows(log[j], log'[j])
    BY ONLY <2>1, <2>3 DEF Grows, m
  <2>5. ASSUME NEW i \in DOMAIN log'[j]
        PROVE  \/ i \in DOMAIN log[j] /\ log'[j][i] = log[j][i]
               \/ /\ i \notin DOMAIN log[j]
                  /\ \E x \in 1..n : i = m + x /\ order[j][x] \in ActiveRuns(j)
                       /\ log'[j][i] = Event(ShutdownId(order[j][x]), "interrupted", order[j][x])
    <3>1. CASE i \in 1..m
      BY <2>1, <2>3, <3>1 DEF m
    <3>2. CASE i \notin 1..m
      <4> DEFINE x == i - m
      <4>1. x \in 1..n /\ i = m + x
        BY <2>3, <3>2
      <4> HIDE DEF x
      <4> QED BY <2>1, <2>3, <3>2, <4>1 DEF m
    <3> QED BY <3>1, <3>2
  <2>5a. ASSUME NEW i \in DOMAIN log'[j], i \notin DOMAIN log[j]
         PROVE  \E x \in 1..n : /\ i = m + x /\ order[j][x] \in ActiveRuns(j)
                                /\ log'[j][i].id = ShutdownId(order[j][x])
    <3>1. PICK x \in 1..n :
            /\ i = m + x /\ order[j][x] \in ActiveRuns(j)
            /\ log'[j][i] = Event(ShutdownId(order[j][x]), "interrupted", order[j][x])
      BY <2>5, <2>5a
    <3>2. log'[j][i].id = ShutdownId(order[j][x])
      BY ONLY <3>1 DEF Event
    <3> QED BY <3>1, <3>2
  <2>6. \A i \in Added(log[j], log'[j]) : \E r \in ActiveRuns(j) :
          log'[j][i] = Event(ShutdownId(r), "interrupted", r)
    BY <2>5 DEF Added
  <2>7. ASSUME NEW i \in DOMAIN log[j], NEW r \in ActiveRuns(j)
        PROVE  log[j][i].id # ShutdownId(r)
    <3>1. runs[r].state # "interrupted" /\ r \in Runs
      BY DEF ActiveRuns, OpenRun
    <3> QED BY <3>1 DEF LogAgrees, EventAgrees
  <2>8. UniqueIds(log'[j])
    <3> SUFFICES ASSUME NEW a \in DOMAIN log'[j], NEW b \in DOMAIN log'[j],
                        log'[j][a].id = log'[j][b].id
                 PROVE  a = b
      BY DEF UniqueIds
    <3>1. CASE a \in DOMAIN log[j] /\ b \in DOMAIN log[j]
      BY <2>2, <2>5, <3>1 DEF UniqueIds
    <3>2. CASE a \in DOMAIN log[j] /\ b \notin DOMAIN log[j]
      BY ONLY <2>5, <2>5a, <2>7, <3>2, a \in DOMAIN log'[j], b \in DOMAIN log'[j],
              log'[j][a].id = log'[j][b].id
    <3>3. CASE a \notin DOMAIN log[j] /\ b \in DOMAIN log[j]
      BY ONLY <2>5, <2>5a, <2>7, <3>3, a \in DOMAIN log'[j], b \in DOMAIN log'[j],
              log'[j][a].id = log'[j][b].id
    <3>4. CASE a \notin DOMAIN log[j] /\ b \notin DOMAIN log[j]
      <4>1. PICK x \in 1..n : /\ a = m + x /\ order[j][x] \in Runs
                              /\ log'[j][a].id = ShutdownId(order[j][x])
        BY <2>5a, <3>4 DEF ActiveRuns
      <4>2. PICK y \in 1..n : /\ b = m + y /\ order[j][y] \in Runs
                              /\ log'[j][b].id = ShutdownId(order[j][y])
        BY <2>5a, <3>4 DEF ActiveRuns
      <4>3. order[j][x] = order[j][y]
        BY <4>1, <4>2, ReservedIds
      <4> QED BY <2>1, <4>1, <4>2, <4>3
    <3> QED BY <3>1, <3>2, <3>3, <3>4
  <2>9. ASSUME NEW r \in ActiveRuns(j)
        PROVE  HasEvent(ShutdownId(r))'
    <3>1. PICK x \in 1..n : order[j][x] = r
      BY <2>1
    <3>2. m + x \in DOMAIN log'[j]
      BY <2>3
    <3>3. log'[j][m + x] = Event(ShutdownId(r), "interrupted", r)
      BY <2>1, <3>1 DEF m
    <3> QED BY <3>2, <3>3 DEF HasEvent, Event
  <2> QED BY <2>4, <2>6, <2>8, <2>9
<1>4. ASSUME NEW j \in Jobs, NEW i \in Added(log[j], log'[j])
      PROVE  WellWritten(j, log'[j][i]) /\ \A r \in Runs : log'[j][i].id # TerminalId(r)
  <2>1. PICK q \in ActiveRuns(j) : log'[j][i] = Event(ShutdownId(q), "interrupted", q)
    BY <1>3
  <2>2. q \in Runs /\ runs[q].job = j /\ OpenRun(q)
    BY DEF ActiveRuns
  <2> QED BY <1>2, <2>1, <2>2, ReservedIds DEF WellWritten, Event
<1>5. ASSUME NEW r \in Runs, OpenRun(r)
      PROVE  EndIsTold(r)'
  BY <1>2, <1>3, <1>5, ActiveRunsAreOpen DEF EndIsTold
<1> QED BY <1>3, <1>4, <1>5 DEF LogStep

(* Every operation of the client writes the log it should.                 *)
LEMMA ClientLogStep ==
  ASSUME TypeOK, RowsAgree, LogAgrees, ClientNext \/ UNCHANGED vars
  PROVE  LogStep
<1>0. \A r \in Runs : OpenRun(r) /\ runs'[r].state = "queued" => Untold(r)
  BY DEF Untold, Outcomes
<1>1. ASSUME log' = log, runs' = runs
      PROVE  LogStep
  BY <1>0, <1>1, NoEvent DEF OpenRun
<1>2. ASSUME NEW j \in Jobs, ClientAdmissionStep(j)
      PROVE  LogStep
  <2>1. ASSUME NEW r \in Runs, NEW s \in Sessions, InsertRun(j, r, s), log' = log
        PROVE  LogStep
    <3>1. \A q \in Runs : OpenRun(q) => runs'[q].state = "queued"
      BY <2>1 DEF InsertRun, OpenRun, TypeOK
    <3> QED BY <1>0, <2>1, <3>1, NoEvent
  <2> QED BY <1>1, <1>2, <2>1 DEF ClientAdmissionStep, ReserveStart, Readmit, TurnAdmit
<1>3. ASSUME NEW j \in Jobs, NEW lease \in GrantedLeases(j), ClientLeasedStep(j, lease)
      PROVE  LogStep
  <2>1. ASSUME NEW r \in Runs, NEW s \in Sessions, Admit(j, lease, r, s)
        PROVE  LogStep
    <3>1. \A q \in Runs : OpenRun(q) => runs'[q].state = "queued"
      BY <2>1 DEF Admit, InsertRun, OpenRun, TypeOK
    <3> QED BY <1>0, <2>1, <3>1, NoEvent DEF Admit
  <2>2. ASSUME NEW r \in Runs, log' = log, \A q \in Runs \ {r} : runs'[q] = runs[q],
               runs'[r].state = runs[r].state
        PROVE  LogStep
    BY <1>0, <2>2, NoEvent DEF OpenRun
  <2>3. ASSUME NEW r \in Runs, MarkDispatching(j, lease, r)
        PROVE  LogStep
    BY <2>2, <2>3 DEF MarkDispatching, TypeOK, RunRow
  <2>4. ASSUME NEW r \in Runs, NEW p \in ProviderSessions, BindProviderSession(j, lease, r, p)
        PROVE  LogStep
    BY <2>2, <2>4 DEF BindProviderSession, TypeOK, RunRow
  <2>5. ASSUME NEW id \in EventIds, NEW payload \in Payloads, NEW r \in Runs,
               AppendEventForRun(j, lease, r, id, payload)
        PROVE  LogStep
    <3>1. runs[r].job = j /\ OpenRun(r)
      BY <2>5, CurrentRunWorks DEF AppendEventForRun, CurrentRun
    <3>2. WellWritten(j, Event(id, payload, r))
      BY <3>1, EventIdAssumption DEF WellWritten, Event
    <3>3. id \in AllEventIds /\ payload \in AllPayloads
      BY DEF AllEventIds, AllPayloads
    <3> QED BY <1>0, <2>5, <3>2, <3>3, OneEvent DEF AppendEventForRun, OpenRun
  <2>6. ASSUME NEW id \in EventIds, NEW payload \in Payloads,
               CancelAdmission(j, lease, id, payload, NULL)
        PROVE  LogStep
    <3>1. WellWritten(j, Event(id, payload, NULL))
      BY EventIdAssumption DEF WellWritten, Event
    <3>2. id \in AllEventIds /\ payload \in AllPayloads
      BY DEF AllEventIds, AllPayloads
    <3>3. \A r \in Runs : OpenRun(r) => runs'[r].state \in {"queued", "failed"}
      BY <2>6 DEF CancelAdmission, TypeOK, RunRow, OpenRun
    <3>4. log' = [log EXCEPT ![j] = Appended(@, id, payload, NULL)]
      BY <2>6 DEF CancelAdmission
    <3> QED BY <3>1, <3>2, <3>3, <3>4, OneEvent DEF Untold, Outcomes
  <2>7. ASSUME NEW id \in EventIds, NEW payload \in Payloads, NEW r \in Runs, latest[j] = r,
               CancelAdmission(j, lease, id, payload, TerminalId(r))
        PROVE  LogStep
    BY <2>6, <2>7, CancelEvents
  <2>8. ASSUME NEW r \in Runs, NEW outcome \in Outcomes,
               FinalizeRun(j, lease, r, outcome, TerminalId(r), outcome)
        PROVE  LogStep
    <3>1. runs[r].job = j /\ OpenRun(r)
      BY <2>8, CurrentRunWorks DEF FinalizeRun, CurrentRun
    <3>2. /\ runs'[r].state = outcome
          /\ \A q \in Runs \ {r} : runs'[q] = runs[q]
      BY <2>8 DEF FinalizeRun, TypeOK, RunRow
    <3>3. WellWritten(j, Event(TerminalId(r), outcome, r))
      BY <3>1, <3>2, ReservedIds DEF WellWritten, Event
    <3>4. TerminalId(r) \in AllEventIds /\ outcome \in AllPayloads
      BY DEF AllEventIds, AllPayloads
    <3>5. log' = [log EXCEPT ![j] = Appended(@, TerminalId(r), outcome, r)]
      BY <2>8 DEF FinalizeRun
    <3>6. \A q \in Runs : OpenRun(q) => Untold(q) \/ TerminalId(r) = TerminalId(q)
      BY <1>0, <3>2 DEF OpenRun
    <3> QED BY <3>3, <3>4, <3>5, <3>6, OneEvent
  <2> QED BY <1>1, <1>3, <2>1, <2>3, <2>4, <2>5, <2>6, <2>7, <2>8
          DEF ClientLeasedStep, Prepare, Transition
<1>4. ASSUME AdministrativeStep
      PROVE  LogStep
  <2>1. ASSUME NEW j \in Jobs, NEW id \in EventIds, NEW payload \in Payloads,
               AppendAdminEvent(j, id, payload)
        PROVE  LogStep
    <3>1. WellWritten(j, Event(id, payload, NULL))
      BY EventIdAssumption DEF WellWritten, Event
    <3>2. id \in AllEventIds /\ payload \in AllPayloads
      BY DEF AllEventIds, AllPayloads
    <3> QED BY <1>0, <2>1, <3>1, <3>2, OneEvent DEF AppendAdminEvent, OpenRun
  <2> QED BY <1>1, <1>4, <2>1, ReconcileEvents
          DEF AdministrativeStep, Archive, Unarchive, ReleaseBinding
<1> QED BY <1>1, <1>2, <1>3, <1>4 DEF ClientNext, vars
-----------------------------------------------------------------------------
(* The tables agree. *)

(* The empty store agrees.                                                 *)
LEMMA TablesInit == Init => TablesInv
<1> SUFFICES ASSUME Init
             PROVE  LogAgrees
  BY TypeInit, RowsInit DEF TablesInv
<1>1. \A j \in Jobs : DOMAIN log[j] = {}
  BY DEF Init
<1>2. \A r \in Runs : runs[r].state = "absent"
  BY DEF Init, NoRun
<1> QED BY <1>1, <1>2 DEF LogAgrees, UniqueIds, HasEvent, EndIsTold, Outcomes

(* Every operation of the client keeps the tables in agreement.            *)
LEMMA TablesStep ==
  ASSUME TablesInv, ClientNext \/ UNCHANGED vars
  PROVE  TablesInv'
<1>1. TypeOK'
  BY ClientNextIsAny, TypePreserved, TypeUnchanged DEF TablesInv
<1>2. RowsAgree'
  BY RowsStep DEF TablesInv
<1>3. LogAgrees'
  BY <1>1, ClientRunStep, ClientLogStep, LogAgreesStep DEF TablesInv
<1> QED BY <1>1, <1>2, <1>3 DEF TablesInv

(* The invariant of the store under its client.                            *)
THEOREM TablesInvHolds == ClientSpec => []TablesInv
<1>1. TablesInv /\ [ClientNext]_vars => TablesInv'
  BY TablesStep
<1> QED BY TablesInit, <1>1, PTL DEF ClientSpec

(* It says all that TablesAgree says.                                      *)
LEMMA AgreementFollows == TablesInv => TablesAgree
<1> SUFFICES ASSUME TablesInv
             PROVE  TablesAgree
  OBVIOUS
<1> USE DEF TablesInv
<1>1. OneOpenRun
  BY DEF OneOpenRun, RowsAgree, RunRowAgrees, JobRowAgrees, Working
<1>2. ReadyJobIsSettled
  BY DEF ReadyJobIsSettled, RowsAgree, JobRowAgrees
<1>3. EventsAreDistinct
  BY DEF EventsAreDistinct, LogAgrees, UniqueIds, EventAgrees
<1>4. ASSUME NEW r \in Runs
      PROVE  /\ \A outcome \in Outcomes :
                  Logged(TerminalId(r), outcome) => runs[r].state = outcome
             /\ Logged(ShutdownId(r), "interrupted") => runs[r].state = "interrupted"
             /\ HasEvent(TerminalId(r)) => Logged(TerminalId(r), runs[r].state)
             /\ HasEvent(ShutdownId(r)) => Logged(ShutdownId(r), "interrupted")
  BY DEF Logged, HasEvent, LogAgrees, EventAgrees
<1>5. \A id, payload : Logged(id, payload) => HasEvent(id)
  BY DEF Logged, HasEvent
<1>6. TerminalEventTellsOutcome
  BY <1>4, <1>5 DEF TerminalEventTellsOutcome, LogAgrees, EndIsTold
<1> QED BY <1>1, <1>2, <1>3, <1>6 DEF TablesAgree

(* Whatever the server's client does, and whenever the store is reopened,  *)
(* the five tables tell one story.                                         *)
THEOREM TablesAlwaysAgree == ClientSpec => []TablesAgree
BY TablesInvHolds, AgreementFollows, PTL
-----------------------------------------------------------------------------
(***************************************************************************)
(* Refinement: the store under its client implements RunLedger.  In tables *)
(* that agree, the run the ledger sees in a slot is read off the job row.  *)
(***************************************************************************)
RunInSlot(j) == IF jobs[j].state \in Working THEN latest[j] ELSE NULL

(* What the mapping reads from tables that agree.                          *)
LedgerView ==
  /\ \A j \in Jobs : OpenRunOf(j) = RunInSlot(j)
  /\ \A j \in Jobs : jobs[j].state \in Working => latest[j] \in Runs
  /\ \A j \in Jobs, r \in Runs : RunInSlot(j) = r => OpenRun(r)
  /\ \A r \in Runs : OpenRun(r) => \E j \in Jobs : r \in ActiveRuns(j) /\ RunInSlot(j) = r

(* Tables that agree offer this view.                                      *)
LEMMA ViewFollows == TablesInv => LedgerView
<1> SUFFICES ASSUME TablesInv
             PROVE  LedgerView
  OBVIOUS
<1> USE DEF TablesInv
<1>1. ASSUME NEW j \in Jobs, jobs[j].state \in Working
      PROVE  OpenRunOf(j) = RunInSlot(j) /\ latest[j] \in Runs /\ OpenRun(latest[j])
  BY <1>1 DEF RowsAgree, JobRowAgrees, OpenRunOf, RunInSlot, TypeOK
<1>2. ASSUME NEW j \in Jobs, jobs[j].state \notin Working
      PROVE  OpenRunOf(j) = NULL /\ RunInSlot(j) = NULL
  <2>1. latest[j] # NULL => latest[j] \in Runs /\ runs[latest[j]].job = j
    BY DEF RowsAgree, JobRowAgrees, TypeOK
  <2>2. latest[j] # NULL => ~OpenRun(latest[j])
    BY <1>2, <2>1 DEF RowsAgree, RunRowAgrees
  <2> QED BY <1>2, <2>2 DEF OpenRunOf, RunInSlot
<1>3. ASSUME NEW r \in Runs, OpenRun(r)
      PROVE  \E j \in Jobs : r \in ActiveRuns(j) /\ RunInSlot(j) = r
  BY <1>3 DEF RowsAgree, RunRowAgrees, RunInSlot, ActiveRuns, Working
<1>4. ASSUME NEW j \in Jobs, NEW r \in Runs, RunInSlot(j) = r
      PROVE  OpenRun(r)
  BY <1>1, <1>2, <1>4, NullAssumption DEF RunInSlot
<1> QED BY <1>1, <1>2, <1>3, <1>4 DEF LedgerView

(* An empty store is an empty ledger.                                      *)
LEMMA LedgerInitMaps == Init => Ledger!LedgerInit
BY DEF Init, Ledger!LedgerInit, ConsumingJobs, Consuming, NoJob, NoRun,
       OpenRunOf, OutcomeOf, Outcomes

(* The ledger counts slots as the store does.                              *)
LEMMA SameCount == Ledger!Cardinality(ConsumingJobs) = Cardinality(ConsumingJobs)
BY Zenon DEF Ledger!Cardinality, Cardinality

(* Bookkeeping the ledger does not see.                                    *)
LEMMA QuietStep ==
  ASSUME LedgerView, LedgerView', latest' = latest,
         \A j \in Jobs : \/ jobs'[j].state = jobs[j].state
                         \/ jobs[j].state \in Working /\ jobs'[j].state \in Working,
         \A r \in Runs : runs'[r].state = runs[r].state
  PROVE  UNCHANGED Ledger!ledgerVars
<1>1. ConsumingJobs' = ConsumingJobs
  BY DEF ConsumingJobs, Consuming, Working
<1>2. \A j \in Jobs : OpenRunOf(j)' = OpenRunOf(j)
  BY DEF LedgerView, RunInSlot
<1>3. \A r \in Runs : OutcomeOf(r)' = OutcomeOf(r)
  BY DEF OutcomeOf
<1> QED BY <1>1, <1>2, <1>3 DEF Ledger!ledgerVars

(* A reservation takes a slot.                                             *)
LEMMA ReserveTakesSlot ==
  ASSUME TypeOK, LedgerView, LedgerView', NEW j \in Jobs, NEW s \in Sessions,
         NEW owner \in Owners, ReserveStart(j, s, owner)
  PROVE  Ledger!TakeSlot(j)
<1>1. /\ jobs[j].state = "absent" /\ jobs'[j].state = "reserved"
      /\ \A k \in Jobs \ {j} : jobs'[k] = jobs[k]
      /\ latest' = latest /\ runs' = runs /\ HasCapacity
  BY DEF ReserveStart, ReservedRow, TypeOK
<1>2. j \notin ConsumingJobs /\ ConsumingJobs' = ConsumingJobs \cup {j}
  BY <1>1 DEF ConsumingJobs, Consuming
<1>3. \A k \in Jobs : OpenRunOf(k)' = OpenRunOf(k)
  BY <1>1 DEF LedgerView, RunInSlot, Working
<1>4. \A r \in Runs : OutcomeOf(r)' = OutcomeOf(r)
  BY <1>1 DEF OutcomeOf
<1> QED BY <1>1, <1>2, <1>3, <1>4, SameCount DEF Ledger!TakeSlot, HasCapacity

(* A run that is inserted was unused, and is then in the slot of its job.  *)
LEMMA InsertedRunIsNew ==
  ASSUME TypeOK, LedgerView, LedgerView', NEW j \in Jobs, NEW r \in Runs, NEW s \in Sessions,
         InsertRun(j, r, s), jobs[j].state \notin Working, jobs'[j].state = "queued",
         \A k \in Jobs \ {j} : jobs'[k] = jobs[k]
  PROVE  /\ OpenRunOf(j) = NULL
         /\ Ledger!Unused(r)
         /\ [k \in Jobs |-> OpenRunOf(k)]' = [[k \in Jobs |-> OpenRunOf(k)] EXCEPT ![j] = r]
         /\ [q \in Runs |-> OutcomeOf(q)]' = [q \in Runs |-> OutcomeOf(q)]
         /\ ConsumingJobs' = ConsumingJobs \cup {j}
<1>1. /\ runs[r].state = "absent" /\ runs'[r].state = "queued"
      /\ \A q \in Runs \ {r} : runs'[q] = runs[q]
      /\ latest'[j] = r /\ \A k \in Jobs \ {j} : latest'[k] = latest[k]
  BY DEF InsertRun, NoRun, TypeOK
<1>2. OpenRunOf(j) = NULL
  BY DEF LedgerView, RunInSlot
<1>3. Ledger!Unused(r)
  <2>1. \A k \in Jobs : OpenRunOf(k) # r
    BY <1>1 DEF LedgerView, OpenRun
  <2>2. OutcomeOf(r) = NULL
    BY <1>1 DEF OutcomeOf, Outcomes
  <2> QED BY <2>1, <2>2 DEF Ledger!Unused
<1>4. OpenRunOf(j)' = r /\ \A k \in Jobs \ {j} : OpenRunOf(k)' = OpenRunOf(k)
  BY <1>1 DEF LedgerView, RunInSlot, Working
<1>5. \A q \in Runs : OutcomeOf(q)' = OutcomeOf(q)
  BY <1>1 DEF OutcomeOf, Outcomes
<1>6. ConsumingJobs' = ConsumingJobs \cup {j}
  BY DEF ConsumingJobs, Consuming
<1> QED BY <1>2, <1>3, <1>4, <1>5, <1>6

(* An admission begins the run in the reserved slot.                       *)
LEMMA AdmitBeginsRun ==
  ASSUME TypeOK, LedgerView, LedgerView', NEW j \in Jobs, NEW lease,
         NEW r \in Runs, NEW s \in Sessions, Admit(j, lease, r, s)
  PROVE  Ledger!BeginRun(j, r)
<1>1. /\ jobs[j].state = "reserved" /\ jobs'[j].state = "queued"
      /\ \A k \in Jobs \ {j} : jobs'[k] = jobs[k]
      /\ InsertRun(j, r, s)
  BY DEF Admit, SetState, TypeOK, JobRow
<1>2. j \in ConsumingJobs
  BY <1>1 DEF ConsumingJobs, Consuming
<1> QED BY <1>1, <1>2, InsertedRunIsNew DEF Ledger!BeginRun, Working

(* Readmission and the next turn take a slot and begin a run in it.        *)
LEMMA LeasedBeginsRun ==
  ASSUME TypeOK, LedgerView, LedgerView', NEW j \in Jobs, NEW owner,
         NEW r \in Runs, NEW s \in Sessions,
         jobs[j].state \in {"interrupted", "ready"}, HasCapacity,
         jobs' = Leased(j, owner, "queued"), InsertRun(j, r, s)
  PROVE  Ledger!TakeSlotAndBegin(j, r)
<1>1. /\ jobs'[j].state = "queued" /\ jobs[j].state \notin Working
      /\ \A k \in Jobs \ {j} : jobs'[k] = jobs[k]
  BY DEF Leased, TypeOK, JobRow, Working
<1>2. j \notin ConsumingJobs
  BY DEF ConsumingJobs, Consuming
<1> QED BY <1>1, <1>2, InsertedRunIsNew, SameCount DEF Ledger!TakeSlotAndBegin, HasCapacity

(* A job leaves its slot, and the run in it, if there is one, ends.        *)
LEMMA SlotIsLeft ==
  ASSUME TypeOK, LedgerView, LedgerView', NEW j \in Jobs, NEW r \in Runs, NEW outcome \in Outcomes,
         jobs[j].state \in Working, RunInSlot(j) = r,
         jobs'[j].state \notin Consuming, \A k \in Jobs \ {j} : jobs'[k] = jobs[k],
         latest' = latest, runs'[r].state = outcome, \A q \in Runs \ {r} : runs'[q] = runs[q]
  PROVE  Ledger!EndRun(j, outcome)
<1>1. j \in ConsumingJobs /\ ConsumingJobs' = ConsumingJobs \ {j}
  BY DEF ConsumingJobs, Consuming, Working
<1>2. OpenRunOf(j) = r /\ r # NULL
  BY NullAssumption DEF LedgerView
<1>3. OpenRunOf(j)' = NULL /\ \A k \in Jobs \ {j} : OpenRunOf(k)' = OpenRunOf(k)
  BY DEF LedgerView, RunInSlot, Working, Consuming
<1>4. OutcomeOf(r)' = outcome /\ \A q \in Runs \ {r} : OutcomeOf(q)' = OutcomeOf(q)
  BY DEF OutcomeOf
<1> DEFINE open == [k \in Jobs |-> OpenRunOf(k)]
           ended == [q \in Runs |-> OutcomeOf(q)]
<1>5. open[j] = r /\ open' = [open EXCEPT ![j] = NULL]
  <2>1. open[j] = r
    BY <1>2
  <2>2. open' = [open EXCEPT ![j] = NULL]
    BY <1>3
  <2> QED BY <2>1, <2>2
<1>6. ended' = [ended EXCEPT ![r] = outcome]
  BY <1>4
<1>7. ended' = [ended EXCEPT ![open[j]] = outcome]
  BY <1>5, <1>6
<1> QED BY <1>1, <1>2, <1>5, <1>7 DEF Ledger!EndRun

(* The end of a run ends it and frees its slot.                            *)
LEMMA FinalizeEndsRun ==
  ASSUME TablesInv, LedgerView, LedgerView', NEW j \in Jobs, NEW lease, NEW r \in Runs,
         NEW outcome \in Outcomes, NEW id, NEW payload,
         FinalizeRun(j, lease, r, outcome, id, payload)
  PROVE  Ledger!EndRun(j, outcome)
<1>1. jobs[j].state \in Working /\ RunInSlot(j) = r
  BY CurrentRunWorks DEF FinalizeRun, CurrentRun, RunInSlot, TablesInv
<1>2. /\ jobs'[j].state \notin Consuming /\ \A k \in Jobs \ {j} : jobs'[k] = jobs[k]
      /\ latest' = latest
      /\ runs'[r].state = outcome /\ \A q \in Runs \ {r} : runs'[q] = runs[q]
  BY DEF FinalizeRun, Released, TablesInv, TypeOK, JobRow, RunRow, Consuming
<1> QED BY <1>1, <1>2, SlotIsLeft DEF TablesInv

(* A cancelled admission gives the slot back, or ends its run as failed.   *)
LEMMA CancelLeavesSlot ==
  ASSUME TablesInv, LedgerView, LedgerView', NEW j \in Jobs, NEW lease,
         NEW id, NEW payload, NEW terminal,
         CancelAdmission(j, lease, id, payload, terminal)
  PROVE  Ledger!GiveUpSlot(j) \/ Ledger!EndRun(j, "failed")
<1>1. /\ jobs'[j].state = "failed" /\ \A k \in Jobs \ {j} : jobs'[k] = jobs[k]
      /\ latest' = latest
      /\ \A r \in Runs : \/ /\ runs[r].job = j /\ OpenRun(r)
                            /\ runs'[r].state = "failed"
                         \/ ~(runs[r].job = j /\ OpenRun(r)) /\ runs'[r] = runs[r]
  BY DEF CancelAdmission, Released, TablesInv, TypeOK, JobRow, RunRow
<1>2. \A r \in Runs : runs[r].job = j /\ OpenRun(r) =>
        jobs[j].state \in Working /\ RunInSlot(j) = r
  BY DEF TablesInv, RowsAgree, RunRowAgrees, RunInSlot
<1>3. CASE jobs[j].state = "reserved"
  <2>1. j \in ConsumingJobs /\ ConsumingJobs' = ConsumingJobs \ {j}
    BY <1>1, <1>3 DEF ConsumingJobs, Consuming
  <2>2. runs' = runs
    BY <1>1, <1>2, <1>3 DEF CancelAdmission, TablesInv, TypeOK, Working
  <2>3. OpenRunOf(j) = NULL /\ \A k \in Jobs : OpenRunOf(k)' = OpenRunOf(k)
    BY <1>1, <1>3 DEF LedgerView, RunInSlot, Working
  <2>4. \A r \in Runs : OutcomeOf(r)' = OutcomeOf(r)
    BY <2>2 DEF OutcomeOf
  <2> QED BY <2>1, <2>3, <2>4 DEF Ledger!GiveUpSlot
<1>4. CASE jobs[j].state = "queued"
  <2> DEFINE r == latest[j]
  <2>1. r \in Runs /\ runs[r].job = j /\ OpenRun(r) /\ RunInSlot(j) = r
    BY <1>4 DEF TablesInv, TypeOK, RowsAgree, JobRowAgrees, RunInSlot, Working
  <2>2. \A q \in Runs \ {r} : runs'[q] = runs[q]
    BY <1>1, <1>2, <2>1
  <2>3. runs'[r].state = "failed"
    BY <1>1, <2>1
  <2>4. "failed" \in Outcomes /\ "failed" \notin Consuming /\ jobs[j].state \in Working
    BY <1>4 DEF Outcomes, Consuming, Working
  <2> HIDE DEF r
  <2> QED BY <1>1, <2>1, <2>2, <2>3, <2>4, SlotIsLeft DEF TablesInv
<1> QED BY <1>3, <1>4 DEF CancelAdmission

(* A reconciliation interrupts every open run and frees every slot.        *)
LEMMA ReconcileInterruptsAll ==
  ASSUME TablesInv, LedgerView, LedgerView', Reconcile
  PROVE  Ledger!InterruptAll
<1>1. /\ \A j \in Jobs : jobs'[j].state \notin Consuming
      /\ \A r \in Runs : runs'[r] = IF \E j \in Jobs : r \in ActiveRuns(j)
                                    THEN [runs[r] EXCEPT !.state = "interrupted"]
                                    ELSE runs[r]
  BY DEF Reconcile, TablesInv, TypeOK, JobRow, Consuming
<1>2. ConsumingJobs' = {}
  BY <1>1 DEF ConsumingJobs
<1>3. \A j \in Jobs : OpenRunOf(j)' = NULL
  BY <1>1 DEF LedgerView, RunInSlot, Working, Consuming
<1>4. \A r \in Runs : (\E j \in Jobs : r \in ActiveRuns(j)) <=> \E j \in Jobs : OpenRunOf(j) = r
  BY DEF LedgerView, ActiveRuns
<1>5. \A r \in Runs : OutcomeOf(r)' = IF \E j \in Jobs : OpenRunOf(j) = r
                                      THEN "interrupted" ELSE OutcomeOf(r)
  BY <1>1, <1>4 DEF OutcomeOf, Outcomes, TablesInv, TypeOK, RunRow
<1> QED BY <1>2, <1>3, <1>5 DEF Ledger!InterruptAll

(* Every operation of the client is a step of the ledger or stutters.      *)
LEMMA LedgerStep ==
  ASSUME TablesInv, TablesInv', LedgerView, LedgerView', ClientNext \/ UNCHANGED vars
  PROVE  Ledger!LedgerNext \/ UNCHANGED Ledger!ledgerVars
<1> DEFINE Mapped == Ledger!LedgerNext \/ UNCHANGED Ledger!ledgerVars
<1> USE DEF TablesInv
<1>1. ASSUME latest' = latest, jobs' = jobs, runs' = runs
      PROVE  Mapped
  BY <1>1, QuietStep
<1>2. ASSUME NEW j \in Jobs, ClientAdmissionStep(j)
      PROVE  Mapped
  <2>1. ASSUME NEW s \in Sessions, NEW owner \in Owners, ReserveStart(j, s, owner)
        PROVE  Mapped
    BY <2>1, ReserveTakesSlot DEF Ledger!LedgerNext
  <2>2. ASSUME NEW owner \in Owners, NEW r \in Runs, NEW s \in Sessions,
               Readmit(j, owner, r, s) \/ TurnAdmit(j, s, owner, r)
        PROVE  Mapped
    <3>1. Ledger!TakeSlotAndBegin(j, r)
      BY <2>2, LeasedBeginsRun DEF Readmit, TurnAdmit
    <3> QED BY <3>1 DEF Ledger!LedgerNext
  <2> QED BY <1>2, <2>1, <2>2 DEF ClientAdmissionStep
<1>3. ASSUME NEW j \in Jobs, NEW lease \in GrantedLeases(j), ClientLeasedStep(j, lease)
      PROVE  Mapped
  <2>1. ASSUME NEW w \in Worktrees, Prepare(j, lease, w)
        PROVE  Mapped
    BY <2>1, QuietStep DEF Prepare, TypeOK, JobRow
  <2>2. ASSUME NEW r \in Runs, NEW s \in Sessions, Admit(j, lease, r, s)
        PROVE  Mapped
    BY <2>2, AdmitBeginsRun DEF Ledger!LedgerNext
  <2>3. ASSUME NEW to \in {"running", "aborting"}, Transition(j, lease, to)
        PROVE  Mapped
    <3>1. jobs[j].state \in Working
      BY <2>3 DEF Transition, CanTransitionTo, Working
    <3>2. /\ jobs'[j].state \in Working /\ \A k \in Jobs \ {j} : jobs'[k] = jobs[k]
          /\ runs' = runs /\ latest' = latest
      BY <2>3 DEF Transition, SetState, TypeOK, JobRow, Working
    <3> QED BY <3>1, <3>2, QuietStep
  <2>4. ASSUME NEW r \in Runs, MarkDispatching(j, lease, r)
        PROVE  Mapped
    BY <2>4, QuietStep DEF MarkDispatching, TypeOK, RunRow
  <2>5. ASSUME NEW r \in Runs, NEW p \in ProviderSessions, BindProviderSession(j, lease, r, p)
        PROVE  Mapped
    BY <2>5, QuietStep DEF BindProviderSession, TypeOK, RunRow
  <2>6. ASSUME NEW r, NEW id, NEW payload, AppendEventForRun(j, lease, r, id, payload)
        PROVE  Mapped
    BY <1>1, <2>6 DEF AppendEventForRun
  <2>7. ASSUME NEW id, NEW payload, NEW terminal,
               CancelAdmission(j, lease, id, payload, terminal)
        PROVE  Mapped
    <3>1. "failed" \in Ledger!RunOutcomes
      BY DEF Ledger!RunOutcomes
    <3> QED BY <2>7, <3>1, CancelLeavesSlot DEF Ledger!LedgerNext
  <2>8. ASSUME NEW r \in Runs, NEW outcome \in Outcomes, NEW id, NEW payload,
               FinalizeRun(j, lease, r, outcome, id, payload)
        PROVE  Mapped
    <3>1. Ledger!EndRun(j, outcome)
      BY <2>8, FinalizeEndsRun
    <3> QED BY <3>1 DEF Ledger!LedgerNext, Ledger!RunOutcomes, Outcomes
  <2> QED BY <1>3, <2>1, <2>2, <2>3, <2>4, <2>5, <2>6, <2>7, <2>8 DEF ClientLeasedStep
<1>4. ASSUME AdministrativeStep
      PROVE  Mapped
  <2>1. ASSUME NEW j \in Jobs, Archive(j) \/ Unarchive(j)
        PROVE  Mapped
    <3>1. PICK flag \in BOOLEAN :
             jobs' = [jobs EXCEPT ![j] = [jobs[j] EXCEPT !.archived = flag]]
      BY <2>1 DEF TypeOK, JobRow, Archive, Unarchive
    <3>2. \A k \in Jobs : jobs'[k].state = jobs[k].state
      BY <3>1 DEF TypeOK, JobRow
    <3> QED BY <2>1, <3>2, QuietStep DEF Archive, Unarchive
  <2>2. CASE Reconcile
    BY <2>2, ReconcileInterruptsAll DEF Ledger!LedgerNext
  <2> QED BY <1>1, <1>4, <2>1, <2>2, ArchivableAssumption
          DEF AdministrativeStep, ReleaseBinding, AppendAdminEvent
<1> QED BY <1>1, <1>2, <1>3, <1>4 DEF ClientNext, vars

(* The store, as the server uses it, keeps the promises of RunLedger: a    *)
(* bounded number of slots, a run only in a slot and one per job, and one  *)
(* outcome per run, given together with the slot.                          *)
THEOREM LedgerIsImplemented == ClientSpec => ImplementsLedger
<1>1. Init => Ledger!LedgerInit
  BY LedgerInitMaps
<1>2. TablesInv /\ TablesInv' /\ LedgerView /\ LedgerView' /\ [ClientNext]_vars =>
        [Ledger!LedgerNext]_(Ledger!ledgerVars)
  BY LedgerStep
<1> QED BY <1>1, <1>2, TablesInvHolds, ViewFollows, PTL
        DEF ClientSpec, ImplementsLedger, Ledger!LedgerSpec
=============================================================================
