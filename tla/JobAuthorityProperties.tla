----------------------- MODULE JobAuthorityProperties -----------------------
(***************************************************************************)
(* What the job authority guarantees: first to anyone who can reach its    *)
(* protocol (Spec), then to the server's own client (ClientSpec), which    *)
(* also sees it implement the abstract RunLedger.                          *)
(***************************************************************************)
EXTENDS JobAuthority

JobRow ==
  [state : JobStates \cup {"absent"}, owner : Owners \cup {NULL},
   generation : Nat, next : Nat \ {0}, worktree : Worktrees \cup {NULL},
   archived : BOOLEAN]

RunRow ==
  [job : Jobs \cup {NULL}, session : Sessions \cup {NULL},
   state : Outcomes \cup {"absent", "queued"},
   provider : ProviderSessions \cup {NULL}, dispatched : BOOLEAN]

BindingRow ==
  [session : Sessions \cup {NULL}, active : BOOLEAN,
   provider : ProviderSessions \cup {NULL}]

EventRow == [id : AllEventIds, payload : AllPayloads, run : Runs \cup {NULL}]

(* The rows of the five tables have the types the schema and the parsers   *)
(* of jobs.rs give them.                                                   *)
TypeOK ==
  /\ jobs \in [Jobs -> JobRow]
  /\ runs \in [Runs -> RunRow]
  /\ latest \in [Jobs -> Runs \cup {NULL}]
  /\ bindings \in [Jobs -> BindingRow]
  /\ log \in [Jobs -> Seq(EventRow)]
-----------------------------------------------------------------------------
(* Safety for every caller. *)

(* However reservations, readmissions and turns interleave, the jobs in a  *)
(* consuming state never outnumber the cap (consuming_count is read inside *)
(* the transaction that adds one).                                         *)
CapacityBound == Cardinality(ConsumingJobs) <= Cap

(* A job that occupies a slot always has a holder that can end it, a job   *)
(* that is over or interrupted never has one, and no granted generation is *)
(* ahead of the counter the next one is taken from.                        *)
LeaseMatchesState ==
  \A j \in Jobs :
    /\ jobs[j].state \in Consuming => jobs[j].owner # NULL
    /\ jobs[j].owner # NULL => jobs[j].state \in Consuming \cup {"ready"}
    /\ jobs[j].generation < jobs[j].next

(* A chat session resolves to at most one live job (binding.resolve reads  *)
(* one row).                                                               *)
SessionHasOneJob ==
  \A j, k \in Jobs, s \in Sessions :
    ActiveBinding(j, s) /\ ActiveBinding(k, s) => j = k

(* Retries never duplicate an event: ids are unique in a job's log, and an *)
(* event carries only a run of that job.                                   *)
EventsAreDistinct ==
  \A j \in Jobs : \A x, y \in DOMAIN log[j] :
    /\ log[j][x].id = log[j][y].id => x = y
    /\ log[j][x].run # NULL => runs[log[j][x].run].job = j

(* Fencing: a lease that was given up or overtaken never verifies again,   *)
(* because whoever holds the job next holds a larger generation.           *)
FencingTokenGrows ==
  [][\A j \in Jobs :
       jobs'[j].owner # NULL /\ Lease(jobs'[j].owner, jobs'[j].generation)
                                  # Lease(jobs[j].owner, jobs[j].generation)
         => jobs'[j].generation > jobs[j].generation]_vars

(* Nothing reaches a run after its end: no late provider session, dispatch *)
(* mark, second outcome or reconciliation changes its row.                 *)
EndedRunIsFrozen ==
  [][\A r \in Runs : runs[r].state \in Outcomes => runs'[r] = runs[r]]_vars

(* The event log only grows, and an event of a run is only ever added      *)
(* while that run is open: a client that has replayed up to the end of a   *)
(* run has seen all of it.                                                 *)
LogIsSealed ==
  [][\A j \in Jobs :
       /\ Len(log'[j]) >= Len(log[j])
       /\ \A i \in DOMAIN log[j] : log'[j][i] = log[j][i]
       /\ \A i \in DOMAIN log'[j] \ DOMAIN log[j] :
            log'[j][i].run # NULL => OpenRun(log'[j][i].run)]_vars
-----------------------------------------------------------------------------
(* Safety for the server's client. *)

(* A job is queued, running or aborting exactly while one run of it is     *)
(* open, and that run is the current one: no orphan keeps running in the   *)
(* table and no slot is held for a run that is over.                       *)
OneOpenRun ==
  /\ \A r \in Runs : OpenRun(r) =>
       \E j \in Jobs : latest[j] = r /\ runs[r].job = j
                       /\ jobs[j].state \in {"queued", "running", "aborting"}
  /\ \A j \in Jobs : jobs[j].state \in {"queued", "running", "aborting"} =>
       latest[j] # NULL /\ OpenRun(latest[j])

(* The event log and the run table tell the same story: a terminal or      *)
(* shutdown event names the outcome of its run, no run has both, and a run *)
(* that did not simply fail admission has one.                             *)
Logged(id, payload) ==
  \E j \in Jobs : \E i \in DOMAIN log[j] :
    log[j][i].id = id /\ log[j][i].payload = payload

TerminalEventTellsOutcome ==
  \A r \in Runs :
    /\ \A outcome \in Outcomes :
         Logged(TerminalId(r), outcome) => runs[r].state = outcome
    /\ Logged(ShutdownId(r), "interrupted") => runs[r].state = "interrupted"
    /\ ~(Logged(TerminalId(r), "interrupted") /\ Logged(ShutdownId(r), "interrupted"))
    /\ runs[r].state \in Outcomes \ {"failed"} =>
         \/ Logged(TerminalId(r), runs[r].state)
         \/ runs[r].state = "interrupted" /\ Logged(ShutdownId(r), "interrupted")

(* A ready job can take the next turn: it has a worktree, its last run is  *)
(* over, and nobody holds a lease on it.                                   *)
ReadyJobIsSettled ==
  \A j \in Jobs : jobs[j].state = "ready" =>
    /\ jobs[j].worktree # NULL
    /\ jobs[j].owner = NULL
    /\ latest[j] # NULL /\ runs[latest[j]].state \in Outcomes

(* The tables agree with one another whenever a reader may look: open runs *)
(* and occupied slots, runs and the events that end them, ready jobs and   *)
(* what they need, and no event twice however often an append is retried   *)
(* (each operation of jobs.rs writes several tables).                      *)
TablesAgree ==
  OneOpenRun /\ TerminalEventTellsOutcome /\ ReadyJobIsSettled /\ EventsAreDistinct

(* The authority, as its client uses it, implements the abstract ledger.   *)
OpenRunOf(j) ==
  IF latest[j] # NULL /\ OpenRun(latest[j]) THEN latest[j] ELSE NULL

OutcomeOf(r) == IF runs[r].state \in Outcomes THEN runs[r].state ELSE NULL

Ledger == INSTANCE RunLedger WITH
  slots <- ConsumingJobs,
  open <- [j \in Jobs |-> OpenRunOf(j)],
  ended <- [r \in Runs |-> OutcomeOf(r)]

(* Every step of the store under its client is a step of RunLedger or      *)
(* leaves it unchanged.                                                    *)
ImplementsLedger == Ledger!LedgerSpec
=============================================================================
