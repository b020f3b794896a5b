------------------------------ MODULE RunLedger ------------------------------
(***************************************************************************)
(* What the job authority promises its clients, with leases, bindings,     *)
(* events and the phases of a job abstracted away: a bounded number of     *)
(* slots, at most one open run per job, a run only inside a slot, and one  *)
(* outcome per run, given once and together with the slot.                 *)
(***************************************************************************)
EXTENDS Integers, FiniteSets

CONSTANTS Jobs, Runs, Cap, NULL

VARIABLES
  slots, \* the jobs that hold a concurrency slot
  open,  \* per job, its open run or NULL
  ended  \* per run, its outcome or NULL

ledgerVars == <<slots, open, ended>>

RunOutcomes == {"succeeded", "failed", "aborted", "interrupted"}

(* A run that was never begun. *)
Unused(r) == ended[r] = NULL /\ \A j \in Jobs : open[j] # r

LedgerInit ==
  /\ slots = {}
  /\ open = [j \in Jobs |-> NULL]
  /\ ended = [r \in Runs |-> NULL]

(* Take a slot; the run comes later. *)
TakeSlot(j) ==
  /\ j \notin slots
  /\ Cardinality(slots) < Cap
  /\ slots' = slots \cup {j}
  /\ UNCHANGED <<open, ended>>

(* Open a run in a slot that has none. *)
BeginRun(j, r) ==
  /\ j \in slots
  /\ open[j] = NULL
  /\ Unused(r)
  /\ open' = [open EXCEPT ![j] = r]
  /\ UNCHANGED <<slots, ended>>

(* Take a slot and open a run in it, in one step. *)
TakeSlotAndBegin(j, r) ==
  /\ j \notin slots
  /\ Cardinality(slots) < Cap
  /\ open[j] = NULL
  /\ Unused(r)
  /\ slots' = slots \cup {j}
  /\ open' = [open EXCEPT ![j] = r]
  /\ UNCHANGED ended

(* The open run ends and the slot is free, in one step. *)
EndRun(j, outcome) ==
  /\ j \in slots
  /\ open[j] # NULL
  /\ ended' = [ended EXCEPT ![open[j]] = outcome]
  /\ open' = [open EXCEPT ![j] = NULL]
  /\ slots' = slots \ {j}

(* A slot without a run is given back. *)
GiveUpSlot(j) ==
  /\ j \in slots
  /\ open[j] = NULL
  /\ slots' = slots \ {j}
  /\ UNCHANGED <<open, ended>>

(* A restart: every open run is interrupted and every slot is free. *)
InterruptAll ==
  /\ slots' = {}
  /\ open' = [j \in Jobs |-> NULL]
  /\ ended' = [r \in Runs |-> IF \E j \in Jobs : open[j] = r
                              THEN "interrupted" ELSE ended[r]]

LedgerNext ==
  \/ \E j \in Jobs :
       \/ TakeSlot(j)
       \/ GiveUpSlot(j)
       \/ \E r \in Runs : BeginRun(j, r) \/ TakeSlotAndBegin(j, r)
       \/ \E outcome \in RunOutcomes : EndRun(j, outcome)
  \/ InterruptAll

LedgerSpec == LedgerInit /\ [][LedgerNext]_ledgerVars
=============================================================================
