---------------------------- MODULE UpdateJournal ----------------------------
(***************************************************************************)
(* The update journal of the macOS desktop (updater_attempt.rs): three     *)
(* names in one directory.  "attempt" blocks every start while it exists,  *)
(* "completed" holds the receipt of the last finished update, "stage" the  *)
(* receipt that is about to replace it.                                    *)
(*                                                                         *)
(* The disk is modelled by what a name shows to a running process (`fs`)   *)
(* and what it is certain to show after the machine stops (`safe`).  A     *)
(* directory change not yet synced is a group of names in `pending` that   *)
(* reaches the disk together or not at all; a file whose bytes are not     *)
(* synced is in `loose` and may come back old, new or torn.                *)
(*                                                                         *)
(* A journal operation is the sequence of file operations it performs: the *)
(* operations Begin, Installed, Recover and Finish below are those         *)
(* sequences, and the process may die between any two of them.             *)
(*                                                                         *)
(* A process id in a record stands for what the status check can tell of   *)
(* it: the running shell ("self"), the shell before it that is not reaped  *)
(* yet ("last"), a server that outlived its shell ("orphan"), or "gone".   *)
(***************************************************************************)
EXTENDS Naturals, Sequences

VARIABLES fs, safe, pending, loose
journal == <<fs, safe, pending, loose>>

Name == {"attempt", "completed", "stage"}

Absent == [kind |-> "absent"]
Torn   == [kind |-> "torn"]        \* empty, truncated or half written

Record(phase, owner, recovery, target) ==
  [kind |-> "attempt", phase |-> phase, owner |-> owner,
   recovery |-> recovery, target |-> target]

\* CompletedRecord: the state, its writer and its server, and the attempt.
Receipt(state, attempt) ==
  [kind |-> "receipt", state |-> state, by |-> "self", server |-> "self",
   owner |-> attempt.owner, recovery |-> attempt.recovery,
   target |-> attempt.target]

IsCommitted(c) == c.kind = "receipt" /\ c.state = "committed"
IsPrepared(c)  == c.kind = "receipt" /\ c.state = "prepared"

JournalInit ==
  /\ fs = [n \in Name |-> Absent]
  /\ safe = fs
  /\ pending = {}
  /\ loose = {}

-----------------------------------------------------------------------------
(* The file operations.                                                    *)

Op(op, name)        == [op |-> op, name |-> name, content |-> Absent, live |-> FALSE]
Write(name, c)      == [op |-> "write", name |-> name, content |-> c, live |-> FALSE]
SyncDirectory       == Op("syncDirectory", "attempt")
Live(step)          == [step EXCEPT !.live = TRUE]  \* needs the server's health first

\* open_receipt_slot: a missing slot is created, a readable one of the same
\* chain of updates is reused, anything else is refused.
SlotUsable(name, target) ==
  \/ fs[name] = Absent
  \/ fs[name].kind = "receipt" /\ fs[name].target <= target

Creates(op) ==
  \/ op.op = "create"
  \/ op.op = "open" /\ fs[op.name] = Absent

Refused(op) ==
  \/ op.op = "create" /\ fs[op.name] # Absent
  \/ op.op = "open" /\ ~SlotUsable(op.name, op.content.target)

Put(name, c) == fs' = [fs EXCEPT ![name] = c]

Perform(op) ==
  LET n == op.name IN
  \/ /\ Creates(op)
     /\ Put(n, Torn)
     /\ pending' = pending \cup {{n}}
     /\ loose' = loose \cup {n}
     /\ UNCHANGED safe
  \/ /\ op.op = "open" /\ fs[n] # Absent
     /\ UNCHANGED journal
  \/ /\ op.op \in {"truncate", "write"}
     /\ Put(n, IF op.op = "write" THEN op.content ELSE Torn)
     /\ loose' = loose \cup {n}
     /\ UNCHANGED <<safe, pending>>
  \/ /\ op.op = "syncFile"
     /\ loose' = loose \ {n}
     /\ safe' = IF n \in UNION pending THEN safe ELSE [safe EXCEPT ![n] = fs[n]]
     /\ UNCHANGED <<fs, pending>>
  \/ /\ op.op = "syncDirectory"
     /\ pending' = {}
     /\ safe' = [m \in Name |-> IF m \in loose THEN Torn ELSE fs[m]]
     /\ UNCHANGED <<fs, loose>>
  \/ /\ op.op = "unlink"
     /\ Put(n, Absent)
     /\ pending' = pending \cup {{n}}
     /\ loose' = loose \ {n}
     /\ UNCHANGED safe
  \/ /\ op.op = "swap"              \* renameatx_np(RENAME_SWAP) of stage and completed
     /\ fs' = [fs EXCEPT !["stage"] = fs["completed"], !["completed"] = fs["stage"]]
     /\ pending' = pending \cup {{"stage", "completed"}}
     /\ loose' = {CASE m = "stage" -> "completed" [] m = "completed" -> "stage"
                    [] OTHER -> m : m \in loose}
     /\ UNCHANGED safe

\* What a name may show after the machine stopped when the directory changes
\* `kept` had reached the disk.
Survivors(name, kept) ==
  IF name \in loose THEN {fs[name], safe[name], Torn}
  ELSE IF name \in UNION (pending \ kept) THEN {safe[name]}
  ELSE {fs[name]}

-----------------------------------------------------------------------------
(* The journal operations.                                                 *)

\* persist, after the name was created or truncated.
Persist(name, c) ==
  <<Write(name, c), Op("syncFile", name), SyncDirectory>>

\* begin: an exclusive create; every exit after it leaves the name behind.
Begin(target) ==
  <<Op("create", "attempt")>>
    \o Persist("attempt", Record("installing", "self", "gone", target))

\* installed_inner: the same file is rewritten in place.
Installed(record) ==
  <<Op("truncate", "attempt")>>
    \o Persist("attempt", [record EXCEPT !.phase = "awaitingHealth"])

\* recover_completion: the blocker is created again from a pending receipt.
Recover(receipt) ==
  <<Op("create", "attempt")>>
    \o Persist("attempt",
         Record("awaitingHealth", receipt.owner, "self", receipt.target))

\* Clearing a receipt slot and writing it; the slot is checked first.
FillSlot(name, receipt) ==
  <<[Op("open", name) EXCEPT !.content = receipt, !.live = TRUE],
    Op("truncate", name)>> \o Persist(name, receipt)

FinishUnordered(record) ==     \* the blocker goes before the receipt is durable
  <<Live(Op("unlink", "attempt")), Live(SyncDirectory)>>
    \o FillSlot("completed", Receipt("committed", record))

FinishFresh(record) ==         \* takes a stage that is there for another's
  FillSlot("completed", Receipt("prepared", record))
    \o <<Live(Op("unlink", "attempt")), Live(SyncDirectory), Live(Op("create", "stage"))>>
    \o Persist("stage", Receipt("committed", record))
    \o <<Live(Op("swap", "stage")), SyncDirectory,
         Live(Op("unlink", "stage")), SyncDirectory>>

\* finish_owned and publish_commit: a pending receipt, the blocker's
\* retirement, the final receipt in the stage, the exchange of the two, and
\* the removal of the displaced one.
Finish(record) ==
  FillSlot("completed", Receipt("prepared", record))
    \o <<Live(Op("unlink", "attempt")), Live(SyncDirectory)>>
    \o FillSlot("stage", Receipt("committed", record))
    \o <<Live(Op("swap", "stage")), SyncDirectory,
         Live(Op("unlink", "stage")), SyncDirectory>>

-----------------------------------------------------------------------------
(* What a starting shell reads.                                            *)

\* check: only a committed receipt alone, or nothing at all, lets a server
\* start without a proof.
Check ==
  /\ fs["attempt"] = Absent
  /\ fs["stage"] = Absent
  /\ fs["completed"] = Absent \/ IsCommitted(fs["completed"])

\* load: the receipt belongs to the attempt when it names the same one (an
\* attempt is named by its target: no second attempt of a target can begin).
SameAttempt == fs["completed"].kind = "receipt"
                 /\ fs["completed"].target = fs["attempt"].target

FromCompletion ==
  /\ fs["attempt"] = Absent
  /\ \/ IsPrepared(fs["completed"])
     \/ IsCommitted(fs["completed"]) /\ fs["stage"] # Absent

LoadFails ==
  \/ fs["completed"] = Torn
  \/ fs["attempt"] = Torn
  \/ fs["attempt"].kind = "attempt" /\ IsPrepared(fs["completed"]) /\ ~SameAttempt
  \/ fs["attempt"] = Absent /\ ~FromCompletion /\ fs["stage"] # Absent

Pending == fs["attempt"].kind = "attempt" \/ FromCompletion

\* The loaded attempt: the blocker itself, or what the receipt says of it.
Loaded ==
  IF FromCompletion
  THEN Record("awaitingHealth", fs["completed"].owner,
              fs["completed"].recovery, fs["completed"].target)
  ELSE fs["attempt"]

\* loaded_owners_gone: only a process that is certainly gone lets go.
OwnersGone ==
  /\ Loaded.owner = "gone"
  /\ Loaded.recovery = "gone"
  /\ (FromCompletion \/ SameAttempt) =>
        /\ fs["completed"].by = "gone"
        /\ fs["completed"].server = "gone"

-----------------------------------------------------------------------------
(* The processes named in the records age with the processes: `shells` and *)
(* `servers` map what was known of a process to what is known now.         *)

Aged(c, shells, servers) == [f \in DOMAIN c |->
  CASE f \in {"owner", "recovery", "by"} -> shells[c[f]]
    [] f = "server" -> servers[c[f]]
    [] OTHER -> c[f]]

Age(disk, shells, servers) == [n \in Name |-> Aged(disk[n], shells, servers)]
=============================================================================
