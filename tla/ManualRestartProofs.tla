------------------------- MODULE ManualRestartProofs -------------------------
(***************************************************************************)
(* Proofs about the desktop's update, for every number of versions and of  *)
(* disturbances: the hand-over to the installer, and the admission of a    *)
(* server at start.                                                        *)
(***************************************************************************)
EXTENDS ManualRestartProperties, SequenceTheorems, TLAPS

-----------------------------------------------------------------------------
(* Where the update thread and the owner of a restart can be.              *)

Checks == {"check", "load", "preflight", "recover"}
Jots   == {"begin", "installed", "recover"}
Doings == {"idle", "check", "load", "preflight", "recover",
           "begin", "installed", "finish"}

\* The gate tells what the update thread may be doing, and nothing starts or
\* stops around an installation.
Thread(t, g, s, q) ==
  /\ t = Doing(t.doing, t.ops)
  /\ t.doing \in Doings
  /\ t.doing \in Checks => g = "checking"
  /\ t.doing \in {"begin", "installed"} => g = "installing"
  /\ t.doing = "finish" => g = "awaiting"
  /\ t.doing \in {"idle", "check", "load", "preflight"} => t.ops = <<>>
  /\ t.doing = "begin" => s = "none" /\ q = "no"

\* A restart begins in a working desktop and never meets the update thread;
\* its phase bounds its owner's step.
Restart(m, t, g) ==
  /\ m = [phase |-> m.phase, step |-> m.step, sent |-> m.sent]
  /\ m.phase \in {"none", "draft", "aborted", "restarting", "recovery"}
       => m.step = "idle"
  /\ m.step \in {"stop", "wait"} <=> m.phase = "stopping"
  /\ m.step = "commit" => m.phase = "commitSent"
  /\ m.phase # "none" => /\ t.doing = "idle"
                         /\ g \in {"normal", "manual", "recovery", "restarting"}

\* What is past recall belongs to an attempt that is past recall, and the
\* restart's screen to an owner that is still going to leave it.
Owned(m, g, b, q) ==
  /\ b = "committed" \/ q = "fenced"
       => m.phase \in {"stopping", "restarting", "recovery"}
  /\ g = "manual" => m.step \notin {"idle", "fence", "show"}

HandoverInv ==
  /\ Thread(task, gate, server, quitting)
  /\ Restart(manual, task, gate)
  /\ Owned(manual, gate, backend, quitting)
  /\ version = 0 => manual.phase = "none"

LEMMA HandoverImplies == HandoverInv => HandoverIsSafe
<1> SUFFICES ASSUME HandoverInv PROVE HandoverIsSafe
    OBVIOUS
<1>1. InstallerIsAlone
  <2> SUFFICES ASSUME Replacing PROVE server = "none" /\ quitting = "no"
      BY DEF InstallerIsAlone
  <2>1. task.doing = "begin"
    BY DEF Replacing, Doing
  <2> QED
    BY <2>1 DEF HandoverInv, Thread
<1>2. AbortIsTrue
  BY DEF AbortIsTrue, HandoverInv, Owned, Restart
<1> QED
  BY <1>1, <1>2 DEF HandoverIsSafe

LEMMA HandoverInit == Init => HandoverInv
<1> SUFFICES ASSUME Init PROVE HandoverInv
    OBVIOUS
<1>1. task.doing = "idle" /\ task.ops = <<>> /\ task = Doing("idle", <<>>)
  BY DEF Init, LaunchInit, Idle, Doing
<1>2. Thread(task, gate, server, quitting)
  BY <1>1 DEF Thread, Doings, Checks
<1>3. PICK m : m = [phase |-> "none", step |-> "idle", sent |-> FALSE]
  OBVIOUS
<1>4. manual = m
  BY <1>3 DEF Init, LaunchInit, NoRestart
<1> QED
  BY <1>1, <1>2, <1>3, <1>4 DEF HandoverInv, Restart, Owned, Init, LaunchInit

LEMMA HandoverStep == HandoverInv /\ [Next]_vars => HandoverInv'
<1> SUFFICES ASSUME HandoverInv, [Next]_vars PROVE HandoverInv'
    OBVIOUS
<1> USE DEF HandoverInv, Thread, Restart, Owned, Doings, Checks, Doing, Idle
<1>1. CASE UNCHANGED vars
  BY <1>1 DEF vars, launchVars, shellVars, journal
<1>2. CASE Launch /\ Backend
  BY <1>2 DEF Launch, Backend, journal
<1>3. CASE CheckStartup /\ Backend
  BY <1>3 DEF CheckStartup, Starting, Backend, NormalStart, GoRecovery
<1>4. CASE LoadJournal /\ Backend
  <2>1. task.doing = "load"
    BY <1>4 DEF LoadJournal, Starting
  <2>2. UNCHANGED <<manual, server, quitting, backend, version>> /\ version # 0
    BY <1>4 DEF LoadJournal, Starting, Backend
  <2>3. \/ task' = Doing("preflight", <<>>) /\ gate' = gate
        \/ task' = Doing("recover", Recover(fs["completed"])) /\ gate' = gate
        \/ task' = Idle /\ gate' \in {gate, "normal", "recovery", "awaiting"}
    BY ONLY <1>4, <2>1 DEF LoadJournal, NormalStart, GoRecovery
  <2>4. PICK ops : task' = Doing(task'.doing, ops) /\ (task'.doing # "recover" => ops = <<>>)
                   /\ task'.doing \in {"preflight", "recover", "idle"}
                   /\ (gate' = gate \/ task'.doing = "idle")
    BY ONLY <2>3 DEF Doing, Idle
  <2> QED
    BY <2>1, <2>2, <2>3, <2>4
<1>5. CASE Recovered /\ Backend
  BY <1>5 DEF Recovered, Starting, Backend
<1>6. CASE Preflight /\ Backend
  BY <1>6, SMTT(60) DEF Preflight, Starting, Backend, NormalStart, GoRecovery
<1>7. CASE InstallerReturns /\ Backend
  BY <1>7 DEF InstallerReturns, Replacing, Backend, GoRecovery
<1>8. CASE InstallRecorded /\ Backend
  BY <1>8 DEF InstallRecorded, Starting, Backend
<1>9. CASE Execute /\ Backend
  BY <1>9 DEF Execute, Backend, GoRecovery
<1>10. CASE Healthy /\ Backend
  BY <1>10 DEF Healthy, Backend, ServerOnly
<1>11. CASE Finished /\ Backend
  BY <1>11 DEF Finished, Backend, ServerOnly
<1>12. CASE PortTaken /\ Backend
  BY <1>12 DEF PortTaken, Backend, ServerOnly, GoRecovery
<1>13. CASE Serve /\ NewServer
  BY <1>13 DEF Serve, NewServer, ServerOnly
<1>14. CASE ServerStops /\ NewServer
  BY <1>14 DEF ServerStops, ServerGone, NewServer, ServerOnly, GoRecovery
<1>15. CASE QuitCompletes /\ NewServer
  BY <1>15 DEF QuitCompletes, ShellGone, NewServer, NoRestart
<1>16. CASE RestartExits /\ NewServer
  BY <1>16 DEF RestartExits, ShellGone, NewServer, NoRestart
<1>17. CASE Reaped /\ Backend
  BY <1>17 DEF Reaped, Backend, shellVars
<1>18. CASE OrphanExits /\ Backend
  BY <1>18 DEF OrphanExits, Backend, shellVars
<1>19. CASE Begins
  <2>1. UNCHANGED <<task, server, quitting, gate, backend, version>>
    BY <1>19 DEF Begins, Quiet, Rest, Backend
  <2>2. CASE manual' = manual
    BY <2>1, <2>2
  <2>3. CASE manual' = [phase |-> "draft", step |-> "idle", sent |-> FALSE]
    <3>1. version # 0 /\ gate = "normal" /\ manual.phase \in {"none", "aborted"}
      BY <1>19 DEF Begins, RestartActive
    <3> QED
      BY <2>1, <2>3, <3>1
  <2> QED
    BY <1>19, <2>2, <2>3 DEF Begins
<1>20. CASE Prepared
  BY <1>20 DEF Prepared, At, Quiet, Rest, Backend
<1>21. CASE DraftEnds
  BY <1>21 DEF DraftEnds, Phase, Quiet, Rest, Backend
<1>22. CASE RequestCancel
  BY <1>22 DEF RequestCancel, Phase, Quiet, Rest, Backend
<1>23. CASE Fence
  BY <1>23 DEF Fence, OwnStep, At, AbortNext, Quiet, Rest, Backend
<1>24. CASE Show
  BY <1>24 DEF Show, OwnStep, AbortNext, Quiet, Rest, Backend
<1>25. CASE Prepare
  <2>1. manual.step = "prepare" /\ UNCHANGED <<task, gate, server, quitting, version>>
    BY <1>25 DEF Prepare, OwnStep, Quiet, Rest
  <2>2. /\ manual' = [phase |-> manual.phase, step |-> manual'.step, sent |-> manual'.sent]
        /\ manual'.step \in {"abort", "elect"}
    BY ONLY <1>25, manual = [phase |-> manual.phase, step |-> manual.step, sent |-> manual.sent]
       DEF Prepare, AbortNext
  <2>3. backend' = "committed" => backend = "committed"
    BY ONLY <1>25 DEF Prepare, Backend
  <2> QED
    BY <2>1, <2>2, <2>3
<1>26. CASE Elect
  BY <1>26 DEF Elect, OwnStep, At, AbortNext, Quiet, Rest, Backend
<1>27. CASE Commit
  <2>1. /\ manual.step = "commit" /\ manual.phase = "commitSent"
        /\ UNCHANGED <<task, server, quitting, version>>
    BY <1>27 DEF Commit, OwnStep, Rest
  <2>2. \/ /\ manual' = [phase |-> "stopping", step |-> "stop", sent |-> manual.sent]
           /\ gate' = gate
        \/ /\ manual' = [phase |-> "navigating", step |-> "abort", sent |-> manual.sent]
           /\ gate' = gate /\ backend' = backend
        \/ /\ manual' = [phase |-> "recovery", step |-> "idle", sent |-> manual.sent]
           /\ gate' = "recovery"
    BY ONLY <1>27, manual = [phase |-> manual.phase, step |-> manual.step, sent |-> manual.sent]
       DEF Commit, At, Backend
  <2> QED
    BY <2>1, <2>2
<1>28. CASE Abort
  <2>1. /\ manual.step = "abort" /\ UNCHANGED <<task, server, quitting, version>>
    BY <1>28 DEF Abort, OwnStep, Rest
  <2>2. \/ /\ manual' = [phase |-> "aborted", step |-> "idle", sent |-> manual.sent]
           /\ gate' = IF gate = "manual" THEN "normal" ELSE gate
        \/ /\ manual' = [phase |-> "recovery", step |-> "idle", sent |-> manual.sent]
           /\ gate' = "recovery"
    BY ONLY <1>28, manual = [phase |-> manual.phase, step |-> manual.step, sent |-> manual.sent]
       DEF Abort, At
  <2>3. backend' = "committed" => backend = "committed"
    BY ONLY <1>28 DEF Abort, Backend
  <2> QED
    BY <2>1, <2>2, <2>3
<1>29. CASE Stop
  BY <1>29 DEF Stop, OwnStep, At, Uncertain, Rest, Backend
<1>30. CASE SaveIntent
  BY <1>30 DEF SaveIntent, OwnStep, At, Uncertain, Rest, Backend
<1>31. CASE BackendReleases
  BY <1>31 DEF BackendReleases, launchVars, shellVars
<1>32. CASE Quit /\ Backend
  BY <1>32 DEF Quit, HoldsExit, Backend
<1>33. CASE OperationFails /\ Backend
  BY <1>33 DEF OperationFails, GoRecovery, Backend
<1>34. CASE ServerDies /\ NewServer
  BY <1>34 DEF ServerDies, ServerGone, NewServer, ServerOnly, GoRecovery
<1>35. CASE RestartDeferred /\ Backend
  BY <1>35 DEF RestartDeferred, GoRecovery, Backend
<1>36. CASE ShellDies /\ NewServer
  BY <1>36 DEF ShellDies, ShellGone, NewServer, NoRestart
<1>37. CASE MachineStops /\ NewServer
  BY <1>37 DEF MachineStops, NewServer, NoRestart
<1> QED
  BY <1>1, <1>2, <1>3, <1>4, <1>5, <1>6, <1>7, <1>8, <1>9, <1>10, <1>11, <1>12,
     <1>13, <1>14, <1>15, <1>16, <1>17, <1>18, <1>19, <1>20, <1>21, <1>22, <1>23,
     <1>24, <1>25, <1>26, <1>27, <1>28, <1>29, <1>30, <1>31, <1>32, <1>33, <1>34,
     <1>35, <1>36, <1>37
  DEF Next, Continuations, Startup, Owner, Faults

\* The hand-over to the installer, in every behaviour: the installer works on
\* a bundle nobody runs, and what a page is told of an aborted restart is so.
THEOREM HandoverAlwaysSafe == Spec => []HandoverIsSafe
<1>1. Spec => []HandoverInv
  BY HandoverInit, HandoverStep, PTL DEF Spec
<1> QED
  BY <1>1, HandoverImplies, PTL

-----------------------------------------------------------------------------
(* The journal's types.                                                    *)

Person   == {"self", "last", "orphan", "gone"}
Attempts == [kind : {"attempt"}, phase : {"installing", "awaitingHealth"},
             owner : Person, recovery : Person, target : Nat]
Receipts == [kind : {"receipt"}, state : {"prepared", "committed"},
             by : Person, server : Person,
             owner : Person, recovery : Person, target : Nat]
Content  == {Absent, Torn} \cup Attempts \cup Receipts

FileOps   == {"create", "open", "truncate", "write", "syncFile",
              "syncDirectory", "unlink", "swap"}

\* A name holds records of one kind.
Slot(n) == {Absent, Torn} \cup IF n = "attempt" THEN Attempts ELSE Receipts

Operation ==
  {o \in [op : FileOps, name : Name, content : Content, live : BOOLEAN] :
     o.op = "write" => o.content \in Slot(o.name)}

Disk == {f \in [Name -> Content] : \A n \in Name : f[n] \in Slot(n)}

LEMMA SlotIs ==
  ASSUME NEW n \in Name
  PROVE  /\ Slot(n) \subseteq Content /\ Absent \in Slot(n) /\ Torn \in Slot(n)
         /\ n = "attempt" => Attempts \subseteq Slot(n)
         /\ n # "attempt" => Receipts \subseteq Slot(n)
  BY DEF Slot, Content

LEMMA DiskIs ==
  ASSUME NEW f
  PROVE  f \in Disk <=> /\ f = [n \in Name |-> f[n]]
                        /\ \A n \in Name : f[n] \in Slot(n)
  BY SlotIs DEF Disk

LEMMA Kinds ==
  ASSUME NEW c \in Content
  PROVE  /\ c.kind = "absent" <=> c = Absent
         /\ c.kind = "torn" <=> c = Torn
         /\ c.kind = "attempt" <=> c \in Attempts
         /\ c.kind = "receipt" <=> c \in Receipts
         /\ c.kind \in {"absent", "torn", "attempt", "receipt"}
  BY DEF Content, Absent, Torn, Attempts, Receipts

-----------------------------------------------------------------------------
(* The journal operations as sequences of file operations.                 *)

LEMMA OpIs ==
  ASSUME NEW o \in FileOps \ {"write"}, NEW n \in Name
  PROVE  /\ Op(o, n) \in Operation
         /\ Op(o, n).op = o /\ Op(o, n).name = n
  BY DEF Op, Operation, Content

LEMMA LiveIs ==
  ASSUME NEW o \in Operation
  PROVE  /\ Live(o) \in Operation
         /\ Live(o).op = o.op /\ Live(o).name = o.name
  BY DEF Live, Operation

LEMMA WriteIs ==
  ASSUME NEW n \in Name, NEW c \in Slot(n)
  PROVE  /\ Write(n, c) \in Operation
         /\ Write(n, c).op = "write" /\ Write(n, c).name = n
         /\ Write(n, c).content = c
  BY SlotIs DEF Write, Operation, FileOps

LEMMA SyncIs ==
  /\ SyncDirectory \in Operation
  /\ SyncDirectory.op = "syncDirectory"
  BY OpIs DEF SyncDirectory, FileOps, Name

LEMMA PersistIs ==
  ASSUME NEW n \in Name, NEW c \in Slot(n)
  PROVE  /\ Persist(n, c) \in Seq(Operation)
         /\ Len(Persist(n, c)) = 3
         /\ Persist(n, c)[1] = Write(n, c)
         /\ Persist(n, c)[2] = Op("syncFile", n)
         /\ Persist(n, c)[3] = SyncDirectory
<1>1. Op("syncFile", n) \in Operation
  BY OpIs DEF FileOps
<1> QED
  BY <1>1, WriteIs, SyncIs DEF Persist

LEMMA OneIs ==
  ASSUME NEW a \in Operation
  PROVE  \E q \in Seq(Operation) : q = <<a>> /\ Len(q) = 1 /\ q[1] = a
<1>1. <<a>> \in Seq(Operation)
  OBVIOUS
<1> QED
  BY <1>1

LEMMA TwoAre ==
  ASSUME NEW a \in Operation, NEW b \in Operation
  PROVE  \E q \in Seq(Operation) : q = <<a, b>> /\ Len(q) = 2 /\ q[1] = a /\ q[2] = b
<1>1. <<a, b>> \in Seq(Operation)
  OBVIOUS
<1> QED
  BY <1>1

LEMMA Chain ==
  ASSUME NEW s \in Seq(Operation), NEW t \in Seq(Operation)
  PROVE  \E u \in Seq(Operation) :
           /\ u = s \o t /\ Len(u) = Len(s) + Len(t)
           /\ \A i \in 1..Len(s) : u[i] = s[i]
           /\ \A i \in 1..Len(t) : u[Len(s) + i] = t[i]
<1>1. /\ s \o t \in Seq(Operation) /\ Len(s \o t) = Len(s) + Len(t)
      /\ \A i \in 1 .. Len(s) + Len(t) :
           (s \o t)[i] = IF i <= Len(s) THEN s[i] ELSE t[i - Len(s)]
  BY ConcatProperties
<1>2. PICK u \in Seq(Operation) : u = s \o t
  BY <1>1
<1>3. Len(s) \in Nat /\ Len(t) \in Nat
  OBVIOUS
<1>4. /\ Len(u) = Len(s) + Len(t)
      /\ \A i \in 1 .. Len(s) + Len(t) :
           u[i] = IF i <= Len(s) THEN s[i] ELSE t[i - Len(s)]
  BY <1>1, <1>2
<1>5. \A i \in 1..Len(s) : u[i] = s[i]
  BY <1>3, <1>4
<1>6. ASSUME NEW i \in 1..Len(t) PROVE u[Len(s) + i] = t[i]
  <2>1. Len(s) + i \in 1 .. Len(s) + Len(t)
    BY <1>3
  <2>2. ~(Len(s) + i <= Len(s)) /\ Len(s) + i - Len(s) = i
    BY <1>3
  <2> QED
    BY <1>4, <2>1, <2>2
<1> QED
  BY <1>2, <1>4, <1>5, <1>6

Jot(o, c) == <<o>> \o Persist("attempt", c)

LEMMA JotIs ==
  ASSUME NEW o \in Operation, NEW c \in Slot("attempt")
  PROVE  /\ Jot(o, c) \in Seq(Operation)
         /\ Len(Jot(o, c)) = 4
         /\ Jot(o, c)[1] = o
         /\ Jot(o, c)[2] = Write("attempt", c)
         /\ Jot(o, c)[3] = Op("syncFile", "attempt")
         /\ Jot(o, c)[4] = SyncDirectory
<1> DEFINE s == Jot(o, c)
<1>1. PICK q \in Seq(Operation) : q = <<o>> /\ Len(q) = 1 /\ q[1] = o
  BY OneIs
<1>2. PICK p \in Seq(Operation) :
        /\ p = Persist("attempt", c) /\ Len(p) = 3
        /\ p[1] = Write("attempt", c)
        /\ p[2] = Op("syncFile", "attempt") /\ p[3] = SyncDirectory
  BY PersistIs DEF Name
<1>3. s = q \o p
  BY <1>1, <1>2 DEF Jot
<1> HIDE DEF s
<1>4. /\ s \in Seq(Operation) /\ Len(s) = 1 + 3
      /\ \A i \in 1..1 : s[i] = q[i]
      /\ \A i \in 1..3 : s[1 + i] = p[i]
  <2>1. PICK u \in Seq(Operation) :
          /\ u = q \o p /\ Len(u) = Len(q) + Len(p)
          /\ \A i \in 1..Len(q) : u[i] = q[i]
          /\ \A i \in 1..Len(p) : u[Len(q) + i] = p[i]
    BY Chain
  <2> QED
    BY <2>1, <1>1, <1>2, <1>3
<1>5. s[1] = q[1] /\ s[1 + 1] = p[1] /\ s[1 + 2] = p[2] /\ s[1 + 3] = p[3]
  BY <1>4
<1>6. /\ s \in Seq(Operation) /\ Len(s) = 4
      /\ s[1] = o /\ s[2] = Write("attempt", c)
      /\ s[3] = Op("syncFile", "attempt") /\ s[4] = SyncDirectory
  BY <1>1, <1>2, <1>4, <1>5
<1> QED
  BY <1>6 DEF s

Opened(name, receipt) ==
  [Op("open", name) EXCEPT !.content = receipt, !.live = TRUE]

LEMMA OpenedIs ==
  ASSUME NEW n \in Name, NEW c \in Content
  PROVE  /\ Opened(n, c) \in Operation
         /\ Opened(n, c).op = "open" /\ Opened(n, c).name = n
  BY DEF Opened, Op, Operation, FileOps

LEMMA FillSlotIs ==
  ASSUME NEW n \in Name, NEW c \in Slot(n)
  PROVE  /\ FillSlot(n, c) \in Seq(Operation)
         /\ Len(FillSlot(n, c)) = 5
         /\ FillSlot(n, c)[1] = Opened(n, c)
         /\ FillSlot(n, c)[2] = Op("truncate", n)
         /\ FillSlot(n, c)[3] = Write(n, c)
         /\ FillSlot(n, c)[4] = Op("syncFile", n)
         /\ FillSlot(n, c)[5] = SyncDirectory
<1>1. PICK a \in Operation : a = Opened(n, c)
  BY OpenedIs, SlotIs
<1>2. PICK b \in Operation : b = Op("truncate", n)
  BY OpIs DEF FileOps
<1>3. PICK q \in Seq(Operation) : q = <<a, b>> /\ Len(q) = 2 /\ q[1] = a /\ q[2] = b
  BY TwoAre
<1>4. PICK p \in Seq(Operation) :
        /\ p = Persist(n, c) /\ Len(p) = 3
        /\ p[1] = Write(n, c) /\ p[2] = Op("syncFile", n) /\ p[3] = SyncDirectory
  BY PersistIs
<1>5. PICK s \in Seq(Operation) :
         /\ s = q \o p /\ Len(s) = Len(q) + Len(p)
         /\ \A i \in 1..Len(q) : s[i] = q[i]
         /\ \A i \in 1..Len(p) : s[Len(q) + i] = p[i]
  BY Chain
<1>6. FillSlot(n, c) = s
  BY <1>1, <1>2, <1>3, <1>4, <1>5 DEF FillSlot, Opened
<1>7. /\ s[1] = q[1] /\ s[2] = q[2]
      /\ s[2 + 1] = p[1] /\ s[2 + 2] = p[2] /\ s[2 + 3] = p[3]
  BY <1>3, <1>4, <1>5
<1>8. Len(s) = 5
  BY <1>3, <1>4, <1>5
<1> QED
  BY <1>1, <1>2, <1>3, <1>4, <1>6, <1>7, <1>8

\* What is left of Finish when `ops` is: its i-th operation, of sixteen.
FinishOp(o, i, target) ==
  /\ i = 1 => o.op = "open" /\ o.name = "completed"
  /\ i = 2 => o.op = "truncate" /\ o.name = "completed"
  /\ i = 3 => o.op = "write" /\ o.name = "completed" /\ IsPrepared(o.content)
  /\ i = 4 => o.op = "syncFile" /\ o.name = "completed"
  /\ i \in {5, 7, 12, 14, 16} => o.op = "syncDirectory"
  /\ i = 6 => o.op = "unlink" /\ o.name = "attempt"
  /\ i = 8 => o.op = "open" /\ o.name = "stage"
  /\ i = 9 => o.op = "truncate" /\ o.name = "stage"
  /\ i = 10 => /\ o.op = "write" /\ o.name = "stage"
               /\ IsCommitted(o.content) /\ o.content.target = target
  /\ i = 11 => o.op = "syncFile" /\ o.name = "stage"
  /\ i = 13 => o.op = "swap"
  /\ i = 15 => o.op = "unlink" /\ o.name = "stage"

FinishLeft(ops, target) ==
  /\ Len(ops) <= 16
  /\ \A i \in 1..Len(ops) : FinishOp(ops[i], 16 - Len(ops) + i, target)

LEMMA ReceiptIs ==
  ASSUME NEW a \in Attempts, NEW st \in {"prepared", "committed"}
  PROVE  /\ Receipt(st, a) \in Receipts
         /\ Receipt(st, a).kind = "receipt" /\ Receipt(st, a).state = st
         /\ Receipt(st, a).target = a.target
  BY DEF Receipt, Receipts, Attempts, Person

LEMMA FinishIs ==
  ASSUME NEW a \in Attempts
  PROVE  /\ Finish(a) \in Seq(Operation)
         /\ Len(Finish(a)) = 16
         /\ FinishLeft(Finish(a), a.target)
<1>1. PICK r \in Receipts : r = Receipt("prepared", a) /\ IsPrepared(r)
  BY ReceiptIs DEF IsPrepared
<1>2. PICK t \in Receipts : t = Receipt("committed", a) /\ IsCommitted(t) /\ t.target = a.target
  BY ReceiptIs DEF IsCommitted
<1> r \in Slot("completed") /\ t \in Slot("stage")
  BY SlotIs DEF Name
<1>3. PICK A \in Seq(Operation) : A = FillSlot("completed", r)
  BY FillSlotIs DEF Name
<1>4. PICK C \in Seq(Operation) : C = FillSlot("stage", t)
  BY FillSlotIs DEF Name
<1>5. PICK u \in Operation : u = Live(Op("unlink", "attempt"))
                             /\ u.op = "unlink" /\ u.name = "attempt"
  BY LiveIs, OpIs DEF FileOps, Name
<1>6. PICK d \in Operation : d = SyncDirectory /\ d.op = "syncDirectory"
  BY SyncIs
<1>7. PICK e \in Operation : e = Live(SyncDirectory) /\ e.op = "syncDirectory"
  BY SyncIs, LiveIs
<1>8. PICK x \in Operation : x = Live(Op("swap", "stage")) /\ x.op = "swap"
  BY LiveIs, OpIs DEF FileOps, Name
<1>9. PICK y \in Operation : y = Live(Op("unlink", "stage"))
                             /\ y.op = "unlink" /\ y.name = "stage"
  BY LiveIs, OpIs DEF FileOps, Name
<1>10. PICK B \in Seq(Operation) : B = <<u, e>> /\ Len(B) = 2 /\ B[1] = u /\ B[2] = e
  BY TwoAre
<1>11. PICK D \in Seq(Operation) :
         /\ D = <<x, d, y, d>> /\ Len(D) = 4
         /\ D[1] = x /\ D[2] = d /\ D[3] = y /\ D[4] = d
  <2>1. x \in Operation /\ d \in Operation /\ y \in Operation
    OBVIOUS
  <2>2. <<x, d, y, d>> \in Seq(Operation)
    BY ONLY <2>1
  <2> QED
    BY ONLY <2>2
<1>12. /\ Len(A) = 5
       /\ A[1].op = "open" /\ A[1].name = "completed"
       /\ A[2].op = "truncate" /\ A[2].name = "completed"
       /\ A[3].op = "write" /\ A[3].name = "completed" /\ IsPrepared(A[3].content)
       /\ A[4].op = "syncFile" /\ A[4].name = "completed"
       /\ A[5].op = "syncDirectory"
  BY <1>1, <1>3, FillSlotIs, OpenedIs, OpIs, WriteIs, SyncIs, SlotIs DEF FileOps, Name
<1>13. /\ Len(C) = 5
       /\ C[1].op = "open" /\ C[1].name = "stage"
       /\ C[2].op = "truncate" /\ C[2].name = "stage"
       /\ C[3].op = "write" /\ C[3].name = "stage"
       /\ IsCommitted(C[3].content) /\ C[3].content.target = a.target
       /\ C[4].op = "syncFile" /\ C[4].name = "stage"
       /\ C[5].op = "syncDirectory"
  BY <1>2, <1>4, FillSlotIs, OpenedIs, OpIs, WriteIs, SyncIs, SlotIs DEF FileOps, Name
<1>14. PICK AB \in Seq(Operation) :
         /\ AB = A \o B /\ Len(AB) = Len(A) + Len(B)
         /\ \A i \in 1..Len(A) : AB[i] = A[i]
         /\ \A i \in 1..Len(B) : AB[Len(A) + i] = B[i]
  BY Chain
<1>15. PICK ABC \in Seq(Operation) :
         /\ ABC = AB \o C /\ Len(ABC) = Len(AB) + Len(C)
         /\ \A i \in 1..Len(AB) : ABC[i] = AB[i]
         /\ \A i \in 1..Len(C) : ABC[Len(AB) + i] = C[i]
  BY Chain
<1>16. PICK F \in Seq(Operation) :
         /\ F = ABC \o D /\ Len(F) = Len(ABC) + Len(D)
         /\ \A i \in 1..Len(ABC) : F[i] = ABC[i]
         /\ \A i \in 1..Len(D) : F[Len(ABC) + i] = D[i]
  BY Chain
<1>17. Finish(a) = F
  BY <1>1, <1>2, <1>3, <1>4, <1>5, <1>6, <1>7, <1>8, <1>9, <1>10, <1>11, <1>14,
     <1>15, <1>16 DEF Finish
<1>18. /\ F[1] = A[1] /\ F[2] = A[2] /\ F[3] = A[3] /\ F[4] = A[4] /\ F[5] = A[5]
       /\ F[6] = u /\ F[7] = e
       /\ F[8] = C[1] /\ F[9] = C[2] /\ F[10] = C[3] /\ F[11] = C[4] /\ F[12] = C[5]
       /\ F[13] = x /\ F[14] = d /\ F[15] = y /\ F[16] = d
  <2>1. Len(AB) = 7 /\ Len(ABC) = 12
    BY <1>10, <1>12, <1>13, <1>14, <1>15
  <2>2. /\ AB[1] = A[1] /\ AB[2] = A[2] /\ AB[3] = A[3] /\ AB[4] = A[4] /\ AB[5] = A[5]
        /\ AB[5 + 1] = B[1] /\ AB[5 + 2] = B[2]
    BY <1>10, <1>12, <1>14
  <2>3. /\ \A i \in 1..7 : ABC[i] = AB[i]
        /\ \A i \in 1..5 : ABC[7 + i] = C[i]
    BY <2>1, <1>13, <1>15
  <2>4. /\ \A i \in 1..12 : F[i] = ABC[i]
        /\ \A i \in 1..4 : F[12 + i] = D[i]
    BY <2>1, <1>11, <1>16
  <2>5. /\ ABC[1] = AB[1] /\ ABC[2] = AB[2] /\ ABC[3] = AB[3] /\ ABC[4] = AB[4]
        /\ ABC[5] = AB[5] /\ ABC[6] = AB[6] /\ ABC[7] = AB[7]
    BY ONLY <2>3
  <2>6. /\ ABC[7 + 1] = C[1] /\ ABC[7 + 2] = C[2] /\ ABC[7 + 3] = C[3]
        /\ ABC[7 + 4] = C[4] /\ ABC[7 + 5] = C[5]
    BY ONLY <2>3
  <2>7. /\ F[1] = ABC[1] /\ F[2] = ABC[2] /\ F[3] = ABC[3] /\ F[4] = ABC[4]
        /\ F[5] = ABC[5] /\ F[6] = ABC[6] /\ F[7] = ABC[7] /\ F[8] = ABC[8]
        /\ F[9] = ABC[9] /\ F[10] = ABC[10] /\ F[11] = ABC[11] /\ F[12] = ABC[12]
    BY ONLY <2>4
  <2>8. /\ F[12 + 1] = D[1] /\ F[12 + 2] = D[2] /\ F[12 + 3] = D[3] /\ F[12 + 4] = D[4]
    BY ONLY <2>4
  <2> QED
    BY ONLY <2>2, <2>5, <2>6, <2>7, <2>8, <1>10, <1>11
<1>19. FinishLeft(F, a.target)
  <2>1. /\ F[1].op = "open" /\ F[1].name = "completed"
        /\ F[2].op = "truncate" /\ F[2].name = "completed"
        /\ F[3].op = "write" /\ F[3].name = "completed" /\ IsPrepared(F[3].content)
        /\ F[4].op = "syncFile" /\ F[4].name = "completed"
        /\ F[5].op = "syncDirectory"
        /\ F[6].op = "unlink" /\ F[6].name = "attempt"
        /\ F[7].op = "syncDirectory"
    BY ONLY <1>5, <1>7, <1>12, <1>18
  <2>2. /\ F[8].op = "open" /\ F[8].name = "stage"
        /\ F[9].op = "truncate" /\ F[9].name = "stage"
        /\ F[10].op = "write" /\ F[10].name = "stage"
        /\ IsCommitted(F[10].content) /\ F[10].content.target = a.target
        /\ F[11].op = "syncFile" /\ F[11].name = "stage"
        /\ F[12].op = "syncDirectory"
    BY ONLY <1>13, <1>18
  <2>3. /\ F[13].op = "swap" /\ F[14].op = "syncDirectory"
        /\ F[15].op = "unlink" /\ F[15].name = "stage"
        /\ F[16].op = "syncDirectory"
    BY ONLY <1>6, <1>8, <1>9, <1>18
  <2>4. Len(F) = 16
    BY <1>10, <1>11, <1>12, <1>13, <1>14, <1>15, <1>16
  <2>5. ASSUME NEW i \in 1..16 PROVE FinishOp(F[i], i, a.target)
    <3>1. FinishOp(F[1], 1, a.target)
      BY ONLY <2>1 DEF FinishOp
    <3>2. FinishOp(F[2], 2, a.target)
      BY ONLY <2>1 DEF FinishOp
    <3>3. FinishOp(F[3], 3, a.target)
      BY ONLY <2>1 DEF FinishOp
    <3>4. FinishOp(F[4], 4, a.target)
      BY ONLY <2>1 DEF FinishOp
    <3>5. FinishOp(F[5], 5, a.target)
      BY ONLY <2>1 DEF FinishOp
    <3>6. FinishOp(F[6], 6, a.target)
      BY ONLY <2>1 DEF FinishOp
    <3>7. FinishOp(F[7], 7, a.target)
      BY ONLY <2>1 DEF FinishOp
    <3>8. FinishOp(F[8], 8, a.target)
      BY ONLY <2>2 DEF FinishOp
    <3>9. FinishOp(F[9], 9, a.target)
      BY ONLY <2>2 DEF FinishOp
    <3>10. FinishOp(F[10], 10, a.target)
      BY ONLY <2>2 DEF FinishOp
    <3>11. FinishOp(F[11], 11, a.target)
      BY ONLY <2>2 DEF FinishOp
    <3>12. FinishOp(F[12], 12, a.target)
      BY ONLY <2>2 DEF FinishOp
    <3>13. FinishOp(F[13], 13, a.target)
      BY ONLY <2>3 DEF FinishOp
    <3>14. FinishOp(F[14], 14, a.target)
      BY ONLY <2>3 DEF FinishOp
    <3>15. FinishOp(F[15], 15, a.target)
      BY ONLY <2>3 DEF FinishOp
    <3>16. FinishOp(F[16], 16, a.target)
      BY ONLY <2>3 DEF FinishOp
    <3>17. \/ i = 1 \/ i = 2 \/ i = 3 \/ i = 4 \/ i = 5 \/ i = 6 \/ i = 7 \/ i = 8
           \/ i = 9 \/ i = 10 \/ i = 11 \/ i = 12 \/ i = 13 \/ i = 14 \/ i = 15
           \/ i = 16
      OBVIOUS
    <3> QED
      BY ONLY <3>17, Zenon, <3>1, <3>2, <3>3, <3>4, <3>5, <3>6, <3>7, <3>8, <3>9,
              <3>10, <3>11, <3>12, <3>13, <3>14, <3>15, <3>16
  <2>6. \A i \in 1..16 : 16 - 16 + i = i
    OBVIOUS
  <2> QED
    BY <2>4, <2>5, <2>6 DEF FinishLeft
<1>20. Len(F) = 16
  BY <1>10, <1>11, <1>12, <1>13, <1>14, <1>15, <1>16
<1> QED
  BY <1>16, <1>17, <1>19, <1>20

\* What is left of Begin, Installed or Recover: four operations, the first of
\* which makes the blocker or clears it.
JotOp(o, i) ==
  /\ i = 1 => o.op \in {"create", "truncate"} /\ o.name = "attempt"
  /\ i = 2 => o.op = "write" /\ o.name = "attempt" /\ o.content \in Attempts
  /\ i = 3 => o.op = "syncFile" /\ o.name = "attempt"
  /\ i = 4 => o.op = "syncDirectory"

JotLeft(ops) ==
  /\ Len(ops) <= 4
  /\ \A i \in 1..Len(ops) : JotOp(ops[i], 4 - Len(ops) + i)

LEMMA JotLeftIs ==
  ASSUME NEW o \in Operation, NEW c \in Attempts,
         o.op \in {"create", "truncate"}, o.name = "attempt"
  PROVE  /\ Jot(o, c) \in Seq(Operation) /\ Len(Jot(o, c)) = 4
         /\ Jot(o, c)[1] = o /\ JotLeft(Jot(o, c))
<1>1. c \in Slot("attempt")
  BY SlotIs DEF Name
<1>2. PICK s \in Seq(Operation) :
        /\ s = Jot(o, c) /\ Len(s) = 4
        /\ s[1] = o /\ s[2] = Write("attempt", c)
        /\ s[3] = Op("syncFile", "attempt") /\ s[4] = SyncDirectory
  BY <1>1, JotIs
<1>3. /\ s[2].op = "write" /\ s[2].name = "attempt" /\ s[2].content \in Attempts
      /\ s[3].op = "syncFile" /\ s[3].name = "attempt"
      /\ s[4].op = "syncDirectory"
  BY <1>1, <1>2, WriteIs, OpIs, SyncIs DEF FileOps, Name
<1>4. JotOp(s[1], 1) /\ JotOp(s[2], 2) /\ JotOp(s[3], 3) /\ JotOp(s[4], 4)
  BY <1>2, <1>3 DEF JotOp
<1>5. ASSUME NEW i \in 1..4 PROVE JotOp(s[i], i)
  <2>1. i = 1 \/ i = 2 \/ i = 3 \/ i = 4
    OBVIOUS
  <2> QED
    BY ONLY <2>1, <1>4, Zenon
<1>6. \A i \in 1..4 : 4 - 4 + i = i
  OBVIOUS
<1> QED
  BY <1>2, <1>5, <1>6 DEF JotLeft

LEMMA BeginIs ==
  ASSUME NEW t \in Nat
  PROVE  /\ Begin(t) \in Seq(Operation) /\ Len(Begin(t)) = 4
         /\ Begin(t)[1].op = "create" /\ JotLeft(Begin(t))
<1>1. PICK c \in Attempts : c = Record("installing", "self", "gone", t)
  BY DEF Record, Attempts, Person
<1>2. PICK o \in Operation : o = Op("create", "attempt") /\ o.op = "create" /\ o.name = "attempt"
  BY OpIs DEF FileOps, Name
<1>3. Begin(t) = Jot(o, c)
  BY <1>1, <1>2 DEF Begin, Jot
<1> QED
  BY <1>2, <1>3, JotLeftIs

LEMMA InstalledIs ==
  ASSUME NEW a \in Attempts
  PROVE  /\ Installed(a) \in Seq(Operation) /\ Len(Installed(a)) = 4
         /\ JotLeft(Installed(a))
<1>1. PICK c \in Attempts : c = [a EXCEPT !.phase = "awaitingHealth"]
  BY DEF Attempts
<1>2. PICK o \in Operation : o = Op("truncate", "attempt") /\ o.op = "truncate" /\ o.name = "attempt"
  BY OpIs DEF FileOps, Name
<1>3. Installed(a) = Jot(o, c)
  BY <1>1, <1>2 DEF Installed, Jot
<1> QED
  BY <1>2, <1>3, JotLeftIs

LEMMA RecoverIs ==
  ASSUME NEW r \in Receipts
  PROVE  /\ Recover(r) \in Seq(Operation) /\ Len(Recover(r)) = 4
         /\ Recover(r)[1].op = "create" /\ JotLeft(Recover(r))
<1>1. PICK c \in Attempts :
        c = Record("awaitingHealth", r.owner, "self", r.target)
  BY DEF Record, Attempts, Receipts, Person
<1>2. PICK o \in Operation : o = Op("create", "attempt") /\ o.op = "create" /\ o.name = "attempt"
  BY OpIs DEF FileOps, Name
<1>3. Recover(r) = Jot(o, c)
  BY <1>1, <1>2 DEF Recover, Jot
<1> QED
  BY <1>2, <1>3, JotLeftIs

\* The first of the operations left, and the others.
LEMMA NextOp ==
  ASSUME NEW ops \in Seq(Operation), ops # <<>>
  PROVE  /\ Head(ops) \in Operation /\ Head(ops) = ops[1]
         /\ Tail(ops) \in Seq(Operation)
         /\ Len(ops) \in Nat \ {0} /\ Len(Tail(ops)) = Len(ops) - 1
         /\ \A i \in 1..Len(Tail(ops)) : Tail(ops)[i] = ops[i + 1]
         /\ Tail(ops) = <<>> <=> Len(ops) = 1
<1>1. Head(ops) = ops[1] /\ Len(ops) \in Nat \ {0}
  BY EmptySeq
<1>2. /\ Head(ops) \in Operation /\ Tail(ops) \in Seq(Operation)
      /\ Len(Tail(ops)) = Len(ops) - 1
      /\ \A i \in 1..Len(Tail(ops)) : Tail(ops)[i] = ops[i + 1]
  BY HeadTailProperties
<1>3. Tail(ops) = <<>> <=> Len(Tail(ops)) = 0
  BY <1>2, EmptySeq
<1> QED
  BY <1>1, <1>2, <1>3

LEMMA FinishNext ==
  ASSUME NEW ops \in Seq(Operation), ops # <<>>, NEW t, FinishLeft(ops, t)
  PROVE  FinishOp(Head(ops), 17 - Len(ops), t) /\ FinishLeft(Tail(ops), t)
<1>1. Len(ops) \in 1..16 /\ Len(Tail(ops)) = Len(ops) - 1
  <2>1. Len(ops) <= 16
    BY DEF FinishLeft
  <2>2. Len(ops) \in Nat \ {0} /\ Len(Tail(ops)) = Len(ops) - 1
    BY NextOp
  <2>3. \A k \in Nat \ {0} : k <= 16 => k \in 1..16
    OBVIOUS
  <2> QED
    BY ONLY <2>1, <2>2, <2>3
<1>2. FinishOp(ops[1], 16 - Len(ops) + 1, t)
  BY <1>1 DEF FinishLeft
<1>3. 16 - Len(ops) + 1 = 17 - Len(ops)
  BY <1>1
<1>4. ASSUME NEW i \in 1..Len(Tail(ops))
      PROVE  FinishOp(Tail(ops)[i], 16 - Len(Tail(ops)) + i, t)
  <2>1. i + 1 \in 1..Len(ops) /\ 16 - Len(ops) + (i + 1) = 16 - Len(Tail(ops)) + i
    BY <1>1
  <2>2. FinishOp(ops[i + 1], 16 - Len(ops) + (i + 1), t)
    BY <2>1 DEF FinishLeft
  <2> QED
    BY <2>1, <2>2, NextOp
<1> QED
  BY <1>1, <1>2, <1>3, <1>4, NextOp DEF FinishLeft

LEMMA JotNext ==
  ASSUME NEW ops \in Seq(Operation), ops # <<>>, JotLeft(ops)
  PROVE  JotOp(Head(ops), 5 - Len(ops)) /\ JotLeft(Tail(ops))
<1>1. Len(ops) \in 1..4 /\ Len(Tail(ops)) = Len(ops) - 1
  <2>1. Len(ops) <= 4
    BY DEF JotLeft
  <2>2. Len(ops) \in Nat \ {0} /\ Len(Tail(ops)) = Len(ops) - 1
    BY NextOp
  <2> QED
    BY ONLY <2>1, <2>2
<1>2. JotOp(ops[1], 4 - Len(ops) + 1)
  BY <1>1 DEF JotLeft
<1>3. 4 - Len(ops) + 1 = 5 - Len(ops)
  BY <1>1
<1>4. ASSUME NEW i \in 1..Len(Tail(ops))
      PROVE  JotOp(Tail(ops)[i], 4 - Len(Tail(ops)) + i)
  <2>1. i + 1 \in 1..Len(ops) /\ 4 - Len(ops) + (i + 1) = 4 - Len(Tail(ops)) + i
    BY <1>1
  <2>2. JotOp(ops[i + 1], 4 - Len(ops) + (i + 1))
    BY <2>1 DEF JotLeft
  <2> QED
    BY <2>1, <2>2, NextOp
<1> QED
  BY <1>1, <1>2, <1>3, <1>4, NextOp DEF JotLeft

-----------------------------------------------------------------------------
(* What one file operation does to the disk.                               *)

Same(f, g, n) == \A m \in Name \ {n} : f[m] = g[m]

LEMMA MakesName ==
  ASSUME fs \in Disk, safe \in Disk, NEW o \in Operation,
         o.op \in {"create", "open"}, Perform(o)
  PROVE  /\ fs' \in Disk /\ safe' = safe
         /\ Same(fs', fs, o.name) /\ fs'[o.name] # Absent
         /\ fs'[o.name] \in {fs[o.name], Torn}
         /\ loose' \in {loose, loose \cup {o.name}}
         /\ o.op = "create" => fs'[o.name] = Torn
  BY DiskIs, SlotIs, SMTT(30)
     DEF Perform, Creates, Put, journal, Operation, Same, Absent, Torn

LEMMA WritesName ==
  ASSUME fs \in Disk, safe \in Disk, NEW o \in Operation,
         o.op \in {"truncate", "write"}, Perform(o)
  PROVE  /\ fs' \in Disk /\ safe' = safe /\ Same(fs', fs, o.name)
         /\ fs'[o.name] = IF o.op = "write" THEN o.content ELSE Torn
         /\ loose' = loose \cup {o.name}
  BY DiskIs, SlotIs, SMTT(30) DEF Perform, Creates, Put, Operation, Same

LEMMA SyncsName ==
  ASSUME fs \in Disk, safe \in Disk, NEW o \in Operation,
         o.op = "syncFile", Perform(o)
  PROVE  /\ fs' = fs /\ safe' \in Disk /\ Same(safe', safe, o.name)
         /\ safe'[o.name] \in {safe[o.name], fs[o.name]}
         /\ loose' = loose \ {o.name}
  BY DiskIs, SMTT(30) DEF Perform, Creates, Operation, Same

LEMMA SyncsDirectory ==
  ASSUME fs \in Disk, safe \in Disk, NEW o \in Operation,
         o.op = "syncDirectory", Perform(o)
  PROVE  /\ fs' = fs /\ safe' \in Disk /\ loose' = loose
         /\ \A m \in Name : safe'[m] = IF m \in loose THEN Torn ELSE fs[m]
  BY DiskIs, SlotIs, SMTT(30) DEF Perform, Creates

LEMMA Unlinks ==
  ASSUME fs \in Disk, safe \in Disk, NEW o \in Operation,
         o.op = "unlink", Perform(o)
  PROVE  /\ fs' \in Disk /\ safe' = safe /\ Same(fs', fs, o.name)
         /\ fs'[o.name] = Absent
         /\ loose' = loose \ {o.name}
  BY DiskIs, SlotIs, SMTT(30) DEF Perform, Creates, Put, Operation, Same

LEMMA Swaps ==
  ASSUME fs \in Disk, safe \in Disk, NEW o \in Operation,
         o.op = "swap", Perform(o)
  PROVE  /\ fs' \in Disk /\ safe' = safe
         /\ fs'["attempt"] = fs["attempt"]
         /\ fs'["completed"] = fs["stage"] /\ fs'["stage"] = fs["completed"]
         /\ "completed" \in loose' => "stage" \in loose
<1>1. /\ fs' = [fs EXCEPT !["stage"] = fs["completed"], !["completed"] = fs["stage"]]
      /\ safe' = safe
      /\ loose' = {CASE m = "stage" -> "completed" [] m = "completed" -> "stage"
                     [] OTHER -> m : m \in loose}
  BY DEF Perform, Creates
<1>2. "completed" \in loose' => "stage" \in loose
  BY ONLY <1>1
<1>3. Slot("stage") = Slot("completed")
  BY DEF Slot
<1>4. fs = [n \in Name |-> fs[n]] /\ \A n \in Name : fs[n] \in Slot(n)
  BY DiskIs
<1>5. /\ fs' = [n \in Name |-> fs'[n]]
      /\ fs'["attempt"] = fs["attempt"]
      /\ fs'["completed"] = fs["stage"] /\ fs'["stage"] = fs["completed"]
  BY ONLY <1>1, <1>4 DEF Name
<1>6. \A n \in Name : fs'[n] \in Slot(n)
  BY ONLY <1>3, <1>4, <1>5 DEF Name
<1>7. fs' \in Disk
  BY <1>5, <1>6, DiskIs
<1> QED
  BY <1>1, <1>2, <1>5, <1>7

-----------------------------------------------------------------------------
(* Which bundle the disk vouches for, now and after the machine stopped.   *)

Commits(c, b) == IsCommitted(c) /\ c.target = b
Good(c, b)    == c # Absent /\ (IsCommitted(c) => c.target = b)

\* Every start is blocked, whatever is lost.
Held(f, s) == f["attempt"] # Absent /\ s["attempt"] # Absent

\* A receipt is there, whatever is lost, and none is for another bundle.
Covered(f, s, b) == Good(f["completed"], b) /\ Good(s["completed"], b)

\* The bundle put there by hand (or one that is not whole) needs no receipt.
Vouched(f, s, b) == b \in {0, 1} \/ Held(f, s) \/ Covered(f, s, b)

\* What a start would take for a proof is certain to survive.
Lasting(f, s, b) ==
  /\ f["attempt"] = Absent /\ f["stage"] = Absent
  /\ IsCommitted(f["completed"]) /\ b \notin {0, 1}
  => Commits(s["completed"], b)

Honest(f, s, b) == Vouched(f, s, b) /\ Lasting(f, s, b)

\* How far Begin, Installed or Recover has come.
JotDone(ops, f, s) ==
  /\ JotLeft(ops)
  /\ (Len(ops) = 4 /\ ops[1].op = "truncate") => f["attempt"] # Absent
  /\ Len(ops) <= 3 => f["attempt"] # Absent
  /\ Len(ops) <= 2 => f["attempt"] \in Attempts
  /\ Len(ops) = 0 => s["attempt"] # Absent

\* How far Finish has come: a pending receipt before the blocker goes, a final
\* one in the stage before the exchange, and nothing removed before the
\* exchange is on the disk.
FinishDone(ops, f, s, l, b) ==
  /\ FinishLeft(ops, b)
  /\ Len(ops) \in 4..13 => IsPrepared(f["completed"])
  /\ Len(ops) <= 12 => "completed" \notin l
  /\ Len(ops) \in 4..11 => IsPrepared(s["completed"])
  /\ Len(ops) \in 4..6 => Commits(f["stage"], b)
  /\ Len(ops) \in 4..5 => "stage" \notin l
  /\ Len(ops) = 3 => f["stage"] # Absent
  /\ Len(ops) <= 3 => Commits(f["completed"], b)
  /\ Len(ops) <= 2 => Commits(s["completed"], b)

LEMMA Distinct ==
  ASSUME NEW c \in Content
  PROVE  /\ IsPrepared(c) => c # Absent /\ c # Torn /\ ~IsCommitted(c)
         /\ IsCommitted(c) => c # Absent /\ c # Torn
  BY DEF IsPrepared, IsCommitted, Absent, Torn

LEMMA TornIs == Torn # Absent /\ ~IsCommitted(Torn) /\ Torn \in Content
  BY DEF IsCommitted, Absent, Torn, Content

LEMMA JotStep ==
  ASSUME fs \in Disk, safe \in Disk, NEW b, Honest(fs, safe, b),
         NEW ops \in Seq(Operation), ops # <<>>, JotDone(ops, fs, safe),
         ~Refused(Head(ops)), Perform(Head(ops))
  PROVE  /\ fs' \in Disk /\ safe' \in Disk
         /\ Honest(fs', safe', b)
         /\ JotDone(Tail(ops), fs', safe')
<1>1. PICK o \in Operation : o = Head(ops) /\ o = ops[1] /\ Perform(o) /\ ~Refused(o)
  BY NextOp
<1>2. PICK n \in 0..3 : Len(ops) = n + 1 /\ Len(Tail(ops)) = n
  <2>1. Len(ops) <= 4
    BY DEF JotDone, JotLeft
  <2>2. Len(ops) \in Nat \ {0} /\ Len(Tail(ops)) = Len(ops) - 1
    BY NextOp
  <2> QED
    BY ONLY <2>1, <2>2
<1>3. JotOp(o, 4 - n) /\ JotLeft(Tail(ops))
  BY <1>1, <1>2, JotNext DEF JotDone
<1>4. n = 3 \/ n = 2 \/ n = 1 \/ n = 0
  BY <1>2
<1>5. "attempt" \in Name /\ "completed" \in Name /\ "stage" \in Name
  BY DEF Name
<1> USE DEF Honest, Vouched, Held, Covered, Lasting, Good
<1>6. CASE n = 3
  <2>1. o.op \in {"create", "truncate"} /\ o.name = "attempt"
    BY <1>3, <1>6 DEF JotOp
  <2>2. /\ fs' \in Disk /\ safe' = safe /\ fs'["attempt"] = Torn
        /\ fs'["completed"] = fs["completed"] /\ fs'["stage"] = fs["stage"]
    BY <1>1, <1>5, <2>1, MakesName, WritesName DEF Same
  <2>3. o.op = "create" => fs["attempt"] = Absent
    BY <1>1, <2>1 DEF Refused
  <2>4. Honest(fs', safe', b)
    BY <2>1, <2>2, <2>3, TornIs
  <2>5. Len(Tail(ops)) = 3 /\ JotLeft(Tail(ops)) /\ fs'["attempt"] # Absent
    BY <1>2, <1>3, <1>6, <2>2, TornIs
  <2>6. JotDone(Tail(ops), fs', safe')
    <3>1. \A k : k = 3 => ~(k = 4) /\ ~(k <= 2) /\ ~(k = 0)
      OBVIOUS
    <3> QED
      BY ONLY <2>5, <3>1, Zenon DEF JotDone
  <2> QED
    BY <2>2, <2>4, <2>6
<1>7. CASE n = 2
  <2>1. o.op = "write" /\ o.name = "attempt" /\ o.content \in Attempts
    BY <1>3, <1>7 DEF JotOp
  <2>2. /\ fs' \in Disk /\ safe' = safe /\ fs'["attempt"] = o.content
        /\ fs'["completed"] = fs["completed"] /\ fs'["stage"] = fs["stage"]
    BY <1>1, <1>5, <2>1, WritesName DEF Same
  <2>3. fs'["attempt"] # Absent /\ fs'["attempt"] \in Attempts
    BY <2>1, <2>2 DEF Attempts, Absent
  <2>4. Honest(fs', safe', b)
    BY <2>2, <2>3, <1>2, <1>7
  <2> QED
    BY <1>2, <1>3, <1>7, <2>2, <2>3, <2>4 DEF JotDone
<1>8. CASE n = 1
  <2>1. o.op = "syncFile" /\ o.name = "attempt"
    BY <1>3, <1>8 DEF JotOp
  <2>2. /\ safe' \in Disk /\ fs' = fs
        /\ safe'["attempt"] \in {safe["attempt"], fs["attempt"]}
        /\ safe'["completed"] = safe["completed"] /\ safe'["stage"] = safe["stage"]
    BY <1>1, <1>5, <2>1, SyncsName DEF Same
  <2>3. fs["attempt"] # Absent /\ fs["attempt"] \in Attempts
    BY <1>2, <1>8 DEF JotDone
  <2>4. Honest(fs', safe', b)
    BY <2>2, <2>3
  <2> QED
    BY <1>2, <1>3, <1>8, <2>2, <2>3, <2>4 DEF JotDone
<1>9. CASE n = 0
  <2>1. o.op = "syncDirectory"
    BY <1>3, <1>9 DEF JotOp
  <2>2. /\ safe' \in Disk /\ fs' = fs
        /\ safe'["attempt"] \in {Torn, fs["attempt"]}
        /\ safe'["completed"] \in {Torn, fs["completed"]}
    BY <1>1, <1>5, <2>1, SyncsDirectory
  <2>3. fs["attempt"] # Absent /\ fs["attempt"] \in Attempts
    BY <1>2, <1>9 DEF JotDone
  <2>4. Honest(fs', safe', b)
    BY <2>2, <2>3, TornIs
  <2>5. JotDone(Tail(ops), fs', safe')
    BY <1>2, <1>3, <1>9, <2>2, <2>3, TornIs DEF JotDone
  <2> QED
    BY <2>2, <2>4, <2>5
<1> QED
  BY <1>4, <1>6, <1>7, <1>8, <1>9

LEMMA PreparedIsHonest ==
  ASSUME NEW f \in Disk, NEW s \in Disk, NEW b,
         IsPrepared(f["completed"]), IsPrepared(s["completed"])
  PROVE  Honest(f, s, b)
<1>1. f["completed"] \in Content /\ s["completed"] \in Content
  BY DEF Disk, Name
<1> QED
  BY <1>1, Distinct DEF Honest, Vouched, Covered, Lasting, Good

LEMMA CommittedIsHonest ==
  ASSUME NEW f \in Disk, NEW s \in Disk, NEW b,
         Commits(f["completed"], b), Commits(s["completed"], b)
  PROVE  Honest(f, s, b)
<1>1. f["completed"] \in Content /\ s["completed"] \in Content
  BY DEF Disk, Name
<1> QED
  BY <1>1, Distinct DEF Honest, Vouched, Covered, Lasting, Good, Commits

LEMMA FinishStep ==
  ASSUME fs \in Disk, safe \in Disk, NEW b, Honest(fs, safe, b),
         NEW ops \in Seq(Operation), ops # <<>>, FinishDone(ops, fs, safe, loose, b),
         Perform(Head(ops))
  PROVE  /\ fs' \in Disk /\ safe' \in Disk
         /\ Honest(fs', safe', b)
         /\ FinishDone(Tail(ops), fs', safe', loose', b)
<1>1. PICK o \in Operation : o = Head(ops) /\ Perform(o)
  BY NextOp
<1>2. PICK n \in 0..15 : Len(ops) = n + 1 /\ Len(Tail(ops)) = n
  <2>1. Len(ops) <= 16
    BY DEF FinishDone, FinishLeft
  <2>2. Len(ops) \in Nat \ {0} /\ Len(Tail(ops)) = Len(ops) - 1
    BY NextOp
  <2>3. \A k \in Nat \ {0} : k <= 16 => k - 1 \in 0..15 /\ k = (k - 1) + 1
    OBVIOUS
  <2> QED
    BY ONLY <2>1, <2>2, <2>3
<1>3. FinishOp(o, 16 - n, b) /\ FinishLeft(Tail(ops), b)
  <2>1. 17 - (n + 1) = 16 - n
    BY <1>2
  <2> QED
    BY <1>1, <1>2, <2>1, FinishNext DEF FinishDone
<1>4. \/ n = 0 \/ n = 1 \/ n = 2 \/ n = 3 \/ n = 4 \/ n = 5 \/ n = 6 \/ n = 7
      \/ n = 8 \/ n = 9 \/ n = 10 \/ n = 11 \/ n = 12 \/ n = 13 \/ n = 14 \/ n = 15
  BY <1>2
<1>5. "attempt" \in Name /\ "completed" \in Name /\ "stage" \in Name
  BY DEF Name
<1>6. /\ n \in 3..12 => IsPrepared(fs["completed"])
      /\ n <= 11 => "completed" \notin loose
      /\ n \in 3..10 => IsPrepared(safe["completed"])
      /\ n \in 3..5 => Commits(fs["stage"], b)
      /\ n \in 3..4 => "stage" \notin loose
      /\ n = 2 => fs["stage"] # Absent
      /\ n <= 2 => Commits(fs["completed"], b)
      /\ n <= 1 => Commits(safe["completed"], b)
  BY <1>2 DEF FinishDone
<1>7. SUFFICES ASSUME TRUE
      PROVE  /\ fs' \in Disk /\ safe' \in Disk /\ Honest(fs', safe', b)
             /\ n \in 4..13 => IsPrepared(fs'["completed"])
             /\ n <= 12 => "completed" \notin loose'
             /\ n \in 4..11 => IsPrepared(safe'["completed"])
             /\ n \in 4..6 => Commits(fs'["stage"], b)
             /\ n \in 4..5 => "stage" \notin loose'
             /\ n = 3 => fs'["stage"] # Absent
             /\ n <= 3 => Commits(fs'["completed"], b)
             /\ n <= 2 => Commits(safe'["completed"], b)
  BY <1>2, <1>3 DEF FinishDone
<1>8. /\ fs["completed"] \in Content /\ safe["completed"] \in Content
      /\ fs["stage"] \in Content
  BY <1>5 DEF Disk
<1>9. CASE n = 15
  <2>1. o.op = "open" /\ o.name = "completed"
    BY <1>3, <1>9 DEF FinishOp
  <2>2. /\ fs' \in Disk /\ safe' = safe
        /\ fs'["attempt"] = fs["attempt"] /\ fs'["stage"] = fs["stage"]
        /\ fs'["completed"] \in {fs["completed"], Torn} /\ fs'["completed"] # Absent
    BY <1>1, <1>5, <2>1, MakesName DEF Same
  <2>3. Honest(fs', safe', b)
    BY <2>1, <2>2, <1>6, <1>8, <1>9, TornIs, Distinct
       DEF Honest, Vouched, Held, Covered, Lasting, Good
  <2> QED
    BY <2>1, <2>2, <2>3, <1>6, <1>9
<1>10. CASE n = 14
  <2>1. o.op = "truncate" /\ o.name = "completed"
    BY <1>3, <1>10 DEF FinishOp
  <2>2. /\ fs' \in Disk /\ safe' = safe
        /\ fs'["attempt"] = fs["attempt"] /\ fs'["stage"] = fs["stage"]
        /\ fs'["completed"] = Torn
    BY <1>1, <1>5, <2>1, WritesName DEF Same
  <2>3. Honest(fs', safe', b)
    BY <2>1, <2>2, <1>6, <1>8, <1>10, TornIs, Distinct
       DEF Honest, Vouched, Held, Covered, Lasting, Good
  <2> QED
    BY <2>1, <2>2, <2>3, <1>6, <1>10
<1>11. CASE n = 13
  <2>1. o.op = "write" /\ o.name = "completed" /\ IsPrepared(o.content)
    BY <1>3, <1>11 DEF FinishOp
  <2>2. /\ fs' \in Disk /\ safe' = safe
        /\ fs'["attempt"] = fs["attempt"] /\ fs'["stage"] = fs["stage"]
        /\ IsPrepared(fs'["completed"]) /\ fs'["completed"] \in Content
    <3>1. fs'["completed"] = o.content
      BY <1>1, <2>1, WritesName
    <3>2. IsPrepared(fs'["completed"])
      BY ONLY <2>1, <3>1, Zenon
    <3> QED
      BY <3>2, <1>1, <1>5, <2>1, WritesName DEF Same, Disk
  <2>3. Honest(fs', safe', b)
    BY <2>1, <2>2, <1>6, <1>8, <1>11, TornIs, Distinct
       DEF Honest, Vouched, Held, Covered, Lasting, Good
  <2> QED
    BY <2>1, <2>2, <2>3, <1>6, <1>11
<1>12. CASE n = 12
  <2>1. o.op = "syncFile" /\ o.name = "completed"
    BY <1>3, <1>12 DEF FinishOp
  <2>2. /\ fs' = fs /\ safe' \in Disk /\ safe'["attempt"] = safe["attempt"]
        /\ safe'["completed"] \in {safe["completed"], fs["completed"]}
        /\ "completed" \notin loose'
    BY <1>1, <1>5, <2>1, SyncsName DEF Same
  <2>3. Honest(fs', safe', b)
    BY <2>1, <2>2, <1>6, <1>8, <1>12, TornIs, Distinct
       DEF Honest, Vouched, Held, Covered, Lasting, Good
  <2> QED
    BY <2>1, <2>2, <2>3, <1>6, <1>12
<1>13. CASE n = 11
  <2>1. o.op = "syncDirectory"
    BY <1>3, <1>13 DEF FinishOp
  <2>2. /\ fs' = fs /\ safe' \in Disk /\ loose' = loose
        /\ safe'["completed"] = IF "completed" \in loose THEN Torn ELSE fs["completed"]
    BY <1>1, <1>5, <2>1, SyncsDirectory DEF Same
  <2>3. IsPrepared(fs'["completed"]) /\ IsPrepared(safe'["completed"])
    BY <2>2, <1>6, <1>13
  <2>4. Honest(fs', safe', b)
    BY <2>2, <2>3, PreparedIsHonest
  <2> QED
    BY <2>1, <2>2, <2>3, <2>4, <1>6, <1>13
<1>14. CASE n = 10
  <2>1. o.op = "unlink" /\ o.name = "attempt"
    BY <1>3, <1>14 DEF FinishOp
  <2>2. /\ fs' \in Disk /\ safe' = safe /\ loose' \subseteq loose
        /\ fs'["completed"] = fs["completed"]
    BY <1>1, <1>5, <2>1, Unlinks DEF Same
  <2>3. IsPrepared(fs'["completed"]) /\ IsPrepared(safe'["completed"])
    BY <2>2, <1>6, <1>14
  <2>4. Honest(fs', safe', b)
    BY <2>2, <2>3, PreparedIsHonest
  <2> QED
    BY <2>1, <2>2, <2>3, <2>4, <1>6, <1>14
<1>15. CASE n = 9
  <2>1. o.op = "syncDirectory"
    BY <1>3, <1>15 DEF FinishOp
  <2>2. /\ fs' = fs /\ safe' \in Disk /\ loose' = loose
        /\ safe'["completed"] = IF "completed" \in loose THEN Torn ELSE fs["completed"]
    BY <1>1, <1>5, <2>1, SyncsDirectory DEF Same
  <2>3. IsPrepared(fs'["completed"]) /\ IsPrepared(safe'["completed"])
    BY <2>2, <1>6, <1>15
  <2>4. Honest(fs', safe', b)
    BY <2>2, <2>3, PreparedIsHonest
  <2> QED
    BY <2>1, <2>2, <2>3, <2>4, <1>6, <1>15
<1>16. CASE n = 8
  <2>1. o.op = "open" /\ o.name = "stage"
    BY <1>3, <1>16 DEF FinishOp
  <2>2. /\ fs' \in Disk /\ safe' = safe /\ loose' \subseteq loose \cup {"stage"}
        /\ fs'["completed"] = fs["completed"]
    BY <1>1, <1>5, <2>1, MakesName DEF Same
  <2>3. IsPrepared(fs'["completed"]) /\ IsPrepared(safe'["completed"])
    BY <2>2, <1>6, <1>16
  <2>4. Honest(fs', safe', b)
    BY <2>2, <2>3, PreparedIsHonest
  <2> QED
    BY <2>1, <2>2, <2>3, <2>4, <1>6, <1>16
<1>17. CASE n = 7
  <2>1. o.op = "truncate" /\ o.name = "stage"
    BY <1>3, <1>17 DEF FinishOp
  <2>2. /\ fs' \in Disk /\ safe' = safe /\ loose' \subseteq loose \cup {"stage"}
        /\ fs'["completed"] = fs["completed"]
    BY <1>1, <1>5, <2>1, WritesName DEF Same
  <2>3. IsPrepared(fs'["completed"]) /\ IsPrepared(safe'["completed"])
    BY <2>2, <1>6, <1>17
  <2>4. Honest(fs', safe', b)
    BY <2>2, <2>3, PreparedIsHonest
  <2> QED
    BY <2>1, <2>2, <2>3, <2>4, <1>6, <1>17
<1>18. CASE n = 6
  <2>1. /\ o.op = "write" /\ o.name = "stage"
        /\ Commits(o.content, b)
    BY <1>3, <1>18 DEF FinishOp, Commits
  <2>2. /\ fs' \in Disk /\ safe' = safe /\ loose' \subseteq loose \cup {"stage"}
        /\ fs'["completed"] = fs["completed"]
        /\ Commits(fs'["stage"], b)
    BY <1>1, <1>5, <2>1, WritesName DEF Same
  <2>3. IsPrepared(fs'["completed"]) /\ IsPrepared(safe'["completed"])
    BY <2>2, <1>6, <1>18
  <2>4. Honest(fs', safe', b)
    BY <2>2, <2>3, PreparedIsHonest
  <2> QED
    BY <2>1, <2>2, <2>3, <2>4, <1>6, <1>18
<1>19. CASE n = 5
  <2>1. o.op = "syncFile" /\ o.name = "stage"
    BY <1>3, <1>19 DEF FinishOp
  <2>2. /\ fs' = fs /\ safe' \in Disk /\ loose' = loose \ {"stage"}
        /\ safe'["completed"] = safe["completed"]
    BY <1>1, <1>5, <2>1, SyncsName DEF Same
  <2>3. IsPrepared(fs'["completed"]) /\ IsPrepared(safe'["completed"])
    BY <2>2, <1>6, <1>19
  <2>4. Honest(fs', safe', b)
    BY <2>2, <2>3, PreparedIsHonest
  <2> QED
    BY <2>1, <2>2, <2>3, <2>4, <1>6, <1>19
<1>20. CASE n = 4
  <2>1. o.op = "syncDirectory"
    BY <1>3, <1>20 DEF FinishOp
  <2>2. /\ fs' = fs /\ safe' \in Disk /\ loose' = loose
        /\ safe'["completed"] = IF "completed" \in loose THEN Torn ELSE fs["completed"]
    BY <1>1, <1>5, <2>1, SyncsDirectory DEF Same
  <2>3. IsPrepared(fs'["completed"]) /\ IsPrepared(safe'["completed"])
    BY <2>2, <1>6, <1>20
  <2>4. Honest(fs', safe', b)
    BY <2>2, <2>3, PreparedIsHonest
  <2> QED
    BY <2>1, <2>2, <2>3, <2>4, <1>6, <1>20
<1>21. CASE n = 3
  <2>1. o.op = "swap"
    BY <1>3, <1>21 DEF FinishOp
  <2>2. /\ fs' \in Disk /\ safe' = safe
        /\ fs'["completed"] = fs["stage"] /\ fs'["stage"] = fs["completed"]
        /\ "completed" \in loose' => "stage" \in loose
    BY <1>1, <1>5, <2>1, Swaps DEF Same
  <2>3. Commits(fs'["completed"], b) /\ fs'["stage"] # Absent
    BY <2>2, <1>6, <1>8, <1>21, Distinct
  <2>4. Honest(fs', safe', b)
    BY <2>2, <2>3, <1>6, <1>8, <1>21, Distinct
       DEF Honest, Vouched, Covered, Lasting, Good, Commits
  <2> QED
    BY <2>1, <2>2, <2>3, <2>4, <1>6, <1>21
<1>22. CASE n = 2
  <2>1. o.op = "syncDirectory"
    BY <1>3, <1>22 DEF FinishOp
  <2>2. /\ fs' = fs /\ safe' \in Disk /\ loose' = loose
        /\ safe'["completed"] = IF "completed" \in loose THEN Torn ELSE fs["completed"]
    BY <1>1, <1>5, <2>1, SyncsDirectory DEF Same
  <2>3. Commits(fs'["completed"], b) /\ Commits(safe'["completed"], b)
    BY <2>2, <1>6, <1>22
  <2>4. Honest(fs', safe', b)
    BY <2>2, <2>3, CommittedIsHonest
  <2> QED
    BY <2>1, <2>2, <2>3, <2>4, <1>6, <1>22
<1>23. CASE n = 1
  <2>1. o.op = "unlink" /\ o.name = "stage"
    BY <1>3, <1>23 DEF FinishOp
  <2>2. /\ fs' \in Disk /\ safe' = safe /\ loose' \subseteq loose
        /\ fs'["completed"] = fs["completed"]
    BY <1>1, <1>5, <2>1, Unlinks DEF Same
  <2>3. Commits(fs'["completed"], b) /\ Commits(safe'["completed"], b)
    BY <2>2, <1>6, <1>23
  <2>4. Honest(fs', safe', b)
    BY <2>2, <2>3, CommittedIsHonest
  <2> QED
    BY <2>1, <2>2, <2>3, <2>4, <1>6, <1>23
<1>24. CASE n = 0
  <2>1. o.op = "syncDirectory"
    BY <1>3, <1>24 DEF FinishOp
  <2>2. /\ fs' = fs /\ safe' \in Disk /\ loose' = loose
        /\ safe'["completed"] = IF "completed" \in loose THEN Torn ELSE fs["completed"]
    BY <1>1, <1>5, <2>1, SyncsDirectory DEF Same
  <2>3. Commits(fs'["completed"], b) /\ Commits(safe'["completed"], b)
    BY <2>2, <1>6, <1>24
  <2>4. Honest(fs', safe', b)
    BY <2>2, <2>3, CommittedIsHonest
  <2> QED
    BY <2>1, <2>2, <2>3, <2>4, <1>6, <1>24
<1> QED
  BY <1>4, <1>9, <1>10, <1>11, <1>12, <1>13, <1>14, <1>15, <1>16,
     <1>17, <1>18, <1>19, <1>20, <1>21, <1>22, <1>23, <1>24

-----------------------------------------------------------------------------
(* Processes age, and machines stop.                                       *)

\* Two contents that differ only in the processes they name.
Alike(c, d) ==
  /\ c = Absent <=> d = Absent
  /\ c \in Attempts <=> d \in Attempts
  /\ IsPrepared(c) <=> IsPrepared(d)
  /\ IsCommitted(c) <=> IsCommitted(d)
  /\ IsCommitted(c) => c.target = d.target

Ageing == [Person -> Person]

LEMMA AgedIs ==
  ASSUME NEW n \in Name, NEW c \in Slot(n), NEW p \in Ageing, NEW q \in Ageing
  PROVE  Aged(c, p, q) \in Slot(n) /\ Alike(c, Aged(c, p, q))
<1>1. CASE c \in {Absent, Torn}
  <2>1. Aged(c, p, q) = c
    BY <1>1 DEF Aged, Absent, Torn
  <2> QED
    BY <2>1 DEF Alike
<1>2. CASE c \in Attempts
  <2>1. Aged(c, p, q) = [kind |-> "attempt", phase |-> c.phase, owner |-> p[c.owner],
                         recovery |-> p[c.recovery], target |-> c.target]
    BY <1>2 DEF Aged, Attempts
  <2>2. p[c.owner] \in Person /\ p[c.recovery] \in Person
    BY <1>2 DEF Attempts, Ageing
  <2>3. Aged(c, p, q) \in Attempts
    BY <1>2, <2>1, <2>2 DEF Attempts
  <2>4. \A d \in Attempts : d # Absent /\ ~IsPrepared(d) /\ ~IsCommitted(d)
    BY DEF Attempts, Absent, IsPrepared, IsCommitted
  <2>5. n = "attempt"
    BY <1>2 DEF Slot, Absent, Torn, Attempts, Receipts
  <2> QED
    BY <1>2, <2>3, <2>4, <2>5, SlotIs DEF Alike
<1>3. CASE c \in Receipts
  <2>1. PICK d : d = Aged(c, p, q)
    OBVIOUS
  <2>2. d = [kind |-> "receipt", state |-> c.state, by |-> p[c.by],
             server |-> q[c.server], owner |-> p[c.owner],
             recovery |-> p[c.recovery], target |-> c.target]
    BY <1>3, <2>1 DEF Aged, Receipts
  <2>3. /\ p[c.owner] \in Person /\ p[c.recovery] \in Person /\ p[c.by] \in Person
        /\ q[c.server] \in Person
    BY <1>3 DEF Receipts, Ageing
  <2>4. d \in Receipts /\ d.kind = c.kind /\ d.state = c.state /\ d.target = c.target
    BY <1>3, <2>2, <2>3 DEF Receipts
  <2>5. \A r \in Receipts : r # Absent /\ r \notin Attempts
    BY DEF Receipts, Attempts, Absent
  <2>6. n # "attempt"
    BY <1>3 DEF Slot, Absent, Torn, Attempts, Receipts
  <2> QED
    BY <1>3, <2>1, <2>4, <2>5, <2>6, SlotIs DEF Alike, IsPrepared, IsCommitted
<1> QED
  BY <1>1, <1>2, <1>3 DEF Slot

LEMMA AgeIs ==
  ASSUME NEW f \in Disk, NEW p \in Ageing, NEW q \in Ageing
  PROVE  /\ Age(f, p, q) \in Disk
         /\ \A n \in Name : Alike(f[n], Age(f, p, q)[n])
<1>1. PICK g : g = Age(f, p, q)
  OBVIOUS
<1>2. g = [n \in Name |-> Aged(f[n], p, q)]
  BY <1>1 DEF Age
<1>3. g = [n \in Name |-> g[n]] /\ \A n \in Name : g[n] = Aged(f[n], p, q)
  BY <1>2
<1>4. \A n \in Name : g[n] \in Slot(n) /\ Alike(f[n], g[n])
  BY <1>3, AgedIs, DiskIs
<1> QED
  BY <1>1, <1>3, <1>4, DiskIs

\* The journals that two disks alike have in common.
AllAlike(f, g) == \A n \in Name : Alike(f[n], g[n])

LEMMA AlikeIsHonest ==
  ASSUME NEW f, NEW g, NEW s, NEW t, NEW b, AllAlike(f, g), AllAlike(s, t),
         Honest(f, s, b)
  PROVE  Honest(g, t, b)
  BY DEF AllAlike, Alike, Name, Honest, Vouched, Held, Covered, Good, Lasting, Commits

LEMMA AlikeIsDone ==
  ASSUME NEW f, NEW g, NEW s, NEW t, NEW b, AllAlike(f, g), AllAlike(s, t),
         NEW ops, NEW l
  PROVE  /\ JotDone(ops, f, s) => JotDone(ops, g, t)
         /\ FinishDone(ops, f, s, l, b) => FinishDone(ops, g, t, l, b)
<1>1. /\ Alike(f["attempt"], g["attempt"]) /\ Alike(s["attempt"], t["attempt"])
      /\ Alike(f["completed"], g["completed"]) /\ Alike(s["completed"], t["completed"])
      /\ Alike(f["stage"], g["stage"])
  BY DEF AllAlike, Name
<1>2. JotDone(ops, f, s) => JotDone(ops, g, t)
  BY ONLY <1>1, Zenon DEF JotDone, Alike
<1>3. FinishDone(ops, f, s, l, b) => FinishDone(ops, g, t, l, b)
  <2> SUFFICES ASSUME FinishDone(ops, f, s, l, b) PROVE FinishDone(ops, g, t, l, b)
      OBVIOUS
  <2>1. /\ IsPrepared(f["completed"]) => IsPrepared(g["completed"])
        /\ IsPrepared(s["completed"]) => IsPrepared(t["completed"])
        /\ Commits(f["completed"], b) => Commits(g["completed"], b)
        /\ Commits(s["completed"], b) => Commits(t["completed"], b)
        /\ Commits(f["stage"], b) => Commits(g["stage"], b)
        /\ f["stage"] # Absent => g["stage"] # Absent
    BY ONLY <1>1 DEF Alike, Commits
  <2> QED
    BY <2>1, Zenon DEF FinishDone
<1> QED
  BY <1>2, <1>3

\* After the machine stopped a name shows what it showed, what was certain, or
\* a file that lost its bytes.
LEMMA SurvivorIs ==
  ASSUME NEW n \in Name, NEW kept, NEW c \in Survivors(n, kept)
  PROVE  c \in {fs[n], safe[n], Torn}
  BY DEF Survivors

LEMMA StopIsHonest ==
  ASSUME NEW f \in Disk, NEW s \in Disk, NEW d, NEW b, Honest(f, s, b),
         \A n \in Name : d[n] \in {f[n], s[n], Torn}
  PROVE  /\ Honest(d, d, b) /\ Honest(d, d, 0)
         /\ Held(f, s) => Held(d, d)
<1>1. /\ d["attempt"] \in {f["attempt"], s["attempt"], Torn}
      /\ d["completed"] \in {f["completed"], s["completed"], Torn}
  BY DEF Name
<1>2. Held(f, s) => Held(d, d)
  BY <1>1, TornIs DEF Held
<1>3. Covered(f, s, b) => Covered(d, d, b)
  BY <1>1, TornIs DEF Covered, Good
<1>4. Vouched(d, d, b) /\ Vouched(d, d, 0)
  BY <1>2, <1>3 DEF Honest, Vouched
<1>5. Lasting(d, d, b) /\ Lasting(d, d, 0)
  BY <1>4 DEF Lasting, Vouched, Held, Covered, Good, Commits
<1> QED
  BY <1>2, <1>4, <1>5 DEF Honest

LEMMA HeldIsHonest ==
  ASSUME NEW f, NEW s, NEW b, Held(f, s)
  PROVE  Honest(f, s, b)
  BY DEF Honest, Vouched, Lasting, Held

-----------------------------------------------------------------------------
(* The invariant behind admission.                                         *)

JournalOK ==
  /\ fs \in Disk /\ safe \in Disk
  /\ app \in Nat /\ version \in Nat
  /\ task.ops \in Seq(Operation)

\* How far the journal operation under way has come.
Progress(t, f, s, l, b) ==
  /\ t.doing \in Jots => JotDone(t.ops, f, s)
  /\ t.doing = "finish" => FinishDone(t.ops, f, s, l, b)

\* Until it installs, the running shell is the bundle on disk, and while it
\* serves without a proof that bundle has one.
Running(v, g, b, s) ==
  /\ v # 0 /\ g \in {"checking", "awaiting", "normal", "manual"} => b = v
  /\ v # 0 /\ g \in {"normal", "manual"} => v = 1 \/ Commits(s["completed"], v)

Checked(f) ==
  /\ f["attempt"] = Absent /\ f["stage"] = Absent
  /\ f["completed"] = Absent \/ IsCommitted(f["completed"])

\* What the shell relies on having seen in the journal.
Ready(t, g, f) ==
  /\ t.doing = "preflight" => Checked(f)
  /\ g = "awaiting" /\ t.doing = "idle" => f["attempt"] \in Attempts

AdmissionInv ==
  /\ JournalOK
  /\ Progress(task, fs, safe, loose, app)
  /\ Honest(fs, safe, app)
  /\ Running(version, gate, app, safe)
  /\ Ready(task, gate, fs)

LEMMA AdmissionImplies == AdmissionInv => AdmissionIsEarned
<1> SUFFICES ASSUME AdmissionInv, version # 0, gate \in {"normal", "manual"}
             PROVE  /\ app = version
                    /\ version = 1 \/ /\ IsCommitted(safe["completed"])
                                      /\ safe["completed"].target = version
    BY DEF AdmissionIsEarned
<1> QED
  BY DEF AdmissionInv, Running, Commits

LEMMA IdleIs == Idle.doing = "idle" /\ Idle.ops \in Seq(Operation)
  BY EmptySeq DEF Idle, Doing

LEMMA DoingIs ==
  ASSUME NEW x, NEW o
  PROVE  Doing(x, o).doing = x /\ Doing(x, o).ops = o
  BY DEF Doing

LEMMA AdmissionInit == Init => AdmissionInv
<1> SUFFICES ASSUME Init PROVE AdmissionInv
    OBVIOUS
<1>1. /\ fs = [n \in Name |-> Absent] /\ safe = fs
      /\ app = 1 /\ version = 0 /\ task = Idle /\ gate = "checking"
  BY DEF Init, LaunchInit, JournalInit
<1>2. fs \in Disk /\ safe \in Disk
  BY <1>1, DiskIs, SlotIs
<1>3. JournalOK
  BY <1>1, <1>2, IdleIs DEF JournalOK
<1>4. Honest(fs, safe, app)
  BY <1>1 DEF Honest, Vouched, Lasting
<1> QED
  BY <1>1, <1>3, <1>4, IdleIs DEF AdmissionInv, Progress, Running, Ready, Jots

\* A start that the check lets through is earned.
LEMMA CheckedIsEarned ==
  ASSUME fs \in Disk, Honest(fs, safe, app), Checked(fs),
         app = version, version # 0
  PROVE  version = 1 \/ Commits(safe["completed"], version)
  BY DEF Honest, Vouched, Held, Covered, Good, Lasting, Checked

LEMMA LoadIsChecked ==
  ASSUME fs \in Disk, ~LoadFails, ~Pending
  PROVE  Checked(fs)
<1>1. /\ fs["attempt"] \in {Absent, Torn} \cup Attempts
      /\ fs["completed"] \in {Absent, Torn} \cup Receipts
      /\ fs["stage"] \in {Absent, Torn} \cup Receipts
  BY DiskIs DEF Slot, Name
<1>2. fs["attempt"] = Absent
  BY <1>1 DEF LoadFails, Pending, Attempts
<1>3. fs["completed"] = Absent \/ IsPrepared(fs["completed"]) \/ IsCommitted(fs["completed"])
  BY <1>1 DEF LoadFails, Receipts, IsPrepared, IsCommitted
<1> QED
  BY <1>2, <1>3 DEF LoadFails, Pending, FromCompletion, Checked

\* The gate may close, or change between the two it has while serving.
LEMMA GateMoves ==
  ASSUME AdmissionInv, UNCHANGED <<journal, app, version, task>>,
         \/ gate' \in {gate, "recovery", "restarting"}
         \/ gate \in {"normal", "manual"} /\ gate' \in {"normal", "manual"}
  PROVE  AdmissionInv'
<1>1. JournalOK' /\ Progress(task', fs', safe', loose', app') /\ Honest(fs', safe', app')
  BY DEF AdmissionInv, JournalOK, journal
<1>2. Running(version', gate', app', safe')
  BY DEF AdmissionInv, Running, journal
<1>3. Ready(task', gate', fs')
  BY DEF AdmissionInv, Ready, journal
<1> QED
  BY <1>1, <1>2, <1>3 DEF AdmissionInv

\* The update thread gives up, or the shell goes, and the disk stays honest.
LEMMA GivesUp ==
  ASSUME fs' \in Disk, safe' \in Disk, app' \in Nat, version' \in Nat,
         Honest(fs', safe', app'),
         task' = Idle, gate' = "recovery" \/ (gate' = "checking" /\ version' = 0)
  PROVE  AdmissionInv'
<1>1. JournalOK' /\ Progress(task', fs', safe', loose', app')
  BY IdleIs DEF JournalOK, Progress, Jots
<1>2. Running(version', gate', app', safe') /\ Ready(task', gate', fs')
  BY IdleIs DEF Running, Ready
<1> QED
  BY <1>1, <1>2 DEF AdmissionInv

LEMMA AgesIs ==
  ASSUME AdmissionInv, NEW p \in Ageing, NEW q \in Ageing, Ages(p, q)
  PROVE  /\ fs' \in Disk /\ safe' \in Disk /\ loose' = loose
         /\ AllAlike(fs, fs') /\ AllAlike(safe, safe')
         /\ Honest(fs', safe', app)
<1>1. fs' = Age(fs, p, q) /\ safe' = Age(safe, p, q) /\ loose' = loose
  BY DEF Ages
<1>2. fs \in Disk /\ safe \in Disk /\ Honest(fs, safe, app)
  BY DEF AdmissionInv, JournalOK
<1>3. fs' \in Disk /\ safe' \in Disk /\ AllAlike(fs, fs') /\ AllAlike(safe, safe')
  BY <1>1, <1>2, AgeIs DEF AllAlike
<1> QED
  BY <1>1, <1>2, <1>3, AlikeIsHonest

\* Processes age around the shell and its journal operation.
LEMMA AgesAround ==
  ASSUME AdmissionInv, NEW p \in Ageing, NEW q \in Ageing, Ages(p, q),
         UNCHANGED <<app, version, task, gate>>
  PROVE  AdmissionInv'
<1>1. /\ fs' \in Disk /\ safe' \in Disk /\ loose' = loose
      /\ AllAlike(fs, fs') /\ AllAlike(safe, safe')
      /\ Honest(fs', safe', app')
  BY AgesIs
<1>2. JournalOK'
  BY <1>1 DEF AdmissionInv, JournalOK
<1>3. Progress(task', fs', safe', loose', app')
  BY <1>1, AlikeIsDone DEF AdmissionInv, Progress
<1>4. Alike(safe["completed"], safe'["completed"])
  BY <1>1 DEF AllAlike, Name
<1>5. Running(version', gate', app', safe')
  BY <1>4 DEF AdmissionInv, Running, Alike, Commits
<1>6. Ready(task', gate', fs')
  BY <1>1, SMTT(30) DEF AdmissionInv, Ready, Checked, AllAlike, Alike, Name
<1> QED
  BY <1>1, <1>2, <1>3, <1>5, <1>6 DEF AdmissionInv

LEMMA KnownIs ==
  /\ Known \in Ageing
  /\ \A x, y, z \in Person :
       /\ [Known EXCEPT !.self = x] \in Ageing
       /\ [Known EXCEPT !.last = x] \in Ageing
       /\ [Known EXCEPT !.orphan = x] \in Ageing
       /\ [Known EXCEPT !.self = x, !.last = y] \in Ageing
       /\ [Known EXCEPT !.self = x, !.orphan = y] \in Ageing
  /\ AllGone \in Ageing
<1>1. Known = [x \in Person |-> Known[x]] /\ \A x \in Person : Known[x] \in Person
  BY DEF Known, Person
<1>2. DOMAIN Known = Person
  BY <1>1
<1> QED
  BY <1>1, <1>2 DEF Ageing, AllGone, Person

LEMMA StopsHere ==
  ASSUME AdmissionInv, UNCHANGED <<journal, app, version>>, GoRecovery
  PROVE  AdmissionInv'
<1>1. /\ fs' \in Disk /\ safe' \in Disk /\ app' \in Nat /\ version' \in Nat
      /\ Honest(fs', safe', app')
  BY DEF AdmissionInv, JournalOK, journal
<1> QED
  BY <1>1, GivesUp DEF GoRecovery

LEMMA StartsNormally ==
  ASSUME AdmissionInv, UNCHANGED <<journal, app, version>>, NormalStart,
         gate = "checking", version # 0, Checked(fs)
  PROVE  AdmissionInv'
<1>1. /\ fs' \in Disk /\ safe' \in Disk /\ app' \in Nat /\ version' \in Nat
      /\ Honest(fs', safe', app') /\ task' = Idle
  BY DEF AdmissionInv, JournalOK, journal, NormalStart
<1>2. JournalOK' /\ Progress(task', fs', safe', loose', app')
  BY <1>1, IdleIs DEF JournalOK, Progress, Jots
<1>3. gate' \in {"normal", "checking"}
  BY DEF NormalStart
<1>4. app = version
  BY DEF AdmissionInv, Running
<1>5. version = 1 \/ Commits(safe["completed"], version)
  BY <1>4, CheckedIsEarned DEF AdmissionInv, JournalOK
<1>6. Running(version', gate', app', safe')
  BY <1>3, <1>4, <1>5 DEF Running, journal
<1>7. Ready(task', gate', fs')
  BY <1>1, <1>3, IdleIs DEF Ready
<1> QED
  BY <1>1, <1>2, <1>6, <1>7 DEF AdmissionInv

\* The update thread goes on to something that has no file operations yet.
LEMMA GoesOn ==
  ASSUME AdmissionInv, UNCHANGED <<journal, app>>, version' \in Nat,
         NEW x \in {"check", "load", "preflight", "idle"}, task' = Doing(x, <<>>),
         gate' # "awaiting", Running(version', gate', app, safe),
         x = "preflight" => Checked(fs)
  PROVE  AdmissionInv'
<1>1. task'.doing = x /\ task'.ops \in Seq(Operation)
  BY DoingIs, EmptySeq
<1>2. JournalOK' /\ Progress(task', fs', safe', loose', app')
  BY <1>1 DEF AdmissionInv, JournalOK, Progress, Jots, journal
<1>3. Running(version', gate', app', safe') /\ Ready(task', gate', fs')
  BY <1>1 DEF Running, Ready, journal
<1> QED
  BY <1>2, <1>3 DEF AdmissionInv, journal

LEMMA LaunchStep ==
  ASSUME HandoverInv, AdmissionInv, Launch PROVE AdmissionInv'
<1>1. /\ UNCHANGED <<journal, app>> /\ version' = app /\ gate' = "checking"
      /\ task' = Doing("check", <<>>)
  BY DEF Launch
<1>2. version' \in Nat /\ Running(version', gate', app, safe)
  BY <1>1 DEF AdmissionInv, JournalOK, Running
<1> QED
  BY <1>1, <1>2, GoesOn

LEMMA StartingIs ==
  ASSUME HandoverInv, AdmissionInv, NEW what \in {"check", "load", "preflight", "recover"},
         Starting(what)
  PROVE  /\ gate = "checking" /\ version # 0 /\ version \in Nat /\ app = version
         /\ task.doing = what /\ task.ops = <<>>
         /\ UNCHANGED <<app, version>>
<1>1. task.doing = what /\ task.ops = <<>> /\ version # 0 /\ UNCHANGED <<app, version>>
  BY DoingIs DEF Starting
<1>2. gate = "checking"
  BY <1>1 DEF HandoverInv, Thread, Checks
<1> QED
  BY <1>1, <1>2 DEF AdmissionInv, JournalOK, Running

LEMMA CheckIs == Check <=> Checked(fs)
  BY DEF Check, Checked

LEMMA CheckStartupStep ==
  ASSUME HandoverInv, AdmissionInv, CheckStartup PROVE AdmissionInv'
<1>1. /\ gate = "checking" /\ version # 0 /\ version \in Nat /\ app = version
      /\ UNCHANGED <<app, version, journal>>
  BY StartingIs DEF CheckStartup
<1>2. \/ Check /\ NormalStart
      \/ task' = Doing("load", <<>>) /\ UNCHANGED gate
      \/ GoRecovery
  BY DEF CheckStartup
<1>3. CASE Check /\ NormalStart
  BY <1>1, <1>3, CheckIs, StartsNormally
<1>4. CASE task' = Doing("load", <<>>) /\ UNCHANGED gate
  BY <1>1, <1>4, GoesOn DEF AdmissionInv, Running
<1>5. CASE GoRecovery
  BY <1>1, <1>5, StopsHere
<1> QED
  BY <1>2, <1>3, <1>4, <1>5

LEMMA LoadJournalStep ==
  ASSUME HandoverInv, AdmissionInv, LoadJournal PROVE AdmissionInv'
<1>1. /\ gate = "checking" /\ version # 0 /\ version \in Nat /\ app = version
      /\ UNCHANGED <<app, version, journal>>
  BY StartingIs DEF LoadJournal
<1>2. fs \in Disk /\ safe \in Disk /\ app \in Nat /\ Honest(fs, safe, app)
  BY DEF AdmissionInv, JournalOK
<1>3. \/ ~LoadFails /\ ~Pending /\ (NormalStart \/ (task' = Doing("preflight", <<>>) /\ UNCHANGED gate))
      \/ /\ FromCompletion /\ task' = Doing("recover", Recover(fs["completed"]))
         /\ UNCHANGED gate
      \/ ~FromCompletion /\ Pending /\ gate' = "awaiting" /\ task' = Idle
      \/ GoRecovery
  BY DEF LoadJournal
<1>4. CASE ~LoadFails /\ ~Pending /\ NormalStart
  BY <1>1, <1>2, <1>4, LoadIsChecked, StartsNormally
<1>5. CASE ~LoadFails /\ ~Pending /\ task' = Doing("preflight", <<>>) /\ UNCHANGED gate
  <2>1. Checked(fs)
    BY <1>2, <1>5, LoadIsChecked
  <2> QED
    BY <1>1, <1>5, <2>1, GoesOn DEF AdmissionInv, Running
<1>6. CASE /\ FromCompletion /\ task' = Doing("recover", Recover(fs["completed"]))
           /\ UNCHANGED gate
  <2>1. PICK r \in Receipts : r = fs["completed"]
    BY <1>2, <1>6, DiskIs
       DEF FromCompletion, IsPrepared, IsCommitted, Slot, Name, Absent, Torn
  <2>2. /\ task'.doing = "recover" /\ task'.ops = Recover(r)
        /\ task'.ops \in Seq(Operation) /\ Len(task'.ops) = 4
        /\ task'.ops[1].op = "create" /\ JotLeft(task'.ops)
    BY <1>6, <2>1, DoingIs, RecoverIs
  <2>3. JotDone(task'.ops, fs, safe)
    <3>1. \A k : k = 4 => ~(k <= 3) /\ ~(k <= 2) /\ ~(k = 0)
      OBVIOUS
    <3> QED
      BY ONLY <2>2, <3>1 DEF JotDone
  <2>4. JournalOK' /\ Progress(task', fs', safe', loose', app')
    BY <1>1, <1>2, <2>2, <2>3 DEF JournalOK, Progress, journal
  <2>5. Running(version', gate', app', safe') /\ Ready(task', gate', fs')
    BY <1>1, <1>6, <2>2 DEF Running, Ready, journal
  <2> QED
    BY <1>1, <1>2, <2>4, <2>5 DEF AdmissionInv, journal
<1>7. CASE ~FromCompletion /\ Pending /\ gate' = "awaiting" /\ task' = Idle
  <2>1. fs["attempt"] \in Attempts
    BY <1>2, <1>7, DiskIs DEF Pending, Slot, Name, Absent, Torn, Receipts
  <2>2. JournalOK' /\ Progress(task', fs', safe', loose', app')
    BY <1>1, <1>2, <1>7, IdleIs DEF JournalOK, Progress, Jots, journal
  <2>3. Running(version', gate', app', safe') /\ Ready(task', gate', fs')
    BY <1>1, <1>7, <2>1, IdleIs DEF Running, Ready, journal
  <2> QED
    BY <1>1, <1>2, <2>2, <2>3 DEF AdmissionInv, journal
<1>8. CASE GoRecovery
  BY <1>1, <1>8, StopsHere
<1> QED
  BY <1>3, <1>4, <1>5, <1>6, <1>7, <1>8

LEMMA RecoveredStep ==
  ASSUME HandoverInv, AdmissionInv, Recovered PROVE AdmissionInv'
<1>1. /\ gate = "checking" /\ version # 0 /\ version \in Nat /\ app = version
      /\ task.doing = "recover" /\ task.ops = <<>>
      /\ UNCHANGED <<app, version, journal>> /\ gate' = "awaiting" /\ task' = Idle
  BY StartingIs DEF Recovered
<1>2. fs \in Disk /\ safe \in Disk /\ app \in Nat /\ Honest(fs, safe, app)
  BY DEF AdmissionInv, JournalOK
<1>3. fs["attempt"] \in Attempts
  BY <1>1, EmptySeq DEF AdmissionInv, Progress, Jots, JotDone
<1>4. JournalOK' /\ Progress(task', fs', safe', loose', app')
  BY <1>1, <1>2, IdleIs DEF JournalOK, Progress, Jots, journal
<1>5. Running(version', gate', app', safe') /\ Ready(task', gate', fs')
  BY <1>1, <1>3, IdleIs DEF Running, Ready, journal
<1> QED
  BY <1>1, <1>2, <1>4, <1>5 DEF AdmissionInv, journal

LEMMA PreflightStep ==
  ASSUME HandoverInv, AdmissionInv, Preflight PROVE AdmissionInv'
<1>1. /\ gate = "checking" /\ version # 0 /\ version \in Nat /\ app = version
      /\ task.doing = "preflight"
      /\ UNCHANGED <<app, version, journal>>
  BY StartingIs DEF Preflight
<1>2. fs \in Disk /\ safe \in Disk /\ app \in Nat /\ Honest(fs, safe, app) /\ Checked(fs)
  BY <1>1 DEF AdmissionInv, JournalOK, Ready
<1>3. \/ gate' = "installing" /\ task' = Doing("begin", Begin(version + 1))
      \/ task' = Idle /\ UNCHANGED gate
      \/ NormalStart
      \/ GoRecovery
  BY DEF Preflight
<1>4. CASE gate' = "installing" /\ task' = Doing("begin", Begin(version + 1))
  <2>1. PICK t \in Nat : t = version + 1
    BY <1>1
  <2>2. /\ task'.doing = "begin" /\ task'.ops = Begin(t)
        /\ task'.ops \in Seq(Operation) /\ Len(task'.ops) = 4
        /\ task'.ops[1].op = "create" /\ JotLeft(task'.ops)
    BY <1>4, <2>1, DoingIs, BeginIs
  <2>3. JotDone(task'.ops, fs, safe)
    <3>1. \A k : k = 4 => ~(k <= 3) /\ ~(k <= 2) /\ ~(k = 0)
      OBVIOUS
    <3> QED
      BY ONLY <2>2, <3>1 DEF JotDone
  <2>4. JournalOK' /\ Progress(task', fs', safe', loose', app')
    BY <1>1, <1>2, <2>2, <2>3 DEF JournalOK, Progress, journal
  <2>5. Running(version', gate', app', safe') /\ Ready(task', gate', fs')
    BY <1>1, <1>4, <2>2 DEF Running, Ready, journal
  <2> QED
    BY <1>1, <1>2, <2>4, <2>5 DEF AdmissionInv, journal
<1>5. CASE task' = Idle /\ UNCHANGED gate
  BY <1>1, <1>5, GoesOn DEF AdmissionInv, Running, Idle
<1>6. CASE NormalStart
  BY <1>1, <1>2, <1>6, StartsNormally
<1>7. CASE GoRecovery
  BY <1>1, <1>7, StopsHere
<1> QED
  BY <1>3, <1>4, <1>5, <1>6, <1>7

\* The installer finds the blocker written and certain to survive.
LEMMA ReplacingIs ==
  ASSUME AdmissionInv, Replacing
  PROVE  task.doing = "begin" /\ Held(fs, safe) /\ fs["attempt"] \in Attempts
<1>1. task.doing = "begin" /\ task.ops = <<>>
  BY DoingIs DEF Replacing
<1>2. JotDone(<<>>, fs, safe) /\ Len(<<>>) = 0
  BY <1>1, EmptySeq DEF AdmissionInv, Progress, Jots
<1>3. fs["attempt"] # Absent /\ safe["attempt"] # Absent /\ fs["attempt"] \in Attempts
  BY <1>2 DEF JotDone
<1> QED
  BY <1>1, <1>3 DEF Held

LEMMA InstallerReturnsStep ==
  ASSUME HandoverInv, AdmissionInv, InstallerReturns PROVE AdmissionInv'
<1>1. /\ task.doing = "begin" /\ Held(fs, safe) /\ fs["attempt"] \in Attempts
  BY ReplacingIs DEF InstallerReturns
<1>2. fs \in Disk /\ safe \in Disk /\ version \in Nat /\ UNCHANGED <<journal, version>>
  BY DEF AdmissionInv, JournalOK, InstallerReturns
<1>3. Honest(fs, safe, app')
  BY <1>1, HeldIsHonest
<1>4. gate = "installing"
  BY <1>1 DEF HandoverInv, Thread
<1>5. \/ app' = version + 1 /\ UNCHANGED gate /\ task' = Doing("installed", Installed(fs["attempt"]))
      \/ app' \in {0, version, version + 1} /\ GoRecovery
  BY DEF InstallerReturns
<1>6. app' \in Nat
  BY <1>2, <1>5
<1>7. CASE UNCHANGED gate /\ task' = Doing("installed", Installed(fs["attempt"]))
  <2>1. PICK a \in Attempts : a = fs["attempt"]
    BY <1>1
  <2>2. /\ task'.doing = "installed" /\ task'.ops = Installed(a)
        /\ task'.ops \in Seq(Operation) /\ Len(task'.ops) = 4
        /\ JotLeft(task'.ops)
    BY <1>7, <2>1, DoingIs, InstalledIs
  <2>3. JotDone(task'.ops, fs, safe)
    <3>1. \A k : k = 4 => ~(k <= 3) /\ ~(k <= 2) /\ ~(k = 0)
      OBVIOUS
    <3> QED
      BY ONLY <1>1, <2>2, <3>1 DEF JotDone, Held
  <2>4. JournalOK' /\ Progress(task', fs', safe', loose', app')
    BY <1>2, <1>6, <2>2, <2>3 DEF JournalOK, Progress, journal
  <2>5. Running(version', gate', app', safe') /\ Ready(task', gate', fs')
    BY <1>4, <1>7, <2>2 DEF Running, Ready
  <2> QED
    BY <1>2, <1>3, <2>4, <2>5 DEF AdmissionInv, journal
<1>8. CASE GoRecovery
  BY <1>2, <1>3, <1>6, <1>8, GivesUp DEF GoRecovery, journal
<1> QED
  BY <1>5, <1>7, <1>8

LEMMA InstallRecordedStep ==
  ASSUME HandoverInv, AdmissionInv, InstallRecorded PROVE AdmissionInv'
<1>1. /\ UNCHANGED <<journal, app, version>> /\ gate' = "restarting"
      /\ task' = Doing("idle", <<>>)
  BY DEF InstallRecorded, Starting, Idle
<1>2. version' \in Nat /\ Running(version', gate', app, safe)
  BY <1>1 DEF AdmissionInv, JournalOK, Running
<1> QED
  BY <1>1, <1>2, GoesOn

\* One file operation: the heart of the argument is JotStep and FinishStep.
LEMMA ExecuteStep ==
  ASSUME HandoverInv, AdmissionInv, Execute PROVE AdmissionInv'
<1>1. UNCHANGED <<app, version>> /\ task.ops # <<>>
  BY DEF Execute
<1>2. /\ fs \in Disk /\ safe \in Disk /\ app \in Nat /\ version \in Nat
      /\ task.ops \in Seq(Operation) /\ Honest(fs, safe, app)
  BY DEF AdmissionInv, JournalOK
<1>3. \/ GoRecovery /\ UNCHANGED journal
      \/ /\ ~Refused(Head(task.ops)) /\ Perform(Head(task.ops))
         /\ task' = [task EXCEPT !.ops = Tail(@)] /\ UNCHANGED gate
  BY DEF Execute, Stopped
<1>4. CASE GoRecovery /\ UNCHANGED journal
  BY <1>1, <1>4, StopsHere
<1>5. CASE /\ ~Refused(Head(task.ops)) /\ Perform(Head(task.ops))
           /\ task' = [task EXCEPT !.ops = Tail(@)] /\ UNCHANGED gate
  <2>1. task'.doing = task.doing /\ task'.ops = Tail(task.ops)
    <3>1. task = [doing |-> task.doing, ops |-> task.ops]
      BY DEF HandoverInv, Thread, Doing
    <3> QED
      BY ONLY <1>5, <3>1
  <2>2. task.doing \in Jots \cup {"finish"}
    BY <1>1 DEF HandoverInv, Thread, Doings, Jots
  <2>3. task'.ops \in Seq(Operation)
    BY <1>1, <1>2, <2>1, NextOp
  <2>4. /\ fs' \in Disk /\ safe' \in Disk /\ Honest(fs', safe', app)
        /\ Progress(task', fs', safe', loose', app)
    <3>1. CASE task.doing \in Jots
      <4>1. JotDone(task.ops, fs, safe)
        BY <3>1 DEF AdmissionInv, Progress
      <4>2. /\ fs' \in Disk /\ safe' \in Disk /\ Honest(fs', safe', app)
            /\ JotDone(Tail(task.ops), fs', safe')
        BY <1>1, <1>2, <1>5, <4>1, JotStep
      <4> QED
        BY <2>1, <3>1, <4>2 DEF Progress, Jots
    <3>2. CASE task.doing = "finish"
      <4>1. FinishDone(task.ops, fs, safe, loose, app)
        BY <3>2 DEF AdmissionInv, Progress
      <4>2. /\ fs' \in Disk /\ safe' \in Disk /\ Honest(fs', safe', app)
            /\ FinishDone(Tail(task.ops), fs', safe', loose', app)
        BY <1>1, <1>2, <1>5, <4>1, FinishStep
      <4> QED
        BY <2>1, <3>2, <4>2 DEF Progress, Jots
    <3> QED
      BY <2>2, <3>1, <3>2
  <2>5. gate \in {"checking", "installing", "awaiting"}
    BY <2>2 DEF HandoverInv, Thread, Checks, Jots
  <2>6. JournalOK'
    BY <1>1, <1>2, <2>3, <2>4 DEF JournalOK
  <2>7. Running(version', gate', app', safe')
    BY <1>1, <1>5, <2>5 DEF AdmissionInv, Running
  <2>8. Ready(task', gate', fs')
    BY <2>1, <2>2 DEF Ready, Jots
  <2> QED
    BY <1>1, <2>4, <2>6, <2>7, <2>8 DEF AdmissionInv
<1> QED
  BY <1>3, <1>4, <1>5

LEMMA HealthyStep ==
  ASSUME HandoverInv, AdmissionInv, Healthy PROVE AdmissionInv'
<1>1. UNCHANGED <<journal, app, version, gate>> /\ task = Idle
  BY DEF Healthy, ServerOnly
<1>2. CASE UNCHANGED task
  BY <1>1, <1>2, GateMoves
<1>3. CASE /\ gate = "awaiting" /\ app = fs["attempt"].target
           /\ task' = Doing("finish", Finish(fs["attempt"]))
  <2>1. PICK a \in Attempts : a = fs["attempt"]
    BY <1>1, <1>3, IdleIs DEF AdmissionInv, Ready
  <2>2. /\ task'.doing = "finish" /\ task'.ops = Finish(a)
        /\ task'.ops \in Seq(Operation) /\ Len(task'.ops) = 16
        /\ FinishLeft(task'.ops, app)
    BY <1>3, <2>1, DoingIs, FinishIs
  <2>3. FinishDone(task'.ops, fs, safe, loose, app)
    <3>1. \A k : k = 16 => /\ k \notin 4..13 /\ k \notin 4..11 /\ k \notin 4..6 /\ k \notin 4..5
                           /\ ~(k <= 12) /\ ~(k = 3) /\ ~(k <= 3) /\ ~(k <= 2)
      OBVIOUS
    <3> QED
      BY ONLY <2>2, <3>1, Zenon DEF FinishDone
  <2>4. JournalOK' /\ Progress(task', fs', safe', loose', app')
    BY <1>1, <2>2, <2>3 DEF AdmissionInv, JournalOK, Progress, Jots, journal
  <2>5. Running(version', gate', app', safe') /\ Ready(task', gate', fs')
    BY <1>1, <2>2 DEF AdmissionInv, Running, Ready, journal
  <2> QED
    BY <1>1, <2>4, <2>5 DEF AdmissionInv, journal
<1> QED
  BY <1>2, <1>3 DEF Healthy

LEMMA FinishedStep ==
  ASSUME HandoverInv, AdmissionInv, Finished PROVE AdmissionInv'
<1>1. /\ UNCHANGED <<journal, app, version>> /\ version # 0
      /\ gate' = "normal" /\ task' = Doing("idle", <<>>)
  BY DEF Finished, ServerOnly, Idle
<1>2. task.doing = "finish" /\ task.ops = <<>>
  BY DoingIs DEF Finished
<1>3. gate = "awaiting"
  BY <1>2 DEF HandoverInv, Thread
<1>4. app = version
  BY <1>1, <1>3 DEF AdmissionInv, Running
<1>5. Commits(safe["completed"], app)
  BY <1>2, EmptySeq DEF AdmissionInv, Progress, FinishDone
<1>6. version' \in Nat /\ Running(version', gate', app, safe)
  BY <1>1, <1>4, <1>5 DEF AdmissionInv, JournalOK, Running
<1> QED
  BY <1>1, <1>6, GoesOn

LEMMA ServerGoneStep ==
  ASSUME HandoverInv, AdmissionInv, ServerGone PROVE AdmissionInv'
<1>1. PICK q \in Ageing : Ages(Known, q)
  BY KnownIs DEF ServerGone, Person
<1>2. UNCHANGED <<app, version>> /\ (GoRecovery \/ UNCHANGED <<gate, task>>)
  BY DEF ServerGone, ServerOnly
<1>3. CASE UNCHANGED <<gate, task>>
  BY <1>1, <1>2, <1>3, KnownIs, AgesAround
<1>4. CASE GoRecovery
  <2>1. fs' \in Disk /\ safe' \in Disk /\ Honest(fs', safe', app')
    BY <1>1, <1>2, KnownIs, AgesIs
  <2> QED
    BY <1>2, <1>4, <2>1, GivesUp DEF GoRecovery, AdmissionInv, JournalOK
<1> QED
  BY <1>2, <1>3, <1>4

LEMMA ShellGoneStep ==
  ASSUME HandoverInv, AdmissionInv, NEW orphaned \in BOOLEAN, ShellGone(orphaned)
  PROVE  /\ fs' \in Disk /\ safe' \in Disk /\ Honest(fs', safe', app)
         /\ Held(fs, safe) => Held(fs', safe')
         /\ version' = 0 /\ gate' = "checking" /\ task' = Idle
<1>1. PICK x \in {"last", "gone"}, y \in {"orphan", "gone"} :
        Ages([Known EXCEPT !.self = x, !.last = "gone"],
             [Known EXCEPT !.self = y, !.orphan = y])
  BY DEF ShellGone
<1>2. x \in Person /\ y \in Person /\ "gone" \in Person
  BY DEF Person
<1>3. PICK p \in Ageing, q \in Ageing : Ages(p, q)
  BY <1>1, <1>2, KnownIs
<1>4. /\ fs' \in Disk /\ safe' \in Disk /\ Honest(fs', safe', app)
      /\ AllAlike(fs, fs') /\ AllAlike(safe, safe')
  BY <1>3, AgesIs
<1>5. Held(fs, safe) => Held(fs', safe')
  BY <1>4 DEF Held, AllAlike, Alike, Name
<1> QED
  BY <1>4, <1>5 DEF ShellGone

LEMMA ShellExits ==
  ASSUME HandoverInv, AdmissionInv, NEW orphaned \in BOOLEAN, ShellGone(orphaned),
         UNCHANGED app
  PROVE  AdmissionInv'
  BY ShellGoneStep, GivesUp DEF AdmissionInv, JournalOK

LEMMA ShellDiesStep ==
  ASSUME HandoverInv, AdmissionInv, ShellDies PROVE AdmissionInv'
<1>1. PICK orphaned \in BOOLEAN : ShellGone(orphaned)
  BY DEF ShellDies
<1>2. /\ fs' \in Disk /\ safe' \in Disk /\ Honest(fs', safe', app)
      /\ Held(fs, safe) => Held(fs', safe')
      /\ version' = 0 /\ gate' = "checking" /\ task' = Idle
  BY <1>1, ShellGoneStep
<1>3. app \in Nat /\ version \in Nat
  BY DEF AdmissionInv, JournalOK
<1>4. app' \in Nat /\ Honest(fs', safe', app')
  <2>1. CASE Replacing
    <3>1. Held(fs', safe')
      BY <1>2, <2>1, ReplacingIs
    <3>2. app' \in {0, version, version + 1}
      BY <2>1 DEF ShellDies
    <3> QED
      BY <1>3, <3>1, <3>2, HeldIsHonest
  <2>2. CASE ~Replacing
    <3>1. app' = app
      BY <2>2 DEF ShellDies
    <3> QED
      BY <1>2, <1>3, <3>1
  <2> QED
    BY <2>1, <2>2
<1> QED
  BY <1>2, <1>4, GivesUp

\* Whatever the disk kept of the last changes.
LEMMA MachineStopsStep ==
  ASSUME HandoverInv, AdmissionInv, MachineStops PROVE AdmissionInv'
<1>1. /\ fs \in Disk /\ safe \in Disk /\ app \in Nat /\ version \in Nat
      /\ Honest(fs, safe, app)
  BY DEF AdmissionInv, JournalOK
<1>2. PICK kept \in SUBSET pending :
        \E a \in Survivors("attempt", kept), c \in Survivors("completed", kept),
           s \in Survivors("stage", kept) :
          fs' = Age([attempt |-> a, completed |-> c, stage |-> s], AllGone, AllGone)
  BY DEF MachineStops
<1>3. PICK a \in Survivors("attempt", kept), c \in Survivors("completed", kept),
           s \in Survivors("stage", kept) :
        fs' = Age([attempt |-> a, completed |-> c, stage |-> s], AllGone, AllGone)
  BY <1>2
<1>4. PICK d : d = [attempt |-> a, completed |-> c, stage |-> s]
  OBVIOUS
<1>5. /\ a \in {fs["attempt"], safe["attempt"], Torn}
      /\ c \in {fs["completed"], safe["completed"], Torn}
      /\ s \in {fs["stage"], safe["stage"], Torn}
  BY SurvivorIs DEF Name
<1>6. /\ d = [n \in Name |-> d[n]]
      /\ \A n \in Name : d[n] \in {fs[n], safe[n], Torn}
  BY ONLY <1>4, <1>5 DEF Name
<1>7. d \in Disk
  BY <1>1, <1>6, DiskIs, SlotIs
<1>8. /\ Honest(d, d, app) /\ Honest(d, d, 0)
      /\ Held(fs, safe) => Held(d, d)
  BY <1>1, <1>6, StopIsHonest
<1>9. fs' \in Disk /\ AllAlike(d, fs')
  BY <1>3, <1>4, <1>7, AgeIs, KnownIs DEF AllAlike
<1>10. /\ safe' = fs' /\ version' = 0 /\ gate' = "checking" /\ task' = Idle
  BY DEF MachineStops
<1>11. /\ Honest(fs', safe', app) /\ Honest(fs', safe', 0)
       /\ Held(fs, safe) => Held(fs', safe')
  <2>1. Honest(fs', fs', app) /\ Honest(fs', fs', 0)
    BY <1>8, <1>9, AlikeIsHonest
  <2>2. Held(d, d) => Held(fs', fs')
    BY <1>9 DEF Held, AllAlike, Alike, Name
  <2> QED
    BY <1>8, <1>10, <2>1, <2>2
<1>12. app' \in Nat /\ Honest(fs', safe', app')
  <2>1. CASE Replacing
    <3>1. Held(fs', safe')
      BY <1>11, <2>1, ReplacingIs
    <3>2. app' \in {0, version, version + 1}
      BY <2>1 DEF MachineStops
    <3> QED
      BY <1>1, <3>1, <3>2, HeldIsHonest
  <2>2. CASE ~Replacing
    <3>1. app' \in {0, app}
      BY <2>2 DEF MachineStops
    <3> QED
      BY <1>1, <1>11, <3>1
  <2> QED
    BY <2>1, <2>2
<1> QED
  BY <1>9, <1>10, <1>12, GivesUp

LEMMA AdmissionStep == HandoverInv /\ AdmissionInv /\ [Next]_vars => AdmissionInv'
<1> SUFFICES ASSUME HandoverInv, AdmissionInv, [Next]_vars PROVE AdmissionInv'
    OBVIOUS
<1>1. CASE UNCHANGED vars
  BY <1>1, GateMoves DEF vars, launchVars, shellVars
<1>2. CASE Startup
  <2>1. CASE Execute
    BY <2>1, ExecuteStep
  <2>2. CASE PortTaken
    BY <2>2, StopsHere DEF PortTaken, ServerOnly
  <2> QED
    BY <1>2, <2>1, <2>2, LaunchStep, CheckStartupStep, LoadJournalStep, RecoveredStep,
       PreflightStep, InstallerReturnsStep, InstallRecordedStep, HealthyStep, FinishedStep
       DEF Startup
<1>3. CASE Serve
  BY <1>3, GateMoves DEF Serve, ServerOnly
<1>4. CASE ServerStops \/ ServerDies
  BY <1>4, ServerGoneStep DEF ServerStops, ServerDies
<1>5. CASE QuitCompletes \/ RestartExits
  BY <1>5, ShellExits DEF QuitCompletes, RestartExits
<1>6. CASE Reaped
  <2>1. PICK p \in Ageing : Ages(p, Known)
    BY <1>6, KnownIs DEF Reaped, Person
  <2> QED
    BY <1>6, <2>1, KnownIs, AgesAround DEF Reaped, shellVars
<1>7. CASE OrphanExits
  <2>1. PICK q \in Ageing : Ages(Known, q)
    BY <1>7, KnownIs DEF OrphanExits, Person
  <2> QED
    BY <1>7, <2>1, KnownIs, AgesAround DEF OrphanExits, shellVars
<1>8. CASE Begins \/ Prepared \/ DraftEnds \/ RequestCancel
  BY <1>8, GateMoves DEF Begins, Prepared, DraftEnds, RequestCancel, Quiet, Rest
<1>9. CASE Owner
  <2>1. UNCHANGED <<journal, app, version, task>>
    BY <1>9 DEF Owner, Fence, Show, Prepare, Elect, Commit, Abort, Stop, SaveIntent,
       Quiet, Rest
  <2>2. CASE Fence \/ Prepare \/ Elect
    BY <2>1, <2>2, GateMoves DEF Fence, Prepare, Elect, Quiet
  <2>3. CASE Show
    BY <2>1, <2>3, GateMoves DEF Show
  <2>4. CASE Commit
    BY <2>1, <2>4, GateMoves DEF Commit
  <2>5. CASE Abort
    BY <2>1, <2>5, GateMoves DEF Abort
  <2>6. CASE Stop \/ SaveIntent
    BY <2>1, <2>6, GateMoves DEF Stop, SaveIntent, Uncertain
  <2> QED
    BY <1>9, <2>2, <2>3, <2>4, <2>5, <2>6 DEF Owner
<1>10. CASE BackendReleases
  BY <1>10, GateMoves DEF BackendReleases, launchVars, shellVars
<1>11. CASE Quit
  BY <1>11, GateMoves DEF Quit
<1>12. CASE OperationFails
  BY <1>12, StopsHere DEF OperationFails
<1>13. CASE RestartDeferred
  BY <1>13, StopsHere DEF RestartDeferred
<1>14. CASE ShellDies
  BY <1>14, ShellDiesStep
<1>15. CASE MachineStops
  BY <1>15, MachineStopsStep
<1> QED
  BY <1>1, <1>2, <1>3, <1>4, <1>5, <1>6, <1>7, <1>8, <1>9, <1>10, <1>11, <1>12,
     <1>13, <1>14, <1>15
  DEF Next, Continuations, Faults

\* How the journal stays honest, in every behaviour.
THEOREM AdmissionInvHolds == Spec => []AdmissionInv
<1>1. Init => HandoverInv /\ AdmissionInv
  BY HandoverInit, AdmissionInit
<1>2. HandoverInv /\ AdmissionInv /\ [Next]_vars => HandoverInv' /\ AdmissionInv'
  BY HandoverStep, AdmissionStep
<1> QED
  BY <1>1, <1>2, PTL DEF Spec

\* A start without a proof is earned, whatever file operation the shell or
\* the machine stopped at: check never mistakes an installation that no
\* healthy server has proven for an ordinary one.
THEOREM AdmissionAlwaysEarned == Spec => []AdmissionIsEarned
  BY AdmissionInvHolds, AdmissionImplies, PTL
=============================================================================
