------------------------- MODULE NativeClientProofs -------------------------
(***************************************************************************)
(* A native client is honest about its requests, its processes and its     *)
(* idleness, for any number of callers and of failures.                    *)
(*                                                                         *)
(* What a caller was told follows from where its request's frame is, and   *)
(* no two places keep the same record: the client has its pending map and  *)
(* its retired children, the processes their inboxes and their answers.    *)
(* The invariant ties them together: what a process of the current child   *)
(* holds is pending, what is pending was written once, what was not        *)
(* written is nowhere, and a process that may still work is known.         *)
(***************************************************************************)
EXTENDS NativeClientProperties, TLAPS

Ids == Requests \cup Observers \cup {Probe}

Unwritten == {"new", "starting", "restart", "chained", "again", "go"}
CallStates == Unwritten \cup {"pending", "late", "answered", "rejected"}

ClientType ==
  [command : {"git", "jobs"}, closed : BOOLEAN, ready : BOOLEAN, starting : BOOLEAN,
   auto : BOOLEAN, timer : BOOLEAN, child : Generations \cup {None},
   generation : Generations \cup {0}, pending : SUBSET Ids, retiring : SUBSET Generations,
   uncertain : BOOLEAN, attached : BOOLEAN, sealed : BOOLEAN]

ProcessType ==
  [state : {"none", "up", "dying", "ended", "closed"}, inbox : SUBSET Ids,
   answers : SUBSET Ids, hello : BOOLEAN]

CallType == [Requests \cup Observers -> CallStates]
ProcessTable == [Generations -> ProcessType]

(* A client has a child exactly while it starts one or is ready, and none   *)
(* once it is closed or while a restart is due.                             *)
ChildKnown(c) ==
  /\ c.child # None <=> (c.starting \/ c.ready)
  /\ c.child = None => c.pending = {}
  /\ c.child # None => ~c.closed
  /\ c.timer /\ ~c.closed => c.child = None
  /\ ~c.attached => c.closed

(* One failure is behind every process but the present one. *)
Spent(c, p, n) ==
  \/ c.closed /\ c.generation <= n + 1
  \/ c.child # None /\ p[c.child].state = "up" /\ c.generation <= n + 1
  \/ c.generation <= n

NotBegun(c, p) == \A g \in Generations : g > c.generation => p[g] = NoProcess

(* The pending map has who waits for an answer. *)
PendingWaits(c, k) ==
  /\ \A r \in Requests : k[r] # "late" /\ (k[r] = "pending" <=> r \in c.pending)
  /\ \A o \in Observers : /\ k[o] \in {"new", "pending", "late", "answered", "rejected"}
                          /\ k[o] \in {"pending", "late"} <=> o \in c.pending

(* A frame that was not written is nowhere and had no effect. *)
WrittenOnly(k, p, e) ==
  /\ \A x \in Requests \cup Observers : k[x] \in Unwritten =>
       \A g \in Generations : x \notin p[g].inbox /\ x \notin p[g].answers
  /\ \A r \in Requests : k[r] \in Unwritten => e[r] = 0

(* A frame is in one place, and before its effect or after it. *)
OnePlace(p, e) ==
  /\ \A g \in Generations : p[g].inbox \cap p[g].answers = {}
  /\ \A r \in Requests :
       /\ e[r] <= 1
       /\ \A g \in Generations :
            /\ r \in p[g].inbox => e[r] = 0 /\ \A h \in Generations : r \in p[h].inbox => h = g
            /\ r \in p[g].answers => e[r] = 1

(* What the child holds is pending. *)
HoldsPending(c, p) ==
  c.child # None => (p[c.child].inbox \cup p[c.child].answers) \subseteq c.pending

(* What a caller was told is what happened, or is marked as unknown. *)
Told(c, k, p, e) ==
  \A r \in Requests :
    /\ k[r] = "answered" => e[r] = 1
    /\ k[r] = "rejected" /\ c.command = "git"
         /\ (e[r] = 1 \/ \E g \in Generations : r \in p[g].inbox)
         => c.uncertain

(* A process that may still work is known to a client that is asked. *)
Works(p, g) == p[g].state \in {"up", "dying"}

Known(c, p) ==
  \A g \in Generations : Works(p, g) => (g = c.child \/ g \in c.retiring) /\ c.attached

(* A client that left the group has nobody waiting. *)
LeftAlone(c, k) == ~c.attached => \A r \in Requests : k[r] \notin Waiting

QuietWhile(rep, k, p) ==
  rep =>
    /\ \A r \in Requests : k[r] \notin Waiting
    /\ \A g \in Generations : Works(p, g) => p[g].inbox \cap Requests = {}

Frames(c, k, p, e) ==
  /\ PendingWaits(c, k) /\ WrittenOnly(k, p, e) /\ OnePlace(p, e)
  /\ HoldsPending(c, p) /\ Told(c, k, p, e)

Processes(c, k, p, n) ==
  /\ ChildKnown(c) /\ Spent(c, p, n) /\ NotBegun(c, p) /\ Known(c, p) /\ LeftAlone(c, k)

Sound(c, k, p, e, n) ==
  /\ c \in ClientType /\ k \in CallType /\ p \in ProcessTable
  /\ e \in [Requests -> Nat] /\ n \in 0..MaxFaults
  /\ Frames(c, k, p, e) /\ Processes(c, k, p, n)

(* What an event changes, as functions of the state. *)
WithPending(c, y) == [c EXCEPT !.pending = @ \cup {y}]
WithoutPending(c, y) == [c EXCEPT !.pending = @ \ {y}]
Pended(k, y) == [k EXCEPT ![y] = "pending"]
SettledCall(k, y) == [k EXCEPT ![y] = IF @ = "late" THEN "rejected" ELSE "answered"]
Sends(p, g, y) ==
  [p EXCEPT ![g].inbox = IF p[g].state = "up" THEN @ \cup {y} ELSE @]
Reads(p, g, y) == [p EXCEPT ![g].answers = @ \ {y}]
Runs(p, g, y) == [p EXCEPT ![g].inbox = @ \ {y}, ![g].answers = @ \cup {y}]
Exits(p, g) == [p EXCEPT ![g].state = "ended", ![g].inbox = {}]
Closes(p, g) == [p EXCEPT ![g].state = "closed"]
ChildOver(c) == [Failed(c) EXCEPT !.retiring = c.retiring]
Forgets(c, g) == [c EXCEPT !.retiring = @ \ {g}]

ClientInv ==
  /\ Sound(client, call, process, executed, faults)
  /\ report \in BOOLEAN /\ QuietWhile(report, call, process)
-----------------------------------------------------------------------------
LEMMA NoneIsNoGeneration == None \notin Generations
BY FaultsAssumption DEF None, Generations

(* What the client's methods change of its fields. *)
LEMMA GivenUpFields ==
  ASSUME NEW c \in ClientType, NEW d, d = GivenUp(c)
  PROVE  /\ d \in ClientType
         /\ d.command = c.command /\ d.closed = c.closed /\ d.attached = c.attached
         /\ d.generation = c.generation /\ d.timer = c.timer
         /\ d.uncertain = (c.uncertain \/ (c.command = "git" /\ c.pending # {}))
         /\ d.retiring = (c.retiring \cup {c.child}) \ {None}
         /\ d.ready = FALSE /\ d.starting = FALSE /\ d.pending = {} /\ d.child = None
BY DEF GivenUp, ClientType, None

LEMMA FailedFields ==
  ASSUME NEW c \in ClientType, NEW d, d = Failed(c)
  PROVE  /\ d \in ClientType
         /\ d.command = c.command /\ d.closed = c.closed /\ d.attached = c.attached
         /\ d.generation = c.generation /\ d.timer = TRUE
         /\ d.uncertain = (c.uncertain \/ (c.command = "git" /\ c.pending # {}))
         /\ d.retiring = (c.retiring \cup {c.child}) \ {None}
         /\ d.ready = FALSE /\ d.starting = FALSE /\ d.pending = {} /\ d.child = None
<1>1. PICK b : b = GivenUp(c)
  OBVIOUS
<1>2. d = [b EXCEPT !.timer = TRUE]
  BY <1>1 DEF Failed
<1>3. /\ b \in ClientType
      /\ b.command = c.command /\ b.closed = c.closed /\ b.attached = c.attached
      /\ b.generation = c.generation
      /\ b.uncertain = (c.uncertain \/ (c.command = "git" /\ c.pending # {}))
      /\ b.retiring = (c.retiring \cup {c.child}) \ {None}
      /\ b.ready = FALSE /\ b.starting = FALSE /\ b.pending = {} /\ b.child = None
  BY <1>1, GivenUpFields
<1>4. /\ d \in ClientType /\ d.timer = TRUE
      /\ d.command = b.command /\ d.closed = b.closed /\ d.attached = b.attached
      /\ d.generation = b.generation /\ d.uncertain = b.uncertain
      /\ d.retiring = b.retiring /\ d.ready = b.ready /\ d.starting = b.starting
      /\ d.pending = b.pending /\ d.child = b.child
  BY <1>2, <1>3 DEF ClientType
<1> QED BY ONLY <1>3, <1>4

LEMMA CollectedFields ==
  ASSUME NEW c \in ClientType, NEW k, NEW d, d = Collected(c, k)
  PROVE  /\ d \in ClientType
         /\ d.command = c.command /\ d.closed = c.closed
         /\ d.generation = c.generation /\ d.timer = c.timer
         /\ d.uncertain = c.uncertain /\ d.retiring = c.retiring
         /\ d.ready = c.ready /\ d.starting = c.starting
         /\ d.pending = c.pending /\ d.child = c.child
         /\ d.attached => c.attached
         /\ ~d.attached => \/ ~c.attached
                           \/ /\ c.closed /\ c.child = None /\ c.retiring = {}
                              /\ ~Operations(c, k)
<1>1. PICK left \in BOOLEAN :
        left = (/\ c.closed /\ c.child = None /\ c.retiring = {}
                /\ ~Operations(c, k) /\ c.pending = {} /\ ~c.uncertain)
  OBVIOUS
<1>2. d = [c EXCEPT !.attached = @ /\ ~left]
  BY <1>1 DEF Collected
<1> QED BY <1>1, <1>2 DEF ClientType
-----------------------------------------------------------------------------
(* The frames. *)

SameFrames(p, q) ==
  \A g \in Generations : q[g].inbox = p[g].inbox /\ q[g].answers = p[g].answers

(* Calls whose frame is not written go on, or are rejected. *)
Moves(k, m) ==
  /\ \A r \in Requests :
       \/ m[r] = k[r]
       \/ k[r] \in Unwritten /\ m[r] \in Unwritten \cup {"rejected"}
  /\ \A o \in Observers : m[o] = k[o] \/ (k[o] = "new" /\ m[o] = "rejected")

LEMMA MovesKeepsFrames ==
  ASSUME NEW c, NEW k \in CallType, NEW m \in CallType, NEW p, NEW e,
         Frames(c, k, p, e), Moves(k, m)
  PROVE  Frames(c, m, p, e)
<1>1. PendingWaits(c, m)
  BY DEF Frames, PendingWaits, Moves, Unwritten
<1>2. WrittenOnly(m, p, e)
  <2>1. \A x \in Requests \cup Observers : m[x] \in Unwritten => k[x] \in Unwritten
    BY DEF Moves, Unwritten
  <2> QED BY <2>1 DEF Frames, WrittenOnly
<1>3. Told(c, m, p, e)
  <2> SUFFICES ASSUME NEW r \in Requests, m[r] # k[r]
               PROVE  /\ m[r] # "answered"
                      /\ e[r] # 1 /\ \A g \in Generations : r \notin p[g].inbox
    BY DEF Frames, Told
  <2>1. k[r] \in Unwritten /\ m[r] \in Unwritten \cup {"rejected"}
    BY DEF Moves
  <2> QED BY <2>1 DEF Frames, WrittenOnly, Unwritten
<1> QED BY <1>1, <1>2, <1>3 DEF Frames

(* The frames are where they were, and the client's fields about them.      *)
LEMMA FramesStay ==
  ASSUME NEW c, NEW d, NEW k, NEW p, NEW q, NEW e,
         Frames(c, k, p, e), SameFrames(p, q),
         d.child = None \/ (d.child = c.child /\ c.child \in Generations),
         d.command = c.command, d.uncertain = c.uncertain, d.pending = c.pending
  PROVE  Frames(d, k, q, e)
<1>1. PendingWaits(d, k)
  BY DEF Frames, PendingWaits
<1>2. WrittenOnly(k, q, e)
  BY DEF Frames, WrittenOnly, SameFrames
<1>3. OnePlace(q, e)
  BY DEF Frames, OnePlace, SameFrames
<1>4. HoldsPending(d, q)
  BY DEF Frames, HoldsPending, SameFrames
<1>5. Told(d, k, q, e)
  BY DEF Frames, Told, SameFrames
<1> QED BY <1>1, <1>2, <1>3, <1>4, <1>5 DEF Frames

(* Everybody who waits for a child that is given up is rejected, and lost   *)
(* Git work leaves its mark.                                                *)
LEMMA GivenUpFrames ==
  ASSUME NEW c \in ClientType, NEW d, NEW k \in CallType, NEW p, NEW q, NEW e,
         Frames(c, k, p, e), SameFrames(p, q),
         d.child = None, d.command = c.command, d.pending = {},
         d.uncertain = (c.uncertain \/ (c.command = "git" /\ c.pending # {}))
  PROVE  Rejected(k) \in CallType /\ Frames(d, Rejected(k), q, e)
<1>1. PICK m : m = Rejected(k)
  OBVIOUS
<1>2. /\ m \in CallType
      /\ \A x \in Requests \cup Observers :
           m[x] = IF k[x] \in {"starting", "chained", "pending", "late"} THEN "rejected" ELSE k[x]
  BY <1>1 DEF Rejected, CallType, CallStates
<1>3. PendingWaits(d, m)
  BY <1>2 DEF Frames, PendingWaits
<1>4. WrittenOnly(m, q, e)
  <2>1. \A x \in Requests \cup Observers : m[x] \in Unwritten => k[x] \in Unwritten
    BY <1>2 DEF Unwritten
  <2> QED BY <2>1 DEF Frames, WrittenOnly, SameFrames
<1>5. OnePlace(q, e)
  BY DEF Frames, OnePlace, SameFrames
<1>6. HoldsPending(d, q)
  BY DEF HoldsPending
<1>7. Told(d, m, q, e)
  <2> SUFFICES ASSUME NEW r \in Requests
               PROVE  /\ m[r] = "answered" => e[r] = 1
                      /\ m[r] = "rejected" /\ d.command = "git"
                           /\ (e[r] = 1 \/ \E g \in Generations : r \in q[g].inbox)
                           => d.uncertain
    BY DEF Told
  <2>1. (\E g \in Generations : r \in q[g].inbox) => \E g \in Generations : r \in p[g].inbox
    BY DEF SameFrames
  <2>2. CASE m[r] = k[r]
    BY <2>1, <2>2 DEF Frames, Told
  <2>3. CASE m[r] # k[r] /\ k[r] = "pending"
    BY <1>2, <2>3 DEF Frames, PendingWaits
  <2>4. CASE m[r] # k[r] /\ k[r] # "pending"
    <3>1. k[r] \in Unwritten /\ m[r] = "rejected"
      BY <1>2, <2>4 DEF Frames, PendingWaits, Unwritten
    <3> QED BY <2>1, <3>1 DEF Frames, WrittenOnly
  <2> QED BY <2>2, <2>3, <2>4
<1> QED BY <1>1, <1>2, <1>3, <1>4, <1>5, <1>6, <1>7 DEF Frames
-----------------------------------------------------------------------------
(* Each outcome of a method keeps the client sound. *)
LEMMA MovesSound ==
  ASSUME NEW c, NEW k, NEW m \in CallType, NEW p, NEW e, NEW n,
         Sound(c, k, p, e, n), Moves(k, m), LeftAlone(c, m)
  PROVE  Sound(c, m, p, e, n)
BY MovesKeepsFrames DEF Sound, Processes

LEMMA CollectedSound ==
  ASSUME NEW c, NEW k, NEW p, NEW e, NEW n, Sound(c, k, p, e, n)
  PROVE  Sound(Collected(c, k), k, p, e, n)
<1>1. PICK d : d = Collected(c, k)
  OBVIOUS
<1>2. c \in ClientType /\ Processes(c, k, p, n) /\ Frames(c, k, p, e)
  BY DEF Sound
<1>3. /\ d \in ClientType
      /\ d.command = c.command /\ d.closed = c.closed
      /\ d.generation = c.generation /\ d.timer = c.timer
      /\ d.uncertain = c.uncertain /\ d.retiring = c.retiring
      /\ d.ready = c.ready /\ d.starting = c.starting
      /\ d.pending = c.pending /\ d.child = c.child
      /\ d.attached => c.attached
      /\ ~d.attached => \/ ~c.attached
                        \/ /\ c.closed /\ c.child = None /\ c.retiring = {}
                           /\ ~Operations(c, k)
  BY <1>1, <1>2, CollectedFields
<1>4. Frames(d, k, p, e)
  <2>1. c.child \in Generations \cup {None}
    BY <1>2 DEF ClientType
  <2> QED BY <1>2, <1>3, <2>1, FramesStay DEF SameFrames
<1>5. ChildKnown(d)
  BY <1>2, <1>3 DEF Processes, ChildKnown
<1>6. Spent(d, p, n) /\ NotBegun(d, p)
  BY <1>2, <1>3 DEF Processes, Spent, NotBegun
<1>7. Known(d, p)
  BY <1>2, <1>3 DEF Processes, Known, None, Generations
<1>8. LeftAlone(d, k)
  BY <1>2, <1>3 DEF Processes, LeftAlone, Operations
<1> QED BY <1>1, <1>2, <1>3, <1>4, <1>5, <1>6, <1>7, <1>8 DEF Sound, Processes

LEMMA KilledTable ==
  ASSUME NEW p \in ProcessTable, NEW g \in Generations \cup {None}, NEW q,
         q = IF g = None THEN p ELSE Killed(p, g)
  PROVE  /\ q \in ProcessTable /\ SameFrames(p, q)
         /\ \A h \in Generations : /\ Works(q, h) <=> Works(p, h)
                                   /\ p[h] = NoProcess => q[h] = NoProcess
<1>1. CASE g = None
  BY <1>1 DEF SameFrames, Works
<1>2. CASE g # None
  <2>1. PICK s : s = IF p[g].state = "up" THEN "dying" ELSE p[g].state
    OBVIOUS
  <2>2. PICK x : x = [p[g] EXCEPT !.state = s]
    OBVIOUS
  <2>3. g \in Generations /\ p[g] \in ProcessType
    BY <1>2 DEF ProcessTable
  <2>4. q = [p EXCEPT ![g] = x]
    BY <1>2, <2>1, <2>2, <2>3 DEF Killed, ProcessTable
  <2>5. /\ x \in ProcessType /\ x.inbox = p[g].inbox /\ x.answers = p[g].answers
        /\ x.state = s /\ x.hello = p[g].hello
    BY <2>1, <2>2, <2>3 DEF ProcessType
  <2>6. p[g] = NoProcess => x = NoProcess
    BY <2>1, <2>2 DEF NoProcess
  <2>7. \A h \in Generations : q[h] = IF h = g THEN x ELSE p[h]
    BY <2>4 DEF ProcessTable
  <2>8. q \in ProcessTable
    BY <2>4, <2>5 DEF ProcessTable
  <2> QED BY <2>1, <2>5, <2>6, <2>7, <2>8 DEF SameFrames, Works
<1> QED BY <1>1, <1>2

LEMMA RejectedWaits ==
  ASSUME NEW k \in CallType, NEW r \in Requests, Rejected(k)[r] \in Waiting
  PROVE  k[r] \in Waiting
BY DEF Rejected, CallType, Waiting

(* failed() *)
LEMMA FailedSound ==
  ASSUME NEW c, NEW k, NEW p, NEW q, NEW e, NEW n,
         Sound(c, k, p, e, n), ~c.closed, n < MaxFaults,
         q = IF c.child = None THEN p ELSE Killed(p, c.child)
  PROVE  Sound(Failed(c), Rejected(k), q, e, n + 1)
<1>1. PICK d : d = Failed(c)
  OBVIOUS
<1>2. c \in ClientType /\ Processes(c, k, p, n) /\ Frames(c, k, p, e)
      /\ k \in CallType /\ p \in ProcessTable /\ n \in 0..MaxFaults
      /\ c.child \in Generations \cup {None}
  BY DEF Sound, ClientType
<1>3. /\ d \in ClientType
      /\ d.command = c.command /\ d.closed = c.closed /\ d.attached = c.attached
      /\ d.generation = c.generation /\ d.timer = TRUE
      /\ d.uncertain = (c.uncertain \/ (c.command = "git" /\ c.pending # {}))
      /\ d.retiring = (c.retiring \cup {c.child}) \ {None}
      /\ d.ready = FALSE /\ d.starting = FALSE /\ d.pending = {} /\ d.child = None
  BY <1>1, <1>2, FailedFields
<1>4. /\ q \in ProcessTable /\ SameFrames(p, q)
      /\ \A h \in Generations : /\ Works(q, h) <=> Works(p, h)
                                /\ p[h] = NoProcess => q[h] = NoProcess
  BY <1>2, KilledTable
<1>5. Rejected(k) \in CallType /\ Frames(d, Rejected(k), q, e)
  BY <1>2, <1>3, <1>4, GivenUpFrames
<1>6. ChildKnown(d)
  BY <1>2, <1>3 DEF Processes, ChildKnown
<1>7. n + 1 \in 0..MaxFaults /\ Spent(d, q, n + 1)
  <2>1. c.generation <= n + 1
    BY <1>2, FaultsAssumption DEF Processes, Spent, ClientType, Generations
  <2> QED BY <1>2, <1>3, <2>1, FaultsAssumption DEF Spent
<1>8. NotBegun(d, q)
  BY <1>2, <1>3, <1>4 DEF Processes, NotBegun
<1>9. Known(d, q)
  BY <1>2, <1>3, <1>4, FaultsAssumption DEF Processes, Known, None, Generations
<1>10. LeftAlone(d, Rejected(k))
  BY <1>2, <1>3, RejectedWaits DEF Processes, LeftAlone
<1> QED BY <1>1, <1>2, <1>3, <1>4, <1>5, <1>6, <1>7, <1>8, <1>9, <1>10 DEF Sound, Processes

(* close(), before it looks whether anything is left. *)
LEMMA ClosedSound ==
  ASSUME NEW c, NEW k, NEW p, NEW q, NEW e, NEW n, NEW d,
         Sound(c, k, p, e, n), ~c.closed,
         q = IF c.child = None THEN p ELSE Killed(p, c.child),
         d = [GivenUp(c) EXCEPT !.closed = TRUE]
  PROVE  Sound(d, Rejected(k), q, e, n)
<1>1. PICK b : b = GivenUp(c)
  OBVIOUS
<1>2. c \in ClientType /\ Processes(c, k, p, n) /\ Frames(c, k, p, e)
      /\ k \in CallType /\ p \in ProcessTable /\ n \in 0..MaxFaults
      /\ c.child \in Generations \cup {None}
  BY DEF Sound, ClientType
<1>3. /\ b \in ClientType
      /\ b.command = c.command /\ b.attached = c.attached /\ b.generation = c.generation
      /\ b.uncertain = (c.uncertain \/ (c.command = "git" /\ c.pending # {}))
      /\ b.retiring = (c.retiring \cup {c.child}) \ {None}
      /\ b.ready = FALSE /\ b.starting = FALSE /\ b.pending = {} /\ b.child = None
  BY <1>1, <1>2, GivenUpFields
<1>4. /\ d \in ClientType /\ d.closed = TRUE
      /\ d.command = b.command /\ d.attached = b.attached
      /\ d.generation = b.generation /\ d.uncertain = b.uncertain
      /\ d.retiring = b.retiring /\ d.ready = b.ready /\ d.starting = b.starting
      /\ d.pending = b.pending /\ d.child = b.child
  BY <1>1, <1>3 DEF ClientType
<1>5. /\ q \in ProcessTable /\ SameFrames(p, q)
      /\ \A h \in Generations : /\ Works(q, h) <=> Works(p, h)
                                /\ p[h] = NoProcess => q[h] = NoProcess
  BY <1>2, KilledTable
<1>6. Rejected(k) \in CallType /\ Frames(d, Rejected(k), q, e)
  <2>1. d.uncertain = (c.uncertain \/ (c.command = "git" /\ c.pending # {}))
    BY ONLY <1>3, <1>4
  <2> QED BY <1>2, <1>3, <1>4, <1>5, <2>1, GivenUpFrames
<1>7. ChildKnown(d)
  BY <1>3, <1>4 DEF ChildKnown
<1>8. Spent(d, q, n)
  BY <1>2, <1>3, <1>4, FaultsAssumption DEF Processes, Spent, ClientType, Generations
<1>9. NotBegun(d, q)
  BY <1>2, <1>3, <1>4, <1>5 DEF Processes, NotBegun
<1>10. Known(d, q)
  BY <1>2, <1>3, <1>4, <1>5, FaultsAssumption DEF Processes, Known, None, Generations
<1>11. LeftAlone(d, Rejected(k))
  BY <1>2, <1>3, <1>4, RejectedWaits DEF Processes, LeftAlone
<1> QED BY <1>2, <1>4, <1>5, <1>6, <1>7, <1>8, <1>9, <1>10, <1>11 DEF Sound, Processes

(* The spawn of startInner(): a process of its own generation, which holds  *)
(* nothing but the probe.                                                   *)
LEMMA SpawnedSound ==
  ASSUME NEW c, NEW k, NEW p, NEW q, NEW e, NEW n, NEW auto \in BOOLEAN, NEW x,
         Sound(c, k, p, e, n), ~c.closed, ~c.timer, c.child = None,
         x = [NoProcess EXCEPT !.state = "up", !.hello = c.command = "git",
                               !.inbox = IF c.command = "jobs" THEN {Probe} ELSE {}],
         q = [p EXCEPT ![c.generation + 1] = x]
  PROVE  Sound(Spawned(c, auto), k, q, e, n)
<1>1. PICK d : d = Spawned(c, auto)
  OBVIOUS
<1>2. c \in ClientType /\ Processes(c, k, p, n) /\ Frames(c, k, p, e)
      /\ k \in CallType /\ p \in ProcessTable /\ n \in 0..MaxFaults
      /\ ~c.starting /\ ~c.ready /\ c.attached /\ c.pending = {}
  BY DEF Sound, Processes, ChildKnown
<1>3. PICK g : g = c.generation + 1
  OBVIOUS
<1>4. g \in Generations /\ c.generation <= n /\ c.generation \in Nat
  BY <1>2, <1>3, FaultsAssumption DEF Processes, Spent, ClientType, Generations
<1>5. PICK ids : ids = IF c.command = "jobs" THEN {Probe} ELSE {}
  OBVIOUS
<1>6. /\ d \in ClientType
      /\ d.command = c.command /\ d.closed = c.closed /\ d.attached = c.attached
      /\ d.generation = g /\ d.timer = c.timer
      /\ d.uncertain = c.uncertain /\ d.retiring = c.retiring
      /\ d.ready = c.ready /\ d.starting = TRUE /\ d.pending = ids /\ d.child = g
  BY <1>1, <1>2, <1>3, <1>4, <1>5 DEF Spawned, ClientType, Ids
<1>7. /\ x \in ProcessType /\ x.state = "up" /\ x.inbox = ids /\ x.answers = {}
  BY <1>2, <1>5 DEF NoProcess, ProcessType, Ids
<1>8. \A h \in Generations : q[h] = IF h = g THEN x ELSE p[h]
  BY <1>2, <1>3 DEF ProcessTable
<1>9. q \in ProcessTable
  BY <1>2, <1>3, <1>7 DEF ProcessTable
<1>10. \A y \in Requests \cup Observers : y \notin ids
  BY <1>5, IdsAssumption
<1>11. Frames(d, k, q, e)
  <2>1. PendingWaits(d, k)
    BY <1>2, <1>6, <1>10 DEF Frames, PendingWaits
  <2>2. WrittenOnly(k, q, e)
    BY <1>2, <1>7, <1>8, <1>10 DEF Frames, WrittenOnly
  <2>3. OnePlace(q, e)
    BY <1>2, <1>7, <1>8, <1>10 DEF Frames, OnePlace
  <2>4. HoldsPending(d, q)
    BY <1>4, <1>6, <1>7, <1>8 DEF HoldsPending
  <2>5. Told(d, k, q, e)
    <3>1. \A r \in Requests, h \in Generations : r \in q[h].inbox => r \in p[h].inbox
      BY <1>7, <1>8, <1>10
    <3> QED BY <1>2, <1>6, <3>1 DEF Frames, Told
  <2> QED BY <2>1, <2>2, <2>3, <2>4, <2>5 DEF Frames
<1>12. ChildKnown(d)
  BY <1>2, <1>4, <1>6 DEF ChildKnown, None, Generations
<1>13. Spent(d, q, n)
  <2>1. d.child # None /\ q[d.child].state = "up"
    BY <1>4, <1>6, <1>7, <1>8, NoneIsNoGeneration
  <2>2. d.generation <= n + 1
    BY <1>2, <1>3, <1>4, <1>6
  <2> QED BY <2>1, <2>2 DEF Spent
<1>14. NotBegun(d, q)
  BY <1>2, <1>3, <1>4, <1>6, <1>8 DEF Processes, NotBegun, Generations
<1>15. Known(d, q)
  <2> SUFFICES ASSUME NEW h \in Generations, Works(q, h), h # g
               PROVE  h \in c.retiring
    BY <1>2, <1>6 DEF Known
  <2>1. Works(p, h) /\ h # c.child
    BY <1>8, NoneIsNoGeneration DEF Works
  <2> QED BY <1>2, <2>1 DEF Processes, Known
<1>16. LeftAlone(d, k)
  BY <1>2, <1>6 DEF LeftAlone
<1> QED BY <1>1, <1>2, <1>6, <1>9, <1>11, <1>12, <1>13, <1>14, <1>15, <1>16 DEF Sound, Processes

(* A frame is written to the child, which may have ended unseen. *)
LEMMA WrittenSound ==
  ASSUME NEW c, NEW k, NEW p, NEW q, NEW e, NEW n, NEW y \in Requests \cup Observers,
         NEW d, NEW m, Sound(c, k, p, e, n), c.ready, k[y] \in Unwritten,
         d = WithPending(c, y), m = Pended(k, y), q = Sends(p, c.child, y)
  PROVE  Sound(d, m, q, e, n)
<1>1. c \in ClientType /\ Processes(c, k, p, n) /\ Frames(c, k, p, e)
      /\ k \in CallType /\ p \in ProcessTable /\ n \in 0..MaxFaults
      /\ e \in [Requests -> Nat]
  BY DEF Sound
<1>2. PICK g : g = c.child
  OBVIOUS
<1>3. g \in Generations /\ g # None /\ ~c.closed /\ c.attached
  BY <1>1, <1>2 DEF Processes, ChildKnown, ClientType
<1>4. /\ d \in ClientType /\ d.pending = c.pending \cup {y}
      /\ d.command = c.command /\ d.closed = c.closed /\ d.attached = c.attached
      /\ d.generation = c.generation /\ d.timer = c.timer
      /\ d.uncertain = c.uncertain /\ d.retiring = c.retiring
      /\ d.ready = c.ready /\ d.starting = c.starting /\ d.child = c.child
  BY <1>1 DEF WithPending, ClientType, Ids
<1>5. /\ m \in CallType
      /\ \A z \in Requests \cup Observers : m[z] = IF z = y THEN "pending" ELSE k[z]
  BY <1>1 DEF Pended, CallType, CallStates
<1>6. PICK ids : ids = IF p[g].state = "up" THEN p[g].inbox \cup {y} ELSE p[g].inbox
  OBVIOUS
<1>7. PICK x : x = [p[g] EXCEPT !.inbox = ids]
  OBVIOUS
<1>8. p[g] \in ProcessType
  BY <1>1, <1>3 DEF ProcessTable
<1>9. /\ x \in ProcessType /\ x.inbox = ids /\ x.answers = p[g].answers
      /\ x.state = p[g].state
  BY <1>6, <1>7, <1>8 DEF ProcessType, Ids
<1>10. q = [p EXCEPT ![g] = x]
  BY <1>1, <1>2, <1>3, <1>6, <1>7 DEF Sends, ProcessTable
<1>11. q \in ProcessTable /\ \A h \in Generations : q[h] = IF h = g THEN x ELSE p[h]
  BY <1>1, <1>9, <1>10 DEF ProcessTable
<1>12. p[g].inbox \subseteq ids /\ ids \subseteq p[g].inbox \cup {y}
  BY <1>6
<1>13. \A h \in Generations : y \notin p[h].inbox /\ y \notin p[h].answers
  BY <1>1 DEF Frames, WrittenOnly
<1>14. y \in Requests => e[y] = 0
  BY <1>1 DEF Frames, WrittenOnly
<1>15. Frames(d, m, q, e)
  <2>1. PendingWaits(d, m)
    BY <1>1, <1>4, <1>5, IdsAssumption DEF Frames, PendingWaits
  <2>2. WrittenOnly(m, q, e)
    BY <1>1, <1>5, <1>9, <1>11, <1>12 DEF Frames, WrittenOnly, Unwritten
  <2>3. OnePlace(q, e)
    <3>1. \A h \in Generations : q[h].inbox \cap q[h].answers = {}
      BY <1>1, <1>3, <1>9, <1>11, <1>12, <1>13 DEF Frames, OnePlace
    <3>2. ASSUME NEW r \in Requests, NEW h \in Generations
          PROVE  /\ e[r] <= 1
                 /\ r \in q[h].inbox => e[r] = 0
                 /\ r \in q[h].answers => e[r] = 1
      BY <1>1, <1>3, <1>9, <1>11, <1>12, <1>14 DEF Frames, OnePlace
    <3>3. ASSUME NEW r \in Requests, NEW h \in Generations, NEW i \in Generations,
                 r \in q[h].inbox, r \in q[i].inbox
          PROVE  i = h
      <4>1. CASE r = y
        BY <1>9, <1>11, <1>13, <3>3, <4>1
      <4>2. CASE r # y
        <5>1. r \in p[h].inbox /\ r \in p[i].inbox
          BY <1>9, <1>11, <1>12, <3>3, <4>2
        <5> QED BY <1>1, <5>1 DEF Frames, OnePlace
      <4> QED BY <4>1, <4>2
    <3>4. \A r \in Requests : e[r] <= 1
      BY <1>1 DEF Frames, OnePlace
    <3> QED BY <3>1, <3>2, <3>3, <3>4 DEF OnePlace
  <2>4. HoldsPending(d, q)
    BY <1>1, <1>2, <1>3, <1>4, <1>9, <1>11, <1>12 DEF Frames, HoldsPending
  <2>5. Told(d, m, q, e)
    <3>1. \A r \in Requests \ {y}, h \in Generations : r \in q[h].inbox => r \in p[h].inbox
      BY <1>9, <1>11, <1>12
    <3> QED BY <1>1, <1>4, <1>5, <3>1 DEF Frames, Told
  <2> QED BY <2>1, <2>2, <2>3, <2>4, <2>5 DEF Frames
<1>16. ChildKnown(d)
  BY <1>1, <1>2, <1>3, <1>4 DEF Processes, ChildKnown
<1>17. Spent(d, q, n)
  BY <1>1, <1>2, <1>3, <1>4, <1>9, <1>11 DEF Processes, Spent
<1>18. NotBegun(d, q)
  <2>1. CASE p[g].state = "up"
    <3>1. p[g] # NoProcess
      BY <2>1 DEF NoProcess
    <3> QED BY <1>1, <1>3, <1>4, <1>11, <3>1 DEF Processes, NotBegun
  <2>2. CASE p[g].state # "up"
    <3>1. x = p[g]
      BY <1>6, <1>7, <1>8, <2>2 DEF ProcessType
    <3> QED BY <1>1, <1>4, <1>11, <3>1 DEF Processes, NotBegun
  <2> QED BY <2>1, <2>2
<1>19. Known(d, q)
  BY <1>1, <1>4, <1>9, <1>11 DEF Processes, Known, Works
<1>20. LeftAlone(d, m)
  BY <1>3, <1>4 DEF LeftAlone
<1> QED BY <1>1, <1>4, <1>5, <1>11, <1>15, <1>16, <1>17, <1>18, <1>19, <1>20 DEF Sound, Processes

(* An answer that is expected: its request is settled. *)
LEMMA AnsweredSound ==
  ASSUME NEW c, NEW k, NEW p, NEW q, NEW e, NEW n, NEW y \in Requests \cup Observers,
         NEW d, NEW m, Sound(c, k, p, e, n), c.child # None, y \in p[c.child].answers,
         y \in c.pending, d = WithoutPending(c, y), m = SettledCall(k, y),
         q = Reads(p, c.child, y)
  PROVE  Sound(d, m, q, e, n)
<1>1. c \in ClientType /\ Processes(c, k, p, n) /\ Frames(c, k, p, e)
      /\ k \in CallType /\ p \in ProcessTable /\ n \in 0..MaxFaults
      /\ e \in [Requests -> Nat]
  BY DEF Sound
<1>2. PICK g : g = c.child
  OBVIOUS
<1>3. g \in Generations /\ ~c.closed /\ c.attached
  BY <1>1, <1>2 DEF Processes, ChildKnown, ClientType
<1>4. /\ d \in ClientType /\ d.pending = c.pending \ {y}
      /\ d.command = c.command /\ d.closed = c.closed /\ d.attached = c.attached
      /\ d.generation = c.generation /\ d.timer = c.timer
      /\ d.uncertain = c.uncertain /\ d.retiring = c.retiring
      /\ d.ready = c.ready /\ d.starting = c.starting /\ d.child = c.child
  BY <1>1 DEF WithoutPending, ClientType
<1>5. PICK how : how = IF k[y] = "late" THEN "rejected" ELSE "answered"
  OBVIOUS
<1>6. /\ m \in CallType
      /\ \A z \in Requests \cup Observers : m[z] = IF z = y THEN how ELSE k[z]
  BY <1>1, <1>5 DEF SettledCall, CallType, CallStates
<1>7. PICK x : x = [p[g] EXCEPT !.answers = @ \ {y}]
  OBVIOUS
<1>8. p[g] \in ProcessType
  BY <1>1, <1>3 DEF ProcessTable
<1>9. /\ x \in ProcessType /\ x.inbox = p[g].inbox /\ x.answers = p[g].answers \ {y}
      /\ x.state = p[g].state
  BY <1>7, <1>8 DEF ProcessType
<1>10. q = [p EXCEPT ![g] = x]
  BY <1>1, <1>2, <1>3, <1>7 DEF Reads, ProcessTable
<1>11. q \in ProcessTable /\ \A h \in Generations : q[h] = IF h = g THEN x ELSE p[h]
  BY <1>1, <1>9, <1>10 DEF ProcessTable
<1>12. y \notin p[g].inbox /\ (y \in Requests => e[y] = 1 /\ k[y] = "pending")
  BY <1>1, <1>2, <1>3 DEF Frames, OnePlace, PendingWaits
<1>13. Frames(d, m, q, e)
  <2>1. PendingWaits(d, m)
    BY <1>1, <1>4, <1>5, <1>6, <1>12, IdsAssumption DEF Frames, PendingWaits
  <2>2. WrittenOnly(m, q, e)
    BY <1>1, <1>5, <1>6, <1>9, <1>11 DEF Frames, WrittenOnly, Unwritten
  <2>3. OnePlace(q, e)
    BY <1>1, <1>9, <1>11 DEF Frames, OnePlace
  <2>4. HoldsPending(d, q)
    BY <1>1, <1>2, <1>3, <1>4, <1>9, <1>11, <1>12 DEF Frames, HoldsPending
  <2>5. Told(d, m, q, e)
    <3>1. \A r \in Requests, h \in Generations : r \in q[h].inbox => r \in p[h].inbox
      BY <1>9, <1>11
    <3>2. y \in Requests => m[y] = "answered"
      BY <1>5, <1>6, <1>12
    <3> QED BY <1>1, <1>4, <1>6, <1>12, <3>1, <3>2 DEF Frames, Told
  <2> QED BY <2>1, <2>2, <2>3, <2>4, <2>5 DEF Frames
<1>14. ChildKnown(d)
  BY <1>1, <1>3, <1>4 DEF Processes, ChildKnown
<1>15. Spent(d, q, n)
  BY <1>1, <1>2, <1>3, <1>4, <1>9, <1>11 DEF Processes, Spent
<1>16. NotBegun(d, q)
  <2>1. p[g] # NoProcess
    BY <1>2 DEF NoProcess
  <2> QED BY <1>1, <1>3, <1>4, <1>11, <2>1 DEF Processes, NotBegun
<1>17. Known(d, q)
  BY <1>1, <1>4, <1>9, <1>11 DEF Processes, Known, Works
<1>18. LeftAlone(d, m)
  BY <1>3, <1>4 DEF LeftAlone
<1> QED BY <1>1, <1>4, <1>6, <1>11, <1>13, <1>14, <1>15, <1>16, <1>17, <1>18 DEF Sound, Processes

(* The probe's answer settles nobody's request. *)
LEMMA ProbedSound ==
  ASSUME NEW c, NEW k, NEW p, NEW q, NEW e, NEW n, NEW d,
         Sound(c, k, p, e, n), c.child # None, Probe \in p[c.child].answers,
         d = WithoutPending(c, Probe), q = Reads(p, c.child, Probe)
  PROVE  Sound(d, k, q, e, n)
<1>1. c \in ClientType /\ Processes(c, k, p, n) /\ Frames(c, k, p, e)
      /\ k \in CallType /\ p \in ProcessTable /\ n \in 0..MaxFaults
      /\ e \in [Requests -> Nat]
  BY DEF Sound
<1>2. PICK g : g = c.child
  OBVIOUS
<1>3. g \in Generations /\ ~c.closed /\ c.attached
  BY <1>1, <1>2 DEF Processes, ChildKnown, ClientType
<1>4. /\ d \in ClientType /\ d.pending = c.pending \ {Probe}
      /\ d.command = c.command /\ d.closed = c.closed /\ d.attached = c.attached
      /\ d.generation = c.generation /\ d.timer = c.timer
      /\ d.uncertain = c.uncertain /\ d.retiring = c.retiring
      /\ d.ready = c.ready /\ d.starting = c.starting /\ d.child = c.child
  BY <1>1 DEF WithoutPending, ClientType
<1>5. PICK x : x = [p[g] EXCEPT !.answers = @ \ {Probe}]
  OBVIOUS
<1>6. p[g] \in ProcessType
  BY <1>1, <1>3 DEF ProcessTable
<1>7. /\ x \in ProcessType /\ x.inbox = p[g].inbox /\ x.answers = p[g].answers \ {Probe}
      /\ x.state = p[g].state
  BY <1>5, <1>6 DEF ProcessType
<1>8. q = [p EXCEPT ![g] = x]
  BY <1>1, <1>2, <1>3, <1>5 DEF Reads, ProcessTable
<1>9. q \in ProcessTable /\ \A h \in Generations : q[h] = IF h = g THEN x ELSE p[h]
  BY <1>1, <1>7, <1>8 DEF ProcessTable
<1>10. Probe \notin p[g].inbox
  BY <1>1, <1>2, <1>3 DEF Frames, OnePlace
<1>11. Frames(d, k, q, e)
  <2>1. PendingWaits(d, k)
    BY <1>1, <1>4, IdsAssumption DEF Frames, PendingWaits
  <2>2. WrittenOnly(k, q, e)
    BY <1>1, <1>7, <1>9 DEF Frames, WrittenOnly
  <2>3. OnePlace(q, e)
    BY <1>1, <1>7, <1>9 DEF Frames, OnePlace
  <2>4. HoldsPending(d, q)
    BY <1>1, <1>2, <1>3, <1>4, <1>7, <1>9, <1>10 DEF Frames, HoldsPending
  <2>5. Told(d, k, q, e)
    <3>1. \A r \in Requests, h \in Generations : r \in q[h].inbox => r \in p[h].inbox
      BY <1>7, <1>9
    <3> QED BY <1>1, <1>4, <3>1 DEF Frames, Told
  <2> QED BY <2>1, <2>2, <2>3, <2>4, <2>5 DEF Frames
<1>12. ChildKnown(d)
  BY <1>1, <1>3, <1>4 DEF Processes, ChildKnown
<1>13. Spent(d, q, n)
  BY <1>1, <1>2, <1>3, <1>4, <1>7, <1>9 DEF Processes, Spent
<1>14. NotBegun(d, q)
  <2>1. p[g] # NoProcess
    BY <1>2 DEF NoProcess
  <2> QED BY <1>1, <1>3, <1>4, <1>9, <2>1 DEF Processes, NotBegun
<1>15. Known(d, q)
  BY <1>1, <1>4, <1>7, <1>9 DEF Processes, Known, Works
<1>16. LeftAlone(d, k)
  BY <1>3, <1>4 DEF LeftAlone
<1> QED BY <1>1, <1>4, <1>9, <1>11, <1>12, <1>13, <1>14, <1>15, <1>16 DEF Sound, Processes

(* markReady() *)
LEMMA ReadySound ==
  ASSUME NEW c, NEW k, NEW p, NEW e, NEW n, Sound(c, k, p, e, n), c.child # None
  PROVE  Sound(Ready(c), Admitted(k), p, e, n)
<1>1. c \in ClientType /\ Processes(c, k, p, n) /\ Frames(c, k, p, e)
      /\ k \in CallType /\ c.child \in Generations
  BY DEF Sound, ClientType
<1>2. PICK d : d = Ready(c)
  OBVIOUS
<1>3. /\ d \in ClientType /\ d.pending = c.pending
      /\ d.command = c.command /\ d.closed = c.closed /\ d.attached = c.attached
      /\ d.generation = c.generation /\ d.timer = c.timer
      /\ d.uncertain = c.uncertain /\ d.retiring = c.retiring
      /\ d.ready = TRUE /\ d.starting = FALSE /\ d.child = c.child
  BY <1>1, <1>2 DEF Ready, ClientType
<1>4. Frames(d, k, p, e)
  BY <1>1, <1>3, FramesStay DEF SameFrames
<1>5. ChildKnown(d) /\ Spent(d, p, n) /\ NotBegun(d, p) /\ Known(d, p) /\ d.attached
  BY <1>1, <1>3 DEF Processes, ChildKnown, Spent, NotBegun, Known
<1>6. Sound(d, k, p, e, n)
  BY <1>3, <1>4, <1>5 DEF Sound, Processes, LeftAlone
<1>7. PICK m : m = Admitted(k)
  OBVIOUS
<1>8. m \in CallType /\ Moves(k, m)
  <2>1. m = [x \in Requests \cup Observers |->
               CASE k[x] = "starting" -> "go" [] k[x] = "chained" -> "again" [] OTHER -> k[x]]
    BY <1>1, <1>7 DEF Admitted, CallType
  <2>2. ASSUME NEW x \in Requests \cup Observers
        PROVE  /\ m[x] \in CallStates
               /\ \/ m[x] = k[x]
                  \/ k[x] \in {"starting", "chained"} /\ m[x] \in {"go", "again"}
    BY <1>1, <2>1 DEF CallType, CallStates, Unwritten
  <2>3. \A o \in Observers : k[o] \notin {"starting", "chained"}
    BY <1>1 DEF Frames, PendingWaits
  <2> QED BY <2>1, <2>2, <2>3 DEF CallType, Moves, Unwritten
<1> QED BY <1>2, <1>5, <1>6, <1>7, <1>8, MovesSound DEF LeftAlone
-----------------------------------------------------------------------------
(* Each step of a process does, too. *)
LEMMA GreetedSound ==
  ASSUME NEW c, NEW k, NEW p, NEW q, NEW e, NEW n, NEW g \in Generations,
         Sound(c, k, p, e, n), p[g].hello = TRUE, q = [p EXCEPT ![g].hello = FALSE]
  PROVE  Sound(c, k, q, e, n)
<1>1. c \in ClientType /\ Processes(c, k, p, n) /\ Frames(c, k, p, e)
      /\ p \in ProcessTable /\ p[g] \in ProcessType /\ c.child \in Generations \cup {None}
  BY DEF Sound, ClientType, ProcessTable
<1>2. PICK x : x = [p[g] EXCEPT !.hello = FALSE]
  OBVIOUS
<1>3. /\ x \in ProcessType /\ x.inbox = p[g].inbox /\ x.answers = p[g].answers
      /\ x.state = p[g].state
  BY <1>1, <1>2 DEF ProcessType
<1>4. q = [p EXCEPT ![g] = x]
  BY <1>1, <1>2 DEF ProcessTable
<1>5. q \in ProcessTable /\ \A h \in Generations : q[h] = IF h = g THEN x ELSE p[h]
  BY <1>1, <1>3, <1>4 DEF ProcessTable
<1>6. Frames(c, k, q, e)
  <2>1. SameFrames(p, q)
    BY <1>3, <1>5 DEF SameFrames
  <2>2. c.child = None \/ (c.child = c.child /\ c.child \in Generations)
    BY <1>1
  <2> QED BY <1>1, <2>1, <2>2, FramesStay
<1>7. Spent(c, q, n) /\ Known(c, q)
  BY <1>1, <1>3, <1>5 DEF Processes, Spent, Known, Works
<1>8. NotBegun(c, q)
  <2>1. p[g] # NoProcess
    BY DEF NoProcess
  <2> QED BY <1>1, <1>5, <2>1 DEF Processes, NotBegun
<1> QED BY <1>1, <1>5, <1>6, <1>7, <1>8 DEF Sound, Processes

LEMMA ExecutedSound ==
  ASSUME NEW c, NEW k, NEW p, NEW q, NEW e, NEW f, NEW n, NEW g \in Generations, NEW y,
         Sound(c, k, p, e, n), y \in p[g].inbox,
         q = Runs(p, g, y),
         f = IF y \in Requests THEN [e EXCEPT ![y] = @ + 1] ELSE e
  PROVE  Sound(c, k, q, f, n)
<1>1. c \in ClientType /\ Processes(c, k, p, n) /\ Frames(c, k, p, e)
      /\ p \in ProcessTable /\ p[g] \in ProcessType /\ e \in [Requests -> Nat]
  BY DEF Sound, ProcessTable
<1>2. PICK x : x = [p[g] EXCEPT !.inbox = @ \ {y}, !.answers = @ \cup {y}]
  OBVIOUS
<1>3. /\ x \in ProcessType /\ x.inbox = p[g].inbox \ {y} /\ x.answers = p[g].answers \cup {y}
      /\ x.state = p[g].state
  BY <1>1, <1>2 DEF ProcessType
<1>4. q = [p EXCEPT ![g] = x]
  BY <1>1, <1>2 DEF Runs, ProcessTable
<1>5. q \in ProcessTable /\ \A h \in Generations : q[h] = IF h = g THEN x ELSE p[h]
  BY <1>1, <1>3, <1>4 DEF ProcessTable
<1>6. f \in [Requests -> Nat] /\ \A r \in Requests : f[r] = IF r = y THEN e[y] + 1 ELSE e[r]
  BY <1>1
<1>7. y \in Requests => e[y] = 0
  BY <1>1 DEF Frames, OnePlace
<1>8. Frames(c, k, q, f)
  <2>1. WrittenOnly(k, q, f)
    <3>1. y \in Requests \cup Observers => k[y] \notin Unwritten
      BY <1>1 DEF Frames, WrittenOnly
    <3>2. \A h \in Generations, z \in Requests \cup Observers : z # y =>
            /\ z \in q[h].inbox => z \in p[h].inbox
            /\ z \in q[h].answers => z \in p[h].answers
      BY <1>3, <1>5
    <3>3. \A r \in Requests : r # y => f[r] = e[r]
      BY <1>6
    <3> QED BY <1>1, <3>1, <3>2, <3>3 DEF Frames, WrittenOnly
  <2>2. OnePlace(q, f)
    <3>1. \A h \in Generations : q[h].inbox \cap q[h].answers = {}
      <4>1. \A h \in Generations : p[h].inbox \cap p[h].answers = {}
        BY <1>1 DEF Frames, OnePlace
      <4> QED BY <1>3, <1>5, <4>1
    <3>2. \A h \in Generations, r \in Requests : r \in q[h].inbox =>
            r \in p[h].inbox /\ (r = y => h # g)
      BY <1>3, <1>5
    <3>3. ASSUME NEW r \in Requests, r = y
          PROVE  f[r] = 1 /\ \A h \in Generations : r \notin q[h].inbox
      <4>1. \A h \in Generations : y \in p[h].inbox => h = g
        BY <1>1, <3>3 DEF Frames, OnePlace
      <4>2. f[r] = 1
        BY <1>6, <1>7, <3>3
      <4> QED BY <3>2, <3>3, <4>1, <4>2
    <3>4. ASSUME NEW r \in Requests, r # y
          PROVE  f[r] = e[r] /\ \A h \in Generations : r \in q[h].answers => r \in p[h].answers
      BY <1>3, <1>5, <1>6, <3>4
    <3>5. \A r \in Requests : f[r] <= 1
      BY <1>1, <3>3, <3>4 DEF Frames, OnePlace
    <3>6. ASSUME NEW r \in Requests, NEW h \in Generations
          PROVE  /\ r \in q[h].inbox => f[r] = 0 /\ \A i \in Generations : r \in q[i].inbox => i = h
                 /\ r \in q[h].answers => f[r] = 1
      BY <1>1, <3>2, <3>3, <3>4 DEF Frames, OnePlace
    <3> QED BY <3>1, <3>5, <3>6 DEF OnePlace
  <2>3. HoldsPending(c, q)
    <3>1. \A h \in Generations :
            q[h].inbox \cup q[h].answers = p[h].inbox \cup p[h].answers
      BY <1>3, <1>5
    <3>2. c.child \in Generations \cup {None}
      BY <1>1 DEF ClientType
    <3> QED BY <1>1, <3>1, <3>2 DEF Frames, HoldsPending
  <2>4. Told(c, k, q, f)
    <3>1. \A r \in Requests, h \in Generations : r \in q[h].inbox => r \in p[h].inbox
      BY <1>3, <1>5
    <3>2. \A r \in Requests : f[r] = 1 => e[r] = 1 \/ r \in p[g].inbox
      BY <1>6
    <3>3. \A r \in Requests : e[r] = 1 => f[r] = 1
      BY <1>6, <1>7
    <3> QED BY <1>1, <3>1, <3>2, <3>3 DEF Frames, Told
  <2> QED BY <1>1, <2>1, <2>2, <2>3, <2>4 DEF Frames
<1>9. Spent(c, q, n) /\ Known(c, q)
  BY <1>1, <1>3, <1>5 DEF Processes, Spent, Known, Works, ClientType
<1>10. NotBegun(c, q)
  <2>1. p[g] # NoProcess
    BY DEF NoProcess
  <2> QED BY <1>1, <1>5, <2>1 DEF Processes, NotBegun
<1> QED BY <1>1, <1>5, <1>6, <1>8, <1>9, <1>10 DEF Sound, Processes

LEMMA EndedSound ==
  ASSUME NEW c, NEW k, NEW p, NEW q, NEW e, NEW n, NEW n2, NEW g \in Generations,
         Sound(c, k, p, e, n), q = Exits(p, g),
         \/ p[g].state = "dying" /\ n2 = n
         \/ p[g].state = "up" /\ n < MaxFaults /\ n2 = n + 1
  PROVE  Sound(c, k, q, e, n2)
<1>1. c \in ClientType /\ Processes(c, k, p, n) /\ Frames(c, k, p, e)
      /\ p \in ProcessTable /\ p[g] \in ProcessType /\ n \in 0..MaxFaults
      /\ c.child \in Generations \cup {None} /\ c.generation \in Nat
  BY FaultsAssumption DEF Sound, ProcessTable, ClientType, Generations
<1>2. PICK x : x = [p[g] EXCEPT !.state = "ended", !.inbox = {}]
  OBVIOUS
<1>3. /\ x \in ProcessType /\ x.inbox = {} /\ x.answers = p[g].answers /\ x.state = "ended"
  BY <1>1, <1>2 DEF ProcessType
<1>4. q = [p EXCEPT ![g] = x]
  BY <1>1, <1>2 DEF Exits, ProcessTable
<1>5. q \in ProcessTable /\ \A h \in Generations : q[h] = IF h = g THEN x ELSE p[h]
  BY <1>1, <1>3, <1>4 DEF ProcessTable
<1>6. \A h \in Generations : q[h].inbox \subseteq p[h].inbox /\ q[h].answers = p[h].answers
  BY <1>3, <1>5
<1>7. Frames(c, k, q, e)
  <2>1. WrittenOnly(k, q, e)
    BY <1>1, <1>6 DEF Frames, WrittenOnly
  <2>2. OnePlace(q, e)
    <3>1. \A h \in Generations : q[h].inbox \cap q[h].answers = {}
      BY <1>1, <1>6 DEF Frames, OnePlace
    <3>2. \A r \in Requests, h \in Generations :
            /\ r \in q[h].inbox => r \in p[h].inbox
            /\ r \in q[h].answers => r \in p[h].answers
      BY <1>6
    <3>3. \A r \in Requests : e[r] <= 1
      BY <1>1 DEF Frames, OnePlace
    <3>4. ASSUME NEW r \in Requests, NEW h \in Generations
          PROVE  /\ r \in q[h].inbox => e[r] = 0 /\ \A i \in Generations : r \in q[i].inbox => i = h
                 /\ r \in q[h].answers => e[r] = 1
      BY <1>1, <3>2 DEF Frames, OnePlace
    <3> QED BY <3>1, <3>3, <3>4 DEF OnePlace
  <2>3. HoldsPending(c, q)
    BY <1>1, <1>6 DEF Frames, HoldsPending
  <2>4. Told(c, k, q, e)
    <3>1. \A r \in Requests, h \in Generations : r \in q[h].inbox => r \in p[h].inbox
      BY <1>6
    <3> QED BY <1>1, <3>1 DEF Frames, Told
  <2> QED BY <1>1, <2>1, <2>2, <2>3, <2>4 DEF Frames
<1>8. n2 \in 0..MaxFaults /\ Spent(c, q, n2)
  <2>1. CASE p[g].state = "dying" /\ n2 = n
    BY <1>1, <1>5, <2>1 DEF Processes, Spent
  <2>2. CASE p[g].state = "up" /\ n < MaxFaults /\ n2 = n + 1
    <3>1. n2 \in 0..MaxFaults
      BY <1>1, <2>2, FaultsAssumption
    <3>2. c.generation <= n2
      BY <1>1, <2>2 DEF Processes, Spent
    <3> QED BY <3>1, <3>2 DEF Spent
  <2> QED BY <2>1, <2>2
<1>9. Known(c, q)
  BY <1>1, <1>3, <1>5 DEF Processes, Known, Works
<1>10. NotBegun(c, q)
  <2>1. p[g] # NoProcess
    BY DEF NoProcess
  <2> QED BY <1>1, <1>5, <2>1 DEF Processes, NotBegun
<1> QED BY <1>1, <1>5, <1>7, <1>8, <1>9, <1>10 DEF Sound, Processes

(* 'close' of a process that ended: it is the child, which is given up, or  *)
(* one that was retired, which is forgotten.                                *)
LEMMA ClosesSound ==
  ASSUME NEW c, NEW k, NEW p, NEW q, NEW e, NEW n, NEW g \in Generations, NEW d, NEW m,
         Sound(c, k, p, e, n), p[g].state = "ended", q = Closes(p, g),
         \/ c.child = g /\ d = ChildOver(c) /\ m = Rejected(k)
         \/ c.child # g /\ d = Forgets(c, g) /\ m = k
  PROVE  Sound(d, m, q, e, n)
<1>1. c \in ClientType /\ Processes(c, k, p, n) /\ Frames(c, k, p, e) /\ k \in CallType
      /\ p \in ProcessTable /\ p[g] \in ProcessType /\ n \in 0..MaxFaults
      /\ c.child \in Generations \cup {None} /\ e \in [Requests -> Nat]
  BY DEF Sound, ProcessTable, ClientType
<1>2. PICK x : x = [p[g] EXCEPT !.state = "closed"]
  OBVIOUS
<1>3. /\ x \in ProcessType /\ x.inbox = p[g].inbox /\ x.answers = p[g].answers
      /\ x.state = "closed"
  BY <1>1, <1>2 DEF ProcessType
<1>4. q = [p EXCEPT ![g] = x]
  BY <1>1, <1>2 DEF Closes, ProcessTable
<1>5. q \in ProcessTable /\ \A h \in Generations : q[h] = IF h = g THEN x ELSE p[h]
  BY <1>1, <1>3, <1>4 DEF ProcessTable
<1>6. SameFrames(p, q)
  BY <1>3, <1>5 DEF SameFrames
<1>7. \A h \in Generations : Works(q, h) => Works(p, h) /\ h # g
  BY <1>3, <1>5 DEF Works
<1>8. p[g] # NoProcess
  BY DEF NoProcess
<1>9. \A h \in Generations : h > c.generation => q[h] = NoProcess
  BY <1>1, <1>5, <1>8 DEF Processes, NotBegun
<1>10. CASE c.child = g /\ d = ChildOver(c) /\ m = Rejected(k)
  <2>1. PICK b : b = Failed(c)
    OBVIOUS
  <2>2. /\ b \in ClientType
        /\ b.command = c.command /\ b.closed = c.closed /\ b.attached = c.attached
        /\ b.generation = c.generation /\ b.timer = TRUE
        /\ b.uncertain = (c.uncertain \/ (c.command = "git" /\ c.pending # {}))
        /\ b.ready = FALSE /\ b.starting = FALSE /\ b.pending = {} /\ b.child = None
    BY <1>1, <2>1, FailedFields
  <2>3. d = [b EXCEPT !.retiring = c.retiring]
    BY <1>10, <2>1 DEF ChildOver
  <2>4. c.retiring \in SUBSET Generations
    BY <1>1 DEF ClientType
  <2>5. /\ d \in ClientType /\ d.retiring = c.retiring
        /\ d.command = b.command /\ d.closed = b.closed /\ d.attached = b.attached
        /\ d.generation = b.generation /\ d.uncertain = b.uncertain
        /\ d.ready = b.ready /\ d.starting = b.starting /\ d.timer = b.timer
        /\ d.pending = b.pending /\ d.child = b.child
    BY <2>2, <2>3, <2>4 DEF ClientType
  <2>6. d.uncertain = (c.uncertain \/ (c.command = "git" /\ c.pending # {}))
    BY ONLY <2>2, <2>5
  <2>7. ~c.closed /\ c.attached
    BY <1>1, <1>10, NoneIsNoGeneration DEF Processes, ChildKnown
  <2>8. m \in CallType /\ Frames(d, m, q, e)
    BY <1>1, <1>6, <1>10, <2>2, <2>5, <2>6, GivenUpFrames
  <2>9. ChildKnown(d)
    BY <2>2, <2>5, <2>7 DEF ChildKnown
  <2>10. Spent(d, q, n) /\ NotBegun(d, q)
    BY <1>1, <1>9, <1>10, <2>2, <2>5, <2>7 DEF Processes, Spent, NotBegun
  <2>11. Known(d, q)
    BY <1>1, <1>7, <1>10, <2>2, <2>5, <2>7 DEF Processes, Known
  <2>12. LeftAlone(d, m)
    BY <2>2, <2>5, <2>7 DEF LeftAlone
  <2> QED BY <1>1, <1>5, <2>5, <2>8, <2>9, <2>10, <2>11, <2>12 DEF Sound, Processes
<1>11. CASE c.child # g /\ d = Forgets(c, g) /\ m = k
  <2>1. /\ d \in ClientType /\ d.retiring = c.retiring \ {g}
        /\ d.command = c.command /\ d.closed = c.closed /\ d.attached = c.attached
        /\ d.generation = c.generation /\ d.timer = c.timer /\ d.uncertain = c.uncertain
        /\ d.ready = c.ready /\ d.starting = c.starting
        /\ d.pending = c.pending /\ d.child = c.child
    BY <1>1, <1>11 DEF Forgets, ClientType
  <2>2. Frames(d, m, q, e)
    <3>1. d.child = None \/ (d.child = c.child /\ c.child \in Generations)
      BY <1>1, <2>1
    <3>2. Frames(d, k, q, e)
      BY <1>1, <1>6, <2>1, <3>1, FramesStay
    <3> QED BY <1>11, <3>2
  <2>3. ChildKnown(d) /\ NotBegun(d, q) /\ LeftAlone(d, m)
    BY <1>1, <1>9, <1>11, <2>1 DEF Processes, ChildKnown, NotBegun, LeftAlone
  <2>4. Spent(d, q, n)
    BY <1>1, <1>5, <1>11, <2>1 DEF Processes, Spent
  <2>5. Known(d, q)
    BY <1>1, <1>7, <2>1 DEF Processes, Known
  <2> QED BY <1>1, <1>5, <1>11, <2>1, <2>2, <2>3, <2>4, <2>5 DEF Sound, Processes
<1> QED BY <1>10, <1>11
-----------------------------------------------------------------------------
(* The operations. *)

(* A report that no longer stands says nothing. *)
LEMMA Unreported ==
  ASSUME Sound(client, call, process, executed, faults)', report' = FALSE
  PROVE  ClientInv'
BY DEF ClientInv, QuietWhile

LEMMA FailsKeeps ==
  ASSUME ClientInv, ~client.closed, NEW k \in CallType, Moves(call, k),
         Fails(k, process), UNCHANGED executed
  PROVE  ClientInv'
<1>1. Sound(client, call, process, executed, faults) /\ client.attached
  BY DEF ClientInv, Sound, Processes, ChildKnown
<1>2. Sound(client, k, process, executed, faults)
  BY <1>1, MovesSound DEF LeftAlone
<1>3. Sound(Failed(client), Rejected(k), process', executed, faults + 1)
  BY <1>2, FailedSound DEF Fails
<1> QED BY <1>3, Unreported DEF Fails

LEMMA SpawnKeeps ==
  ASSUME ClientInv, ~client.closed, client.child = None,
         NEW c, c = [client EXCEPT !.timer = FALSE], NEW auto \in BOOLEAN,
         NEW k \in CallType, Moves(call, k),
         client' = Spawned(c, auto), process' = Begun(client.generation + 1),
         call' = k, report' = FALSE, UNCHANGED <<faults, executed>>
  PROVE  ClientInv'
<1>1. Sound(client, call, process, executed, faults) /\ client.attached /\ client \in ClientType
  BY DEF ClientInv, Sound, Processes, ChildKnown
<1>2. Sound(client, k, process, executed, faults)
  BY <1>1, MovesSound DEF LeftAlone
<1>3. /\ c \in ClientType /\ c.timer = FALSE /\ c.retiring = client.retiring
      /\ c.command = client.command /\ c.closed = client.closed
      /\ c.attached = client.attached /\ c.generation = client.generation
      /\ c.uncertain = client.uncertain /\ c.ready = client.ready
      /\ c.starting = client.starting /\ c.pending = client.pending /\ c.child = client.child
  BY <1>1 DEF ClientType
<1>4. Frames(c, k, process, executed)
  BY <1>2, <1>3, FramesStay DEF Sound, SameFrames
<1>5. Processes(c, k, process, faults)
  BY <1>2, <1>3 DEF Sound, Processes, ChildKnown, Spent, NotBegun, Known, LeftAlone
<1>6. Sound(c, k, process, executed, faults)
  BY <1>2, <1>3, <1>4, <1>5 DEF Sound
<1>7. PICK x : x = [NoProcess EXCEPT !.state = "up", !.hello = client.command = "git",
                                     !.inbox = IF client.command = "jobs" THEN {Probe} ELSE {}]
  OBVIOUS
<1>8. process' = [process EXCEPT ![c.generation + 1] = x]
  BY <1>3, <1>7 DEF Begun
<1>9. Sound(Spawned(c, auto), k, process', executed, faults)
  BY <1>3, <1>6, <1>7, <1>8, SpawnedSound
<1> QED BY <1>9, Unreported

LEMMA CollectedKeeps ==
  ASSUME NEW c, NEW k, Sound(c, k, process', executed', faults'),
         client' = Collected(c, k), call' = k, report' = FALSE
  PROVE  ClientInv'
BY CollectedSound, Unreported

(* Who calls startInner() is rejected by a closed client. *)
LEMMA WaitsForFacts ==
  ASSUME NEW c \in ClientType, ChildKnown(c)
  PROVE  /\ WaitsFor(c) \in {"rejected", "go", "restart", "starting"}
         /\ c.closed => WaitsFor(c) = "rejected"
         /\ Spawns(c) => ~c.closed /\ ~c.timer /\ c.child = None
BY DEF WaitsFor, Spawns, Restarting, ChildKnown, ClientType

LEMMA StartsForKeeps ==
  ASSUME ClientInv, NEW r \in Requests, call[r] \in Unwritten,
         StartsFor(r), UNCHANGED executed
  PROVE  ClientInv'
<1>1. /\ Sound(client, call, process, executed, faults) /\ client \in ClientType
      /\ ChildKnown(client) /\ call \in CallType /\ LeftAlone(client, call)
  BY DEF ClientInv, Sound, Processes
<1>2. ASSUME NEW s \in Unwritten \cup {"rejected"}
      PROVE  [call EXCEPT ![r] = s] \in CallType /\ Moves(call, [call EXCEPT ![r] = s])
  <2>1. \A x \in Requests \cup Observers :
          [call EXCEPT ![r] = s][x] = IF x = r THEN s ELSE call[x]
    BY <1>1 DEF CallType
  <2>2. [call EXCEPT ![r] = s] \in CallType
    BY <1>1, <1>2 DEF CallType, CallStates
  <2> QED BY <1>2, <2>1, <2>2, IdsAssumption DEF Moves
<1>3. CASE Spawns(client) /\ Fails([call EXCEPT ![r] = "starting"], process)
  BY <1>1, <1>2, <1>3, FailsKeeps, WaitsForFacts DEF Unwritten
<1>4. CASE /\ Spawns(client)
           /\ client' = Spawned(client, FALSE)
           /\ process' = Begun(client.generation + 1)
           /\ call' = [call EXCEPT ![r] = "starting"]
           /\ report' = FALSE /\ UNCHANGED faults
  <2>1. ~client.closed /\ ~client.timer /\ client.child = None
    BY <1>1, <1>4, WaitsForFacts
  <2>2. client = [client EXCEPT !.timer = FALSE]
    BY <1>1, <2>1 DEF ClientType
  <2>3. call' \in CallType /\ Moves(call, call')
    BY <1>2, <1>4 DEF Unwritten
  <2> QED BY <1>4, <2>1, <2>2, <2>3, SpawnKeeps
<1>5. CASE /\ ~Spawns(client)
           /\ call' = [call EXCEPT ![r] = WaitsFor(client)]
           /\ client' = Collected(client, call')
           /\ report' = FALSE /\ UNCHANGED <<process, faults>>
  <2>1. WaitsFor(client) \in Unwritten \cup {"rejected"}
    BY <1>1, WaitsForFacts DEF Unwritten
  <2>2. call' \in CallType /\ Moves(call, call')
    BY <1>2, <1>5, <2>1
  <2>3. LeftAlone(client, call')
    <3> SUFFICES ASSUME ~client.attached, NEW q \in Requests
                 PROVE  call'[q] \notin Waiting
      BY DEF LeftAlone
    <3>1. WaitsFor(client) = "rejected"
      BY <1>1, WaitsForFacts DEF ChildKnown
    <3>2. call'[q] = IF q = r THEN "rejected" ELSE call[q]
      BY <1>1, <1>5, <3>1 DEF CallType
    <3> QED BY <1>1, <3>2 DEF LeftAlone, Waiting
  <2>4. Sound(client, call', process, executed, faults)
    BY <1>1, <2>2, <2>3, MovesSound
  <2> QED BY <1>5, <2>4, CollectedKeeps
<1> QED BY <1>3, <1>4, <1>5 DEF StartsFor

LEMMA OneCallMoves ==
  ASSUME NEW c, NEW k \in CallType, PendingWaits(c, k),
         NEW y \in Requests \cup Observers, k[y] \in Unwritten
  PROVE  /\ [k EXCEPT ![y] = "rejected"] \in CallType
         /\ Moves(k, [k EXCEPT ![y] = "rejected"])
<1>1. \A x \in Requests \cup Observers :
        [k EXCEPT ![y] = "rejected"][x] = IF x = y THEN "rejected" ELSE k[x]
  BY DEF CallType
<1>2. [k EXCEPT ![y] = "rejected"] \in CallType
  BY DEF CallType, CallStates
<1>3. y \in Observers => k[y] = "new"
  BY DEF PendingWaits, Unwritten
<1> QED BY <1>1, <1>2, <1>3 DEF Moves

LEMMA GoesOnKeeps ==
  ASSUME ClientInv, NEW r \in Requests, GoesOn(r)
  PROVE  ClientInv'
<1>1. /\ Sound(client, call, process, executed, faults) /\ client \in ClientType
      /\ ChildKnown(client) /\ call \in CallType /\ LeftAlone(client, call)
      /\ PendingWaits(client, call)
  BY DEF ClientInv, Sound, Processes, Frames
<1>2. call[r] \in Unwritten /\ UNCHANGED executed
  BY DEF GoesOn, Unwritten
<1>3. [call EXCEPT ![r] = "rejected"] \in CallType /\ Moves(call, [call EXCEPT ![r] = "rejected"])
  BY <1>1, <1>2, OneCallMoves
<1>4. CASE client.ready /\ Written(r)
  <2>1. /\ client' = WithPending(client, r) /\ call' = Pended(call, r)
        /\ process' = Sends(process, client.child, r)
        /\ report' = FALSE /\ UNCHANGED faults
    BY <1>4 DEF Written, WithPending, Pended, Sends
  <2>2. Sound(client', call', process', executed, faults)
    BY <1>1, <1>2, <1>4, <2>1, WrittenSound
  <2> QED BY <1>2, <2>1, <2>2, Unreported
<1>5. CASE client.ready /\ Fails([call EXCEPT ![r] = "rejected"], process)
  BY <1>1, <1>2, <1>3, <1>5, FailsKeeps DEF ChildKnown
<1>6. CASE /\ call' = [call EXCEPT ![r] = "rejected"]
           /\ client' = Collected(client, call')
           /\ report' = FALSE /\ UNCHANGED <<process, faults>>
  <2>1. LeftAlone(client, call')
    <3>1. \A q \in Requests : call'[q] = IF q = r THEN "rejected" ELSE call[q]
      BY <1>1, <1>6 DEF CallType
    <3> QED BY <1>1, <3>1 DEF LeftAlone, Waiting
  <2>2. Sound(client, call', process, executed, faults)
    BY <1>1, <1>3, <1>6, <2>1, MovesSound
  <2> QED BY <1>2, <1>6, <2>2, CollectedKeeps
<1> QED BY <1>4, <1>5, <1>6 DEF GoesOn

LEMMA ObserveKeeps ==
  ASSUME ClientInv, NEW o \in Observers, Observe(o)
  PROVE  ClientInv'
<1>1. /\ Sound(client, call, process, executed, faults) /\ client \in ClientType
      /\ ChildKnown(client) /\ call \in CallType /\ PendingWaits(client, call)
  BY DEF ClientInv, Sound, Processes, Frames
<1>2. call[o] \in Unwritten /\ client.ready /\ UNCHANGED executed
  BY DEF Observe, Unwritten
<1>3. [call EXCEPT ![o] = "rejected"] \in CallType /\ Moves(call, [call EXCEPT ![o] = "rejected"])
  BY <1>1, <1>2, OneCallMoves
<1>4. CASE Fails([call EXCEPT ![o] = "rejected"], process)
  BY <1>1, <1>2, <1>3, <1>4, FailsKeeps DEF ChildKnown
<1>5. CASE /\ client' = [client EXCEPT !.pending = @ \cup {o}]
           /\ call' = [call EXCEPT ![o] = "pending"]
           /\ process' = [process EXCEPT ![client.child].inbox =
                            IF process[client.child].state = "up" THEN @ \cup {o} ELSE @]
           /\ UNCHANGED <<report, faults>>
  <2>1. Sound(client', call', process', executed, faults)
    <3>1. /\ client' = WithPending(client, o) /\ call' = Pended(call, o)
          /\ process' = Sends(process, client.child, o)
      BY <1>5 DEF WithPending, Pended, Sends
    <3> QED BY <1>1, <1>2, <3>1, WrittenSound
  <2>2. \A r \in Requests : call'[r] = call[r]
    BY <1>1, <1>5, IdsAssumption DEF CallType
  <2>3. \A g \in Generations : /\ Works(process', g) <=> Works(process, g)
                               /\ process'[g].inbox \subseteq process[g].inbox \cup {o}
    <3>1. process \in ProcessTable /\ client.child \in Generations
      BY <1>1, <1>2 DEF Sound, ChildKnown, ClientType
    <3>2. PICK ids : ids = IF process[client.child].state = "up"
                           THEN process[client.child].inbox \cup {o}
                           ELSE process[client.child].inbox
      OBVIOUS
    <3>3. PICK x : x = [process[client.child] EXCEPT !.inbox = ids]
      OBVIOUS
    <3>4. process' = [process EXCEPT ![client.child] = x]
      BY <1>5, <3>1, <3>2, <3>3 DEF ProcessTable
    <3>5. x.state = process[client.child].state /\ x.inbox = ids
      BY <3>1, <3>3 DEF ProcessTable, ProcessType
    <3>6. ids \subseteq process[client.child].inbox \cup {o}
      BY <3>2
    <3>7. \A g \in Generations : process'[g] = IF g = client.child THEN x ELSE process[g]
      BY <3>1, <3>4 DEF ProcessTable
    <3> QED BY <3>5, <3>6, <3>7 DEF Works
  <2>4. QuietWhile(report', call', process')
    BY <1>5, <2>2, <2>3, IdsAssumption DEF ClientInv, QuietWhile
  <2> QED BY <1>2, <1>5, <2>1, <2>4 DEF ClientInv
<1> QED BY <1>4, <1>5 DEF Observe

(* The request of an observer that timed out stays in the pending map. *)
LEMMA ObservationTimesOutKeeps ==
  ASSUME ClientInv, NEW o \in Observers, ObservationTimesOut(o)
  PROVE  ClientInv'
<1>1. Sound(client, call, process, executed, faults) /\ call \in CallType
  BY DEF ClientInv, Sound
<1>2. /\ call[o] = "pending" /\ report' = FALSE
      /\ UNCHANGED <<client, process, executed, faults>>
  BY DEF ObservationTimesOut
<1>3. /\ call' \in CallType
      /\ \A x \in Requests \cup Observers : call'[x] = IF x = o THEN "late" ELSE call[x]
  BY <1>1 DEF ObservationTimesOut, CallType, CallStates
<1>4. Frames(client, call', process, executed)
  BY <1>1, <1>2, <1>3, IdsAssumption
     DEF Sound, Frames, PendingWaits, WrittenOnly, Told, Unwritten
<1>5. LeftAlone(client, call')
  BY <1>1, <1>3, IdsAssumption DEF Sound, Processes, LeftAlone, Waiting
<1>6. Sound(client, call', process, executed, faults)
  BY <1>1, <1>3, <1>4, <1>5 DEF Sound, Processes
<1> QED BY <1>2, <1>6, Unreported

LEMMA MarkReadyKeeps ==
  ASSUME ClientInv, NEW g \in Generations, MarkReady(g)
  PROVE  ClientInv'
<1>1. Sound(client, call, process, executed, faults) /\ process[g].hello = TRUE
      /\ client.child # None
  BY NoneIsNoGeneration DEF ClientInv, MarkReady, Sound, ProcessTable, ProcessType
<1>2. Sound(client', call', process, executed, faults)
  BY <1>1, ReadySound DEF MarkReady
<1>3. Sound(client', call', process', executed, faults)
  BY <1>1, <1>2, GreetedSound DEF MarkReady
<1> QED BY <1>3, Unreported DEF MarkReady

LEMMA ChildFailsKeeps ==
  ASSUME ClientInv, ChildFails
  PROVE  ClientInv'
<1>1. call \in CallType /\ ChildKnown(client)
  BY DEF ClientInv, Sound, Processes
<1>2. Moves(call, call)
  BY DEF Moves
<1> QED BY <1>1, <1>2, FailsKeeps DEF ChildFails, ChildKnown

LEMMA ChildClosesKeeps ==
  ASSUME ClientInv, NEW g \in Generations, ChildCloses(g)
  PROVE  ClientInv'
<1>1. Sound(client, call, process, executed, faults)
  BY DEF ClientInv
<1>2. /\ process[g].state = "ended" /\ process' = Closes(process, g)
      /\ report' = FALSE /\ UNCHANGED <<executed, faults>>
  BY DEF ChildCloses, Closes
<1>3. CASE client.child = g
  <2>1. /\ client' = ChildOver(client)
        /\ call' = Rejected(call)
    BY <1>3 DEF ChildCloses, ChildOver
  <2>2. Sound(client', call', process', executed, faults)
    BY <1>1, <1>2, <1>3, <2>1, ClosesSound
  <2> QED BY <1>2, <2>2, Unreported
<1>4. CASE client.child # g
  <2>1. PICK d : d = Forgets(client, g)
    OBVIOUS
  <2>2. client' = Collected(d, call) /\ call' = call
    BY <1>4, <2>1 DEF ChildCloses, Forgets
  <2>3. Sound(d, call, process', executed, faults)
    BY <1>1, <1>2, <1>4, <2>1, ClosesSound
  <2> QED BY <1>2, <2>2, <2>3, CollectedKeeps
<1> QED BY <1>3, <1>4

LEMMA SameReport ==
  ASSUME Sound(client', call', process', executed', faults'), report' \in BOOLEAN,
         ClientInv, report' => report, report' => \A r \in Requests : call'[r] = call[r],
         \A g \in Generations : Works(process', g) =>
           Works(process, g) /\ process'[g].inbox \subseteq process[g].inbox
  PROVE  ClientInv'
<1>1. QuietWhile(report', call', process')
  BY DEF ClientInv, QuietWhile
<1> QED BY <1>1 DEF ClientInv

LEMMA AnswerKeeps ==
  ASSUME ClientInv, NEW g \in Generations, NEW id \in process[g].answers, Answer(g, id)
  PROVE  ClientInv'
<1>1. /\ Sound(client, call, process, executed, faults) /\ client \in ClientType
      /\ ChildKnown(client) /\ call \in CallType /\ client.child = g /\ g # None
      /\ process \in ProcessTable /\ process[g] \in ProcessType
      /\ executed' = executed
  BY NoneIsNoGeneration DEF ClientInv, Sound, Processes, Answer, ProcessTable
<1>2. CASE id \notin client.pending /\ Fails(call, process)
  <2>1. Moves(call, call)
    BY DEF Moves
  <2> QED BY <1>1, <1>2, <2>1, FailsKeeps DEF ChildKnown
<1>3. CASE id \in client.pending /\ id = Probe
  <2>1. PICK c : c = WithoutPending(client, Probe)
    OBVIOUS
  <2>2. /\ \/ client' = Ready(c) /\ call' = Admitted(call)
           \/ client' = c /\ call' = call
        /\ process' = Reads(process, g, Probe) /\ report' = FALSE /\ UNCHANGED faults
    BY <1>3, <2>1, IdsAssumption DEF Answer, Answered, WithoutPending, Reads, Fails
  <2>3. Sound(c, call, process', executed, faults)
    BY <1>1, <1>3, <2>1, <2>2, ProbedSound
  <2>4. c.child # None
    BY <1>1, <2>1 DEF WithoutPending, ClientType
  <2>5. Sound(client', call', process', executed, faults)
    BY <2>2, <2>3, <2>4, ReadySound
  <2> QED BY <1>1, <2>2, <2>5, Unreported
<1>4. CASE id \in client.pending /\ id # Probe
  <2>1. id \in Requests \cup Observers
    BY <1>1, <1>4 DEF ClientType, Ids
  <2>2. PICK c : c = WithoutPending(client, id)
    OBVIOUS
  <2>3. /\ call' = SettledCall(call, id) /\ client' = Collected(c, call')
        /\ process' = Reads(process, g, id) /\ UNCHANGED faults
        /\ report' = (report /\ id \in Observers /\ call[id] = "pending")
    BY <1>4, <2>2 DEF Answer, Answered, WithoutPending, SettledCall, Reads
  <2>4. Sound(c, call', process', executed, faults)
    BY <1>1, <1>4, <2>1, <2>2, <2>3, AnsweredSound
  <2>5. Sound(client', call', process', executed, faults)
    BY <2>3, <2>4, CollectedSound
  <2>6. report' => \A r \in Requests : call'[r] = call[r]
    BY <1>1, <2>1, <2>3, IdsAssumption DEF SettledCall, CallType
  <2>7. \A h \in Generations : Works(process', h) =>
          Works(process, h) /\ process'[h].inbox \subseteq process[h].inbox
    <3>1. PICK x : x = [process[g] EXCEPT !.answers = @ \ {id}]
      OBVIOUS
    <3>2. x.state = process[g].state /\ x.inbox = process[g].inbox
      BY <1>1, <3>1 DEF ProcessType
    <3>3. process' = [process EXCEPT ![g] = x]
      BY <1>1, <2>3, <3>1 DEF Reads, ProcessTable
    <3>4. \A h \in Generations : process'[h] = IF h = g THEN x ELSE process[h]
      BY <1>1, <3>3 DEF ProcessTable
    <3> QED BY <3>2, <3>4 DEF Works
  <2>8. report \in BOOLEAN
    BY DEF ClientInv
  <2> QED BY <1>1, <2>3, <2>5, <2>6, <2>7, <2>8, SameReport
<1> QED BY <1>2, <1>3, <1>4 DEF Answer

LEMMA TimerFiresKeeps ==
  ASSUME ClientInv, TimerFires
  PROVE  ClientInv'
<1>1. /\ Sound(client, call, process, executed, faults) /\ client \in ClientType
      /\ ChildKnown(client) /\ call \in CallType /\ LeftAlone(client, call)
      /\ PendingWaits(client, call) /\ Processes(client, call, process, faults)
      /\ Frames(client, call, process, executed)
  BY DEF ClientInv, Sound, Processes, Frames
<1>2. client.timer /\ executed' = executed
  BY DEF TimerFires
<1>3. ASSUME NEW s \in Unwritten \cup {"rejected"}
      PROVE  /\ Restarts(s) \in CallType /\ Moves(call, Restarts(s))
             /\ \A x \in Requests \cup Observers :
                  Restarts(s)[x] = IF call[x] = "restart" THEN s ELSE call[x]
  <2>1. \A x \in Requests \cup Observers :
          Restarts(s)[x] = IF call[x] = "restart" THEN s ELSE call[x]
    BY <1>1 DEF Restarts, CallType
  <2>2. Restarts(s) \in CallType
    BY <1>1, <1>3 DEF Restarts, CallType, CallStates
  <2>3. \A o \in Observers : call[o] # "restart"
    BY <1>1 DEF PendingWaits
  <2> QED BY <1>3, <2>1, <2>2, <2>3 DEF Moves, Unwritten
<1>4. CASE /\ client.closed \/ client.sealed
           /\ call' = Restarts("rejected")
           /\ client' = Collected([client EXCEPT !.timer = FALSE], call')
           /\ report' = FALSE /\ UNCHANGED <<process, faults>>
  <2>1. PICK c : c = [client EXCEPT !.timer = FALSE]
    OBVIOUS
  <2>2. /\ c \in ClientType /\ c.timer = FALSE /\ c.retiring = client.retiring
        /\ c.command = client.command /\ c.closed = client.closed
        /\ c.attached = client.attached /\ c.generation = client.generation
        /\ c.uncertain = client.uncertain /\ c.ready = client.ready
        /\ c.starting = client.starting /\ c.pending = client.pending /\ c.child = client.child
    BY <1>1, <2>1 DEF ClientType
  <2>3. Frames(c, call, process, executed)
    BY <1>1, <2>2, FramesStay DEF SameFrames, ClientType
  <2>4. Processes(c, call, process, faults)
    BY <1>1, <2>2 DEF Processes, ChildKnown, Spent, NotBegun, Known, LeftAlone
  <2>5. Sound(c, call, process, executed, faults)
    BY <1>1, <2>2, <2>3, <2>4 DEF Sound
  <2>6. LeftAlone(c, call')
    BY <1>1, <1>3, <1>4, <2>2 DEF LeftAlone, Waiting
  <2>7. Sound(c, call', process, executed, faults)
    BY <1>3, <1>4, <2>5, <2>6, MovesSound
  <2> QED BY <1>2, <1>4, <2>1, <2>7, CollectedKeeps
<1>5. CASE /\ ~client.closed
           /\ client' = Spawned([client EXCEPT !.timer = FALSE], TRUE)
           /\ process' = Begun(client.generation + 1)
           /\ call' = Restarts("chained")
           /\ report' = FALSE /\ UNCHANGED faults
  <2>1. client.child = None
    BY <1>1, <1>2, <1>5 DEF ChildKnown
  <2>2. Restarts("chained") \in CallType /\ Moves(call, Restarts("chained"))
    BY <1>3 DEF Unwritten
  <2> QED BY <1>2, <1>5, <2>1, <2>2, SpawnKeeps
<1>6. CASE ~client.closed /\ Fails(Restarts("chained"), process)
  <2>1. Restarts("chained") \in CallType /\ Moves(call, Restarts("chained"))
    BY <1>3 DEF Unwritten
  <2> QED BY <1>2, <1>6, <2>1, FailsKeeps
<1> QED BY <1>4, <1>5, <1>6 DEF TimerFires

LEMMA CloseKeeps ==
  ASSUME ClientInv, Close
  PROVE  ClientInv'
<1>1. Sound(client, call, process, executed, faults)
  BY DEF ClientInv
<1>2. PICK d : d = [GivenUp(client) EXCEPT !.closed = TRUE]
  OBVIOUS
<1>3. /\ client' = Collected(d, call') /\ call' = Rejected(call) /\ ~client.closed
      /\ process' = IF client.child = None THEN process ELSE Killed(process, client.child)
      /\ report' = FALSE /\ UNCHANGED <<executed, faults>>
  BY <1>2 DEF Close
<1>4. Sound(d, Rejected(call), process', executed, faults)
  BY <1>1, <1>2, <1>3, ClosedSound
<1> QED BY <1>3, <1>4, CollectedKeeps

(* What activity() counts is everything a process may still work for. *)
LEMMA ReadKeeps ==
  ASSUME ClientInv, Read
  PROVE  ClientInv'
<1>1. /\ Sound(client, call, process, executed, faults)
      /\ Processes(client, call, process, faults) /\ Frames(client, call, process, executed)
  BY DEF ClientInv, Sound
<1>2. /\ UNCHANGED <<client, call, process, executed, faults>>
      /\ report' = (client.attached => Idle(client, call))
  BY DEF Read
<1>3. QuietWhile(report', call, process)
  <2> SUFFICES ASSUME client.attached => Idle(client, call)
               PROVE  /\ \A r \in Requests : call[r] \notin Waiting
                      /\ \A g \in Generations : Works(process, g) =>
                           process[g].inbox \cap Requests = {}
    BY <1>2 DEF QuietWhile
  <2>1. CASE ~client.attached
    BY <1>1, <2>1 DEF Processes, LeftAlone, Known
  <2>2. CASE client.attached
    <3>1. /\ ~Operations(client, call) /\ client.retiring = {}
          /\ client.pending \subseteq Observers
      BY <2>2 DEF Idle
    <3>2. ASSUME NEW g \in Generations, Works(process, g)
          PROVE  process[g].inbox \cap Requests = {}
      <4>1. g = client.child
        BY <1>1, <3>1, <3>2 DEF Processes, Known
      <4>2. process[g].inbox \subseteq client.pending
        BY <1>1, <4>1, NoneIsNoGeneration DEF Frames, HoldsPending
      <4> QED BY <3>1, <4>2, IdsAssumption
    <3> QED BY <3>1, <3>2 DEF Operations
  <2> QED BY <2>1, <2>2
<1> QED BY <1>1, <1>2, <1>3 DEF ClientInv

(* A refusal is told before anything of the client has changed. *)
LEMMA RequestKeeps ==
  ASSUME ClientInv, NEW r \in Requests, Request(r)
  PROVE  ClientInv'
<1>1. call[r] = "new" /\ executed' = executed
  BY DEF Request
<1>2. CASE StartsFor(r)
  BY <1>1, <1>2, StartsForKeeps DEF Unwritten
<1>3. CASE /\ call' = [call EXCEPT ![r] = "rejected"]
           /\ UNCHANGED <<client, process, report, faults>>
  <2>1. /\ Sound(client, call, process, executed, faults) /\ call \in CallType
        /\ LeftAlone(client, call) /\ report \in BOOLEAN
        /\ QuietWhile(report, call, process)
    BY DEF ClientInv, Sound, Processes
  <2>2. call' \in CallType /\ Moves(call, call')
    BY <1>1, <1>3, <2>1, IdsAssumption DEF Moves, CallType, CallStates, Unwritten
  <2>3. \A q \in Requests : call'[q] \in Waiting => call[q] \in Waiting
    BY <1>3, <2>1 DEF CallType, Waiting
  <2>4. LeftAlone(client, call')
    BY <2>1, <2>3 DEF LeftAlone
  <2>5. Sound(client, call', process, executed, faults)
    BY <2>1, <2>2, <2>4, MovesSound
  <2>6. QuietWhile(report, call', process)
    BY <2>1, <2>3 DEF QuietWhile
  <2> QED BY <1>1, <1>3, <2>1, <2>5, <2>6 DEF ClientInv
<1> QED BY <1>2, <1>3 DEF Request

LEMMA CommitKeeps ==
  ASSUME ClientInv, Commit
  PROVE  ClientInv'
<1>1. /\ Sound(client, call, process, executed, faults) /\ client \in ClientType
      /\ Frames(client, call, process, executed) /\ Processes(client, call, process, faults)
      /\ report \in BOOLEAN /\ QuietWhile(report, call, process)
  BY DEF ClientInv, Sound
<1>2. PICK c : c = [client EXCEPT !.sealed = TRUE]
  OBVIOUS
<1>3. client' = c /\ UNCHANGED <<call, process, executed, report, faults>>
  BY <1>2 DEF Commit
<1>4. /\ c \in ClientType /\ c.timer = client.timer /\ c.retiring = client.retiring
      /\ c.command = client.command /\ c.closed = client.closed
      /\ c.attached = client.attached /\ c.generation = client.generation
      /\ c.uncertain = client.uncertain /\ c.ready = client.ready
      /\ c.starting = client.starting /\ c.pending = client.pending /\ c.child = client.child
  BY <1>1, <1>2 DEF ClientType
<1>5. Frames(c, call, process, executed)
  BY <1>1, <1>4, FramesStay DEF SameFrames, ClientType
<1>6. Processes(c, call, process, faults)
  BY <1>1, <1>4 DEF Processes, ChildKnown, Spent, NotBegun, Known, LeftAlone
<1>7. Sound(c, call, process, executed, faults)
  BY <1>1, <1>4, <1>5, <1>6 DEF Sound
<1> QED BY <1>1, <1>3, <1>7 DEF ClientInv

LEMMA ExecuteKeeps ==
  ASSUME ClientInv, NEW g \in Generations, NEW id \in process[g].inbox, Execute(g, id)
  PROVE  ClientInv'
<1>1. Sound(client, call, process, executed, faults) /\ report \in BOOLEAN
      /\ process \in ProcessTable /\ process[g] \in ProcessType
  BY DEF ClientInv, Sound, ProcessTable
<1>2. /\ process' = Runs(process, g, id)
      /\ executed' = IF id \in Requests THEN [executed EXCEPT ![id] = @ + 1] ELSE executed
      /\ UNCHANGED <<client, call, report, faults>>
  BY DEF Execute, Runs
<1>3. Sound(client, call, process', executed', faults)
  <2>1. process' = Runs(process, g, id)
    BY <1>2
  <2>2. executed' = IF id \in Requests THEN [executed EXCEPT ![id] = @ + 1] ELSE executed
    BY <1>2
  <2> QED BY <1>1, <2>1, <2>2, ExecutedSound, ZenonT(60)
<1>4. PICK x : x = [process[g] EXCEPT !.inbox = @ \ {id}, !.answers = @ \cup {id}]
  OBVIOUS
<1>5. x.state = process[g].state /\ x.inbox = process[g].inbox \ {id}
  BY <1>1, <1>4 DEF ProcessType
<1>6. process' = [process EXCEPT ![g] = x]
  BY <1>1, <1>2, <1>4 DEF Runs, ProcessTable
<1>7. \A h \in Generations : process'[h] = IF h = g THEN x ELSE process[h]
  BY <1>1, <1>6 DEF ProcessTable
<1>8. \A h \in Generations : Works(process', h) =>
        Works(process, h) /\ process'[h].inbox \subseteq process[h].inbox
  BY <1>5, <1>7 DEF Works
<1> QED BY <1>1, <1>2, <1>3, <1>8, SameReport

LEMMA EndKeeps ==
  ASSUME ClientInv, NEW g \in Generations, End(g)
  PROVE  ClientInv'
<1>1. Sound(client, call, process, executed, faults) /\ report \in BOOLEAN
      /\ process \in ProcessTable /\ process[g] \in ProcessType
  BY DEF ClientInv, Sound, ProcessTable
<1>2. /\ \/ process[g].state = "dying" /\ faults' = faults
         \/ process[g].state = "up" /\ faults < MaxFaults /\ faults' = faults + 1
      /\ process' = Exits(process, g)
      /\ UNCHANGED <<client, call, executed, report>>
  BY DEF End, Exits
<1>3. Sound(client, call, process', executed, faults')
  BY <1>1, <1>2, EndedSound
<1>4. PICK x : x = [process[g] EXCEPT !.state = "ended", !.inbox = {}]
  OBVIOUS
<1>5. x.state = "ended"
  BY <1>1, <1>4 DEF ProcessType
<1>6. process' = [process EXCEPT ![g] = x]
  BY <1>1, <1>2, <1>4 DEF Exits, ProcessTable
<1>7. \A h \in Generations : process'[h] = IF h = g THEN x ELSE process[h]
  BY <1>1, <1>6 DEF ProcessTable
<1>8. \A h \in Generations : Works(process', h) =>
        Works(process, h) /\ process'[h].inbox \subseteq process[h].inbox
  BY <1>5, <1>7 DEF Works
<1> QED BY <1>1, <1>2, <1>3, <1>8, SameReport
-----------------------------------------------------------------------------
(* The invariant. *)
LEMMA ClientStarts == Init => ClientInv
<1> SUFFICES ASSUME Init PROVE ClientInv
  OBVIOUS
<1>1. /\ client \in ClientType /\ client.child = None /\ client.generation = 0
      /\ client.pending = {} /\ client.retiring = {} /\ client.attached = TRUE
      /\ client.ready = FALSE /\ client.starting = FALSE /\ client.closed = FALSE
  <2>1. PICK name \in {"git", "jobs"} :
          client = [command |-> name, closed |-> FALSE, ready |-> FALSE, starting |-> FALSE,
                    auto |-> FALSE, timer |-> FALSE, child |-> None, generation |-> 0,
                    pending |-> {}, retiring |-> {}, uncertain |-> FALSE, attached |-> TRUE,
                    sealed |-> FALSE]
    BY DEF Init
  <2> QED BY <2>1 DEF ClientType
<1>2. /\ call \in CallType /\ \A x \in Requests \cup Observers : call[x] = "new"
  BY DEF Init, CallType, CallStates, Unwritten
<1>3. /\ process \in ProcessTable
      /\ \A g \in Generations : /\ process[g] = NoProcess /\ process[g].state = "none"
                                /\ process[g].inbox = {} /\ process[g].answers = {}
  BY DEF Init, ProcessTable, ProcessType, NoProcess
<1>4. executed \in [Requests -> Nat] /\ \A r \in Requests : executed[r] = 0
  BY DEF Init
<1>5. faults = 0 /\ faults \in 0..MaxFaults /\ report = FALSE
  BY FaultsAssumption DEF Init
<1>6. Frames(client, call, process, executed)
  BY <1>1, <1>2, <1>3, <1>4
     DEF Frames, PendingWaits, WrittenOnly, OnePlace, HoldsPending, Told
<1>7. Processes(client, call, process, faults)
  BY <1>1, <1>3, <1>5
     DEF Processes, ChildKnown, Spent, NotBegun, Known, Works, LeftAlone
<1> QED BY <1>1, <1>2, <1>3, <1>4, <1>5, <1>6, <1>7 DEF ClientInv, Sound, QuietWhile

LEMMA ClientStep == ClientInv /\ [Next]_vars => ClientInv'
<1> SUFFICES ASSUME ClientInv, [Next]_vars PROVE ClientInv'
  OBVIOUS
<1>1. CASE UNCHANGED vars
  BY <1>1 DEF vars, ClientInv
<1>2. ASSUME NEW r \in Requests, Request(r) PROVE ClientInv'
  BY <1>2, RequestKeeps
<1>3. ASSUME NEW r \in Requests, LooksAgain(r) PROVE ClientInv'
  BY <1>3, StartsForKeeps DEF LooksAgain, Unwritten
<1>4. ASSUME NEW r \in Requests, GoesOn(r) PROVE ClientInv'
  BY <1>4, GoesOnKeeps
<1>5. ASSUME NEW o \in Observers, Observe(o) \/ ObservationTimesOut(o) PROVE ClientInv'
  BY <1>5, ObserveKeeps, ObservationTimesOutKeeps
<1>6. ASSUME NEW g \in Generations, Event(g) PROVE ClientInv'
  BY <1>6, MarkReadyKeeps, AnswerKeeps, ChildClosesKeeps DEF Event
<1>7. ASSUME NEW g \in Generations, End(g) \/ \E id \in process[g].inbox : Execute(g, id)
      PROVE  ClientInv'
  BY <1>7, EndKeeps, ExecuteKeeps
<1>8. CASE ChildFails \/ TimerFires \/ Close \/ Read \/ Commit
  BY <1>8, ChildFailsKeeps, TimerFiresKeeps, CloseKeeps, ReadKeeps, CommitKeeps
<1> QED BY <1>1, <1>2, <1>3, <1>4, <1>5, <1>6, <1>7, <1>8 DEF Next, Continuation

LEMMA ClientInvShows == ClientInv => ClientIsHonest /\ AnswersAreExpected
<1> SUFFICES ASSUME ClientInv PROVE ClientIsHonest /\ AnswersAreExpected
  OBVIOUS
<1>1. /\ Frames(client, call, process, executed)
      /\ Processes(client, call, process, faults)
      /\ QuietWhile(report, call, process)
  BY DEF ClientInv, Sound
<1>2. NothingReplayed
  BY <1>1 DEF Frames, OnePlace, Told, NothingReplayed
<1>3. Tracked
  BY <1>1 DEF Processes, Known, Works, Tracked, Alive
<1>4. IdleIsQuiet
  BY <1>1 DEF QuietWhile, Works, IdleIsQuiet, Alive
<1>5. AnswersAreExpected
  BY <1>1 DEF Frames, HoldsPending, AnswersAreExpected
<1> QED BY <1>2, <1>3, <1>4, <1>5 DEF ClientIsHonest

(* The client's fields, its calls, the frames of every process and what    *)
(* took effect agree, whatever fails (the whole of GjcNativeClient).       *)
THEOREM ClientInvHolds == Spec => []ClientInv
BY ClientStarts, ClientStep, PTL DEF Spec

(* No request is replayed, none that may have taken effect is rejected     *)
(* without a mark, no process that may still work is forgotten, and an     *)
(* idle report is true until something moves: for any number of requests,  *)
(* observers and failures.                                                 *)
THEOREM ClientIsAlwaysHonest == Spec => []ClientIsHonest
BY ClientInvHolds, ClientInvShows, PTL

(* No answer of the current child is taken for a fault: each finds its     *)
(* request in the pending map, late ones too (decode).                     *)
THEOREM AnswersAlwaysExpected == Spec => []AnswersAreExpected
BY ClientInvHolds, ClientInvShows, PTL
=============================================================================
