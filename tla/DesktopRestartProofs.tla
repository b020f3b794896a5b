------------------------ MODULE DesktopRestartProofs ------------------------
(***************************************************************************)
(* Theorems about the restart authority, for any owners, controllers, any  *)
(* drafts and any number of attempts: alone in the first part, under its   *)
(* controller in the second.                                               *)
(*                                                                         *)
(* The authority's functions are applied one after the other to its state  *)
(* (an entry point first expires, then acts), so the invariant is stated   *)
(* of a state record, and a lemma says of each function that it keeps it.  *)
(*                                                                         *)
(* The controller's steps are not steps of DesktopRestartAuthority: most   *)
(* change the authority and the owner of the drafts at once.  What is      *)
(* proved of the authority alone is proved again for them, from the same   *)
(* lemmas about its functions, and then tied to the handler under way.     *)
(***************************************************************************)
EXTENDS DesktopRestartProperties, RestartControlProperties, FiniteSetTheorems, TLAPS

AttemptTable == [Attempts -> AttemptRecord]

AuthType ==
  [ingress : Nat, revision : Nat, current : 0..MaxAttempts,
   sequence : 0..MaxAttempts, lost : SUBSET Epochs, latch : BOOLEAN,
   att : AttemptTable]

Cleaning(st) == {a \in Attempts : st.att[a].cleanup \in {"joining", "releasing"}}

(* Attempts begin in their order, and the current one has not been given up. *)
Orderly(st) ==
  /\ st.current <= st.sequence
  /\ st.current # 0 => st.att[st.current].cleanup = "none"
  /\ \A a \in Attempts : a > st.sequence => st.att[a].cleanup = "none"

(* An owner that attempt a (whose record is m) found idle is idle, and the  *)
(* worker is fenced for a, as long as the generation is the one it was read *)
(* at; a clean snapshot found every owner idle.                             *)
ReadsHold(m, a, b, n, f) ==
  /\ \A o \in Owners : m.readGen[o] <= n[o]
  /\ \A o \in Owners : m.seen[o] = "idle" /\ m.readGen[o] = n[o] =>
       b[o] = FALSE /\ (o = Worker => f.id = a /\ f.acknowledged = TRUE)
  /\ m.step \in {"returned", "rereturned"} /\ m.clean = TRUE =>
       \A o \in Owners : m.seen[o] = "idle"

(* A committed attempt is the current one, over, and alone.                 *)
Sealed(st, g, f) ==
  \A a \in Attempts : st.att[a].phase = "committed" =>
    /\ st.current = a /\ st.att[a].step = "done"
    /\ st.ingress = 0 /\ g = 0
    /\ f.id = a /\ f.acknowledged = TRUE

Sound(st, g, b, n, f) ==
  /\ st \in AuthType
  /\ Orderly(st)
  /\ st.ingress = g + Cardinality(Cleaning(st))
  /\ \A a \in Attempts : ReadsHold(st.att[a], a, b, n, f)
  /\ Sealed(st, g, f)

Surroundings ==
  /\ guests \in Nat
  /\ busy \in [Owners -> BOOLEAN]
  /\ gen \in [Owners -> Nat]
  /\ fence \in [id : 0..MaxAttempts, acknowledged : BOOLEAN]

IInv == Surroundings /\ Sound(auth, guests, busy, gen, fence)
-----------------------------------------------------------------------------
(* The sets of attempts are finite, and a cleanup that begins or ends       *)
(* changes their number by one.                                             *)
LEMMA CleaningIsFinite ==
  ASSUME NEW st
  PROVE  IsFiniteSet(Cleaning(st)) /\ Cardinality(Cleaning(st)) \in Nat
<1>1. IsFiniteSet(Attempts)
  BY FS_Interval, BoundsAssumption, SMT DEF Attempts
<1> QED BY <1>1, FS_Subset, FS_CardinalityType DEF Cleaning

LEMMA CleaningGrows ==
  ASSUME NEW st, NEW new, NEW a \in Attempts, a \notin Cleaning(st),
         Cleaning(new) = Cleaning(st) \cup {a}
  PROVE  Cardinality(Cleaning(new)) = Cardinality(Cleaning(st)) + 1
BY CleaningIsFinite, FS_AddElement

LEMMA CleaningShrinks ==
  ASSUME NEW st, NEW new, NEW a \in Attempts, a \in Cleaning(st),
         Cleaning(new) = Cleaning(st) \ {a}
  PROVE  /\ Cardinality(Cleaning(new)) = Cardinality(Cleaning(st)) - 1
         /\ Cardinality(Cleaning(st)) > 0
<1>1. Cardinality(Cleaning(new)) = Cardinality(Cleaning(st)) - 1
  BY CleaningIsFinite, FS_RemoveElement
<1> QED BY <1>1, CleaningIsFinite

LEMMA NobodyCleans ==
  ASSUME NEW st, Cardinality(Cleaning(st)) = 0
  PROVE  Cleaning(st) = {}
BY CleaningIsFinite, FS_EmptySet
-----------------------------------------------------------------------------
(* What a change of one attempt's record does to the authority. *)

LEMMA TableChanged ==
  ASSUME NEW t \in AttemptTable, NEW a \in Attempts, NEW m \in AttemptRecord
  PROVE  /\ [t EXCEPT ![a] = m] \in AttemptTable
         /\ \A c \in Attempts : [t EXCEPT ![a] = m][c] = IF c = a THEN m ELSE t[c]
BY DEF AttemptTable

(* Attempt a now has the record m, and is current or given up as before:    *)
(* only its reads, its clocks or its local variables change.                *)
Moved(st, new, a, m) ==
  /\ new \in AuthType /\ m \in AttemptRecord
  /\ new.att = [st.att EXCEPT ![a] = m]
  /\ new.ingress = st.ingress /\ new.current = st.current /\ new.sequence = st.sequence
  /\ \/ m.cleanup = st.att[a].cleanup
     \/ m.cleanup = "releasing" /\ st.att[a].cleanup = "joining"
  /\ m.phase = "committed" => st.att[a].phase = "committed" /\ m.step = "done"

LEMMA AttemptMoves ==
  ASSUME NEW st, NEW new, NEW a \in Attempts, NEW m,
         NEW g, NEW b, NEW n, NEW f,
         Sound(st, g, b, n, f), Moved(st, new, a, m), ReadsHold(m, a, b, n, f)
  PROVE  Sound(new, g, b, n, f)
<1>1. st \in AuthType /\ st.att \in AttemptTable
  BY DEF Sound, AuthType
<1>2. \A c \in Attempts : new.att[c] = IF c = a THEN m ELSE st.att[c]
  BY <1>1, TableChanged DEF Moved
<1>3. Cleaning(new) = Cleaning(st)
  BY <1>2 DEF Cleaning, Moved
<1>4. Orderly(new)
  <2>1. \A c \in Attempts : st.att[c].cleanup = "none" => new.att[c].cleanup = "none"
    BY <1>2 DEF Moved
  <2>2. st.current # 0 => st.current \in Attempts
    BY <1>1, BoundsAssumption DEF AuthType, Attempts
  <2> QED BY <2>1, <2>2 DEF Orderly, Sound, Moved
<1>5. \A c \in Attempts : ReadsHold(new.att[c], c, b, n, f)
  BY <1>2 DEF Sound
<1>6. Sealed(new, g, f)
  BY <1>2 DEF Sound, Sealed, Moved
<1> QED BY <1>3, <1>4, <1>5, <1>6 DEF Sound, Moved
-----------------------------------------------------------------------------
(* The authority's functions. *)

(* What each of them makes of the record of the attempt it is about.        *)
LEMMA OverRecord ==
  ASSUME NEW x \in AttemptRecord
  PROVE  LET y == Over(x)
         IN /\ y \in AttemptRecord
            /\ y.cleanup = x.cleanup /\ y.phase = x.phase /\ y.step = "done"
            /\ y.readGen = [o \in Owners |-> 0] /\ y.seen = [o \in Owners |-> "pending"]
<1> DEFINE zero == [o \in Owners |-> 0]
           pending == [o \in Owners |-> "pending"]
           y == [x EXCEPT !.step = "done", !.late = FALSE, !.clean = FALSE,
                          !.readRevision = 0, !.readGen = zero, !.seen = pending]
<1>1. zero \in [Owners -> Nat] /\ pending \in [Owners -> {"pending", "idle", "blocked"}]
  OBVIOUS
<1>2. Over(x) = y
  BY DEF Over
<1> HIDE DEF zero, pending
<1>3. /\ y \in AttemptRecord
      /\ y.cleanup = x.cleanup /\ y.phase = x.phase /\ y.step = "done"
      /\ y.readGen = zero /\ y.seen = pending
  BY <1>1 DEF AttemptRecord, Steps
<1> QED BY <1>2, <1>3 DEF zero, pending

LEMMA AskingRecord ==
  ASSUME NEW x \in AttemptRecord, NEW step \in Steps, NEW revision \in Nat,
         gen \in [Owners -> Nat]
  PROVE  LET y == Asking(x, step, revision)
         IN /\ y \in AttemptRecord
            /\ y.cleanup = x.cleanup /\ y.phase = x.phase /\ y.step = step
            /\ y.readGen = gen /\ y.seen = [o \in Owners |-> "pending"]
<1>1. ASSUME NEW pending \in [Owners -> {"pending", "idle", "blocked"}]
      PROVE  LET y == [x EXCEPT !.step = step, !.readRevision = revision,
                                !.readGen = gen, !.seen = pending]
             IN /\ y \in AttemptRecord
                /\ y.cleanup = x.cleanup /\ y.phase = x.phase /\ y.step = step
                /\ y.readGen = gen /\ y.seen = pending
  BY DEF AttemptRecord, Steps
<1>2. [o \in Owners |-> "pending"] \in [Owners -> {"pending", "idle", "blocked"}]
  OBVIOUS
<1> QED BY <1>1, <1>2, Zenon DEF Asking

LEMMA ProvenRecord ==
  ASSUME NEW x \in AttemptRecord, NEW revision \in Nat
  PROVE  LET y == Proven(x, revision)
         IN /\ y \in AttemptRecord
            /\ y.cleanup = x.cleanup /\ y.phase = "prepared" /\ y.step = "holding"
            /\ y.readGen = x.readGen /\ y.seen = x.seen
BY DEF Proven, AttemptRecord, Steps, Phases

LEMMA GrantedRecord ==
  ASSUME NEW x \in AttemptRecord
  PROVE  LET y == Granted(x)
         IN /\ y \in AttemptRecord
            /\ y.cleanup = x.cleanup /\ y.phase = "committed" /\ y.step = x.step
            /\ y.readGen = x.readGen /\ y.seen = x.seen /\ y.clean = x.clean
BY DEF Granted, AttemptRecord, Phases

LEMMA GivenUpRecord ==
  ASSUME NEW x \in AttemptRecord
  PROVE  LET y == GivenUp(x)
         IN /\ y \in AttemptRecord
            /\ y.cleanup = "joining" /\ y.phase = "reopened" /\ y.step = x.step
            /\ y.readGen = x.readGen /\ y.seen = x.seen /\ y.clean = x.clean
<1>1. ASSUME NEW t \in {"none", "ok", "failed"}
      PROVE  LET y == [x EXCEPT !.phase = "reopened", !.cleanup = "joining", !.answer = t]
             IN /\ y \in AttemptRecord
                /\ y.cleanup = "joining" /\ y.phase = "reopened" /\ y.step = x.step
                /\ y.readGen = x.readGen /\ y.seen = x.seen /\ y.clean = x.clean
  BY DEF AttemptRecord, Phases
<1>2. (IF x.committing /\ x.answer = "none" THEN "failed" ELSE x.answer)
        \in {"none", "ok", "failed"}
  BY DEF AttemptRecord
<1> QED BY <1>1, <1>2, Zenon DEF GivenUp

(* A function that ended forgets its reads.                                  *)
LEMMA EndedSound ==
  ASSUME NEW st, NEW a \in Attempts, NEW g, NEW b, NEW n \in [Owners -> Nat], NEW f,
         Sound(st, g, b, n, f)
  PROVE  /\ Sound(Ended(st, a), g, b, n, f)
         /\ Ended(st, a).current = st.current
         /\ Ended(st, a).ingress = st.ingress
         /\ Ended(st, a).att = [st.att EXCEPT ![a] = Over(st.att[a])]
<1>1. st \in AuthType /\ st.att \in AttemptTable /\ st.att[a] \in AttemptRecord
  BY DEF Sound, AuthType, AttemptTable
<1>2. PICK m : m = Over(st.att[a])
  OBVIOUS
<1>3. /\ m \in AttemptRecord
      /\ m.cleanup = st.att[a].cleanup /\ m.phase = st.att[a].phase /\ m.step = "done"
      /\ m.readGen = [o \in Owners |-> 0] /\ m.seen = [o \in Owners |-> "pending"]
  BY <1>1, <1>2, OverRecord
<1>4. PICK new : new = Ended(st, a)
  OBVIOUS
<1>5. new = [st EXCEPT !.att = [st.att EXCEPT ![a] = m]]
  BY <1>2, <1>4 DEF Ended
<1>6. /\ new \in AuthType /\ new.att = [st.att EXCEPT ![a] = m]
      /\ new.ingress = st.ingress /\ new.current = st.current
      /\ new.sequence = st.sequence
  BY <1>1, <1>3, <1>5, TableChanged DEF AuthType
<1>7. ReadsHold(m, a, b, n, f)
  BY <1>3 DEF ReadsHold
<1>8. Moved(st, new, a, m)
  BY <1>3, <1>6 DEF Moved
<1>9. Sound(new, g, b, n, f)
  BY <1>7, <1>8, AttemptMoves
<1> QED BY <1>2, <1>4, <1>6, <1>9

(* A snapshot that begins has found nothing yet; a committed attempt takes   *)
(* none.                                                                     *)
LEMMA ReadingSound ==
  ASSUME NEW st, NEW a \in Attempts, NEW step \in {"reading", "rereading"},
         NEW g, NEW b, NEW f, gen \in [Owners -> Nat],
         Sound(st, g, b, gen, f), st.att[a].phase # "committed"
  PROVE  Sound(Reading(st, a, step), g, b, gen, f)
<1>1. st \in AuthType /\ st.att \in AttemptTable /\ st.att[a] \in AttemptRecord
  BY DEF Sound, AuthType, AttemptTable
<1>2. PICK m : m = Asking(st.att[a], step, st.revision)
  OBVIOUS
<1>3. /\ m \in AttemptRecord
      /\ m.cleanup = st.att[a].cleanup /\ m.phase = st.att[a].phase /\ m.step = step
      /\ m.readGen = gen /\ m.seen = [o \in Owners |-> "pending"]
  <2>1. st.revision \in Nat /\ step \in Steps
    BY <1>1 DEF AuthType, Steps
  <2> QED BY <1>1, <1>2, <2>1, AskingRecord
<1>4. PICK new : new = Reading(st, a, step)
  OBVIOUS
<1>5. new = [st EXCEPT !.att = [st.att EXCEPT ![a] = m]]
  BY <1>2, <1>4 DEF Reading
<1>6. /\ new \in AuthType /\ new.att = [st.att EXCEPT ![a] = m]
      /\ new.ingress = st.ingress /\ new.current = st.current
      /\ new.sequence = st.sequence
  BY <1>1, <1>3, <1>5, TableChanged DEF AuthType
<1>7. ReadsHold(m, a, b, gen, f)
  BY <1>3 DEF ReadsHold
<1>8. Moved(st, new, a, m)
  BY <1>3, <1>6 DEF Moved
<1>9. Sound(new, g, b, gen, f)
  BY <1>7, <1>8, AttemptMoves
<1> QED BY <1>4, <1>9

(* Giving an attempt up moves it from current to cleaning up; the cleanup is *)
(* one more ingress.  A committed attempt is not given up.                   *)
LEMMA ReopenedSound ==
  ASSUME NEW st, NEW a \in Attempts, NEW g, NEW b, NEW n, NEW f,
         g \in Nat, Sound(st, g, b, n, f)
  PROVE  Sound(Reopened(st, a), g, b, n, f)
<1>1. st \in AuthType /\ st.att \in AttemptTable /\ st.att[a] \in AttemptRecord
  BY DEF Sound, AuthType, AttemptTable
<1>2. CASE st.current # a \/ st.att[a].phase = "committed"
  BY <1>2 DEF Reopened
<1>3. CASE st.current = a /\ st.att[a].phase # "committed"
  <2>1. PICK m : m = GivenUp(st.att[a])
    OBVIOUS
  <2>2. /\ m \in AttemptRecord
        /\ m.cleanup = "joining" /\ m.phase = "reopened" /\ m.step = st.att[a].step
        /\ m.readGen = st.att[a].readGen /\ m.seen = st.att[a].seen
        /\ m.clean = st.att[a].clean
    BY <1>1, <2>1, GivenUpRecord
  <2>3. PICK new : new = Reopened(st, a)
    OBVIOUS
  <2>4. /\ new \in AuthType /\ new.att = [st.att EXCEPT ![a] = m]
        /\ new.ingress = st.ingress + 1 /\ new.current = 0
        /\ new.sequence = st.sequence
    <3>1. PICK mid : mid = [st EXCEPT !.current = 0, !.revision = st.revision + 1,
                                      !.att = [st.att EXCEPT ![a] = m]]
      OBVIOUS
    <3>2. new = Acquired(mid)
      BY <1>3, <2>1, <2>3, <3>1 DEF Reopened
    <3>3. st.revision + 1 \in Nat /\ 0 \in 0..MaxAttempts
      BY <1>1, BoundsAssumption DEF AuthType
    <3>4. /\ mid \in AuthType /\ mid.att = [st.att EXCEPT ![a] = m]
          /\ mid.ingress = st.ingress /\ mid.current = 0 /\ mid.sequence = st.sequence
      BY <1>1, <2>2, <3>1, <3>3, TableChanged DEF AuthType
    <3>5. mid.ingress + 1 \in Nat /\ mid.revision + 1 \in Nat
      BY <3>4 DEF AuthType
    <3>6. /\ new \in AuthType /\ new.att = mid.att /\ new.ingress = mid.ingress + 1
          /\ new.current = mid.current /\ new.sequence = mid.sequence
      BY <3>2, <3>4, <3>5 DEF AuthType, Acquired
    <3> QED BY <3>4, <3>6
  <2>5. \A c \in Attempts : new.att[c] = IF c = a THEN m ELSE st.att[c]
    BY <1>1, <2>2, <2>4, TableChanged
  <2>6. st.att[a].cleanup = "none" /\ a <= st.sequence
    BY <1>3 DEF Sound, Orderly, Attempts
  <2>7. Orderly(new)
    BY <1>1, <2>4, <2>5, <2>6 DEF Sound, Orderly, Attempts, AuthType
  <2>8. new.ingress = g + Cardinality(Cleaning(new))
    <3>1. a \notin Cleaning(st) /\ Cleaning(new) = Cleaning(st) \cup {a}
      BY <2>2, <2>5, <2>6 DEF Cleaning
    <3>2. /\ Cardinality(Cleaning(new)) = Cardinality(Cleaning(st)) + 1
          /\ Cardinality(Cleaning(st)) \in Nat
      BY <3>1, CleaningGrows, CleaningIsFinite
    <3> QED BY <2>4, <3>2 DEF Sound
  <2>9. \A c \in Attempts : ReadsHold(new.att[c], c, b, n, f)
    BY <2>2, <2>5 DEF Sound, ReadsHold
  <2>10. Sealed(new, g, f)
    <3>1. \A c \in Attempts : st.att[c].phase # "committed"
      BY <1>3 DEF Sound, Sealed
    <3> QED BY <2>2, <2>5, <3>1 DEF Sealed
  <2> QED BY <2>3, <2>4, <2>7, <2>8, <2>9, <2>10 DEF Sound
<1> QED BY <1>2, <1>3

(* expire is a reopen or nothing. *)
LEMMA ExpiredSound ==
  ASSUME NEW st, NEW g \in Nat, NEW b, NEW n, NEW f, Sound(st, g, b, n, f)
  PROVE  /\ Sound(Expired(st), g, b, n, f)
         /\ Expired(st).current # 0 => Expired(st) = st
<1>1. st.current # 0 => st.current \in Attempts
  BY BoundsAssumption DEF Sound, AuthType, Attempts
<1>2. CASE Expired(st) = st
  BY <1>2
<1>3. CASE /\ Expired(st) = Reopened(st, st.current) /\ st.current # 0
           /\ st.att[st.current].phase = "prepared"
  <2>1. Reopened(st, st.current).current = 0
    BY <1>3 DEF Reopened, Acquired, Sound, AuthType
  <2>2. PICK a \in Attempts : a = st.current
    BY <1>1, <1>3
  <2>3. Sound(Reopened(st, a), g, b, n, f)
    BY ReopenedSound
  <2> QED BY <1>3, <2>1, <2>2, <2>3, Zenon
<1> QED BY <1>2, <1>3 DEF Expired

(* Entering and leaving: the counter and the guests move together.           *)
Counted(st, new, by) ==
  /\ new \in AuthType
  /\ new.att = st.att /\ new.current = st.current /\ new.sequence = st.sequence
  /\ new.ingress = st.ingress + by

NoneCommitted(st) == \A a \in Attempts : st.att[a].phase # "committed"

LEMMA IngressSound ==
  ASSUME NEW st, NEW new, NEW by \in Int, NEW g \in Nat, NEW b, NEW n, NEW f,
         Sound(st, g, b, n, f), Counted(st, new, by), NoneCommitted(st)
  PROVE  Sound(new, g + by, b, n, f)
<1>1. Cleaning(new) = Cleaning(st)
  BY DEF Cleaning, Counted
<1>2. new.ingress = g + by + Cardinality(Cleaning(new))
  BY <1>1, CleaningIsFinite DEF Sound, AuthType, Counted
<1>3. Sealed(new, g + by, f)
  BY DEF Sealed, Counted, NoneCommitted
<1>4. Orderly(new)
  BY DEF Sound, Orderly, Counted
<1>5. \A a \in Attempts : ReadsHold(new.att[a], a, b, n, f)
  BY DEF Sound, Counted
<1> QED BY <1>2, <1>3, <1>4, <1>5 DEF Sound, Counted

(* The worker's fence moves and its generation with it: whoever found it     *)
(* idle before holds an old generation.                                      *)
LEMMA WorkerSound ==
  ASSUME NEW st, NEW g, NEW b, NEW n \in [Owners -> Nat], NEW f, NEW h,
         Sound(st, g, b, n, f),
         \A a \in Attempts : st.att[a].phase = "committed" => h.id = a /\ h.acknowledged = TRUE
  PROVE  Sound(st, g, b, [n EXCEPT ![Worker] = @ + 1], h)
<1>0. PICK k : k = [n EXCEPT ![Worker] = @ + 1]
  OBVIOUS
<1>1. \A o \in Owners : k[o] = IF o = Worker THEN n[o] + 1 ELSE n[o]
  BY <1>0
<1>2. ASSUME NEW a \in Attempts
      PROVE  ReadsHold(st.att[a], a, b, k, h)
  <2>1. PICK m \in AttemptRecord : m = st.att[a]
    BY DEF Sound, AuthType, AttemptTable
  <2>2. ReadsHold(m, a, b, n, f)
    BY <2>1 DEF Sound
  <2>3. \A o \in Owners : m.readGen[o] \in Nat /\ n[o] \in Nat
    BY DEF AttemptRecord
  <2>4. \A o \in Owners :
          /\ m.readGen[o] <= k[o]
          /\ o = Worker => m.readGen[o] # k[o]
          /\ o # Worker => k[o] = n[o]
    BY <1>1, <2>2, <2>3 DEF ReadsHold
  <2>5. \A p \in Owners : m.readGen[p] <= k[p]
    BY <2>4
  <2>6. ASSUME NEW p \in Owners, m.seen[p] = "idle", m.readGen[p] = k[p]
        PROVE  b[p] = FALSE /\ (p = Worker => h.id = a /\ h.acknowledged = TRUE)
    <3>1. p # Worker /\ m.readGen[p] = n[p]
      BY <2>4, <2>6, Zenon
    <3> QED BY <2>2, <2>4, <2>6, <3>1, Zenon DEF ReadsHold
  <2>7. ReadsHold(m, a, b, k, h)
    BY <2>2, <2>5, <2>6, Zenon DEF ReadsHold
  <2> QED BY <2>1, <2>7
<1>3. Sealed(st, g, h)
  BY DEF Sound, Sealed
<1>4. Sound(st, g, b, k, h)
  BY <1>2, <1>3 DEF Sound
<1> QED BY <1>0, <1>4

(* An owner's work begins or ends, and its generation tells.                 *)
LEMMA OwnerSound ==
  ASSUME NEW st, NEW g, NEW b, NEW n \in [Owners -> Nat], NEW f, NEW c, NEW o \in Owners,
         Sound(st, g, b, n, f), \A p \in Owners \ {o} : c[p] = b[p]
  PROVE  Sound(st, g, c, [n EXCEPT ![o] = @ + 1], f)
<1>0. PICK k : k = [n EXCEPT ![o] = @ + 1]
  OBVIOUS
<1>1. \A p \in Owners : k[p] = IF p = o THEN n[p] + 1 ELSE n[p]
  BY <1>0
<1>2. ASSUME NEW a \in Attempts
      PROVE  ReadsHold(st.att[a], a, c, k, f)
  <2>1. PICK m \in AttemptRecord : m = st.att[a]
    BY DEF Sound, AuthType, AttemptTable
  <2>2. ReadsHold(m, a, b, n, f)
    BY <2>1 DEF Sound
  <2>3. \A p \in Owners : m.readGen[p] \in Nat /\ n[p] \in Nat
    BY DEF AttemptRecord
  <2>4. \A p \in Owners :
          /\ m.readGen[p] <= k[p]
          /\ p = o => m.readGen[p] # k[p]
          /\ p # o => k[p] = n[p] /\ c[p] = b[p]
    BY <1>1, <2>2, <2>3 DEF ReadsHold
  <2>5. \A p \in Owners : m.readGen[p] <= k[p]
    BY <2>4
  <2>6. ASSUME NEW p \in Owners, m.seen[p] = "idle", m.readGen[p] = k[p]
        PROVE  c[p] = FALSE /\ (p = Worker => f.id = a /\ f.acknowledged = TRUE)
    <3>1. p # o /\ m.readGen[p] = n[p]
      BY <2>4, <2>6, Zenon
    <3> QED BY <2>2, <2>4, <2>6, <3>1, Zenon DEF ReadsHold
  <2>7. ReadsHold(m, a, c, k, f)
    BY <2>2, <2>5, <2>6, Zenon DEF ReadsHold
  <2> QED BY <2>1, <2>7
<1>3. Sound(st, g, c, k, f)
  BY <1>2 DEF Sound
<1> QED BY <1>0, <1>3
-----------------------------------------------------------------------------
(* The invariant holds at first and is kept by every action. *)

LEMMA InvInit == Init => IInv
<1> SUFFICES ASSUME Init PROVE IInv
  OBVIOUS
<1>1. NoAttempt \in AttemptRecord
  <2>1. /\ [o \in Owners |-> 0] \in [Owners -> Nat]
        /\ [o \in Owners |-> "pending"] \in [Owners -> {"pending", "idle", "blocked"}]
    OBVIOUS
  <2> QED BY <2>1 DEF NoAttempt, AttemptRecord, Phases, Steps
<1>2. Surroundings
  BY BoundsAssumption DEF Init, Surroundings, NoFence
<1>3. /\ auth \in AuthType /\ auth.current = 0 /\ auth.sequence = 0 /\ auth.ingress = 0
      /\ \A a \in Attempts : auth.att[a] = NoAttempt
  BY <1>1, BoundsAssumption DEF Init, AuthType, AttemptTable
<1>4. NoAttempt.cleanup = "none" /\ NoAttempt.phase = "unused"
  BY DEF NoAttempt
<1>5. Cleaning(auth) = {}
  BY <1>3, <1>4 DEF Cleaning
<1>6. Cardinality(Cleaning(auth)) = 0
  BY <1>5, FS_EmptySet
<1>7. \A a \in Attempts : ReadsHold(auth.att[a], a, busy, gen, fence)
  <2>1. \A a \in Attempts : ReadsHold(NoAttempt, a, busy, gen, fence)
    BY DEF ReadsHold, NoAttempt, Init
  <2> QED BY <1>3, <2>1
<1>8. guests = 0
  BY DEF Init
<1> QED BY <1>2, <1>3, <1>4, <1>6, <1>7, <1>8 DEF IInv, Sound, Orderly, Sealed

LEMMA EnterKeeps == ASSUME IInv, Enter \/ EnterCompletion PROVE IInv'
<1>1. PICK st : st = Expired(auth)
  OBVIOUS
<1>2. Sound(st, guests, busy, gen, fence)
  BY <1>1, ExpiredSound DEF IInv, Surroundings
<1>3. NoneCommitted(st)
  BY <1>1, <1>2 DEF Enter, EnterCompletion, Sound, Sealed, NoneCommitted, Attempts
<1>4. auth' = Acquired(st) /\ guests' = guests + 1 /\ UNCHANGED <<busy, gen, fence>>
  BY <1>1 DEF Enter, EnterCompletion
<1>5. Counted(st, auth', 1)
  <2>1. st \in AuthType
    BY <1>2 DEF Sound
  <2>2. st.ingress + 1 \in Nat /\ st.revision + 1 \in Nat
    BY <2>1 DEF AuthType
  <2> QED BY <1>4, <2>1, <2>2 DEF Counted, Acquired, AuthType
<1>6. guests \in Nat
  BY DEF IInv, Surroundings
<1>7. Sound(auth', guests + 1, busy, gen, fence)
  BY <1>2, <1>3, <1>5, <1>6, IngressSound
<1> QED BY <1>4, <1>6, <1>7 DEF IInv, Surroundings

LEMMA LeaveKeeps == ASSUME IInv, Leave PROVE IInv'
<1>1. /\ Sound(auth, guests, busy, gen, fence) /\ auth \in AuthType
      /\ guests \in Nat /\ guests > 0
  BY DEF IInv, Sound, Surroundings, Leave
<1>2. NoneCommitted(auth)
  BY <1>1 DEF Sound, Sealed, NoneCommitted
<1>3. auth' = LeaseReleased(auth) /\ guests' = guests - 1 /\ UNCHANGED <<busy, gen, fence>>
  BY DEF Leave
<1>4. Counted(auth, auth', -1)
  <2>1. auth.ingress - 1 \in Nat /\ auth.revision + 1 \in Nat
    BY <1>1, CleaningIsFinite DEF AuthType, Sound
  <2>2. auth.ingress - 1 = auth.ingress + (-1)
    BY <1>1 DEF AuthType
  <2> QED BY <1>1, <1>3, <2>1, <2>2 DEF Counted, LeaseReleased, AuthType
<1>5. Sound(auth', guests + (-1), busy, gen, fence)
  BY <1>1, <1>2, <1>4, IngressSound
<1>6. guests + (-1) = guests - 1 /\ guests - 1 \in Nat
  BY <1>1
<1> QED BY <1>3, <1>5, <1>6 DEF IInv, Surroundings

(* The steps that change one attempt's record and nothing else.              *)
Rewritten(st, new, a, m) == new = [st EXCEPT !.att = [st.att EXCEPT ![a] = m]]

LEMMA Replaced ==
  ASSUME NEW st \in AuthType, NEW a \in Attempts, NEW m \in AttemptRecord,
         NEW new, Rewritten(st, new, a, m)
  PROVE  /\ new \in AuthType /\ new.att = [st.att EXCEPT ![a] = m]
         /\ new.ingress = st.ingress /\ new.current = st.current
         /\ new.sequence = st.sequence
<1>1. st.att \in AttemptTable
  BY DEF AuthType
<1> QED BY <1>1, TableChanged DEF AuthType, Rewritten

OnlyRecord(a, m) ==
  /\ m \in AttemptRecord
  /\ auth' = [auth EXCEPT !.att = [auth.att EXCEPT ![a] = m]]
  /\ \/ m.cleanup = auth.att[a].cleanup
     \/ m.cleanup = "releasing" /\ auth.att[a].cleanup = "joining"
  /\ m.phase = "committed" => auth.att[a].phase = "committed" /\ m.step = "done"
  /\ ReadsHold(m, a, busy, gen, fence)
  /\ UNCHANGED <<guests, busy, gen, fence>>

LEMMA RecordKeeps ==
  ASSUME IInv, NEW a \in Attempts, NEW m, OnlyRecord(a, m)
  PROVE  IInv'
<1>1. Sound(auth, guests, busy, gen, fence) /\ auth \in AuthType
  BY DEF IInv, Sound
<1>2. Moved(auth, auth', a, m)
  <2>1. Rewritten(auth, auth', a, m) /\ m \in AttemptRecord
    BY DEF OnlyRecord, Rewritten
  <2>2. /\ auth' \in AuthType /\ auth'.att = [auth.att EXCEPT ![a] = m]
        /\ auth'.ingress = auth.ingress /\ auth'.current = auth.current
        /\ auth'.sequence = auth.sequence
    BY <1>1, <2>1, Replaced
  <2> QED BY <2>1, <2>2 DEF Moved, OnlyRecord
<1>3. Sound(auth', guests, busy, gen, fence)
  BY <1>1, <1>2, AttemptMoves DEF OnlyRecord
<1> QED BY <1>3 DEF IInv, Surroundings, OnlyRecord

(* What the invariant says of the record of an attempt.                      *)
LEMMA RecordOf ==
  ASSUME IInv, NEW a \in Attempts
  PROVE  /\ auth \in AuthType /\ auth.att[a] \in AttemptRecord
         /\ ReadsHold(auth.att[a], a, busy, gen, fence)
         /\ auth.att[a].phase = "committed" => auth.att[a].step = "done"
BY DEF IInv, Sound, AuthType, AttemptTable, Sealed

LEMMA DeadlineKeeps == ASSUME IInv, NEW a \in Attempts, DeadlinePasses(a) PROVE IInv'
<1>1. PICK x \in AttemptRecord :
        /\ x = auth.att[a] /\ ReadsHold(x, a, busy, gen, fence)
        /\ x.phase = "committed" => x.step = "done"
  BY RecordOf
<1>2. PICK m : m = [x EXCEPT !.late = TRUE]
  OBVIOUS
<1>3. /\ m \in AttemptRecord /\ m.cleanup = x.cleanup /\ m.phase = x.phase
      /\ m.step = x.step /\ m.seen = x.seen /\ m.readGen = x.readGen /\ m.clean = x.clean
  BY <1>2 DEF AttemptRecord
<1>4. ReadsHold(m, a, busy, gen, fence)
  BY <1>1, <1>3 DEF ReadsHold
<1>5. /\ auth' = [auth EXCEPT !.att = [auth.att EXCEPT ![a] = m]]
      /\ UNCHANGED <<guests, busy, gen, fence>>
  BY <1>1, <1>2 DEF DeadlinePasses
<1>6. OnlyRecord(a, m)
  BY <1>1, <1>3, <1>4, <1>5 DEF OnlyRecord
<1> QED BY <1>6, RecordKeeps

LEMMA TokenLapsesKeeps == ASSUME IInv, NEW a \in Attempts, TokenLapses(a) PROVE IInv'
<1>1. PICK x \in AttemptRecord :
        /\ x = auth.att[a] /\ ReadsHold(x, a, busy, gen, fence)
        /\ x.phase = "committed" => x.step = "done"
  BY RecordOf
<1>2. PICK m : m = [x EXCEPT !.lapsed = TRUE]
  OBVIOUS
<1>3. /\ m \in AttemptRecord /\ m.cleanup = x.cleanup /\ m.phase = x.phase
      /\ m.step = x.step /\ m.seen = x.seen /\ m.readGen = x.readGen /\ m.clean = x.clean
  BY <1>2 DEF AttemptRecord
<1>4. ReadsHold(m, a, busy, gen, fence)
  BY <1>1, <1>3 DEF ReadsHold
<1>5. /\ auth' = [auth EXCEPT !.att = [auth.att EXCEPT ![a] = m]]
      /\ UNCHANGED <<guests, busy, gen, fence>>
  BY <1>1, <1>2 DEF TokenLapses
<1>6. OnlyRecord(a, m)
  BY <1>1, <1>3, <1>4, <1>5 DEF OnlyRecord
<1> QED BY <1>6, RecordKeeps

LEMMA ReleaseStartsKeeps == ASSUME IInv, NEW a \in Attempts, ReleaseStarts(a) PROVE IInv'
<1>1. PICK x \in AttemptRecord :
        /\ x = auth.att[a] /\ ReadsHold(x, a, busy, gen, fence)
        /\ x.phase = "committed" => x.step = "done"
  BY RecordOf
<1>2. PICK m : m = [x EXCEPT !.cleanup = "releasing"]
  OBVIOUS
<1>3. /\ m \in AttemptRecord /\ m.cleanup = "releasing" /\ m.phase = x.phase
      /\ m.step = x.step /\ m.seen = x.seen /\ m.readGen = x.readGen /\ m.clean = x.clean
  BY <1>2 DEF AttemptRecord
<1>4. ReadsHold(m, a, busy, gen, fence)
  BY <1>1, <1>3 DEF ReadsHold
<1>5. /\ auth' = [auth EXCEPT !.att = [auth.att EXCEPT ![a] = m]]
      /\ x.cleanup = "joining"
      /\ UNCHANGED <<guests, busy, gen, fence>>
  BY <1>1, <1>2 DEF ReleaseStarts
<1>6. OnlyRecord(a, m)
  BY <1>1, <1>3, <1>4, <1>5 DEF OnlyRecord
<1> QED BY <1>6, RecordKeeps

LEMMA ReadOwnerKeeps ==
  ASSUME IInv, NEW a \in Attempts, NEW o \in Owners, ReadOwner(a, o)
  PROVE  IInv'
<1>1. PICK x \in AttemptRecord :
        /\ x = auth.att[a] /\ ReadsHold(x, a, busy, gen, fence)
        /\ x.phase = "committed" => x.step = "done"
  BY RecordOf
<1>2. PICK result \in {"idle", "blocked"} :
        /\ result = "idle" => /\ ~busy[o]
                              /\ o = Worker => fence.id = a /\ fence.acknowledged
        /\ auth' = [auth EXCEPT !.att[a].seen[o] = result]
  BY DEF ReadOwner
<1>3. x.step \in {"reading", "rereading"} /\ UNCHANGED <<guests, busy, gen, fence>>
  BY <1>1 DEF ReadOwner
<1>4. PICK s : s = [x.seen EXCEPT ![o] = result]
  OBVIOUS
<1>5. /\ s \in [Owners -> {"pending", "idle", "blocked"}]
      /\ \A p \in Owners : s[p] = IF p = o THEN result ELSE x.seen[p]
  BY <1>4 DEF AttemptRecord
<1>6. PICK m : m = [x EXCEPT !.seen = s]
  OBVIOUS
<1>7. /\ m \in AttemptRecord /\ m.cleanup = x.cleanup /\ m.phase = x.phase
      /\ m.step = x.step /\ m.seen = s /\ m.readGen = x.readGen
  BY <1>5, <1>6 DEF AttemptRecord
<1>8. auth' = [auth EXCEPT !.att = [auth.att EXCEPT ![a] = m]]
  BY <1>1, <1>2, <1>4, <1>6
<1>9. busy[o] \in BOOLEAN /\ fence.acknowledged \in BOOLEAN
  BY DEF IInv, Surroundings
<1>10. ReadsHold(m, a, busy, gen, fence)
  BY <1>1, <1>2, <1>3, <1>5, <1>7, <1>9 DEF ReadsHold
<1>11. OnlyRecord(a, m)
  BY <1>1, <1>3, <1>7, <1>8, <1>10 DEF OnlyRecord
<1> QED BY <1>11, RecordKeeps
-----------------------------------------------------------------------------
(* The steps that leave owners, guests and the fence alone.                  *)
Quiet == UNCHANGED <<guests, busy, gen, fence>>

LEMMA QuietKeeps ==
  ASSUME IInv, Quiet, Sound(auth', guests, busy, gen, fence)
  PROVE  IInv'
BY DEF IInv, Surroundings, Quiet

LEMMA Facts ==
  ASSUME IInv
  PROVE  /\ Sound(auth, guests, busy, gen, fence) /\ auth \in AuthType
         /\ guests \in Nat /\ gen \in [Owners -> Nat] /\ busy \in [Owners -> BOOLEAN]
         /\ fence \in [id : 0..MaxAttempts, acknowledged : BOOLEAN]
BY DEF IInv, Sound, Surroundings

LEMMA ExpireKeeps == ASSUME IInv, Expire PROVE IInv'
<1>1. auth' = Expired(auth) /\ Quiet
  BY DEF Expire, Quiet
<1>2. Sound(Expired(auth), guests, busy, gen, fence)
  BY Facts, ExpiredSound
<1> QED BY <1>1, <1>2, QuietKeeps

LEMMA CancelKeeps == ASSUME IInv, NEW a \in Attempts, Cancel(a) PROVE IInv'
<1>1. PICK st : st = Expired(auth)
  OBVIOUS
<1>2. auth' = Reopened(st, a) /\ Quiet
  BY <1>1 DEF Cancel, Quiet
<1>3. Sound(st, guests, busy, gen, fence)
  BY <1>1, Facts, ExpiredSound
<1>4. Sound(Reopened(st, a), guests, busy, gen, fence)
  BY <1>3, Facts, ReopenedSound
<1> QED BY <1>2, <1>4, QuietKeeps

(* A controller cannot be lost once a restart is committed. *)
LEMMA ControllerLostKeeps ==
  ASSUME IInv, NEW e \in Epochs, ControllerLost(e)
  PROVE  IInv'
<1>1. PICK st : st = [auth EXCEPT !.lost = @ \cup {e}]
  OBVIOUS
<1>2. Counted(auth, st, 0)
  BY <1>1, Facts DEF Counted, AuthType
<1>3. NoneCommitted(auth)
  <2>1. Sealed(auth, guests, fence)
    BY Facts DEF Sound
  <2>2. ASSUME NEW a \in Attempts, auth.att[a].phase = "committed" PROVE FALSE
    <3>1. auth.current = a /\ a # 0
      BY <2>1, <2>2 DEF Sealed, Attempts
    <3> QED BY <2>2, <3>1 DEF ControllerLost
  <2> QED BY <2>2 DEF NoneCommitted
<1>4. Sound(st, guests, busy, gen, fence)
  <2>1. Sound(st, guests + 0, busy, gen, fence)
    BY <1>2, <1>3, Facts, IngressSound
  <2> QED BY <2>1, Facts
<1>5. /\ auth' = st \/ (st.current # 0 /\ auth' = Reopened(st, st.current))
      /\ Quiet
  <2>1. auth' = IF st.current # 0 /\ st.att[st.current].epoch = e
                THEN Reopened(st, st.current) ELSE st
    BY <1>1 DEF ControllerLost
  <2>2. Quiet
    BY DEF ControllerLost, Quiet
  <2> QED BY <2>1, <2>2
<1>6. ASSUME st.current # 0
      PROVE  Sound(Reopened(st, st.current), guests, busy, gen, fence)
  <2>1. PICK a \in Attempts : a = st.current
    BY <1>2, <1>6, BoundsAssumption DEF Counted, AuthType, Attempts
  <2> QED BY <1>4, <2>1, Facts, ReopenedSound
<1> QED BY <1>4, <1>5, <1>6, QuietKeeps

LEMMA OwnerChangesKeeps ==
  ASSUME IInv, NEW o \in Owners, OwnerChanges(o)
  PROVE  IInv'
<1>1. /\ busy' = [busy EXCEPT ![o] = ~@] /\ gen' = [gen EXCEPT ![o] = @ + 1]
      /\ UNCHANGED <<auth, guests, fence>>
  BY DEF OwnerChanges
<1>2. /\ busy' \in [Owners -> BOOLEAN] /\ gen' \in [Owners -> Nat]
      /\ \A p \in Owners \ {o} : busy'[p] = busy[p]
  BY <1>1, Facts
<1>3. PICK c : c = busy'
  OBVIOUS
<1>4. Sound(auth, guests, c, [gen EXCEPT ![o] = @ + 1], fence)
  <2>1. \A p \in Owners \ {o} : c[p] = busy[p]
    BY <1>2, <1>3
  <2> QED BY <2>1, Facts, OwnerSound
<1> QED BY <1>1, <1>2, <1>3, <1>4 DEF IInv, Surroundings

LEMMA FencedKeeps == ASSUME IInv, NEW a \in Attempts, Fenced(a) PROVE IInv'
<1>1. Quiet /\ auth.att[a].step = "fencing"
  BY DEF Fenced, Quiet
<1>2. CASE auth' = Ended(auth, a)
  BY <1>1, <1>2, Facts, EndedSound, QuietKeeps
<1>3. CASE auth' = Reopened(Ended(auth, a), a)
  <2>1. PICK st : st = Ended(auth, a)
    OBVIOUS
  <2>2. Sound(st, guests, busy, gen, fence)
    BY <2>1, Facts, EndedSound
  <2>3. Sound(Reopened(st, a), guests, busy, gen, fence)
    BY <2>2, Facts, ReopenedSound
  <2> QED BY <1>1, <1>3, <2>1, <2>3, QuietKeeps
<1>4. CASE auth' = Reading(auth, a, "reading")
  <2>1. auth.att[a].phase # "committed"
    BY <1>1, RecordOf
  <2>2. Sound(Reading(auth, a, "reading"), guests, busy, gen, fence)
    BY <2>1, Facts, ReadingSound
  <2> QED BY <1>1, <1>4, <2>2, QuietKeeps
<1> QED BY <1>2, <1>3, <1>4 DEF Fenced

LEMMA PrepareConcludesKeeps ==
  ASSUME IInv, NEW a \in Attempts, PrepareConcludes(a)
  PROVE  IInv'
<1>1. Quiet /\ auth.att[a].step = "returned"
  BY DEF PrepareConcludes, Quiet
<1>2. CASE auth' = Ended(auth, a)
  BY <1>1, <1>2, Facts, EndedSound, QuietKeeps
<1>3. CASE auth' = Reopened(Ended(auth, a), a)
  <2>1. PICK st : st = Ended(auth, a)
    OBVIOUS
  <2>2. Sound(st, guests, busy, gen, fence)
    BY <2>1, Facts, EndedSound
  <2>3. Sound(Reopened(st, a), guests, busy, gen, fence)
    BY <2>2, Facts, ReopenedSound
  <2> QED BY <1>1, <1>3, <2>1, <2>3, QuietKeeps
<1>4. CASE auth' = Holding(auth, a)
  <2>1. PICK x \in AttemptRecord :
          x = auth.att[a] /\ ReadsHold(x, a, busy, gen, fence)
    BY RecordOf
  <2>2. auth.revision + 1 \in Nat
    BY Facts DEF AuthType
  <2>3. PICK m : m = Proven(x, auth.revision + 1)
    OBVIOUS
  <2>4. /\ m \in AttemptRecord
        /\ m.cleanup = x.cleanup /\ m.phase = "prepared" /\ m.step = "holding"
        /\ m.readGen = x.readGen /\ m.seen = x.seen
    BY <2>2, <2>3, ProvenRecord
  <2>5. auth' = [auth EXCEPT !.revision = auth.revision + 1,
                             !.att = [auth.att EXCEPT ![a] = m]]
    BY <1>4, <2>1, <2>3 DEF Holding
  <2>6. /\ auth' \in AuthType /\ auth'.att = [auth.att EXCEPT ![a] = m]
        /\ auth'.ingress = auth.ingress /\ auth'.current = auth.current
        /\ auth'.sequence = auth.sequence
    <3>1. auth.att \in AttemptTable
      BY Facts DEF AuthType
    <3> QED BY <2>2, <2>4, <2>5, <3>1, Facts, TableChanged DEF AuthType
  <2>7. ReadsHold(m, a, busy, gen, fence)
    BY <2>1, <2>4 DEF ReadsHold
  <2>8. Moved(auth, auth', a, m)
    BY <2>1, <2>4, <2>6 DEF Moved
  <2>9. Sound(auth', guests, busy, gen, fence)
    BY <2>7, <2>8, Facts, AttemptMoves
  <2> QED BY <1>1, <2>9, QuietKeeps
<1> QED BY <1>2, <1>3, <1>4 DEF PrepareConcludes

(* A new attempt finds nobody inside and no other attempt.                   *)
LEMMA PrepareKeeps == ASSUME IInv, NEW e \in Epochs, Prepare(e) PROVE IInv'
<1>1. PICK st : st = Expired(auth)
  OBVIOUS
<1>2. PICK a : a = st.sequence + 1
  OBVIOUS
<1>3. Sound(st, guests, busy, gen, fence) /\ st \in AuthType
  BY <1>1, Facts, ExpiredSound DEF Sound
<1>4. /\ st.current = 0 /\ a \in Attempts /\ Quiet
      /\ auth' = [st EXCEPT !.current = a, !.sequence = a, !.revision = @ + 1,
                            !.att[a] =
                              [@ EXCEPT !.phase = "preparing", !.epoch = e,
                                        !.step = "fencing", !.closing = "called",
                                        !.readRevision = st.revision + 1]]
  BY <1>1, <1>2 DEF Prepare, Quiet
<1>5. PICK x \in AttemptRecord : x = st.att[a] /\ ReadsHold(x, a, busy, gen, fence)
  BY <1>3, <1>4 DEF AuthType, AttemptTable, Sound
<1>6. st.revision + 1 \in Nat /\ a \in 0..MaxAttempts /\ st.att \in AttemptTable
  BY <1>3, <1>4, BoundsAssumption DEF AuthType, Attempts
<1>7. PICK m : m = [x EXCEPT !.phase = "preparing", !.epoch = e, !.step = "fencing",
                             !.closing = "called", !.readRevision = st.revision + 1]
  OBVIOUS
<1>8. /\ m \in AttemptRecord /\ m.cleanup = x.cleanup /\ m.phase = "preparing"
      /\ m.step = "fencing" /\ m.seen = x.seen /\ m.readGen = x.readGen
  BY <1>6, <1>7 DEF AttemptRecord, Phases, Steps
<1>9. auth' = [st EXCEPT !.current = a, !.sequence = a, !.revision = st.revision + 1,
                         !.att = [st.att EXCEPT ![a] = m]]
  BY <1>4, <1>5, <1>7
<1>10. /\ auth' \in AuthType /\ auth'.att = [st.att EXCEPT ![a] = m]
       /\ auth'.ingress = st.ingress /\ auth'.current = a /\ auth'.sequence = a
  <2>1. PICK t : t = [st.att EXCEPT ![a] = m]
    OBVIOUS
  <2>2. t \in AttemptTable
    BY <1>4, <1>6, <1>8, <2>1, TableChanged
  <2>3. a \in 0..MaxAttempts /\ st.revision + 1 \in Nat
    BY <1>6
  <2>4. auth' = [st EXCEPT !.current = a, !.sequence = a, !.revision = st.revision + 1,
                           !.att = t]
    BY <1>9, <2>1
  <2>5. /\ auth' \in AuthType /\ auth'.att = t /\ auth'.ingress = st.ingress
        /\ auth'.current = a /\ auth'.sequence = a
    BY <1>3, <2>2, <2>3, <2>4 DEF AuthType
  <2> QED BY <2>1, <2>5
<1>11. \A c \in Attempts : auth'.att[c] = IF c = a THEN m ELSE st.att[c]
  BY <1>4, <1>6, <1>8, <1>10, TableChanged
<1>12. m.cleanup = "none"
  BY <1>2, <1>3, <1>4, <1>5, <1>8 DEF Sound, Orderly, AuthType, Attempts
<1>13. Orderly(auth')
  <2>1. \A c \in Attempts : c > a => c > st.sequence
    BY <1>2, <1>3 DEF AuthType, Attempts
  <2>2. \A c \in Attempts : c > a => auth'.att[c].cleanup = "none"
    BY <1>3, <1>11, <1>12, <2>1 DEF Sound, Orderly
  <2>3. auth'.att[a].cleanup = "none" /\ a <= a
    <3>1. a \in Attempts
      BY <1>4
    <3> QED BY <1>11, <1>12, <3>1 DEF Attempts
  <2> QED BY <1>10, <2>2, <2>3 DEF Orderly
<1>14. Cleaning(auth') = Cleaning(st)
  BY <1>5, <1>8, <1>11 DEF Cleaning
<1>15. \A c \in Attempts : ReadsHold(auth'.att[c], c, busy, gen, fence)
  <2>1. ReadsHold(m, a, busy, gen, fence)
    BY <1>5, <1>8 DEF ReadsHold
  <2> QED BY <1>3, <1>11, <2>1 DEF Sound
<1>16. Sealed(auth', guests, fence)
  <2>1. \A c \in Attempts : st.att[c].phase # "committed"
    BY <1>3, <1>4 DEF Sound, Sealed, Attempts
  <2> QED BY <1>8, <1>11, <2>1 DEF Sealed
<1>17. Sound(auth', guests, busy, gen, fence)
  BY <1>3, <1>10, <1>13, <1>14, <1>15, <1>16 DEF Sound
<1> QED BY <1>4, <1>17, QuietKeeps

LEMMA CommitKeeps ==
  ASSUME IInv, NEW a \in Attempts, NEW e \in Epochs, Commit(a, e)
  PROVE  IInv'
<1>1. Expired(auth) = auth
  <2>1. Expired(auth).current # 0
    BY DEF Commit, Attempts
  <2> QED BY <2>1, Facts, ExpiredSound
<1>2. PICK x \in AttemptRecord :
        x = auth.att[a] /\ ReadsHold(x, a, busy, gen, fence)
  BY RecordOf
<1>3. PICK m : m = [x EXCEPT !.committing = TRUE]
  OBVIOUS
<1>4. /\ m \in AttemptRecord /\ m.cleanup = x.cleanup /\ m.phase = x.phase
      /\ m.step = x.step /\ m.seen = x.seen /\ m.readGen = x.readGen /\ m.clean = x.clean
  BY <1>3 DEF AttemptRecord
<1>5. PICK st : st = [auth EXCEPT !.att = [auth.att EXCEPT ![a] = m]]
  OBVIOUS
<1>6. /\ x.phase = "prepared" /\ Quiet
      /\ auth' = Reading(st, a, "rereading")
  BY <1>1, <1>2, <1>3, <1>5 DEF Commit, Quiet
<1>7. /\ st \in AuthType /\ st.att = [auth.att EXCEPT ![a] = m]
      /\ st.ingress = auth.ingress /\ st.current = auth.current
      /\ st.sequence = auth.sequence
  <2>1. Rewritten(auth, st, a, m)
    BY <1>5 DEF Rewritten
  <2> QED BY <1>4, <2>1, Facts, Replaced
<1>8. ReadsHold(m, a, busy, gen, fence)
  BY <1>2, <1>4 DEF ReadsHold
<1>9. Moved(auth, st, a, m)
  BY <1>2, <1>4, <1>6, <1>7 DEF Moved
<1>10. Sound(st, guests, busy, gen, fence)
  BY <1>8, <1>9, Facts, AttemptMoves
<1>11. st.att[a].phase # "committed"
  BY <1>4, <1>6, <1>7, Facts DEF AuthType, AttemptTable
<1>12. Sound(Reading(st, a, "rereading"), guests, busy, gen, fence)
  BY <1>10, <1>11, Facts, ReadingSound
<1> QED BY <1>6, <1>12, QuietKeeps

(* An expiry changes no local variable of a function that is waiting.        *)
LEMMA ExpiredReads ==
  ASSUME NEW st \in AuthType, NEW a \in Attempts
  PROVE  /\ Expired(st).att[a].seen = st.att[a].seen
         /\ Expired(st).att[a].step = st.att[a].step
<1>1. PICK c : c = st.current
  OBVIOUS
<1>2. CASE Expired(st) = st
  BY <1>2
<1>3. CASE Expired(st) # st
  <2>1. /\ c # 0 /\ c \in Attempts
        /\ Expired(st) = Acquired([st EXCEPT !.current = 0, !.revision = @ + 1,
                                             !.att[c] = GivenUp(@)])
    BY <1>1, <1>3, BoundsAssumption DEF Expired, Reopened, AuthType, Attempts
  <2>2. st.att \in AttemptTable /\ st.att[c] \in AttemptRecord
    BY <2>1 DEF AuthType, AttemptTable
  <2>3. PICK m : m = GivenUp(st.att[c])
    OBVIOUS
  <2>4. /\ m \in AttemptRecord
        /\ m.seen = st.att[c].seen /\ m.step = st.att[c].step
    BY <2>2, <2>3, GivenUpRecord
  <2>5. Expired(st).att = [st.att EXCEPT ![c] = m]
    BY <2>1, <2>3 DEF Acquired, AuthType
  <2>6. Expired(st).att[a] = IF a = c THEN m ELSE st.att[a]
    BY <2>1, <2>2, <2>4, <2>5, TableChanged
  <2> QED BY <2>4, <2>6
<1> QED BY <1>2, <1>3

LEMMA SnapshotReturnsKeeps ==
  ASSUME IInv, NEW a \in Attempts, SnapshotReturns(a)
  PROVE  IInv'
<1>1. PICK st : st = Expired(auth)
  OBVIOUS
<1>2. Sound(st, guests, busy, gen, fence) /\ st \in AuthType
  BY <1>1, Facts, ExpiredSound DEF Sound
<1>3. PICK x \in AttemptRecord : x = st.att[a] /\ ReadsHold(x, a, busy, gen, fence)
  BY <1>2 DEF AuthType, AttemptTable, Sound
<1>4. x.seen = auth.att[a].seen /\ x.step \in {"reading", "rereading"}
  BY <1>1, <1>3, Facts, ExpiredReads DEF SnapshotReturns
<1>5. PICK step : step = IF auth.att[a].step = "reading" THEN "returned" ELSE "rereturned"
  OBVIOUS
<1>6. PICK clean \in BOOLEAN :
        /\ clean => \A o \in Owners : auth.att[a].seen[o] = "idle"
        /\ Quiet
        /\ auth' = [st EXCEPT !.att[a] = [@ EXCEPT !.step = step,
                                                  !.readRevision = st.revision,
                                                  !.clean = clean]]
  BY <1>1, <1>5, Zenon DEF SnapshotReturns, Quiet
<1>7. PICK m : m = [x EXCEPT !.step = step, !.readRevision = st.revision, !.clean = clean]
  OBVIOUS
<1>8. step \in {"returned", "rereturned"} /\ step \in Steps /\ st.revision \in Nat
  BY <1>2, <1>5 DEF Steps, AuthType
<1>9. /\ m \in AttemptRecord /\ m.cleanup = x.cleanup /\ m.phase = x.phase
      /\ m.step = step /\ m.seen = x.seen /\ m.readGen = x.readGen /\ m.clean = clean
  BY <1>7, <1>8 DEF AttemptRecord
<1>10. Rewritten(st, auth', a, m)
  BY <1>3, <1>6, <1>7 DEF Rewritten
<1>11. /\ auth' \in AuthType /\ auth'.att = [st.att EXCEPT ![a] = m]
       /\ auth'.ingress = st.ingress /\ auth'.current = st.current
       /\ auth'.sequence = st.sequence
  BY <1>2, <1>9, <1>10, Replaced
<1>12. ReadsHold(m, a, busy, gen, fence)
  BY <1>3, <1>4, <1>6, <1>9 DEF ReadsHold
<1>13. x.phase # "committed"
  BY <1>2, <1>3, <1>4 DEF Sound, Sealed
<1>14. Moved(st, auth', a, m)
  BY <1>3, <1>9, <1>11, <1>13 DEF Moved
<1>15. Sound(auth', guests, busy, gen, fence)
  BY <1>2, <1>12, <1>14, AttemptMoves
<1> QED BY <1>6, <1>15, QuietKeeps

(* The heart of the argument.  A clean second snapshot found every owner     *)
(* idle at the generation it began at; the generations are still those, so   *)
(* the owners are idle now, the worker is fenced for this attempt, and an    *)
(* ingress of zero leaves no guest and no cleanup.                           *)
LEMMA ProofIsOfNow ==
  ASSUME IInv, NEW a \in Attempts, auth.att[a].step = "rereturned", ProofStands(auth, a)
  PROVE  /\ \A o \in Owners : busy[o] = FALSE /\ gen[o] = auth.att[a].readGen[o]
         /\ fence.id = a /\ fence.acknowledged = TRUE
         /\ auth.ingress = 0 /\ guests = 0 /\ Cleaning(auth) = {}
<1>1. PICK x \in AttemptRecord : x = auth.att[a] /\ ReadsHold(x, a, busy, gen, fence)
  BY RecordOf
<1>2. x.step = "rereturned" /\ x.clean = TRUE /\ x.readGen = gen /\ auth.ingress = 0
  BY <1>1 DEF ProofStands, GenerationsHold, AttemptRecord
<1>3. \A o \in Owners : x.seen[o] = "idle" /\ x.readGen[o] = gen[o]
  BY <1>1, <1>2 DEF ReadsHold
<1>4. \A o \in Owners :
        busy[o] = FALSE /\ (o = Worker => fence.id = a /\ fence.acknowledged = TRUE)
  BY <1>1, <1>3 DEF ReadsHold
<1>5. fence.id = a /\ fence.acknowledged = TRUE
  BY <1>4, WorkerAssumption
<1>6. guests = 0 /\ Cardinality(Cleaning(auth)) = 0
  BY <1>2, Facts, CleaningIsFinite DEF Sound
<1>7. Cleaning(auth) = {}
  BY <1>6, NobodyCleans
<1> QED BY <1>1, <1>2, <1>3, <1>4, <1>5, <1>6, <1>7

(* The commit of the current attempt. *)
CommitsNow(a) ==
  /\ auth.att[a].step = "rereturned" /\ auth.current = a
  /\ ProofStands(auth, a) /\ auth.att[a].generations = auth.att[a].readGen
  /\ auth' = Committed(Ended(auth, a), a)
  /\ Quiet

LEMMA CommitConcludesCases ==
  ASSUME IInv, NEW a \in Attempts, CommitConcludes(a)
  PROVE  \/ /\ Quiet
            /\ auth' = Ended(Expired(auth), a) \/ auth' = Reopened(Ended(Expired(auth), a), a)
         \/ CommitsNow(a)
<1>1. CASE Expired(auth).current = a
  <2>1. Expired(auth) = auth
    BY <1>1, Facts, ExpiredSound DEF Attempts
  <2> QED BY <1>1, <2>1 DEF CommitConcludes, CommitsNow, Quiet
<1>2. CASE Expired(auth).current # a
  BY <1>2 DEF CommitConcludes, Quiet
<1> QED BY <1>1, <1>2

(* What a commit makes of the authority.                                     *)
LEMMA CommitChanges ==
  ASSUME IInv, NEW a \in Attempts, CommitsNow(a)
  PROVE  /\ auth' \in AuthType
         /\ auth'.ingress = auth.ingress /\ auth'.current = a
         /\ auth'.sequence = auth.sequence
         /\ \A c \in Attempts : c # a => auth'.att[c] = auth.att[c]
         /\ auth'.att[a].phase = "committed" /\ auth'.att[a].step = "done"
         /\ auth'.att[a].cleanup = auth.att[a].cleanup
         /\ auth'.att[a].readGen = [o \in Owners |-> 0]
         /\ auth'.att[a].seen = [o \in Owners |-> "pending"]
<1>1. PICK st : st = Ended(auth, a)
  OBVIOUS
<1>2. PICK x \in AttemptRecord : x = auth.att[a]
  BY RecordOf
<1>3. PICK y : y = Over(x)
  OBVIOUS
<1>4. /\ y \in AttemptRecord /\ y.cleanup = x.cleanup /\ y.step = "done"
      /\ y.readGen = [o \in Owners |-> 0] /\ y.seen = [o \in Owners |-> "pending"]
  BY <1>3, OverRecord
<1>5. auth.att \in AttemptTable
  BY Facts DEF AuthType
<1>6. PICK t : t = [auth.att EXCEPT ![a] = y]
  OBVIOUS
<1>7. /\ t \in AttemptTable
      /\ \A c \in Attempts : t[c] = IF c = a THEN y ELSE auth.att[c]
  BY <1>4, <1>5, <1>6, TableChanged
<1>8. st = [auth EXCEPT !.att = t]
  BY <1>1, <1>2, <1>3, <1>6 DEF Ended
<1>9. PICK z : z = Granted(y)
  OBVIOUS
<1>10. /\ z \in AttemptRecord /\ z.cleanup = y.cleanup /\ z.phase = "committed"
       /\ z.step = y.step /\ z.readGen = y.readGen /\ z.seen = y.seen
  BY <1>4, <1>9, GrantedRecord
<1>11. PICK u : u = [t EXCEPT ![a] = z]
  OBVIOUS
<1>12. /\ u \in AttemptTable
       /\ \A c \in Attempts : u[c] = IF c = a THEN z ELSE t[c]
  <2>1. t \in AttemptTable /\ z \in AttemptRecord
    BY <1>7, <1>10
  <2>2. /\ [t EXCEPT ![a] = z] \in AttemptTable
        /\ \A c \in Attempts : [t EXCEPT ![a] = z][c] = IF c = a THEN z ELSE t[c]
    BY <2>1, TableChanged
  <2> QED BY <1>11, <2>2, Zenon
<1>13. /\ st \in AuthType /\ st.att = t /\ st.ingress = auth.ingress
       /\ st.current = auth.current /\ st.sequence = auth.sequence
  BY <1>7, <1>8, Facts DEF AuthType
<1>14. st.att[a] = y /\ st.revision + 1 \in Nat
  BY <1>7, <1>13 DEF AuthType
<1>15. auth' = Committed(st, a)
  BY <1>1 DEF CommitsNow
<1>16. auth' = [st EXCEPT !.revision = st.revision + 1, !.att = u]
  BY <1>9, <1>11, <1>13, <1>14, <1>15 DEF Committed
<1>17. /\ auth' \in AuthType /\ auth'.att = u /\ auth'.ingress = st.ingress
       /\ auth'.current = st.current /\ auth'.sequence = st.sequence
  BY <1>12, <1>13, <1>14, <1>16 DEF AuthType
<1>18. auth'.current = a
  BY <1>13, <1>17 DEF CommitsNow
<1> QED BY <1>2, <1>4, <1>7, <1>10, <1>12, <1>13, <1>17, <1>18

LEMMA CommitConcludesKeeps ==
  ASSUME IInv, NEW a \in Attempts, CommitConcludes(a)
  PROVE  IInv'
<1>1. PICK st : st = Expired(auth)
  OBVIOUS
<1>2. Sound(st, guests, busy, gen, fence)
  BY <1>1, Facts, ExpiredSound
<1>3. CASE Quiet /\ auth' = Ended(st, a)
  BY <1>2, <1>3, Facts, EndedSound, QuietKeeps
<1>4. CASE Quiet /\ auth' = Reopened(Ended(st, a), a)
  <2>1. PICK mid : mid = Ended(st, a)
    OBVIOUS
  <2>2. Sound(mid, guests, busy, gen, fence)
    BY <1>2, <2>1, Facts, EndedSound
  <2>3. Sound(Reopened(mid, a), guests, busy, gen, fence)
    BY <2>2, Facts, ReopenedSound
  <2> QED BY <1>4, <2>1, <2>3, QuietKeeps
<1>5. CASE CommitsNow(a)
  <2>1. /\ auth.att[a].step = "rereturned" /\ auth.current = a
        /\ ProofStands(auth, a) /\ Quiet
    BY <1>5 DEF CommitsNow
  <2>2. /\ fence.id = a /\ fence.acknowledged = TRUE
        /\ auth.ingress = 0 /\ guests = 0 /\ Cleaning(auth) = {}
    BY <2>1, ProofIsOfNow
  <2>3. /\ auth' \in AuthType
        /\ auth'.ingress = auth.ingress /\ auth'.current = a
        /\ auth'.sequence = auth.sequence
        /\ \A c \in Attempts : c # a => auth'.att[c] = auth.att[c]
        /\ auth'.att[a].phase = "committed" /\ auth'.att[a].step = "done"
        /\ auth'.att[a].cleanup = auth.att[a].cleanup
        /\ auth'.att[a].readGen = [o \in Owners |-> 0]
        /\ auth'.att[a].seen = [o \in Owners |-> "pending"]
    BY <1>5, CommitChanges
  <2>4. \A c \in Attempts : auth'.att[c].cleanup = auth.att[c].cleanup
    BY <2>3
  <2>5. Cleaning(auth') = Cleaning(auth)
    BY <2>4 DEF Cleaning
  <2>6. Orderly(auth')
    BY <2>1, <2>3, <2>4, Facts DEF Sound, Orderly, Attempts
  <2>7. Sealed(auth', guests, fence)
    <3>1. \A c \in Attempts : c # a => auth.att[c].phase # "committed"
      BY <2>1, Facts DEF Sound, Sealed
    <3> QED BY <2>2, <2>3, <3>1 DEF Sealed
  <2>8. \A c \in Attempts : ReadsHold(auth'.att[c], c, busy, gen, fence)
    <3>1. ReadsHold(auth'.att[a], a, busy, gen, fence)
      BY <2>3, Facts DEF ReadsHold
    <3>2. ASSUME NEW c \in Attempts, c # a
          PROVE  ReadsHold(auth'.att[c], c, busy, gen, fence)
      BY <2>3, <3>2, RecordOf
    <3> QED BY <3>1, <3>2
  <2>9. Sound(auth', guests, busy, gen, fence)
    BY <2>3, <2>5, <2>6, <2>7, <2>8, Facts DEF Sound
  <2> QED BY <2>1, <2>9, QuietKeeps
<1> QED BY <1>1, <1>3, <1>4, <1>5, CommitConcludesCases
-----------------------------------------------------------------------------
(* The worker's steps.  The fence moves with the worker's generation, or not *)
(* at all; what the authority keeps of it is in one attempt's record.        *)

LEMMA GenerationsGrow ==
  ASSUME NEW n \in [Owners -> Nat]
  PROVE  [n EXCEPT ![Worker] = @ + 1] \in [Owners -> Nat]
BY WorkerAssumption

LEMMA WorkerClosesKeeps == ASSUME IInv, NEW a \in Attempts, WorkerCloses(a) PROVE IInv'
<1>1. PICK x \in AttemptRecord :
        /\ x = auth.att[a] /\ ReadsHold(x, a, busy, gen, fence)
        /\ x.phase = "committed" => x.step = "done"
  BY RecordOf
<1>2. PICK outcome \in {"requested", "rejected"} :
        auth' = [auth EXCEPT !.att[a].closing = outcome]
  BY DEF WorkerCloses
<1>3. PICK m : m = [x EXCEPT !.closing = outcome]
  OBVIOUS
<1>4. /\ m \in AttemptRecord /\ m.cleanup = x.cleanup /\ m.phase = x.phase
      /\ m.step = x.step /\ m.seen = x.seen /\ m.readGen = x.readGen /\ m.clean = x.clean
  BY <1>3 DEF AttemptRecord
<1>5. ReadsHold(m, a, busy, gen, fence)
  BY <1>1, <1>4 DEF ReadsHold
<1>6. Rewritten(auth, auth', a, m)
  BY <1>1, <1>2, <1>3 DEF Rewritten
<1>7. Sound(auth', guests, busy, gen, fence)
  <2>1. /\ auth' \in AuthType /\ auth'.att = [auth.att EXCEPT ![a] = m]
        /\ auth'.ingress = auth.ingress /\ auth'.current = auth.current
        /\ auth'.sequence = auth.sequence
    BY <1>4, <1>6, Facts, Replaced
  <2>2. Moved(auth, auth', a, m)
    BY <1>1, <1>4, <2>1 DEF Moved
  <2> QED BY <1>5, <2>2, Facts, AttemptMoves
<1>8. CASE UNCHANGED <<fence, gen>>
  <2>1. Quiet
    BY <1>8 DEF WorkerCloses, Quiet
  <2> QED BY <1>7, <2>1, QuietKeeps
<1>9. CASE /\ fence.id = 0 /\ fence' = [id |-> a, acknowledged |-> FALSE]
           /\ gen' = [gen EXCEPT ![Worker] = @ + 1]
  <2>1. PICK st : st = auth'
    OBVIOUS
  <2>2. PICK h : h = fence'
    OBVIOUS
  <2>3. \A c \in Attempts : st.att[c].phase # "committed"
    BY <1>7, <1>9, <2>1 DEF Sound, Sealed, Attempts
  <2>4. Sound(st, guests, busy, [gen EXCEPT ![Worker] = @ + 1], h)
    BY <1>7, <2>1, <2>3, Facts, WorkerSound
  <2>5. /\ gen' \in [Owners -> Nat]
        /\ fence' \in [id : 0..MaxAttempts, acknowledged : BOOLEAN]
    <3>1. fence' \in [id : 0..MaxAttempts, acknowledged : BOOLEAN]
      BY <1>9, BoundsAssumption DEF Attempts
    <3> QED BY <1>9, <3>1, Facts, GenerationsGrow
  <2>6. UNCHANGED <<guests, busy>>
    BY DEF WorkerCloses
  <2> QED BY <1>9, <2>1, <2>2, <2>4, <2>5, <2>6, Facts DEF IInv, Surroundings
<1> QED BY <1>8, <1>9 DEF WorkerCloses

LEMMA WorkerAnswersKeeps ==
  ASSUME IInv, NEW a \in Attempts, WorkerAnswersClose(a)
  PROVE  IInv'
<1>1. PICK x \in AttemptRecord :
        /\ x = auth.att[a] /\ ReadsHold(x, a, busy, gen, fence)
        /\ x.phase = "committed" => x.step = "done"
  BY RecordOf
<1>2. PICK outcome \in {"closed", "rejected"} :
        auth' = [auth EXCEPT !.att[a].closing = outcome]
  BY DEF WorkerAnswersClose
<1>3. PICK m : m = [x EXCEPT !.closing = outcome]
  OBVIOUS
<1>4. /\ m \in AttemptRecord /\ m.cleanup = x.cleanup /\ m.phase = x.phase
      /\ m.step = x.step /\ m.seen = x.seen /\ m.readGen = x.readGen /\ m.clean = x.clean
  BY <1>3 DEF AttemptRecord
<1>5. ReadsHold(m, a, busy, gen, fence)
  BY <1>1, <1>4 DEF ReadsHold
<1>6. Rewritten(auth, auth', a, m)
  BY <1>1, <1>2, <1>3 DEF Rewritten
<1>7. Sound(auth', guests, busy, gen, fence)
  <2>1. /\ auth' \in AuthType /\ auth'.att = [auth.att EXCEPT ![a] = m]
        /\ auth'.ingress = auth.ingress /\ auth'.current = auth.current
        /\ auth'.sequence = auth.sequence
    BY <1>4, <1>6, Facts, Replaced
  <2>2. Moved(auth, auth', a, m)
    BY <1>1, <1>4, <2>1 DEF Moved
  <2> QED BY <1>5, <2>2, Facts, AttemptMoves
<1>8. CASE UNCHANGED <<fence, gen>>
  <2>1. Quiet
    BY <1>8 DEF WorkerAnswersClose, Quiet
  <2> QED BY <1>7, <2>1, QuietKeeps
<1>9. CASE /\ fence' = [fence EXCEPT !.acknowledged = TRUE]
           /\ gen' = [gen EXCEPT ![Worker] = @ + 1]
  <2>1. PICK st : st = auth'
    OBVIOUS
  <2>2. PICK h : h = fence'
    OBVIOUS
  <2>3. /\ h \in [id : 0..MaxAttempts, acknowledged : BOOLEAN]
        /\ h.id = fence.id /\ h.acknowledged = TRUE
    BY <1>9, <2>2, Facts
  <2>4. \A c \in Attempts :
          st.att[c].phase = "committed" => h.id = c /\ h.acknowledged = TRUE
    BY <1>7, <2>1, <2>3 DEF Sound, Sealed
  <2>5. Sound(st, guests, busy, [gen EXCEPT ![Worker] = @ + 1], h)
    BY <1>7, <2>1, <2>4, Facts, WorkerSound
  <2>6. gen' \in [Owners -> Nat] /\ UNCHANGED <<guests, busy>>
    BY <1>9, Facts, GenerationsGrow DEF WorkerAnswersClose
  <2> QED BY <1>9, <2>1, <2>2, <2>3, <2>5, <2>6, Facts DEF IInv, Surroundings
<1> QED BY <1>8, <1>9 DEF WorkerAnswersClose

(* A cleanup that ends is one ingress less, and as long as there was one     *)
(* nothing was committed.                                                    *)
Released(st, new, a, m) ==
  /\ m \in AttemptRecord /\ new \in AuthType
  /\ st.att[a].cleanup = "releasing" /\ m.cleanup = "done"
  /\ m.phase = st.att[a].phase /\ m.step = st.att[a].step
  /\ m.seen = st.att[a].seen /\ m.readGen = st.att[a].readGen
  /\ m.clean = st.att[a].clean
  /\ new.att = [st.att EXCEPT ![a] = m] /\ new.ingress = st.ingress - 1
  /\ new.current = st.current /\ new.sequence = st.sequence

LEMMA CleanupCounts ==
  ASSUME NEW st, NEW a \in Attempts, NEW g \in Nat, NEW b, NEW n, NEW f,
         Sound(st, g, b, n, f), st.att[a].cleanup = "releasing"
  PROVE  st.ingress > 0 /\ NoneCommitted(st)
<1>1. a \in Cleaning(st)
  BY DEF Cleaning
<1>2. Cardinality(Cleaning(st)) \in Nat /\ Cardinality(Cleaning(st)) # 0
  BY <1>1, CleaningIsFinite, NobodyCleans
<1>3. st.ingress > 0
  BY <1>2 DEF Sound
<1> QED BY <1>3 DEF Sound, Sealed, NoneCommitted

LEMMA ReleasedSound ==
  ASSUME NEW st, NEW new, NEW a \in Attempts, NEW m,
         NEW g \in Nat, NEW b, NEW n, NEW f,
         Sound(st, g, b, n, f), Released(st, new, a, m)
  PROVE  Sound(new, g, b, n, f) /\ NoneCommitted(new)
<1>1. st \in AuthType /\ st.att \in AttemptTable
  BY DEF Sound, AuthType
<1>2. m \in AttemptRecord
  BY DEF Released
<1>3. \A c \in Attempts : new.att[c] = IF c = a THEN m ELSE st.att[c]
  BY <1>1, <1>2, TableChanged DEF Released
<1>4. a \in Cleaning(st) /\ Cleaning(new) = Cleaning(st) \ {a}
  BY <1>3 DEF Cleaning, Released
<1>5. /\ Cardinality(Cleaning(new)) = Cardinality(Cleaning(st)) - 1
      /\ Cardinality(Cleaning(st)) \in Nat
  BY <1>4, CleaningShrinks, CleaningIsFinite
<1>6. new.ingress = g + Cardinality(Cleaning(new))
  BY <1>5 DEF Sound, Released
<1>7. NoneCommitted(st)
  BY CleanupCounts DEF Released
<1>8. NoneCommitted(new)
  BY <1>3, <1>7 DEF NoneCommitted, Released
<1>9. Orderly(new)
  <2>1. \A c \in Attempts : st.att[c].cleanup = "none" => new.att[c].cleanup = "none"
    BY <1>3 DEF Released
  <2>2. st.current # 0 => st.current \in Attempts
    BY <1>1, BoundsAssumption DEF AuthType, Attempts
  <2> QED BY <2>1, <2>2 DEF Orderly, Sound, Released
<1>10. \A c \in Attempts : ReadsHold(new.att[c], c, b, n, f)
  <2>1. ReadsHold(m, a, b, n, f)
    BY DEF Sound, ReadsHold, Released
  <2> QED BY <1>3, <2>1 DEF Sound
<1>11. Sealed(new, g, f)
  BY <1>8 DEF Sealed, NoneCommitted
<1> QED BY <1>6, <1>8, <1>9, <1>10, <1>11 DEF Sound, Released

LEMMA WorkerReleasesKeeps ==
  ASSUME IInv, NEW a \in Attempts, WorkerReleases(a)
  PROVE  IInv'
<1>1. PICK x \in AttemptRecord : x = auth.att[a]
  BY RecordOf
<1>2. PICK latch \in BOOLEAN :
        auth' = LeaseReleased([auth EXCEPT !.att[a].cleanup = "done", !.latch = latch])
  <2>1. [auth EXCEPT !.att[a].cleanup = "done"]
          = [auth EXCEPT !.att[a].cleanup = "done", !.latch = auth.latch]
    BY Facts DEF AuthType
  <2>2. auth.latch \in BOOLEAN
    BY Facts DEF AuthType
  <2> QED BY <2>1, <2>2 DEF WorkerReleases
<1>3. x.cleanup = "releasing" /\ UNCHANGED <<guests, busy>>
  BY <1>1 DEF WorkerReleases
<1>4. PICK m : m = [x EXCEPT !.cleanup = "done"]
  OBVIOUS
<1>5. /\ m \in AttemptRecord /\ m.cleanup = "done" /\ m.phase = x.phase
      /\ m.step = x.step /\ m.seen = x.seen /\ m.readGen = x.readGen /\ m.clean = x.clean
  BY <1>4 DEF AttemptRecord
<1>6. Released(auth, auth', a, m)
  <2>1. auth.ingress - 1 \in Nat /\ auth.revision + 1 \in Nat
    <3>1. auth.ingress > 0
      BY <1>1, <1>3, Facts, CleanupCounts
    <3> QED BY <3>1, Facts DEF AuthType
  <2>2. PICK t : t = [auth.att EXCEPT ![a] = m]
    OBVIOUS
  <2>3. t \in AttemptTable
    BY <1>5, <2>2, Facts, TableChanged DEF AuthType
  <2>4. auth' = [auth EXCEPT !.att = t, !.latch = latch, !.ingress = auth.ingress - 1,
                             !.revision = auth.revision + 1]
    BY <1>1, <1>2, <1>4, <2>2, Facts DEF LeaseReleased, AuthType
  <2>5. /\ auth' \in AuthType /\ auth'.att = t /\ auth'.ingress = auth.ingress - 1
        /\ auth'.current = auth.current /\ auth'.sequence = auth.sequence
    BY <2>1, <2>3, <2>4, Facts DEF AuthType
  <2> QED BY <1>1, <1>3, <1>5, <2>2, <2>5 DEF Released
<1>7. PICK st : st = auth'
  OBVIOUS
<1>8. Sound(st, guests, busy, gen, fence) /\ NoneCommitted(st)
  BY <1>6, <1>7, Facts, ReleasedSound
<1>9. CASE UNCHANGED <<fence, gen>>
  BY <1>3, <1>7, <1>8, <1>9 DEF IInv, Surroundings
<1>10. CASE fence' = NoFence /\ gen' = [gen EXCEPT ![Worker] = @ + 1]
  <2>1. Sound(st, guests, busy, [gen EXCEPT ![Worker] = @ + 1], NoFence)
    BY <1>8, Facts, WorkerSound DEF NoneCommitted
  <2>2. gen' \in [Owners -> Nat]
    BY <1>10, Facts, GenerationsGrow
  <2>3. fence' \in [id : 0..MaxAttempts, acknowledged : BOOLEAN]
    BY <1>10, BoundsAssumption DEF NoFence
  <2> QED BY <1>3, <1>7, <1>10, <2>1, <2>2, <2>3, Facts DEF IInv, Surroundings
<1>11. CASE fence.id = 0 /\ fence' = NoFence /\ gen' = gen
  <2>1. ASSUME NEW c \in Attempts
        PROVE  ReadsHold(st.att[c], c, busy, gen, NoFence)
    <3>1. fence.id # c
      BY <1>11 DEF Attempts
    <3>2. ReadsHold(st.att[c], c, busy, gen, fence)
      BY <1>8 DEF Sound
    <3> QED BY <3>1, <3>2 DEF ReadsHold
  <2>2. Sound(st, guests, busy, gen, NoFence)
    BY <1>8, <2>1 DEF Sound, Sealed, NoneCommitted
  <2>3. NoFence \in [id : 0..MaxAttempts, acknowledged : BOOLEAN]
    BY BoundsAssumption DEF NoFence
  <2> QED BY <1>3, <1>7, <1>11, <2>2, <2>3, Facts DEF IInv, Surroundings
<1> QED BY <1>9, <1>10, <1>11 DEF WorkerReleases, Attempts

LEMMA InvNext == IInv /\ [Next]_vars => IInv'
<1> SUFFICES ASSUME IInv, [Next]_vars PROVE IInv'
  OBVIOUS
<1>1. CASE Enter \/ EnterCompletion
  BY <1>1, EnterKeeps
<1>2. CASE Leave
  BY <1>2, LeaveKeeps
<1>3. ASSUME NEW e \in Epochs, Prepare(e) \/ ControllerLost(e)
      PROVE  IInv'
  BY <1>3, PrepareKeeps, ControllerLostKeeps
<1>4. CASE Expire
  BY <1>4, ExpireKeeps
<1>5. ASSUME NEW a \in Attempts, Continuation(a)
      PROVE  IInv'
  <2>1. CASE WorkerCloses(a) \/ WorkerAnswersClose(a)
    BY <2>1, WorkerClosesKeeps, WorkerAnswersKeeps
  <2>2. CASE ReleaseStarts(a) \/ WorkerReleases(a)
    BY <2>2, ReleaseStartsKeeps, WorkerReleasesKeeps
  <2>3. CASE Fenced(a) \/ SnapshotReturns(a)
    BY <2>3, FencedKeeps, SnapshotReturnsKeeps
  <2>4. CASE PrepareConcludes(a) \/ CommitConcludes(a)
    BY <2>4, PrepareConcludesKeeps, CommitConcludesKeeps
  <2>5. ASSUME NEW o \in Owners, ReadOwner(a, o)
        PROVE  IInv'
    BY <2>5, ReadOwnerKeeps
  <2> QED BY <1>5, <2>1, <2>2, <2>3, <2>4, <2>5 DEF Continuation
<1>6. ASSUME NEW a \in Attempts, DeadlinePasses(a) \/ TokenLapses(a) \/ Cancel(a)
      PROVE  IInv'
  BY <1>6, DeadlineKeeps, TokenLapsesKeeps, CancelKeeps
<1>7. ASSUME NEW a \in Attempts, NEW e \in Epochs, Commit(a, e)
      PROVE  IInv'
  BY <1>7, CommitKeeps
<1>8. ASSUME NEW o \in Owners, OwnerChanges(o)
      PROVE  IInv'
  BY <1>8, OwnerChangesKeeps
<1>9. CASE UNCHANGED vars
  BY <1>9 DEF vars, IInv, Surroundings
<1> QED BY <1>1, <1>2, <1>3, <1>4, <1>5, <1>6, <1>7, <1>8, <1>9 DEF Next

LEMMA Invariant == Spec => []IInv
BY InvInit, InvNext, PTL DEF Spec
-----------------------------------------------------------------------------
(* Which attempts are committed changes in one step only: CommitsNow.        *)
Winners(st) == {c \in Attempts : st.att[c].phase = "committed"}

LEMMA SameWinners ==
  ASSUME NEW st, NEW new, NEW a \in Attempts, NEW m,
         st.att \in AttemptTable, new.att = [st.att EXCEPT ![a] = m],
         m.phase = "committed" <=> st.att[a].phase = "committed"
  PROVE  Winners(new) = Winners(st)
<1>1. \A c \in Attempts : new.att[c] = IF c = a THEN m ELSE st.att[c]
  BY DEF AttemptTable
<1> QED BY <1>1 DEF Winners

LEMMA EndedWinners ==
  ASSUME NEW st \in AuthType, NEW a \in Attempts
  PROVE  Winners(Ended(st, a)) = Winners(st) /\ Ended(st, a) \in AuthType
<1>1. st.att \in AttemptTable /\ st.att[a] \in AttemptRecord
  BY DEF AuthType, AttemptTable
<1>2. PICK m : m = Over(st.att[a])
  OBVIOUS
<1>3. m \in AttemptRecord /\ m.phase = st.att[a].phase
  BY <1>1, <1>2, OverRecord
<1>4. PICK new : new = Ended(st, a)
  OBVIOUS
<1>5. Rewritten(st, new, a, m)
  BY <1>2, <1>4 DEF Ended, Rewritten
<1>6. new \in AuthType /\ new.att = [st.att EXCEPT ![a] = m]
  BY <1>3, <1>5, Replaced
<1> QED BY <1>1, <1>3, <1>4, <1>6, SameWinners

LEMMA ReadingWinners ==
  ASSUME NEW st \in AuthType, NEW a \in Attempts, NEW step \in Steps,
         gen \in [Owners -> Nat]
  PROVE  Winners(Reading(st, a, step)) = Winners(st)
<1>1. st.att \in AttemptTable /\ st.att[a] \in AttemptRecord /\ st.revision \in Nat
  BY DEF AuthType, AttemptTable
<1>2. PICK m : m = Asking(st.att[a], step, st.revision)
  OBVIOUS
<1>3. m \in AttemptRecord /\ m.phase = st.att[a].phase
  BY <1>1, <1>2, AskingRecord
<1>4. PICK new : new = Reading(st, a, step)
  OBVIOUS
<1>5. new.att = [st.att EXCEPT ![a] = m]
  BY <1>2, <1>4 DEF Reading, AuthType
<1> QED BY <1>1, <1>3, <1>4, <1>5, SameWinners

LEMMA ReopenedWinners ==
  ASSUME NEW st \in AuthType, NEW a \in Attempts
  PROVE  Winners(Reopened(st, a)) = Winners(st)
<1>1. st.att \in AttemptTable /\ st.att[a] \in AttemptRecord
  BY DEF AuthType, AttemptTable
<1>2. PICK m : m = GivenUp(st.att[a])
  OBVIOUS
<1>3. m.phase = "reopened"
  BY <1>1, <1>2, GivenUpRecord
<1>4. CASE st.current = a /\ st.att[a].phase # "committed"
  <2>1. PICK new : new = Reopened(st, a)
    OBVIOUS
  <2>2. new.att = [st.att EXCEPT ![a] = m]
    BY <1>2, <1>4, <2>1 DEF Reopened, Acquired, AuthType
  <2> QED BY <1>1, <1>3, <1>4, <2>1, <2>2, SameWinners
<1>5. CASE ~(st.current = a /\ st.att[a].phase # "committed")
  BY <1>5 DEF Reopened
<1> QED BY <1>4, <1>5

LEMMA ExpiredWinners ==
  ASSUME NEW st \in AuthType
  PROVE  Winners(Expired(st)) = Winners(st)
<1>1. CASE Expired(st) = st
  BY <1>1
<1>2. CASE Expired(st) # st
  <2>1. st.current \in Attempts /\ Expired(st) = Reopened(st, st.current)
    BY <1>2, BoundsAssumption DEF Expired, AuthType, Attempts
  <2>2. PICK a \in Attempts : a = st.current
    BY <2>1
  <2>3. Winners(Reopened(st, a)) = Winners(st)
    BY ReopenedWinners
  <2> QED BY <2>1, <2>2, <2>3
<1> QED BY <1>1, <1>2

(* The authority after an expiry is well-typed. *)
LEMMA ExpiredFacts ==
  ASSUME IInv
  PROVE  /\ Expired(auth) \in AuthType /\ Expired(auth).att \in AttemptTable
         /\ Winners(Expired(auth)) = Winners(auth)
<1>1. PICK st : st = Expired(auth)
  OBVIOUS
<1>2. Sound(st, guests, busy, gen, fence)
  BY <1>1, Facts, ExpiredSound
<1>3. Winners(st) = Winners(auth)
  BY <1>1, Facts, ExpiredWinners
<1> QED BY <1>1, <1>2, <1>3 DEF Sound, AuthType

LEMMA AdmissionWinners ==
  ASSUME IInv,
         \/ Enter \/ EnterCompletion \/ Leave \/ Expire
         \/ \E e \in Epochs : Prepare(e) \/ ControllerLost(e)
  PROVE  Winners(auth') = Winners(auth)
<1>1. PICK st : st = Expired(auth)
  OBVIOUS
<1>2. st \in AuthType /\ st.att \in AttemptTable /\ Winners(st) = Winners(auth)
  BY <1>1, ExpiredFacts
<1>3. CASE Enter \/ EnterCompletion
  <2>1. auth' = Acquired(st)
    BY <1>1, <1>3 DEF Enter, EnterCompletion
  <2>2. auth'.att = st.att
    BY <1>2, <2>1 DEF Acquired, AuthType
  <2> QED BY <1>2, <2>2 DEF Winners
<1>4. CASE Leave
  <2>1. auth'.att = auth.att
    BY <1>4, Facts DEF Leave, LeaseReleased, AuthType
  <2> QED BY <2>1 DEF Winners
<1>5. CASE Expire
  BY <1>1, <1>2, <1>5 DEF Expire
<1>6. ASSUME NEW e \in Epochs, Prepare(e)
      PROVE  Winners(auth') = Winners(auth)
  <2>1. PICK a : a = st.sequence + 1
    OBVIOUS
  <2>2. PICK m : m = [st.att[a] EXCEPT !.phase = "preparing", !.epoch = e,
                                       !.step = "fencing", !.closing = "called",
                                       !.readRevision = st.revision + 1]
    OBVIOUS
  <2>3. /\ st.current = 0 /\ a \in Attempts
        /\ auth' = [st EXCEPT !.current = a, !.sequence = a, !.revision = @ + 1,
                              !.att[a] = m]
    BY <1>1, <1>6, <2>1, <2>2 DEF Prepare
  <2>4. auth'.att = [st.att EXCEPT ![a] = m]
    BY <1>2, <2>3 DEF AuthType
  <2>5. m.phase = "preparing"
    BY <1>2, <2>2, <2>3 DEF AttemptTable, AttemptRecord
  <2>6. st.att[a].phase # "committed"
    <3>1. Sound(st, guests, busy, gen, fence)
      BY <1>1, Facts, ExpiredSound
    <3> QED BY <2>3, <3>1 DEF Sound, Sealed, Attempts
  <2> QED BY <1>2, <2>3, <2>4, <2>5, <2>6, SameWinners
<1>7. ASSUME NEW e \in Epochs, ControllerLost(e)
      PROVE  Winners(auth') = Winners(auth)
  <2>1. PICK s : s = [auth EXCEPT !.lost = @ \cup {e}]
    OBVIOUS
  <2>2. s \in AuthType /\ s.att = auth.att
    BY <2>1, Facts DEF AuthType
  <2>3. auth' = s \/ (s.current # 0 /\ auth' = Reopened(s, s.current))
    <3>1. auth' = IF s.current # 0 /\ s.att[s.current].epoch = e
                  THEN Reopened(s, s.current) ELSE s
      BY <1>7, <2>1 DEF ControllerLost
    <3> QED BY <3>1
  <2>4. ASSUME s.current # 0
        PROVE  Winners(Reopened(s, s.current)) = Winners(s)
    <3>1. PICK a \in Attempts : a = s.current
      BY <2>2, <2>4, BoundsAssumption DEF AuthType, Attempts
    <3> QED BY <2>2, <3>1, ReopenedWinners
  <2> QED BY <2>2, <2>3, <2>4 DEF Winners
<1> QED BY <1>3, <1>4, <1>5, <1>6, <1>7

LEMMA AttemptWinners ==
  ASSUME IInv, NEW a \in Attempts,
         \/ Continuation(a) \/ DeadlinePasses(a) \/ TokenLapses(a) \/ Cancel(a)
         \/ \E e \in Epochs : Commit(a, e)
  PROVE  Winners(auth') = Winners(auth) \/ CommitsNow(a)
<1>1. auth \in AuthType /\ auth.att \in AttemptTable /\ auth.att[a] \in AttemptRecord
  BY RecordOf DEF AuthType
<1>2. PICK st : st = Expired(auth)
  OBVIOUS
<1>3. st \in AuthType /\ st.att \in AttemptTable /\ Winners(st) = Winners(auth)
  BY <1>2, ExpiredFacts
<1>4. CASE DeadlinePasses(a) \/ TokenLapses(a)
  <2>1. PICK m : /\ m \in {[auth.att[a] EXCEPT !.late = TRUE],
                           [auth.att[a] EXCEPT !.lapsed = TRUE]}
                 /\ auth' = [auth EXCEPT !.att = [auth.att EXCEPT ![a] = m]]
    BY <1>4 DEF DeadlinePasses, TokenLapses
  <2>2. m.phase = auth.att[a].phase /\ auth'.att = [auth.att EXCEPT ![a] = m]
    BY <1>1, <2>1 DEF AuthType, AttemptRecord
  <2> QED BY <1>1, <2>2, SameWinners
<1>5. CASE WorkerCloses(a) \/ WorkerAnswersClose(a)
  <2>1. PICK outcome : auth' = [auth EXCEPT !.att[a].closing = outcome]
    BY <1>5 DEF WorkerCloses, WorkerAnswersClose
  <2>2. PICK m : m = [auth.att[a] EXCEPT !.closing = outcome]
    OBVIOUS
  <2>3. m.phase = auth.att[a].phase /\ auth'.att = [auth.att EXCEPT ![a] = m]
    BY <1>1, <2>1, <2>2 DEF AuthType, AttemptRecord
  <2> QED BY <1>1, <2>3, SameWinners
<1>6. CASE ReleaseStarts(a)
  <2>1. PICK m : m = [auth.att[a] EXCEPT !.cleanup = "releasing"]
    OBVIOUS
  <2>2. m.phase = auth.att[a].phase /\ auth'.att = [auth.att EXCEPT ![a] = m]
    BY <1>1, <1>6, <2>1 DEF ReleaseStarts, AuthType, AttemptRecord
  <2> QED BY <1>1, <2>2, SameWinners
<1>7. CASE WorkerReleases(a)
  <2>1. PICK m : m = [auth.att[a] EXCEPT !.cleanup = "done"]
    OBVIOUS
  <2>2. m.phase = auth.att[a].phase /\ auth'.att = [auth.att EXCEPT ![a] = m]
    BY <1>1, <1>7, <2>1 DEF WorkerReleases, LeaseReleased, AuthType, AttemptRecord
  <2> QED BY <1>1, <2>2, SameWinners
<1>8. CASE Fenced(a) \/ PrepareConcludes(a)
  <2>1. CASE auth' = Ended(auth, a)
    BY <1>1, <2>1, EndedWinners
  <2>2. CASE auth' = Reopened(Ended(auth, a), a)
    <3>1. PICK mid : mid = Ended(auth, a)
      OBVIOUS
    <3>2. mid \in AuthType /\ Winners(mid) = Winners(auth)
      BY <1>1, <3>1, EndedWinners
    <3> QED BY <2>2, <3>1, <3>2, ReopenedWinners
  <2>3. CASE auth' = Reading(auth, a, "reading")
    BY <1>1, <2>3, Facts, ReadingWinners DEF Steps
  <2>4. CASE auth' = Holding(auth, a) /\ auth.att[a].step = "returned"
    <3>1. PICK m : m = Proven(auth.att[a], auth.revision + 1)
      OBVIOUS
    <3>2. m.phase = "prepared" /\ auth'.att = [auth.att EXCEPT ![a] = m]
      <4>1. auth.revision + 1 \in Nat
        BY <1>1 DEF AuthType
      <4>2. m.phase = "prepared"
        BY <1>1, <3>1, <4>1, ProvenRecord
      <4>3. auth'.att = [auth.att EXCEPT ![a] = m]
        BY <1>1, <2>4, <3>1 DEF Holding, AuthType
      <4> QED BY <4>2, <4>3
    <3>3. auth.att[a].phase # "committed"
      BY <2>4, RecordOf
    <3> QED BY <1>1, <3>2, <3>3, SameWinners
  <2> QED BY <1>8, <2>1, <2>2, <2>3, <2>4 DEF Fenced, PrepareConcludes
<1>9. CASE \E o \in Owners : ReadOwner(a, o)
  <2>1. PICK s : auth' = [auth EXCEPT !.att[a].seen = s]
    BY <1>9 DEF ReadOwner
  <2>2. PICK m : m = [auth.att[a] EXCEPT !.seen = s]
    OBVIOUS
  <2>3. m.phase = auth.att[a].phase /\ auth'.att = [auth.att EXCEPT ![a] = m]
    BY <1>1, <2>1, <2>2 DEF AuthType, AttemptRecord
  <2> QED BY <1>1, <2>3, SameWinners
<1>10. CASE SnapshotReturns(a)
  <2>1. PICK step, clean :
          auth' = [st EXCEPT !.att[a] = [@ EXCEPT !.step = step,
                                                  !.readRevision = st.revision,
                                                  !.clean = clean]]
    BY <1>2, <1>10, Zenon DEF SnapshotReturns
  <2>2. PICK m : m = [st.att[a] EXCEPT !.step = step, !.readRevision = st.revision,
                                       !.clean = clean]
    OBVIOUS
  <2>3. m.phase = st.att[a].phase /\ auth'.att = [st.att EXCEPT ![a] = m]
    BY <1>3, <2>1, <2>2 DEF AuthType, AttemptTable, AttemptRecord
  <2> QED BY <1>3, <2>3, SameWinners
<1>11. CASE CommitConcludes(a)
  <2>1. CASE auth' = Ended(st, a)
    BY <1>3, <2>1, EndedWinners
  <2>2. CASE auth' = Reopened(Ended(st, a), a)
    <3>1. PICK mid : mid = Ended(st, a)
      OBVIOUS
    <3>2. mid \in AuthType /\ Winners(mid) = Winners(st)
      BY <1>3, <3>1, EndedWinners
    <3> QED BY <1>3, <2>2, <3>1, <3>2, ReopenedWinners
  <2> QED BY <1>2, <1>11, <2>1, <2>2, CommitConcludesCases
<1>12. CASE Cancel(a)
  <2>1. auth' = Reopened(st, a)
    BY <1>2, <1>12 DEF Cancel
  <2> QED BY <1>3, <2>1, ReopenedWinners
<1>13. CASE \E e \in Epochs : Commit(a, e)
  <2>1. PICK s : s = [st EXCEPT !.att[a].committing = TRUE]
    OBVIOUS
  <2>2. auth' = Reading(s, a, "rereading")
    BY <1>2, <1>13, <2>1 DEF Commit
  <2>3. PICK m : m = [st.att[a] EXCEPT !.committing = TRUE]
    OBVIOUS
  <2>4. m \in AttemptRecord /\ m.phase = st.att[a].phase
    <3>1. st.att[a] \in AttemptRecord
      BY <1>3 DEF AttemptTable
    <3> QED BY <2>3, <3>1 DEF AttemptRecord
  <2>5. Rewritten(st, s, a, m)
    BY <2>1, <2>3 DEF Rewritten
  <2>6. s \in AuthType /\ s.att = [st.att EXCEPT ![a] = m]
    BY <1>3, <2>4, <2>5, Replaced
  <2>7. Winners(s) = Winners(st)
    BY <1>3, <2>4, <2>6, SameWinners
  <2>8. "rereading" \in Steps
    BY DEF Steps
  <2> QED BY <1>3, <2>2, <2>6, <2>7, <2>8, Facts, ReadingWinners
<1> QED
  BY <1>4, <1>5, <1>6, <1>7, <1>8, <1>9, <1>10, <1>11, <1>12, <1>13 DEF Continuation

LEMMA WinnersChange ==
  ASSUME IInv, [Next]_vars
  PROVE  Winners(auth') = Winners(auth) \/ \E a \in Attempts : CommitsNow(a)
<1>1. CASE \E a \in Attempts :
             \/ Continuation(a) \/ DeadlinePasses(a) \/ TokenLapses(a) \/ Cancel(a)
             \/ \E e \in Epochs : Commit(a, e)
  BY <1>1, AttemptWinners
<1>2. CASE \/ Enter \/ EnterCompletion \/ Leave \/ Expire
           \/ \E e \in Epochs : Prepare(e) \/ ControllerLost(e)
  BY <1>2, AdmissionWinners
<1>3. CASE (\E o \in Owners : OwnerChanges(o)) \/ UNCHANGED vars
  BY <1>3 DEF OwnerChanges, vars
<1> QED BY <1>1, <1>2, <1>3 DEF Next
-----------------------------------------------------------------------------
(* Every field of the authority keeps its type, whatever is abandoned,       *)
(* comes back late or fails: no release (leases, cleanups) takes the ingress *)
(* counter below zero.                                                       *)
THEOREM TypeCorrect == Spec => []TypeOK
<1>1. IInv => TypeOK
  BY DEF IInv, Sound, Surroundings, AuthType, AttemptTable, TypeOK
<1> QED BY <1>1, Invariant, PTL

(* acquire, its release closure and the cleanup of reopen are balanced: the  *)
(* counter is the leases that are held and the fences being released.        *)
THEOREM IngressAlwaysAccounted == Spec => []IngressIsAccounted
<1>1. IInv => IngressIsAccounted
  BY DEF IInv, Sound, Cleaning, CleaningUp, IngressIsAccounted
<1> QED BY <1>1, Invariant, PTL

(* commitInner commits only when, at that very moment, every owner is idle   *)
(* at the generation its token stands for and nobody is inside: the proof    *)
(* collected over many awaits is one of the present.                         *)
THEOREM CommitsAreProven == Spec => CommitIsProven
<1> DEFINE A(a) == auth.att[a].phase # "committed" /\ auth'.att[a].phase = "committed" =>
                     /\ \A o \in Owners : ~busy[o] /\ gen[o] = auth.att[a].generations[o]
                     /\ guests = 0 /\ CleaningUp = {}
<1>1. IInv /\ [Next]_vars => [\A a \in Attempts : A(a)]_vars
  <2> SUFFICES ASSUME IInv, [Next]_vars, NEW a \in Attempts,
                      auth.att[a].phase # "committed", auth'.att[a].phase = "committed"
               PROVE  /\ \A o \in Owners :
                           ~busy[o] /\ gen[o] = auth.att[a].generations[o]
                      /\ guests = 0 /\ CleaningUp = {}
    OBVIOUS
  <2>1. Winners(auth') # Winners(auth)
    BY DEF Winners
  <2>2. PICK c \in Attempts : CommitsNow(c)
    BY <2>1, WinnersChange
  <2>3. a = c
    BY <2>2, CommitChanges
  <2>4. /\ auth.att[a].step = "rereturned" /\ ProofStands(auth, a)
        /\ auth.att[a].generations = auth.att[a].readGen
    BY <2>2, <2>3 DEF CommitsNow
  <2>5. /\ \A o \in Owners : busy[o] = FALSE /\ gen[o] = auth.att[a].readGen[o]
        /\ guests = 0 /\ Cleaning(auth) = {}
    BY <2>4, ProofIsOfNow
  <2> QED BY <2>4, <2>5 DEF Cleaning, CleaningUp
<1> QED BY <1>1, Invariant, PTL DEF Spec, CommitIsProven

(* Once committed, an attempt stays committed: no timer, cancel, lost        *)
(* controller or late callback reopens it, nobody gets in, and the worker's  *)
(* fence does not move.                                                      *)
THEOREM CommitsAreFinal == Spec => CommitIsFinal
<1> DEFINE A(a) == auth.att[a].phase = "committed" =>
                     auth'.att[a].phase = "committed" /\ guests' = 0 /\ fence' = fence
<1>1. IInv /\ [Next]_vars => [\A a \in Attempts : A(a)]_vars
  <2> SUFFICES ASSUME IInv, [Next]_vars, NEW a \in Attempts,
                      auth.att[a].phase = "committed"
               PROVE  auth'.att[a].phase = "committed" /\ guests' = 0 /\ fence' = fence
    OBVIOUS
  <2>1. /\ auth.current = a /\ auth.att[a].step = "done"
        /\ fence.id = a /\ fence.acknowledged = TRUE
    BY Facts DEF Sound, Sealed
  <2>2. \A c \in Attempts : ~CommitsNow(c)
    BY <2>1 DEF CommitsNow
  <2>3. Winners(auth') = Winners(auth)
    BY <2>2, WinnersChange
  <2>4. auth'.att[a].phase = "committed"
    BY <2>3 DEF Winners
  <2>5. IInv'
    BY InvNext
  <2>6. guests' = 0 /\ fence'.id = a /\ fence'.acknowledged = TRUE
    BY <2>4, <2>5 DEF IInv, Sound, Sealed
  <2>7. /\ fence \in [id : 0..MaxAttempts, acknowledged : BOOLEAN]
        /\ fence' \in [id : 0..MaxAttempts, acknowledged : BOOLEAN]
    BY <2>5 DEF IInv, Surroundings
  <2>8. fence' = fence
    BY <2>1, <2>6, <2>7
  <2> QED BY <2>4, <2>6, <2>8
<1> QED BY <1>1, Invariant, PTL DEF Spec, CommitIsFinal
-----------------------------------------------------------------------------
(***************************************************************************)
(* What an attempt at a restart holds is what it was told: the worker's    *)
(* fence, its token and the answer to its commit.                          *)
(*                                                                         *)
(* None of the three can be seen from the present alone: that the fence is *)
(* the attempt's own follows from how its fence.close settled and whether  *)
(* its release ran, so the invariant relates the phase of an attempt to    *)
(* the step its function waits in, the promise of the close and the stage  *)
(* of the cleanup, and these to the fence.                                 *)
(***************************************************************************)
Active(m) == m.phase \in {"preparing", "prepared", "committed"}

(* The history of an attempt that its record shows. *)
RecordKept(m) ==
  /\ m.phase = "unused" => m.closing = "none" /\ m.step = "none"
  /\ m.phase \in {"unused", "preparing", "prepared"} => m.answer = "none"
  /\ m.phase = "committed" => m.answer = "ok"
  /\ m.phase = "reopened" => m.answer # "ok"
  /\ m.phase = "reopened" <=> m.cleanup # "none"
  /\ m.step \in {"fencing", "reading", "returned"} => m.phase \in {"preparing", "reopened"}
  /\ m.step \in {"holding", "rereading", "rereturned"} => m.phase \in {"prepared", "reopened"}
  /\ \/ m.step \in {"reading", "returned", "holding", "rereading", "rereturned"}
     \/ m.phase \in {"prepared", "committed"}
     => m.closing = "closed"
  /\ m.cleanup \in {"releasing", "done"} => m.closing \in {"closed", "rejected"}

(* What attempt a, whose record is m, knows of the fence, and the fence of  *)
(* it.                                                                      *)
FenceKept(a, m, f, latch) ==
  /\ m.closing = "requested" => f.id = a
  /\ m.closing = "closed" /\ m.cleanup # "done" => f.id = a /\ f.acknowledged = TRUE
  /\ f.id = a => /\ m.closing \in {"requested", "closed", "rejected"}
                 /\ m.cleanup = "done" => latch = TRUE

Kept(st, f) ==
  \A a \in Attempts :
    /\ RecordKept(st.att[a])
    /\ FenceKept(a, st.att[a], f, st.latch)
    /\ Active(st.att[a]) <=> st.current = a
    /\ a > st.sequence => st.att[a].phase = "unused"

KInv == IInv /\ Kept(auth, fence)

(* The fields the invariant is about. *)
Same(m, x) ==
  m.phase = x.phase /\ m.closing = x.closing /\ m.cleanup = x.cleanup /\ m.answer = x.answer
-----------------------------------------------------------------------------
(* One attempt's record changes. *)
LEMMA RecordChanges ==
  ASSUME NEW st, NEW new, NEW a \in Attempts, NEW m, NEW f,
         st.att \in AttemptTable, new.att = [st.att EXCEPT ![a] = m], Kept(st, f),
         st.latch = TRUE => new.latch = TRUE,
         RecordKept(m), FenceKept(a, m, f, new.latch),
         Active(m) <=> new.current = a,
         \A c \in Attempts \ {a} : new.current = c <=> st.current = c,
         \A c \in Attempts \ {a} : c > new.sequence => c > st.sequence,
         a > new.sequence => m.phase = "unused"
  PROVE  Kept(new, f)
<1>1. \A c \in Attempts : new.att[c] = IF c = a THEN m ELSE st.att[c]
  BY DEF AttemptTable
<1> SUFFICES ASSUME NEW c \in Attempts
             PROVE  /\ RecordKept(new.att[c])
                    /\ FenceKept(c, new.att[c], f, new.latch)
                    /\ Active(new.att[c]) <=> new.current = c
                    /\ c > new.sequence => new.att[c].phase = "unused"
  BY DEF Kept
<1>2. CASE c = a
  BY <1>1, <1>2
<1>3. CASE c # a
  BY <1>1, <1>3 DEF Kept, FenceKept
<1> QED BY <1>2, <1>3

(* The step of one attempt moves on, and nothing else of interest.          *)
LEMMA StepMoves ==
  ASSUME NEW st \in AuthType, NEW new, NEW a \in Attempts, NEW m, NEW f,
         new.att = [st.att EXCEPT ![a] = m], Kept(st, f),
         new.latch = st.latch, new.current = st.current, new.sequence = st.sequence,
         Same(m, st.att[a]), RecordKept(m)
  PROVE  Kept(new, f)
<1>1. FenceKept(a, m, f, new.latch)
  BY DEF Kept, FenceKept, Same
<1>2. Active(m) <=> new.current = a
  BY DEF Kept, Active, Same
<1>3. a > new.sequence => m.phase = "unused"
  BY DEF Kept, Same
<1> QED BY <1>1, <1>2, <1>3, RecordChanges DEF AuthType

(* Ended, Reading, Reopened, Expired. *)
LEMMA OverKeeps ==
  ASSUME NEW x \in AttemptRecord
  PROVE  Same(Over(x), x) /\ Over(x).step = "done"
BY DEF Over, Same, AttemptRecord

LEMMA AskingKeeps ==
  ASSUME NEW x \in AttemptRecord, NEW step, NEW revision
  PROVE  Same(Asking(x, step, revision), x) /\ Asking(x, step, revision).step = step
BY DEF Asking, Same, AttemptRecord

LEMMA EndedKept ==
  ASSUME NEW st \in AuthType, NEW a \in Attempts, NEW f, Kept(st, f),
         st.att[a].phase # "unused"
  PROVE  /\ Kept(Ended(st, a), f)
         /\ Ended(st, a).current = st.current
         /\ Ended(st, a).att[a] = Over(st.att[a])
<1>1. st.att \in AttemptTable /\ st.att[a] \in AttemptRecord
  BY DEF AuthType, AttemptTable
<1>2. PICK m : m = Over(st.att[a])
  OBVIOUS
<1>3. Same(m, st.att[a]) /\ m.step = "done"
  BY <1>1, <1>2, OverKeeps
<1>4. PICK new : new = Ended(st, a)
  OBVIOUS
<1>5. /\ new.att = [st.att EXCEPT ![a] = m] /\ new.latch = st.latch
      /\ new.current = st.current /\ new.sequence = st.sequence
  BY <1>2, <1>4 DEF Ended, AuthType
<1>6. RecordKept(m)
  BY <1>3 DEF Kept, RecordKept, Same
<1>7. Kept(new, f)
  BY <1>3, <1>5, <1>6, StepMoves
<1> QED BY <1>1, <1>2, <1>4, <1>5, <1>7 DEF AttemptTable

LEMMA ReadingKept ==
  ASSUME NEW st \in AuthType, NEW a \in Attempts, NEW step, NEW f, Kept(st, f),
         st.att[a].closing = "closed",
         \/ step = "reading" /\ st.att[a].phase = "preparing"
         \/ step = "rereading" /\ st.att[a].phase = "prepared"
  PROVE  Kept(Reading(st, a, step), f)
<1>1. st.att \in AttemptTable /\ st.att[a] \in AttemptRecord
  BY DEF AuthType, AttemptTable
<1>2. PICK m : m = Asking(st.att[a], step, st.revision)
  OBVIOUS
<1>3. Same(m, st.att[a]) /\ m.step = step
  BY <1>1, <1>2, AskingKeeps
<1>4. PICK new : new = Reading(st, a, step)
  OBVIOUS
<1>5. /\ new.att = [st.att EXCEPT ![a] = m] /\ new.latch = st.latch
      /\ new.current = st.current /\ new.sequence = st.sequence
  BY <1>2, <1>4 DEF Reading, AuthType
<1>6. RecordKept(m)
  BY <1>3 DEF Kept, RecordKept, Same
<1>7. Kept(new, f)
  BY <1>3, <1>5, <1>6, StepMoves
<1> QED BY <1>4, <1>7

LEMMA GivenUpKeeps ==
  ASSUME NEW x \in AttemptRecord
  PROVE  LET y == GivenUp(x)
         IN /\ y.phase = "reopened" /\ y.cleanup = "joining"
            /\ y.closing = x.closing /\ y.step = x.step
            /\ x.answer # "ok" => y.answer # "ok"
<1>1. PICK t : t = IF x.committing /\ x.answer = "none" THEN "failed" ELSE x.answer
  OBVIOUS
<1>2. PICK y : y = [x EXCEPT !.phase = "reopened", !.cleanup = "joining", !.answer = t]
  OBVIOUS
<1>3. /\ y.phase = "reopened" /\ y.cleanup = "joining"
      /\ y.closing = x.closing /\ y.step = x.step /\ y.answer = t
  BY <1>2 DEF AttemptRecord
<1>4. y = GivenUp(x)
  BY <1>1, <1>2, Zenon DEF GivenUp
<1>5. x.answer # "ok" => t # "ok"
  BY <1>1
<1> QED BY <1>3, <1>4, <1>5

LEMMA ReopenedKept ==
  ASSUME NEW st \in AuthType, NEW a \in Attempts, NEW f, Kept(st, f)
  PROVE  Kept(Reopened(st, a), f)
<1>1. st.att \in AttemptTable /\ st.att[a] \in AttemptRecord
  BY DEF AuthType, AttemptTable
<1>2. CASE st.current # a \/ st.att[a].phase = "committed"
  BY <1>2 DEF Reopened
<1>3. CASE st.current = a /\ st.att[a].phase # "committed"
  <2>1. PICK m : m = GivenUp(st.att[a])
    OBVIOUS
  <2>2. st.att[a].phase \in {"preparing", "prepared"} /\ st.att[a].answer = "none"
    BY <1>3 DEF Kept, RecordKept, Active
  <2>3. /\ m.phase = "reopened" /\ m.cleanup = "joining" /\ m.answer # "ok"
        /\ m.closing = st.att[a].closing /\ m.step = st.att[a].step
    BY <1>1, <2>1, <2>2, GivenUpKeeps
  <2>4. PICK new : new = Reopened(st, a)
    OBVIOUS
  <2>5. /\ new.att = [st.att EXCEPT ![a] = m] /\ new.latch = st.latch
        /\ new.current = 0 /\ new.sequence = st.sequence
    BY <1>3, <2>1, <2>4 DEF Reopened, Acquired, AuthType
  <2>6. RecordKept(m)
    BY <2>2, <2>3 DEF Kept, RecordKept
  <2>7. FenceKept(a, m, f, new.latch)
    BY <2>2, <2>3 DEF Kept, RecordKept, FenceKept
  <2>8. ~(a > st.sequence) /\ ~Active(m) /\ \A c \in Attempts : c # 0
    BY <2>2, <2>3, BoundsAssumption DEF Kept, Active, Attempts
  <2>9. Kept(new, f)
    BY <1>1, <1>3, <2>5, <2>6, <2>7, <2>8, RecordChanges
  <2> QED BY <2>4, <2>9
<1> QED BY <1>2, <1>3

LEMMA ExpiredKept ==
  ASSUME NEW st \in AuthType, NEW f, Kept(st, f)
  PROVE  Kept(Expired(st), f)
<1>1. CASE Expired(st) = st
  BY <1>1
<1>2. CASE Expired(st) # st
  <2>1. st.current \in Attempts /\ Expired(st) = Reopened(st, st.current)
    BY <1>2, BoundsAssumption DEF Expired, AuthType, Attempts
  <2>2. PICK a \in Attempts : a = st.current
    BY <2>1
  <2>3. Kept(Reopened(st, a), f)
    BY ReopenedKept
  <2> QED BY <2>1, <2>2, <2>3
<1> QED BY <1>1, <1>2
-----------------------------------------------------------------------------
(* The fence changes with the record of the attempt that changes it.        *)
LEMMA FenceChanges ==
  ASSUME NEW st \in AuthType, NEW new, NEW a \in Attempts, NEW m, NEW f, NEW h,
         new.att = [st.att EXCEPT ![a] = m], Kept(st, f),
         new.current = st.current, new.sequence = st.sequence,
         m.phase = st.att[a].phase, RecordKept(m), FenceKept(a, m, h, new.latch),
         \A c \in Attempts \ {a} : FenceKept(c, st.att[c], h, new.latch)
  PROVE  Kept(new, h)
<1>1. \A c \in Attempts : new.att[c] = IF c = a THEN m ELSE st.att[c]
  BY DEF AuthType, AttemptTable
<1> SUFFICES ASSUME NEW c \in Attempts
             PROVE  /\ RecordKept(new.att[c])
                    /\ FenceKept(c, new.att[c], h, new.latch)
                    /\ Active(new.att[c]) <=> new.current = c
                    /\ c > new.sequence => new.att[c].phase = "unused"
  BY DEF Kept
<1>2. CASE c = a
  BY <1>1, <1>2 DEF Kept, Active
<1>3. CASE c # a
  BY <1>1, <1>3 DEF Kept
<1> QED BY <1>2, <1>3

(* The counters move and the attempts stay.                                 *)
LEMMA TableStays ==
  ASSUME NEW st, NEW new, NEW f, Kept(st, f), new.att = st.att, new.latch = st.latch,
         new.current = st.current, new.sequence = st.sequence
  PROVE  Kept(new, f)
BY DEF Kept

(* Where every step starts from.                                            *)
LEMMA Start ==
  ASSUME KInv, NEW a \in Attempts
  PROVE  /\ auth \in AuthType /\ auth.att \in AttemptTable /\ auth.att[a] \in AttemptRecord
         /\ Kept(auth, fence) /\ RecordKept(auth.att[a])
         /\ FenceKept(a, auth.att[a], fence, auth.latch)
         /\ Active(auth.att[a]) <=> auth.current = a
BY RecordOf DEF KInv, Kept, AuthType

LEMMA StartExpired ==
  ASSUME KInv
  PROVE  /\ auth \in AuthType /\ Kept(auth, fence)
         /\ Expired(auth) \in AuthType /\ Expired(auth).att \in AttemptTable
         /\ Kept(Expired(auth), fence)
<1>1. auth \in AuthType /\ Kept(auth, fence)
  BY Facts DEF KInv
<1> QED BY <1>1, ExpiredFacts, ExpiredKept DEF KInv

(* A lease is taken or given back. *)
LEMMA LeaseKept ==
  ASSUME KInv, Enter \/ EnterCompletion \/ Leave
  PROVE  Kept(auth', fence')
<1>1. PICK st : st = Expired(auth)
  OBVIOUS
<1>2. st \in AuthType /\ Kept(st, fence) /\ auth \in AuthType /\ Kept(auth, fence)
  BY <1>1, StartExpired
<1>3. CASE Enter \/ EnterCompletion
  <2>1. auth' = Acquired(st) /\ fence' = fence
    BY <1>1, <1>3 DEF Enter, EnterCompletion
  <2>2. /\ auth'.att = st.att /\ auth'.latch = st.latch
        /\ auth'.current = st.current /\ auth'.sequence = st.sequence
    BY <1>2, <2>1 DEF Acquired, AuthType
  <2> QED BY <1>2, <2>1, <2>2, TableStays
<1>4. CASE Leave
  <2>1. auth' = LeaseReleased(auth) /\ fence' = fence
    BY <1>4 DEF Leave
  <2>2. /\ auth'.att = auth.att /\ auth'.latch = auth.latch
        /\ auth'.current = auth.current /\ auth'.sequence = auth.sequence
    BY <1>2, <2>1 DEF LeaseReleased, AuthType
  <2> QED BY <1>2, <2>1, <2>2, TableStays
<1> QED BY <1>3, <1>4

(* A new attempt has no fence yet, and nobody else is current.              *)
LEMMA PrepareKept == ASSUME KInv, NEW e \in Epochs, Prepare(e) PROVE Kept(auth', fence')
<1>1. PICK st : st = Expired(auth)
  OBVIOUS
<1>2. st \in AuthType /\ st.att \in AttemptTable /\ Kept(st, fence)
  BY <1>1, StartExpired
<1>3. PICK a : a = st.sequence + 1
  OBVIOUS
<1>4. PICK m : m = [st.att[a] EXCEPT !.phase = "preparing", !.epoch = e,
                                     !.step = "fencing", !.closing = "called",
                                     !.readRevision = st.revision + 1]
  OBVIOUS
<1>5. /\ st.current = 0 /\ a \in Attempts /\ fence' = fence
      /\ auth' = [st EXCEPT !.current = a, !.sequence = a, !.revision = @ + 1, !.att[a] = m]
  BY <1>1, <1>3, <1>4 DEF Prepare
<1>6. /\ auth'.att = [st.att EXCEPT ![a] = m] /\ auth'.latch = st.latch
      /\ auth'.current = a /\ auth'.sequence = a
  BY <1>2, <1>5 DEF AuthType
<1>7. PICK x \in AttemptRecord : x = st.att[a]
  BY <1>2, <1>5 DEF AttemptTable
<1>8. /\ m.phase = "preparing" /\ m.step = "fencing" /\ m.closing = "called"
      /\ m.cleanup = x.cleanup /\ m.answer = x.answer
  BY <1>4, <1>7 DEF AttemptRecord
<1>9. a > st.sequence /\ \A c \in Attempts : c > a => c > st.sequence
  BY <1>2, <1>3 DEF AuthType, Attempts
<1>10. x.phase = "unused" /\ RecordKept(x) /\ FenceKept(a, x, fence, st.latch)
  BY <1>2, <1>5, <1>7, <1>9 DEF Kept
<1>11. RecordKept(m) /\ FenceKept(a, m, fence, auth'.latch) /\ Active(m)
  BY <1>8, <1>10 DEF RecordKept, FenceKept, Active
<1>12. /\ \A c \in Attempts \ {a} : auth'.current = c <=> st.current = c
       /\ \A c \in Attempts \ {a} : c > auth'.sequence => c > st.sequence
       /\ ~(a > auth'.sequence)
  BY <1>5, <1>6, <1>9, BoundsAssumption DEF Attempts
<1>13. /\ st.latch = TRUE => auth'.latch = TRUE
       /\ Active(m) <=> auth'.current = a
  BY <1>6, <1>11
<1>14. Kept(auth', fence)
  BY <1>2, <1>5, <1>6, <1>11, <1>12, <1>13, RecordChanges
<1> QED BY <1>5, <1>14

(* A lost controller gives its attempt up. *)
LEMMA ControllerLostKept ==
  ASSUME KInv, NEW e \in Epochs, ControllerLost(e)
  PROVE  Kept(auth', fence')
<1>1. PICK s : s = [auth EXCEPT !.lost = @ \cup {e}]
  OBVIOUS
<1>2. auth \in AuthType /\ Kept(auth, fence)
  BY StartExpired
<1>3. /\ s \in AuthType /\ s.att = auth.att /\ s.latch = auth.latch
      /\ s.current = auth.current /\ s.sequence = auth.sequence
  BY <1>1, <1>2 DEF AuthType
<1>4. Kept(s, fence)
  BY <1>2, <1>3, TableStays
<1>5. auth' = s \/ (s.current # 0 /\ auth' = Reopened(s, s.current))
  <2>1. auth' = IF s.current # 0 /\ s.att[s.current].epoch = e
                THEN Reopened(s, s.current) ELSE s
    BY <1>1 DEF ControllerLost
  <2> QED BY <2>1
<1>6. ASSUME s.current # 0
      PROVE  Kept(Reopened(s, s.current), fence)
  <2>1. PICK a \in Attempts : a = s.current
    BY <1>3, <1>6, BoundsAssumption DEF AuthType, Attempts
  <2>2. Kept(Reopened(s, a), fence)
    BY <1>3, <1>4, ReopenedKept
  <2> QED BY <2>1, <2>2
<1> QED BY <1>4, <1>5, <1>6 DEF ControllerLost

(* The clocks and the answers of readers.                                   *)
LEMMA ClocksKept ==
  ASSUME KInv, NEW a \in Attempts,
         DeadlinePasses(a) \/ TokenLapses(a) \/ \E o \in Owners : ReadOwner(a, o)
  PROVE  Kept(auth', fence')
<1>1. PICK x \in AttemptRecord : x = auth.att[a] /\ RecordKept(x)
  BY Start
<1>2. auth \in AuthType /\ Kept(auth, fence)
  BY Start
<1>3. ASSUME NEW m, Same(m, x), m.step = x.step,
             auth' = [auth EXCEPT !.att = [auth.att EXCEPT ![a] = m]], fence' = fence
      PROVE  Kept(auth', fence')
  <2>1. /\ auth'.att = [auth.att EXCEPT ![a] = m] /\ auth'.latch = auth.latch
        /\ auth'.current = auth.current /\ auth'.sequence = auth.sequence
    BY <1>2, <1>3 DEF AuthType
  <2>2. RecordKept(m)
    BY <1>1, <1>3 DEF RecordKept, Same
  <2> QED BY <1>1, <1>2, <1>3, <2>1, <2>2, StepMoves
<1>4. CASE DeadlinePasses(a)
  <2>1. PICK m : m = [x EXCEPT !.late = TRUE]
    OBVIOUS
  <2>2. Same(m, x) /\ m.step = x.step
    BY <2>1 DEF Same, AttemptRecord
  <2> QED BY <1>1, <1>3, <1>4, <2>1, <2>2 DEF DeadlinePasses
<1>5. CASE TokenLapses(a)
  <2>1. PICK m : m = [x EXCEPT !.lapsed = TRUE]
    OBVIOUS
  <2>2. Same(m, x) /\ m.step = x.step
    BY <2>1 DEF Same, AttemptRecord
  <2> QED BY <1>1, <1>3, <1>5, <2>1, <2>2 DEF TokenLapses
<1>6. CASE \E o \in Owners : ReadOwner(a, o)
  <2>1. PICK o \in Owners, result \in {"idle", "blocked"} :
          /\ auth' = [auth EXCEPT !.att[a].seen[o] = result]
          /\ fence' = fence
    BY <1>6 DEF ReadOwner
  <2>2. PICK v : v = [x.seen EXCEPT ![o] = result]
    OBVIOUS
  <2>3. PICK m : m = [x EXCEPT !.seen = v]
    OBVIOUS
  <2>4. Same(m, x) /\ m.step = x.step
    BY <2>3 DEF Same, AttemptRecord
  <2>5. auth' = [auth EXCEPT !.att = [auth.att EXCEPT ![a] = m]]
    BY <1>1, <2>1, <2>2, <2>3
  <2> QED BY <1>3, <2>1, <2>4, <2>5
<1> QED BY <1>4, <1>5, <1>6

(* The worker closes for an attempt, or refuses to. *)
LEMMA WorkerClosesKept == ASSUME KInv, NEW a \in Attempts, WorkerCloses(a) PROVE Kept(auth', fence')
<1>1. PICK x \in AttemptRecord : x = auth.att[a] /\ RecordKept(x)
                                 /\ FenceKept(a, x, fence, auth.latch)
  BY Start
<1>2. auth \in AuthType /\ Kept(auth, fence)
  BY Start
<1>3. PICK outcome \in {"requested", "rejected"} :
        /\ auth' = [auth EXCEPT !.att[a].closing = outcome]
        /\ \/ fence.id # 0 /\ fence' = fence /\ outcome = "rejected"
           \/ fence.id = 0 /\ fence' = [id |-> a, acknowledged |-> FALSE]
  BY DEF WorkerCloses
<1>4. PICK m : m = [x EXCEPT !.closing = outcome]
  OBVIOUS
<1>5. /\ m.closing = outcome /\ m.phase = x.phase /\ m.cleanup = x.cleanup
      /\ m.answer = x.answer /\ m.step = x.step
  BY <1>4 DEF AttemptRecord
<1>6. /\ auth'.att = [auth.att EXCEPT ![a] = m] /\ auth'.latch = auth.latch
      /\ auth'.current = auth.current /\ auth'.sequence = auth.sequence
  BY <1>1, <1>2, <1>3, <1>4 DEF AuthType
<1>7. x.closing = "called"
  BY <1>1 DEF WorkerCloses
<1>8. RecordKept(m)
  BY <1>1, <1>5, <1>7 DEF RecordKept
<1>9. FenceKept(a, m, fence', auth'.latch)
  BY <1>1, <1>3, <1>5, <1>6, <1>7, <1>8 DEF FenceKept, RecordKept
<1>10. ASSUME NEW c \in Attempts \ {a}
       PROVE  FenceKept(c, auth.att[c], fence', auth'.latch)
  <2>1. FenceKept(c, auth.att[c], fence, auth.latch) /\ c # 0
    BY <1>2, BoundsAssumption DEF Kept, Attempts
  <2> QED BY <1>3, <1>6, <2>1 DEF FenceKept
<1> QED BY <1>1, <1>2, <1>5, <1>6, <1>8, <1>9, <1>10, FenceChanges

(* The close settles. *)
LEMMA WorkerAnswersKept ==
  ASSUME KInv, NEW a \in Attempts, WorkerAnswersClose(a)
  PROVE  Kept(auth', fence')
<1>1. PICK x \in AttemptRecord : x = auth.att[a] /\ RecordKept(x)
                                 /\ FenceKept(a, x, fence, auth.latch)
  BY Start
<1>2. auth \in AuthType /\ Kept(auth, fence)
      /\ fence \in [id : 0..MaxAttempts, acknowledged : BOOLEAN]
  BY Start, Facts DEF KInv
<1>3. PICK outcome \in {"closed", "rejected"} :
        /\ auth' = [auth EXCEPT !.att[a].closing = outcome]
        /\ \/ fence' = [fence EXCEPT !.acknowledged = TRUE]
           \/ fence' = fence /\ outcome = "rejected"
  BY DEF WorkerAnswersClose
<1>4. PICK m : m = [x EXCEPT !.closing = outcome]
  OBVIOUS
<1>5. /\ m.closing = outcome /\ m.phase = x.phase /\ m.cleanup = x.cleanup
      /\ m.answer = x.answer /\ m.step = x.step
  BY <1>4 DEF AttemptRecord
<1>6. /\ auth'.att = [auth.att EXCEPT ![a] = m] /\ auth'.latch = auth.latch
      /\ auth'.current = auth.current /\ auth'.sequence = auth.sequence
  BY <1>1, <1>2, <1>3, <1>4 DEF AuthType
<1>7. x.closing = "requested" /\ fence.id = a
  BY <1>1 DEF WorkerAnswersClose, FenceKept
<1>8. RecordKept(m)
  BY <1>1, <1>5, <1>7 DEF RecordKept
<1>9. fence'.id = a /\ (fence'.acknowledged = TRUE \/ outcome = "rejected")
  BY <1>2, <1>3, <1>7
<1>10. FenceKept(a, m, fence', auth'.latch)
  BY <1>1, <1>3, <1>5, <1>6, <1>7, <1>9 DEF FenceKept, RecordKept
<1>11. ASSUME NEW c \in Attempts \ {a}
       PROVE  FenceKept(c, auth.att[c], fence', auth'.latch)
  <2>1. FenceKept(c, auth.att[c], fence, auth.latch)
    BY <1>2 DEF Kept
  <2> QED BY <1>6, <1>7, <1>9, <2>1 DEF FenceKept
<1> QED BY <1>1, <1>2, <1>5, <1>6, <1>8, <1>10, <1>11, FenceChanges

(* The cleanup joins the close. *)
LEMMA ReleaseStartsKept ==
  ASSUME KInv, NEW a \in Attempts, ReleaseStarts(a)
  PROVE  Kept(auth', fence')
<1>1. PICK x \in AttemptRecord : x = auth.att[a] /\ RecordKept(x)
                                 /\ FenceKept(a, x, fence, auth.latch)
  BY Start
<1>2. auth \in AuthType /\ Kept(auth, fence)
  BY Start
<1>3. PICK m : m = [x EXCEPT !.cleanup = "releasing"]
  OBVIOUS
<1>4. /\ x.cleanup = "joining" /\ x.closing \in {"closed", "rejected"} /\ fence' = fence
      /\ auth' = [auth EXCEPT !.att = [auth.att EXCEPT ![a] = m]]
  BY <1>1, <1>3 DEF ReleaseStarts
<1>5. /\ m.cleanup = "releasing" /\ m.closing = x.closing /\ m.phase = x.phase
      /\ m.answer = x.answer /\ m.step = x.step
  BY <1>3 DEF AttemptRecord
<1>6. /\ auth'.att = [auth.att EXCEPT ![a] = m] /\ auth'.latch = auth.latch
      /\ auth'.current = auth.current /\ auth'.sequence = auth.sequence
  BY <1>2, <1>4 DEF AuthType
<1>7. RecordKept(m)
  BY <1>1, <1>4, <1>5 DEF RecordKept
<1>8. FenceKept(a, m, fence', auth'.latch)
  BY <1>1, <1>4, <1>5, <1>6 DEF FenceKept
<1>9. \A c \in Attempts \ {a} : FenceKept(c, auth.att[c], fence', auth'.latch)
  BY <1>2, <1>4, <1>6 DEF Kept
<1> QED BY <1>1, <1>2, <1>5, <1>6, <1>7, <1>8, <1>9, FenceChanges

(* The release opens the worker for nobody but its own attempt, or leaves  *)
(* it closed and is latched.                                                *)
LEMMA WorkerReleasesKept ==
  ASSUME KInv, NEW a \in Attempts, WorkerReleases(a)
  PROVE  Kept(auth', fence')
<1>1. PICK x \in AttemptRecord : x = auth.att[a] /\ RecordKept(x)
                                 /\ FenceKept(a, x, fence, auth.latch)
  BY Start
<1>2. auth \in AuthType /\ Kept(auth, fence)
  BY Start
<1>3. PICK m : m = [x EXCEPT !.cleanup = "done"]
  OBVIOUS
<1>4. /\ m.cleanup = "done" /\ m.closing = x.closing /\ m.phase = x.phase
      /\ m.answer = x.answer /\ m.step = x.step
  BY <1>3 DEF AttemptRecord
<1>5. x.cleanup = "releasing" /\ x.closing \in {"closed", "rejected"}
  BY <1>1 DEF WorkerReleases, RecordKept
<1>6. RecordKept(m)
  BY <1>1, <1>4, <1>5 DEF RecordKept
<1>7. CASE /\ fence.id \in {0, a} /\ fence' = NoFence
           /\ auth' = LeaseReleased([auth EXCEPT !.att[a].cleanup = "done"])
  <2>1. /\ auth'.att = [auth.att EXCEPT ![a] = m] /\ auth'.latch = auth.latch
        /\ auth'.current = auth.current /\ auth'.sequence = auth.sequence
    BY <1>1, <1>2, <1>3, <1>7 DEF AuthType, LeaseReleased
  <2>2. fence'.id = 0 /\ \A c \in Attempts : c # 0
    BY <1>7, BoundsAssumption DEF NoFence, Attempts
  <2>3. FenceKept(a, m, fence', auth'.latch)
    BY <1>4, <1>5, <2>2 DEF FenceKept
  <2>4. ASSUME NEW c \in Attempts \ {a}
        PROVE  FenceKept(c, auth.att[c], fence', auth'.latch)
    <3>1. FenceKept(c, auth.att[c], fence, auth.latch)
      BY <1>2 DEF Kept
    <3> QED BY <1>7, <2>1, <2>2, <3>1 DEF FenceKept
  <2> QED BY <1>1, <1>2, <1>4, <1>6, <2>1, <2>3, <2>4, FenceChanges
<1>8. CASE /\ fence.id # 0 /\ fence' = fence
           /\ auth' = LeaseReleased([auth EXCEPT !.att[a].cleanup = "done", !.latch = TRUE])
  <2>1. /\ auth'.att = [auth.att EXCEPT ![a] = m] /\ auth'.latch = TRUE
        /\ auth'.current = auth.current /\ auth'.sequence = auth.sequence
    BY <1>1, <1>2, <1>3, <1>8 DEF AuthType, LeaseReleased
  <2>2. FenceKept(a, m, fence', auth'.latch)
    BY <1>1, <1>4, <1>5, <1>8, <2>1 DEF FenceKept
  <2>3. ASSUME NEW c \in Attempts \ {a}
        PROVE  FenceKept(c, auth.att[c], fence', auth'.latch)
    <3>1. FenceKept(c, auth.att[c], fence, auth.latch)
      BY <1>2 DEF Kept
    <3> QED BY <1>8, <2>1, <3>1 DEF FenceKept
  <2> QED BY <1>1, <1>2, <1>4, <1>6, <2>1, <2>2, <2>3, FenceChanges
<1> QED BY <1>7, <1>8 DEF WorkerReleases
-----------------------------------------------------------------------------
(* The functions that were waiting continue. *)

(* The function ends and gives its attempt up, if it still is the current.  *)
LEMMA GivingUpKept ==
  ASSUME NEW st \in AuthType, NEW a \in Attempts, NEW f, Kept(st, f),
         st.att[a].phase # "unused"
  PROVE  Kept(Reopened(Ended(st, a), a), f)
<1>1. PICK mid : mid = Ended(st, a)
  OBVIOUS
<1>2. mid \in AuthType /\ Kept(mid, f)
  BY <1>1, EndedWinners, EndedKept
<1> QED BY <1>1, <1>2, ReopenedKept

(* prepareInner after the fence. *)
LEMMA FencedKept == ASSUME KInv, NEW a \in Attempts, Fenced(a) PROVE Kept(auth', fence')
<1>1. PICK x \in AttemptRecord : x = auth.att[a] /\ RecordKept(x)
                                 /\ (Active(x) <=> auth.current = a)
  BY Start
<1>2. auth \in AuthType /\ Kept(auth, fence)
  BY Start
<1>3. x.step = "fencing" /\ x.phase \in {"preparing", "reopened"} /\ fence' = fence
  BY <1>1 DEF Fenced, RecordKept
<1>4. CASE auth' = Ended(auth, a)
  BY <1>1, <1>2, <1>3, <1>4, EndedKept
<1>5. CASE auth' = Reopened(Ended(auth, a), a)
  BY <1>1, <1>2, <1>3, <1>5, GivingUpKept
<1>6. CASE auth.current = a /\ x.closing = "closed" /\ auth' = Reading(auth, a, "reading")
  <2>1. x.phase = "preparing"
    BY <1>1, <1>3, <1>6 DEF Active
  <2> QED BY <1>1, <1>2, <1>3, <1>6, <2>1, ReadingKept
<1> QED BY <1>1, <1>4, <1>5, <1>6 DEF Fenced

(* The end of a snapshot. *)
LEMMA SnapshotReturnsKept ==
  ASSUME KInv, NEW a \in Attempts, SnapshotReturns(a)
  PROVE  Kept(auth', fence')
<1>1. PICK st : st = Expired(auth)
  OBVIOUS
<1>2. st \in AuthType /\ st.att \in AttemptTable /\ Kept(st, fence) /\ auth \in AuthType
  BY <1>1, StartExpired
<1>3. PICK x \in AttemptRecord : x = st.att[a] /\ RecordKept(x)
  BY <1>2 DEF AttemptTable, Kept
<1>4. x.step = auth.att[a].step /\ x.step \in {"reading", "rereading"}
  BY <1>1, <1>2, <1>3, ExpiredReads DEF SnapshotReturns
<1>5. PICK step : step = IF auth.att[a].step = "reading" THEN "returned" ELSE "rereturned"
  OBVIOUS
<1>6. PICK clean \in BOOLEAN :
        /\ Quiet
        /\ auth' = [st EXCEPT !.att[a] = [@ EXCEPT !.step = step,
                                                  !.readRevision = st.revision,
                                                  !.clean = clean]]
  BY <1>1, <1>5, Zenon DEF SnapshotReturns, Quiet
<1>7. PICK m : m = [x EXCEPT !.step = step, !.readRevision = st.revision, !.clean = clean]
  OBVIOUS
<1>8. Same(m, x) /\ m.step = step
  BY <1>7 DEF Same, AttemptRecord
<1>9. /\ auth'.att = [st.att EXCEPT ![a] = m] /\ auth'.latch = st.latch
      /\ auth'.current = st.current /\ auth'.sequence = st.sequence
  BY <1>2, <1>3, <1>6, <1>7 DEF AuthType
<1>10. \/ x.step = "reading" /\ step = "returned"
       \/ x.step = "rereading" /\ step = "rereturned"
  BY <1>4, <1>5
<1>11. RecordKept(m)
  BY <1>3, <1>8, <1>10 DEF RecordKept, Same
<1>12. Kept(auth', fence)
  BY <1>2, <1>3, <1>8, <1>9, <1>11, StepMoves
<1> QED BY <1>6, <1>12 DEF Quiet

(* The token is drawn for an attempt whose fence is closed. *)
LEMMA ProvenKeeps ==
  ASSUME NEW x \in AttemptRecord, NEW revision
  PROVE  LET y == Proven(x, revision)
         IN /\ y.phase = "prepared" /\ y.step = "holding"
            /\ y.closing = x.closing /\ y.cleanup = x.cleanup /\ y.answer = x.answer
BY DEF Proven, AttemptRecord

LEMMA PrepareConcludesKept ==
  ASSUME KInv, NEW a \in Attempts, PrepareConcludes(a)
  PROVE  Kept(auth', fence')
<1>1. PICK x \in AttemptRecord : /\ x = auth.att[a] /\ RecordKept(x)
                                 /\ FenceKept(a, x, fence, auth.latch)
                                 /\ Active(x) <=> auth.current = a
  BY Start
<1>2. auth \in AuthType /\ auth.att \in AttemptTable /\ Kept(auth, fence)
  BY Start
<1>3. x.step = "returned" /\ x.phase \in {"preparing", "reopened"} /\ fence' = fence
  BY <1>1 DEF PrepareConcludes, RecordKept
<1>4. CASE auth' = Ended(auth, a)
  BY <1>1, <1>2, <1>3, <1>4, EndedKept
<1>5. CASE auth' = Reopened(Ended(auth, a), a)
  BY <1>1, <1>2, <1>3, <1>5, GivingUpKept
<1>6. CASE auth.current = a /\ auth' = Holding(auth, a)
  <2>1. x.phase = "preparing"
    BY <1>1, <1>3, <1>6 DEF Active
  <2>2. PICK m : m = Proven(x, auth.revision + 1)
    OBVIOUS
  <2>3. /\ m.phase = "prepared" /\ m.step = "holding"
        /\ m.closing = x.closing /\ m.cleanup = x.cleanup /\ m.answer = x.answer
    BY <2>2, ProvenKeeps
  <2>4. /\ auth'.att = [auth.att EXCEPT ![a] = m] /\ auth'.latch = auth.latch
        /\ auth'.current = auth.current /\ auth'.sequence = auth.sequence
    BY <1>1, <1>2, <1>6, <2>2 DEF Holding, AuthType
  <2>5. RecordKept(m)
    BY <1>1, <1>3, <2>1, <2>3 DEF RecordKept
  <2>6. FenceKept(a, m, fence, auth'.latch)
    BY <1>1, <2>3, <2>4 DEF FenceKept
  <2>7. Active(m) /\ ~(a > auth'.sequence)
    BY <1>1, <1>2, <2>1, <2>3, <2>4 DEF Active, Kept
  <2>8. Kept(auth', fence)
    BY <1>2, <1>6, <2>4, <2>5, <2>6, <2>7, RecordChanges
  <2> QED BY <1>3, <2>8
<1> QED BY <1>4, <1>5, <1>6 DEF PrepareConcludes

(* The commit is answered when it is decided. *)
LEMMA GrantedKeeps ==
  ASSUME NEW x \in AttemptRecord
  PROVE  LET y == Granted(x)
         IN /\ y.phase = "committed" /\ y.answer = "ok" /\ y.step = x.step
            /\ y.closing = x.closing /\ y.cleanup = x.cleanup
BY DEF Granted, AttemptRecord

LEMMA CommitConcludesKept ==
  ASSUME KInv, NEW a \in Attempts, CommitConcludes(a)
  PROVE  Kept(auth', fence')
<1>1. PICK st : st = Expired(auth)
  OBVIOUS
<1>2. /\ st \in AuthType /\ st.att \in AttemptTable /\ Kept(st, fence)
      /\ auth \in AuthType /\ Kept(auth, fence)
  BY <1>1, StartExpired
<1>3. st.att[a].step = "rereturned" /\ auth.att[a].step = "rereturned" /\ fence' = fence
  BY <1>1, <1>2, ExpiredReads DEF CommitConcludes
<1>4. st.att[a].phase # "unused"
  BY <1>2, <1>3 DEF Kept, RecordKept
<1>5. CASE auth' = Ended(st, a)
  BY <1>2, <1>3, <1>4, <1>5, EndedKept
<1>6. CASE auth' = Reopened(Ended(st, a), a)
  BY <1>2, <1>3, <1>4, <1>6, GivingUpKept
<1>7. CASE CommitsNow(a)
  <2>1. PICK mid : mid = Ended(auth, a)
    OBVIOUS
  <2>2. PICK x \in AttemptRecord : /\ x = auth.att[a] /\ RecordKept(x)
                                   /\ Active(x) <=> auth.current = a
    BY Start
  <2>3. x.phase = "prepared" /\ x.closing = "closed" /\ x.cleanup = "none"
    BY <1>3, <1>7, <2>2 DEF CommitsNow, Active, RecordKept
  <2>4. /\ mid \in AuthType /\ mid.att \in AttemptTable /\ Kept(mid, fence)
        /\ mid.current = a /\ mid.att[a] = Over(x)
    <3>1. mid \in AuthType
      BY <1>2, <2>1, EndedWinners
    <3>2. Kept(mid, fence) /\ mid.current = auth.current /\ mid.att[a] = Over(x)
      BY <1>2, <2>1, <2>2, <2>3, EndedKept
    <3>3. mid.current = a
      BY <1>7, <3>2 DEF CommitsNow
    <3> QED BY <3>1, <3>2, <3>3 DEF AuthType
  <2>5. PICK y \in AttemptRecord : /\ y = mid.att[a] /\ y.phase = "prepared" /\ y.step = "done"
                                   /\ y.closing = "closed" /\ y.cleanup = "none"
                                   /\ FenceKept(a, y, fence, mid.latch)
    <3>1. mid.att[a] \in AttemptRecord /\ FenceKept(a, mid.att[a], fence, mid.latch)
      BY <2>4 DEF AttemptTable, Kept
    <3> QED BY <2>3, <2>4, <3>1, OverKeeps DEF Same
  <2>6. PICK m : m = Granted(y)
    OBVIOUS
  <2>7. /\ m.phase = "committed" /\ m.answer = "ok" /\ m.step = "done"
        /\ m.closing = "closed" /\ m.cleanup = "none"
    BY <2>5, <2>6, GrantedKeeps
  <2>8. /\ auth'.att = [mid.att EXCEPT ![a] = m] /\ auth'.latch = mid.latch
        /\ auth'.current = mid.current /\ auth'.sequence = mid.sequence
    BY <1>7, <2>1, <2>4, <2>5, <2>6 DEF CommitsNow, Committed, AuthType
  <2>9. RecordKept(m)
    BY <2>7 DEF RecordKept
  <2>10. FenceKept(a, m, fence, auth'.latch)
    BY <2>5, <2>7, <2>8 DEF FenceKept
  <2>11. Active(m) /\ ~(a > auth'.sequence)
    BY <2>4, <2>5, <2>7, <2>8 DEF Active, Kept
  <2>12. Kept(auth', fence)
    BY <2>4, <2>8, <2>9, <2>10, <2>11, RecordChanges
  <2> QED BY <1>3, <2>12
<1> QED BY <1>1, <1>5, <1>6, <1>7, CommitConcludesCases DEF KInv

(* A token comes back. *)
LEMMA CancelKept == ASSUME KInv, NEW a \in Attempts, Cancel(a) PROVE Kept(auth', fence')
<1>1. PICK st : st = Expired(auth)
  OBVIOUS
<1>2. st \in AuthType /\ Kept(st, fence)
  BY <1>1, StartExpired
<1>3. auth' = Reopened(st, a) /\ fence' = fence
  BY <1>1 DEF Cancel
<1> QED BY <1>2, <1>3, ReopenedKept

(* The head of a commit. *)
LEMMA CommitKept ==
  ASSUME KInv, NEW a \in Attempts, NEW e \in Epochs, Commit(a, e)
  PROVE  Kept(auth', fence')
<1>1. PICK st : st = Expired(auth)
  OBVIOUS
<1>2. st \in AuthType /\ st.att \in AttemptTable /\ Kept(st, fence)
  BY <1>1, StartExpired
<1>3. PICK x \in AttemptRecord : x = st.att[a] /\ RecordKept(x)
  BY <1>2 DEF AttemptTable, Kept
<1>4. PICK m : m = [x EXCEPT !.committing = TRUE]
  OBVIOUS
<1>5. m \in AttemptRecord /\ Same(m, x) /\ m.step = x.step
  BY <1>4 DEF Same, AttemptRecord
<1>6. PICK s : s = [st EXCEPT !.att[a].committing = TRUE]
  OBVIOUS
<1>7. /\ auth' = Reading(s, a, "rereading") /\ fence' = fence
      /\ x.phase = "prepared"
  BY <1>1, <1>3, <1>6 DEF Commit
<1>8. Rewritten(st, s, a, m)
  BY <1>3, <1>4, <1>6 DEF Rewritten
<1>9. /\ s \in AuthType /\ s.att = [st.att EXCEPT ![a] = m]
      /\ s.current = st.current /\ s.sequence = st.sequence
  BY <1>2, <1>5, <1>8, Replaced
<1>10. s.latch = st.latch
  BY <1>2, <1>8 DEF Rewritten, AuthType
<1>11. RecordKept(m)
  BY <1>3, <1>5 DEF RecordKept, Same
<1>12. Kept(s, fence)
  BY <1>2, <1>3, <1>5, <1>9, <1>10, <1>11, StepMoves
<1>13. s.att[a] = m /\ m.phase = "prepared" /\ m.closing = "closed"
  BY <1>2, <1>3, <1>5, <1>7, <1>9, <1>11 DEF AttemptTable, Same, RecordKept
<1> QED BY <1>7, <1>9, <1>12, <1>13, ReadingKept
-----------------------------------------------------------------------------
(* At first there is no attempt. *)
LEMMA KeptInit == Init => KInv
<1> SUFFICES ASSUME Init
             PROVE  Kept(auth, fence)
  BY InvInit DEF KInv
<1>1. \A a \in Attempts : auth.att[a] = NoAttempt /\ a # 0
  BY BoundsAssumption DEF Init, Attempts
<1>2. auth.current = 0 /\ fence.id = 0
  BY DEF Init, NoFence
<1> QED BY <1>1, <1>2 DEF Kept, RecordKept, FenceKept, Active, NoAttempt

(* Every action keeps what attempts hold. *)
LEMMA KeptNext == KInv /\ [Next]_vars => KInv'
<1> SUFFICES ASSUME KInv, [Next]_vars
             PROVE  Kept(auth', fence')
  BY InvNext DEF KInv
<1>1. CASE Expire
  BY <1>1, StartExpired DEF Expire
<1>2. ASSUME NEW a \in Attempts, Continuation(a)
      PROVE  Kept(auth', fence')
  <2>1. CASE WorkerCloses(a) \/ WorkerAnswersClose(a)
    BY <2>1, WorkerClosesKept, WorkerAnswersKept
  <2>2. CASE ReleaseStarts(a) \/ WorkerReleases(a)
    BY <2>2, ReleaseStartsKept, WorkerReleasesKept
  <2>3. CASE Fenced(a) \/ SnapshotReturns(a)
    BY <2>3, FencedKept, SnapshotReturnsKept
  <2>4. CASE PrepareConcludes(a) \/ CommitConcludes(a)
    BY <2>4, PrepareConcludesKept, CommitConcludesKept
  <2>5. CASE \E o \in Owners : ReadOwner(a, o)
    BY <2>5, ClocksKept
  <2> QED BY <1>2, <2>1, <2>2, <2>3, <2>4, <2>5 DEF Continuation
<1>3. ASSUME NEW a \in Attempts, DeadlinePasses(a) \/ TokenLapses(a) \/ Cancel(a)
      PROVE  Kept(auth', fence')
  BY <1>3, ClocksKept, CancelKept
<1>4. ASSUME NEW o \in Owners, OwnerChanges(o)
      PROVE  Kept(auth', fence')
  BY <1>4 DEF OwnerChanges, KInv
<1>5. CASE UNCHANGED vars
  BY <1>5 DEF vars, KInv
<1> QED BY <1>1, <1>2, <1>3, <1>4, <1>5, LeaseKept, PrepareKept, ControllerLostKept,
           CommitKept DEF Next

LEMMA KeptHolds == Spec => []KInv
BY KeptInit, KeptNext, PTL DEF Spec

(* What the invariant says of an attempt, its fence and its answer.         *)
LEMMA KeptShows == KInv => AttemptsAreKept
<1> SUFFICES ASSUME KInv
             PROVE  AttemptsAreKept
  OBVIOUS
<1>1. /\ auth \in AuthType /\ auth.att \in AttemptTable
      /\ fence \in [id : 0..MaxAttempts, acknowledged : BOOLEAN]
  BY Facts DEF KInv, AuthType
<1>2. TokenHoldsWorker
  <2> SUFFICES ASSUME NEW a \in Attempts, auth.att[a].phase \in {"prepared", "committed"}
               PROVE  auth.current = a /\ fence = [id |-> a, acknowledged |-> TRUE]
    BY DEF TokenHoldsWorker
  <2>1. auth.current = a
    BY DEF KInv, Kept, Active
  <2>2. auth.att[a].closing = "closed" /\ auth.att[a].cleanup = "none"
    <3>1. RecordKept(auth.att[a])
      BY DEF KInv, Kept
    <3>2. auth.att[a].phase # "reopened"
      OBVIOUS
    <3> QED BY <3>1, <3>2 DEF RecordKept
  <2>3. fence.id = a /\ fence.acknowledged = TRUE
    BY <2>2 DEF KInv, Kept, FenceKept
  <2> QED BY <1>1, <2>1, <2>3
<1>3. NoStrayFence
  <2> SUFFICES ASSUME fence.id # 0, fence.id # auth.current, auth.latch # TRUE
               PROVE  fence.id \in CleaningUp
    BY <1>1 DEF NoStrayFence, AuthType
  <2>1. PICK a \in Attempts : a = fence.id
    BY <1>1, BoundsAssumption DEF Attempts
  <2>2. PICK x \in AttemptRecord : /\ x = auth.att[a] /\ RecordKept(x)
                                   /\ FenceKept(a, x, fence, auth.latch)
                                   /\ Active(x) <=> auth.current = a
    BY Start
  <2>3. x.closing \in {"requested", "closed", "rejected"} /\ x.cleanup # "done" /\ ~Active(x)
    BY <2>1, <2>2 DEF FenceKept
  <2>4. x.phase = "reopened"
    BY <2>2, <2>3 DEF RecordKept, Active, AttemptRecord, Phases
  <2>5. x.cleanup \in {"joining", "releasing"}
    BY <2>2, <2>3, <2>4 DEF RecordKept, AttemptRecord
  <2> QED BY <2>1, <2>2, <2>5 DEF CleaningUp
<1>4. CommitAnswerIsTrue
  <2> SUFFICES ASSUME NEW a \in Attempts
               PROVE  /\ auth.att[a].answer = "ok" <=> auth.att[a].phase = "committed"
                      /\ auth.att[a].answer = "failed" => auth.att[a].phase = "reopened"
    BY DEF CommitAnswerIsTrue
  <2>1. PICK x \in AttemptRecord : x = auth.att[a] /\ RecordKept(x)
    BY Start
  <2> QED BY <2>1 DEF RecordKept, AttemptRecord, Phases
<1> QED BY <1>2, <1>3, <1>4 DEF AttemptsAreKept

(* A token that can be committed, or is, has its own fence on the worker;   *)
(* the worker is never closed for nobody; and a commit is answered with the *)
(* truth, whatever is cancelled, expires, is lost or comes back late.       *)
THEOREM AttemptsAlwaysKept == Spec => []AttemptsAreKept
BY KeptHolds, KeptShows, PTL
-----------------------------------------------------------------------------
-----------------------------------------------------------------------------
(* The authority under its controller.                                      *)
Handlers == {"nothing", "refresh", "prepare", "commit"}

ControlTypes ==
  /\ channel \in {"attaching", "ready", "closed"}
  /\ active \in Epochs \cup {NULL}
  /\ token \in 0..MaxAttempts
  /\ latest \in Nat
  /\ command \in [awaits : Handlers, draft : Epochs \cup {NULL}, attempt : 0..MaxAttempts]
  /\ command.awaits = "nothing" => command = NoCommand
  /\ command.awaits # "nothing" => command.draft \in Epochs

(* The owner of the drafts has work unless they are sealed.                 *)
DraftsTold == busy[Drafts] = ~(Bound /\ active # NULL)

(* An attempt that is still of interest has the draft it was asked for.     *)
Named(st) == \A a \in Attempts : Active(st.att[a]) => st.att[a].epoch \in Epochs

(* A channel that ended keeps nothing but a committed attempt.              *)
Withdrawn == channel # "ready" => active = NULL \/ State = "committed"

Recommits(m) == m.phase = "prepared" /\ m.step \in {"rereading", "rereturned"}

(* What a handler that waits knows of the authority.                        *)
HandlerKnows ==
  /\ command.awaits = "refresh" => State = "open" /\ active \in {NULL, command.draft}
  /\ command.awaits = "prepare" =>
       /\ command.attempt # 0 /\ auth.current \in {0, command.attempt}
       /\ State # "committed" /\ active \in {NULL, command.draft}
  /\ command.awaits = "commit" =>
       /\ command.attempt # 0 /\ auth.current \in {0, command.attempt}
       /\ active = NULL \/ (active = command.draft /\ token # 0)
  /\ \A a \in Attempts : Recommits(auth.att[a]) =>
       command.awaits = "commit" /\ command.attempt = a

ControlInv ==
  /\ KInv /\ ControlTypes /\ DraftsTold /\ Named(auth)
  /\ AttemptIsReachable /\ Withdrawn /\ HandlerKnows
-----------------------------------------------------------------------------
(* How the authority moves on without its controller: no attempt begins,    *)
(* no commit is asked for, and only one that was asked for succeeds.        *)
RecordAdvances(x, m) ==
  /\ m.epoch = x.epoch
  /\ x.phase = "committed" => m.phase = "committed"
  /\ m.phase = "committed" => x.phase = "committed" \/ Recommits(x)
  /\ Recommits(m) => Recommits(x)

Advances(st, new) ==
  /\ new.current \in {0, st.current}
  /\ \A c \in Attempts : RecordAdvances(st.att[c], new.att[c])

LEMMA StandsStill ==
  ASSUME NEW st, NEW new, new.att = st.att, new.current = st.current
  PROVE  Advances(st, new)
BY DEF Advances, RecordAdvances

LEMMA AdvancesOn ==
  ASSUME NEW st, NEW mid, NEW new, Advances(st, mid), Advances(mid, new)
  PROVE  Advances(st, new)
<1>1. new.current \in {0, st.current}
  BY DEF Advances
<1>2. ASSUME NEW c \in Attempts
      PROVE  RecordAdvances(st.att[c], new.att[c])
  BY DEF Advances, RecordAdvances
<1> QED BY <1>1, <1>2 DEF Advances

LEMMA OneAdvances ==
  ASSUME NEW st, NEW new, NEW a \in Attempts, NEW m,
         st.att \in AttemptTable, new.att = [st.att EXCEPT ![a] = m],
         new.current \in {0, st.current}, RecordAdvances(st.att[a], m)
  PROVE  Advances(st, new)
<1>1. \A c \in Attempts : new.att[c] = IF c = a THEN m ELSE st.att[c]
  BY DEF AttemptTable
<1>2. ASSUME NEW c \in Attempts
      PROVE  RecordAdvances(st.att[c], new.att[c])
  <2>1. CASE c = a
    BY <1>1, <2>1
  <2>2. CASE c # a
    BY <1>1, <2>2 DEF RecordAdvances
  <2> QED BY <2>1, <2>2
<1> QED BY <1>2 DEF Advances

(* A record whose attempt stays where it is. *)
LEMMA RecordStays ==
  ASSUME NEW x, NEW m, m.epoch = x.epoch, m.phase = x.phase, m.step = x.step
  PROVE  RecordAdvances(x, m)
BY DEF RecordAdvances, Recommits

(* The authority's functions. *)
LEMMA EndedAdvances ==
  ASSUME NEW st \in AuthType, NEW a \in Attempts
  PROVE  Advances(st, Ended(st, a)) /\ Ended(st, a) \in AuthType
<1>1. st.att \in AttemptTable /\ st.att[a] \in AttemptRecord
  BY DEF AuthType, AttemptTable
<1>2. PICK m : m = Over(st.att[a])
  OBVIOUS
<1>3. m.epoch = st.att[a].epoch /\ m.phase = st.att[a].phase /\ m.step = "done"
  BY <1>1, <1>2 DEF Over, AttemptRecord
<1>4. PICK new : new = Ended(st, a)
  OBVIOUS
<1>5. new.att = [st.att EXCEPT ![a] = m] /\ new.current = st.current
  BY <1>2, <1>4 DEF Ended, AuthType
<1>6. RecordAdvances(st.att[a], m)
  BY <1>3 DEF RecordAdvances, Recommits
<1>7. Advances(st, new)
  BY <1>1, <1>5, <1>6, OneAdvances
<1> QED BY <1>4, <1>7, EndedWinners

LEMMA ReopenedAdvances ==
  ASSUME NEW st \in AuthType, NEW a \in Attempts
  PROVE  Advances(st, Reopened(st, a))
<1>1. st.att \in AttemptTable /\ st.att[a] \in AttemptRecord
  BY DEF AuthType, AttemptTable
<1>2. CASE st.current # a \/ st.att[a].phase = "committed"
  BY <1>2, StandsStill DEF Reopened
<1>3. CASE st.current = a /\ st.att[a].phase # "committed"
  <2>1. PICK m : m = GivenUp(st.att[a])
    OBVIOUS
  <2>2. PICK x \in AttemptRecord : x = st.att[a]
    BY <1>1
  <2>3. PICK t : t = IF x.committing /\ x.answer = "none" THEN "failed" ELSE x.answer
    OBVIOUS
  <2>4. m = [x EXCEPT !.phase = "reopened", !.cleanup = "joining", !.answer = t]
    BY <2>1, <2>2, <2>3, Zenon DEF GivenUp
  <2>5. m.phase = "reopened" /\ m.epoch = x.epoch
    BY <2>4 DEF AttemptRecord
  <2>6. PICK new : new = Reopened(st, a)
    OBVIOUS
  <2>7. new.att = [st.att EXCEPT ![a] = m] /\ new.current = 0
    BY <1>3, <2>1, <2>6 DEF Reopened, Acquired, AuthType
  <2>8. RecordAdvances(x, m)
    BY <1>3, <2>2, <2>5 DEF RecordAdvances, Recommits
  <2>9. Advances(st, new)
    BY <1>1, <2>2, <2>7, <2>8, OneAdvances
  <2> QED BY <2>6, <2>9
<1> QED BY <1>2, <1>3

LEMMA ExpiredAdvances ==
  ASSUME NEW st \in AuthType
  PROVE  Advances(st, Expired(st))
<1>1. CASE Expired(st) = st
  BY <1>1, StandsStill
<1>2. CASE Expired(st) # st
  <2>1. st.current \in Attempts /\ Expired(st) = Reopened(st, st.current)
    BY <1>2, BoundsAssumption DEF Expired, AuthType, Attempts
  <2> QED BY <2>1, ReopenedAdvances
<1> QED BY <1>1, <1>2

LEMMA GivingUpAdvances ==
  ASSUME NEW st \in AuthType, NEW a \in Attempts
  PROVE  Advances(st, Reopened(Ended(st, a), a))
<1>1. PICK mid : mid = Ended(st, a)
  OBVIOUS
<1>2. mid \in AuthType /\ Advances(st, mid)
  BY <1>1, EndedAdvances
<1>3. Advances(mid, Reopened(mid, a))
  BY <1>2, ReopenedAdvances
<1> QED BY <1>1, <1>2, <1>3, AdvancesOn
-----------------------------------------------------------------------------
(* What every action of the authority starts from. *)
LEMMA Begin ==
  ASSUME KInv, NEW a \in Attempts
  PROVE  /\ auth \in AuthType /\ auth.att \in AttemptTable /\ auth.att[a] \in AttemptRecord
         /\ Expired(auth) \in AuthType /\ Expired(auth).att \in AttemptTable
         /\ Advances(auth, Expired(auth))
<1>1. auth \in AuthType /\ Expired(auth) \in AuthType /\ Expired(auth).att \in AttemptTable
  BY StartExpired
<1>2. Advances(auth, Expired(auth))
  BY <1>1, ExpiredAdvances
<1> QED BY <1>1, <1>2 DEF AuthType, AttemptTable

LEMMA LeasesAdvance ==
  ASSUME KInv, Enter \/ EnterCompletion \/ Leave \/ Expire
  PROVE  Advances(auth, auth')
<1>1. PICK st : st = Expired(auth)
  OBVIOUS
<1>2. st \in AuthType /\ auth \in AuthType /\ Advances(auth, st)
  BY <1>1, StartExpired, ExpiredAdvances
<1>3. CASE Enter \/ EnterCompletion
  <2>1. auth' = Acquired(st)
    BY <1>1, <1>3 DEF Enter, EnterCompletion
  <2>2. auth'.att = st.att /\ auth'.current = st.current
    BY <1>2, <2>1 DEF Acquired, AuthType
  <2> QED BY <1>2, <2>2, StandsStill, AdvancesOn
<1>4. CASE Leave
  <2>1. auth' = LeaseReleased(auth)
    BY <1>4 DEF Leave
  <2>2. auth'.att = auth.att /\ auth'.current = auth.current
    BY <1>2, <2>1 DEF LeaseReleased, AuthType
  <2> QED BY <2>2, StandsStill
<1>5. CASE Expire
  BY <1>1, <1>2, <1>5 DEF Expire
<1> QED BY <1>3, <1>4, <1>5

(* Clocks, readers and the fence leave an attempt where it is. *)
LEMMA RecordsAdvance ==
  ASSUME KInv, NEW a \in Attempts,
         \/ DeadlinePasses(a) \/ TokenLapses(a) \/ \E o \in Owners : ReadOwner(a, o)
         \/ WorkerCloses(a) \/ WorkerAnswersClose(a) \/ ReleaseStarts(a) \/ WorkerReleases(a)
  PROVE  Advances(auth, auth')
<1>1. PICK x \in AttemptRecord : x = auth.att[a]
  BY Begin
<1>2. auth \in AuthType /\ auth.att \in AttemptTable
  BY Begin
<1>3. ASSUME NEW m, m.epoch = x.epoch, m.phase = x.phase, m.step = x.step,
             auth'.att = [auth.att EXCEPT ![a] = m], auth'.current = auth.current
      PROVE  Advances(auth, auth')
  BY <1>1, <1>2, <1>3, RecordStays, OneAdvances
<1>4. CASE DeadlinePasses(a)
  <2>1. PICK m : m = [x EXCEPT !.late = TRUE]
    OBVIOUS
  <2>2. m.epoch = x.epoch /\ m.phase = x.phase /\ m.step = x.step
    BY <2>1 DEF AttemptRecord
  <2>3. auth'.att = [auth.att EXCEPT ![a] = m] /\ auth'.current = auth.current
    BY <1>1, <1>2, <1>4, <2>1 DEF DeadlinePasses, AuthType
  <2> QED BY <1>3, <2>2, <2>3
<1>5. CASE TokenLapses(a)
  <2>1. PICK m : m = [x EXCEPT !.lapsed = TRUE]
    OBVIOUS
  <2>2. m.epoch = x.epoch /\ m.phase = x.phase /\ m.step = x.step
    BY <2>1 DEF AttemptRecord
  <2>3. auth'.att = [auth.att EXCEPT ![a] = m] /\ auth'.current = auth.current
    BY <1>1, <1>2, <1>5, <2>1 DEF TokenLapses, AuthType
  <2> QED BY <1>3, <2>2, <2>3
<1>6. CASE \E o \in Owners : ReadOwner(a, o)
  <2>1. PICK o \in Owners, result \in {"idle", "blocked"} :
          auth' = [auth EXCEPT !.att[a].seen[o] = result]
    BY <1>6 DEF ReadOwner
  <2>2. PICK m : m = [x EXCEPT !.seen = [x.seen EXCEPT ![o] = result]]
    OBVIOUS
  <2>3. m.epoch = x.epoch /\ m.phase = x.phase /\ m.step = x.step
    BY <2>2 DEF AttemptRecord
  <2>4. auth'.att = [auth.att EXCEPT ![a] = m] /\ auth'.current = auth.current
    BY <1>1, <1>2, <2>1, <2>2 DEF AuthType
  <2> QED BY <1>3, <2>3, <2>4
<1>7. CASE WorkerCloses(a) \/ WorkerAnswersClose(a)
  <2>1. PICK outcome \in {"requested", "closed", "rejected"} :
          auth' = [auth EXCEPT !.att[a].closing = outcome]
    BY <1>7 DEF WorkerCloses, WorkerAnswersClose
  <2>2. PICK m : m = [x EXCEPT !.closing = outcome]
    OBVIOUS
  <2>3. m.epoch = x.epoch /\ m.phase = x.phase /\ m.step = x.step
    BY <2>2 DEF AttemptRecord
  <2>4. auth'.att = [auth.att EXCEPT ![a] = m] /\ auth'.current = auth.current
    BY <1>1, <1>2, <2>1, <2>2 DEF AuthType
  <2> QED BY <1>3, <2>3, <2>4
<1>8. CASE ReleaseStarts(a)
  <2>1. PICK m : m = [x EXCEPT !.cleanup = "releasing"]
    OBVIOUS
  <2>2. m.epoch = x.epoch /\ m.phase = x.phase /\ m.step = x.step
    BY <2>1 DEF AttemptRecord
  <2>3. auth'.att = [auth.att EXCEPT ![a] = m] /\ auth'.current = auth.current
    BY <1>1, <1>2, <1>8, <2>1 DEF ReleaseStarts, AuthType
  <2> QED BY <1>3, <2>2, <2>3
<1>9. CASE WorkerReleases(a)
  <2>1. PICK m : m = [x EXCEPT !.cleanup = "done"]
    OBVIOUS
  <2>2. m.epoch = x.epoch /\ m.phase = x.phase /\ m.step = x.step
    BY <2>1 DEF AttemptRecord
  <2>3. CASE auth' = LeaseReleased([auth EXCEPT !.att[a].cleanup = "done"])
    <3>1. auth'.att = [auth.att EXCEPT ![a] = m] /\ auth'.current = auth.current
      BY <1>1, <1>2, <2>1, <2>3 DEF LeaseReleased, AuthType
    <3> QED BY <1>3, <2>2, <3>1
  <2>4. CASE auth' = LeaseReleased([auth EXCEPT !.att[a].cleanup = "done", !.latch = TRUE])
    <3>1. auth'.att = [auth.att EXCEPT ![a] = m] /\ auth'.current = auth.current
      BY <1>1, <1>2, <2>1, <2>4 DEF LeaseReleased, AuthType
    <3> QED BY <1>3, <2>2, <3>1
  <2> QED BY <1>9, <2>3, <2>4 DEF WorkerReleases
<1> QED BY <1>4, <1>5, <1>6, <1>7, <1>8, <1>9

(* The functions that were waiting continue. *)
LEMMA PreparesAdvance ==
  ASSUME KInv, NEW a \in Attempts, Fenced(a) \/ PrepareConcludes(a)
  PROVE  Advances(auth, auth')
<1>1. PICK x \in AttemptRecord : x = auth.att[a]
  BY Begin
<1>2. auth \in AuthType /\ auth.att \in AttemptTable /\ RecordKept(x)
  BY <1>1, Begin, Start
<1>3. CASE auth' = Ended(auth, a) \/ auth' = Reopened(Ended(auth, a), a)
  BY <1>2, <1>3, EndedAdvances, GivingUpAdvances
<1>4. CASE x.step = "fencing" /\ auth' = Reading(auth, a, "reading")
  <2>1. PICK m : m = Asking(x, "reading", auth.revision)
    OBVIOUS
  <2>2. m.epoch = x.epoch /\ m.phase = x.phase /\ m.step = "reading"
    BY <2>1 DEF Asking, AttemptRecord
  <2>3. RecordAdvances(x, m)
    BY <2>2 DEF RecordAdvances, Recommits
  <2>4. auth'.att = [auth.att EXCEPT ![a] = m] /\ auth'.current = auth.current
    BY <1>1, <1>2, <1>4, <2>1 DEF Reading, AuthType
  <2> QED BY <1>1, <1>2, <2>3, <2>4, OneAdvances
<1>5. CASE x.step = "returned" /\ auth' = Holding(auth, a)
  <2>1. PICK m : m = Proven(x, auth.revision + 1)
    OBVIOUS
  <2>2. m.epoch = x.epoch /\ m.phase = "prepared" /\ m.step = "holding"
    BY <2>1 DEF Proven, AttemptRecord
  <2>3. x.phase # "committed"
    BY <1>2, <1>5 DEF RecordKept
  <2>4. RecordAdvances(x, m)
    BY <2>2, <2>3 DEF RecordAdvances, Recommits
  <2>5. auth'.att = [auth.att EXCEPT ![a] = m] /\ auth'.current = auth.current
    BY <1>1, <1>2, <1>5, <2>1 DEF Holding, AuthType
  <2> QED BY <1>1, <1>2, <2>4, <2>5, OneAdvances
<1> QED BY <1>1, <1>3, <1>4, <1>5 DEF Fenced, PrepareConcludes

LEMMA SnapshotAdvances ==
  ASSUME KInv, NEW a \in Attempts, SnapshotReturns(a)
  PROVE  Advances(auth, auth')
<1>1. PICK st : st = Expired(auth)
  OBVIOUS
<1>2. st \in AuthType /\ st.att \in AttemptTable /\ auth \in AuthType /\ Advances(auth, st)
  BY <1>1, Begin
<1>3. PICK x \in AttemptRecord : x = st.att[a]
  BY <1>2 DEF AttemptTable
<1>4. PICK step : step = IF auth.att[a].step = "reading" THEN "returned" ELSE "rereturned"
  OBVIOUS
<1>5. \/ x.step = "reading" /\ step = "returned"
      \/ x.step = "rereading" /\ step = "rereturned"
  BY <1>1, <1>2, <1>3, <1>4, ExpiredReads DEF SnapshotReturns
<1>6. PICK clean \in BOOLEAN :
        auth' = [st EXCEPT !.att[a] = [@ EXCEPT !.step = step,
                                                !.readRevision = st.revision,
                                                !.clean = clean]]
  BY <1>1, <1>4, Zenon DEF SnapshotReturns
<1>7. PICK m : m = [x EXCEPT !.step = step, !.readRevision = st.revision, !.clean = clean]
  OBVIOUS
<1>8. m.epoch = x.epoch /\ m.phase = x.phase /\ m.step = step
  BY <1>7 DEF AttemptRecord
<1>9. auth'.att = [st.att EXCEPT ![a] = m] /\ auth'.current = st.current
  BY <1>2, <1>3, <1>6, <1>7 DEF AuthType
<1>10. RecordAdvances(x, m)
  BY <1>5, <1>8 DEF RecordAdvances, Recommits
<1>11. Advances(st, auth')
  BY <1>2, <1>3, <1>9, <1>10, OneAdvances
<1> QED BY <1>2, <1>11, AdvancesOn

(* Only a commit that was asked for succeeds. *)
LEMMA CommitAdvances ==
  ASSUME KInv, NEW a \in Attempts, CommitConcludes(a)
  PROVE  Advances(auth, auth')
<1>1. PICK st : st = Expired(auth)
  OBVIOUS
<1>2. /\ st \in AuthType /\ auth \in AuthType /\ auth.att \in AttemptTable
      /\ Advances(auth, st)
  BY <1>1, Begin
<1>3. CASE auth' = Ended(st, a) \/ auth' = Reopened(Ended(st, a), a)
  <2>1. Advances(st, auth')
    BY <1>2, <1>3, EndedAdvances, GivingUpAdvances
  <2> QED BY <1>2, <2>1, AdvancesOn
<1>4. CASE CommitsNow(a)
  <2>1. PICK x \in AttemptRecord : x = auth.att[a] /\ RecordKept(x)
                                   /\ (Active(x) <=> auth.current = a)
    BY Start
  <2>2. x.step = "rereturned" /\ auth.current = a
    BY <1>4, <2>1 DEF CommitConcludes, CommitsNow
  <2>3. x.phase = "prepared"
    BY <2>1, <2>2 DEF RecordKept, Active
  <2>4. /\ auth'.current = a
        /\ \A c \in Attempts : c # a => auth'.att[c] = auth.att[c]
        /\ auth'.att[a].phase = "committed" /\ auth'.att[a].step = "done"
    BY <1>4, CommitChanges DEF KInv
  <2>5. PICK mid : mid = Ended(auth, a)
    OBVIOUS
  <2>6. /\ mid \in AuthType /\ mid.att \in AttemptTable
        /\ mid.att[a] \in AttemptRecord /\ mid.att[a].epoch = x.epoch
    <3>1. mid \in AuthType /\ Advances(auth, mid)
      BY <1>2, <2>5, EndedAdvances
    <3> QED BY <2>1, <3>1 DEF AuthType, AttemptTable, Advances, RecordAdvances
  <2>7. auth'.att = [mid.att EXCEPT ![a] = Granted(mid.att[a])]
    BY <1>4, <2>5, <2>6 DEF CommitsNow, Committed, AuthType
  <2>8. auth'.att[a].epoch = x.epoch
    BY <2>6, <2>7 DEF Granted, AttemptTable, AttemptRecord
  <2>9. RecordAdvances(auth.att[a], auth'.att[a])
    BY <2>1, <2>2, <2>3, <2>4, <2>8 DEF RecordAdvances, Recommits
  <2>10. \A c \in Attempts : RecordAdvances(auth.att[c], auth'.att[c])
    BY <2>4, <2>9 DEF RecordAdvances
  <2> QED BY <2>2, <2>4, <2>10 DEF Advances
<1> QED BY <1>1, <1>3, <1>4, CommitConcludesCases DEF KInv

(* The authority on its own, whatever it does, only moves on. *)
LEMMA AuthorityAdvances ==
  ASSUME KInv, Authority
  PROVE  Advances(auth, auth')
<1>1. ASSUME NEW a \in Attempts, Continuation(a) \/ DeadlinePasses(a) \/ TokenLapses(a)
      PROVE  Advances(auth, auth')
  BY <1>1, RecordsAdvance, PreparesAdvance, SnapshotAdvances, CommitAdvances
  DEF Continuation
<1>2. ASSUME NEW o \in Owners, OwnerChanges(o)
      PROVE  Advances(auth, auth')
  BY <1>2, StandsStill DEF OwnerChanges
<1> QED BY <1>1, <1>2, LeasesAdvance DEF Authority
-----------------------------------------------------------------------------
(* A controller that is lost takes its attempt along. *)
LEMMA LostWithdraws ==
  ASSUME KInv, NEW e \in Epochs
  PROVE  /\ Sound(Lost(auth, e), guests, busy, gen, fence)
         /\ Kept(Lost(auth, e), fence)
         /\ Advances(auth, Lost(auth, e))
         /\ Winners(Lost(auth, e)) = Winners(auth)
         /\ auth.current # 0 /\ State # "committed" /\ auth.att[auth.current].epoch = e
              => Lost(auth, e).current = 0
<1>1. /\ auth \in AuthType /\ Kept(auth, fence) /\ guests \in Nat
      /\ Sound(auth, guests, busy, gen, fence)
  BY Facts DEF KInv
<1>2. CASE State = "committed"
  BY <1>1, <1>2, StandsStill DEF Lost
<1>3. CASE State # "committed"
  <2>1. PICK s : s = [auth EXCEPT !.lost = @ \cup {e}]
    OBVIOUS
  <2>2. /\ s \in AuthType /\ s.att = auth.att /\ s.latch = auth.latch
        /\ s.current = auth.current /\ s.sequence = auth.sequence
        /\ s.ingress = auth.ingress
    BY <1>1, <2>1 DEF AuthType
  <2>3. Kept(s, fence)
    BY <1>1, <2>2, TableStays
  <2>4. Cleaning(s) = Cleaning(auth)
    BY <2>2 DEF Cleaning
  <2>5. Sound(s, guests, busy, gen, fence)
    BY <1>1, <2>2, <2>4 DEF Sound, Orderly, Sealed
  <2>6. Advances(auth, s) /\ Winners(s) = Winners(auth)
    BY <2>2, StandsStill DEF Winners
  <2>7. CASE auth.current # 0 /\ auth.att[auth.current].epoch = e
    <3>1. PICK a \in Attempts : a = auth.current
      BY <1>1, <2>7, BoundsAssumption DEF AuthType, Attempts
    <3>2. Lost(auth, e) = Reopened(s, a)
      BY <1>3, <2>1, <2>7, <3>1 DEF Lost
    <3>3. Sound(Reopened(s, a), guests, busy, gen, fence)
      BY <1>1, <2>5, ReopenedSound
    <3>4. Kept(Reopened(s, a), fence)
      BY <2>2, <2>3, ReopenedKept
    <3>5. Advances(auth, Reopened(s, a))
      BY <2>2, <2>6, ReopenedAdvances, AdvancesOn
    <3>6. Winners(Reopened(s, a)) = Winners(auth)
      BY <2>2, <2>6, ReopenedWinners
    <3>7. s.att[a].phase # "committed"
      BY <1>3, <2>2, <2>7, <3>1 DEF State
    <3>8. Reopened(s, a).current = 0
      BY <2>2, <3>1, <3>7 DEF Reopened, Acquired, AuthType
    <3> QED BY <3>2, <3>3, <3>4, <3>5, <3>6, <3>8
  <2>8. CASE ~(auth.current # 0 /\ auth.att[auth.current].epoch = e)
    <3>1. Lost(auth, e) = s
      BY <1>3, <2>1, <2>8 DEF Lost
    <3> QED BY <2>3, <2>5, <2>6, <2>8, <3>1
  <2> QED BY <2>7, <2>8
<1> QED BY <1>2, <1>3

(* The drafts are an owner like any other: a change of theirs is a new      *)
(* generation.                                                              *)
LEMMA FollowsDrafts ==
  ASSUME KInv, DraftsTold, DraftsFollow, NEW st,
         Sound(st, guests, busy, gen, fence), Kept(st, fence),
         auth' = st, UNCHANGED <<guests, fence>>
  PROVE  KInv' /\ DraftsTold'
<1>1. /\ busy \in [Owners -> BOOLEAN] /\ gen \in [Owners -> Nat] /\ Drafts \in Owners
      /\ Surroundings
  BY Facts, DraftsAssumption DEF KInv, IInv
<1>2. PICK sealed \in BOOLEAN : /\ sealed <=> (channel' = "ready" /\ active' # NULL)
                                /\ busy' = [busy EXCEPT ![Drafts] = ~sealed]
  BY DEF DraftsFollow
<1>3. DraftsTold'
  BY <1>1, <1>2 DEF DraftsTold, Bound
<1>4. Sound(st, guests, busy', gen', fence) /\ busy' \in [Owners -> BOOLEAN]
      /\ gen' \in [Owners -> Nat]
  <2>1. CASE gen' = [gen EXCEPT ![Drafts] = @ + 1]
    <3>1. \A p \in Owners \ {Drafts} : busy'[p] = busy[p]
      BY <1>1, <1>2
    <3>2. PICK c : c = busy'
      OBVIOUS
    <3>3. Sound(st, guests, c, [gen EXCEPT ![Drafts] = @ + 1], fence)
      BY <1>1, <3>1, <3>2, OwnerSound
    <3> QED BY <1>1, <1>2, <2>1, <3>2, <3>3
  <2>2. CASE /\ ~((channel' = "ready") # Bound \/ active' # active)
             /\ gen' = gen
    <3>1. busy' = busy
      BY <1>1, <1>2, <2>2 DEF DraftsTold, Bound
    <3> QED BY <1>1, <2>2, <3>1
  <2> QED BY <2>1, <2>2 DEF DraftsFollow
<1>5. IInv'
  BY <1>1, <1>4 DEF IInv, Surroundings
<1> QED BY <1>3, <1>5 DEF KInv
-----------------------------------------------------------------------------
(* The state of the authority is that of its current attempt. *)
StateTold ==
  /\ State \in {"open", "preparing", "prepared", "committed"}
  /\ State = "open" <=> auth.current = 0
  /\ State # "open" => /\ auth.current \in Attempts
                       /\ State = auth.att[auth.current].phase
                       /\ Active(auth.att[auth.current])

LEMMA StateIs == KInv => StateTold
<1> SUFFICES ASSUME KInv PROVE StateTold
  OBVIOUS
<1>1. auth \in AuthType /\ Kept(auth, fence)
  BY Facts DEF KInv
<1>2. CASE auth.current = 0
  BY <1>2 DEF State, StateTold
<1>3. CASE auth.current # 0
  <2>1. PICK a \in Attempts : a = auth.current
    BY <1>1, <1>3, BoundsAssumption DEF AuthType, Attempts
  <2>2. Active(auth.att[a])
    BY <1>1, <2>1 DEF Kept
  <2>3. auth.att[a].phase \in {"preparing", "prepared", "committed"}
    BY <2>2 DEF Active
  <2> QED BY <1>3, <2>1, <2>2, <2>3 DEF State, StateTold
<1> QED BY <1>2, <1>3

(* ... and when the authority moves on, nobody takes its place.             *)
MovesOn ==
  /\ Named(auth)'
  /\ State = "open" => State' = "open"
  /\ State = "committed" => State' = "committed"
  /\ State' # "open" => auth'.current = auth.current
  /\ State' \in {"preparing", "prepared"} =>
       /\ State \in {"preparing", "prepared"}
       /\ auth'.att[auth'.current].epoch = auth.att[auth.current].epoch
  /\ State' = "committed" =>
       State = "committed" \/ Recommits(auth.att[auth.current])
  /\ \A a \in Attempts : Recommits(auth'.att[a]) => Recommits(auth.att[a])

LEMMA StateMoves ==
  ASSUME KInv, KInv', Advances(auth, auth'), Named(auth)
  PROVE  MovesOn
<1>1. /\ Kept(auth, fence) /\ Kept(auth', fence')
      /\ auth'.current \in {0, auth.current}
      /\ \A c \in Attempts : RecordAdvances(auth.att[c], auth'.att[c]) /\ c # 0
  BY BoundsAssumption DEF KInv, Advances, Attempts
<1>2. /\ State \in {"open", "preparing", "prepared", "committed"}
      /\ State = "open" <=> auth.current = 0
      /\ State # "open" => /\ auth.current \in Attempts
                           /\ State = auth.att[auth.current].phase
                           /\ Active(auth.att[auth.current])
  BY StateIs DEF StateTold
<1>0. StateTold'
  BY StateIs, PTL
<1>3. /\ State' \in {"open", "preparing", "prepared", "committed"}
      /\ State' = "open" <=> auth'.current = 0
      /\ State' # "open" => /\ auth'.current \in Attempts
                            /\ State' = auth'.att[auth'.current].phase
                            /\ Active(auth'.att[auth'.current])
  BY <1>0 DEF StateTold
<1>4. Named(auth')
  <2> SUFFICES ASSUME NEW a \in Attempts, Active(auth'.att[a])
               PROVE  auth'.att[a].epoch \in Epochs
    BY DEF Named
  <2>1. auth'.current = a /\ auth.current = a
    BY <1>1 DEF Kept
  <2>2. Active(auth.att[a])
    BY <1>1, <2>1 DEF Kept
  <2> QED BY <1>1, <2>2 DEF Named, RecordAdvances
<1>5. State = "open" => State' = "open"
  BY <1>1, <1>2, <1>3
<1>6. State' # "open" => auth'.current = auth.current
  BY <1>1, <1>3
<1>7. ASSUME State = "committed"
      PROVE  State' = "committed"
  <2>1. PICK a \in Attempts : a = auth.current /\ auth.att[a].phase = "committed"
    BY <1>2, <1>7
  <2>2. auth'.att[a].phase = "committed"
    BY <1>1, <2>1 DEF RecordAdvances
  <2>3. auth'.current = a
    BY <1>1, <2>2 DEF Kept, Active
  <2> QED BY <1>1, <1>3, <2>2, <2>3
<1>8. ASSUME State' \in {"preparing", "prepared"}
      PROVE  /\ State \in {"preparing", "prepared"}
             /\ auth'.att[auth'.current].epoch = auth.att[auth.current].epoch
  BY <1>1, <1>2, <1>3, <1>6, <1>7, <1>8 DEF RecordAdvances
<1>9. ASSUME State' = "committed"
      PROVE  State = "committed" \/ Recommits(auth.att[auth.current])
  BY <1>1, <1>2, <1>3, <1>6, <1>9 DEF RecordAdvances
<1>10. \A a \in Attempts : Recommits(auth'.att[a]) => Recommits(auth.att[a])
  BY <1>1 DEF RecordAdvances
<1> QED BY <1>4, <1>5, <1>6, <1>7, <1>8, <1>9, <1>10 DEF MovesOn

-----------------------------------------------------------------------------
(* The authority on its own. *)
LEMMA AuthorityKeeps == ASSUME ControlInv, Authority PROVE ControlInv'
<1>1. KInv'
  BY KeptNext DEF ControlInv, Authority, Next
<1>2. Advances(auth, auth') /\ UNCHANGED control
  BY AuthorityAdvances DEF ControlInv, Authority
<1>3. busy'[Drafts] = busy[Drafts]
  <2>1. ASSUME NEW o \in Owners \ {Drafts}, OwnerChanges(o)
        PROVE  busy'[Drafts] = busy[Drafts]
    BY <2>1, Facts, DraftsAssumption DEF OwnerChanges, ControlInv, KInv
  <2>2. ASSUME NEW a \in Attempts,
               Continuation(a) \/ DeadlinePasses(a) \/ TokenLapses(a)
        PROVE  busy' = busy
    BY <2>2 DEF Continuation, DeadlinePasses, TokenLapses, WorkerCloses,
                WorkerAnswersClose, ReleaseStarts, WorkerReleases, Fenced, SnapshotReturns,
                PrepareConcludes, CommitConcludes, ReadOwner
  <2> QED BY <2>1, <2>2 DEF Authority, Enter, EnterCompletion, Leave, Expire
<1>4. /\ channel' = channel /\ active' = active /\ token' = token /\ latest' = latest
      /\ command' = command
  BY <1>2 DEF control
<1>5. ControlTypes' /\ DraftsTold'
  BY <1>3, <1>4 DEF ControlInv, ControlTypes, DraftsTold, Bound
<1>6. MovesOn
  BY <1>1, <1>2, StateMoves DEF ControlInv
<1>7. AttemptIsReachable'
  BY <1>4, <1>6 DEF ControlInv, AttemptIsReachable, Bound, MovesOn
<1>8. Withdrawn'
  BY <1>4, <1>6 DEF ControlInv, Withdrawn, MovesOn
<1>9. HandlerKnows'
  <2>1. State # "open" => auth.current \in Attempts
    BY StateIs DEF StateTold, ControlInv
  <2>2. auth'.current \in {0, auth.current}
    BY <1>2 DEF Advances
  <2>3. command.awaits = "prepare" /\ State # "committed" => State' # "committed"
    <3>1. State' = "committed" => State # "open"
      BY <1>6 DEF MovesOn
    <3>2. Recommits(auth.att[auth.current]) /\ State # "open" => command.awaits = "commit"
      BY <2>1 DEF ControlInv, HandlerKnows
    <3> QED BY <1>6, <3>1, <3>2 DEF MovesOn
  <2> QED BY <1>4, <1>6, <2>2, <2>3 DEF ControlInv, HandlerKnows, MovesOn
<1> QED BY <1>1, <1>5, <1>6, <1>7, <1>8, <1>9 DEF ControlInv, MovesOn
-----------------------------------------------------------------------------
(* A step of the controller that begins nothing: the authority stands still *)
(* or one of its controllers is lost.                                       *)
LEMMA ControllerMoves ==
  ASSUME ControlInv, DraftsFollow, UNCHANGED <<guests, fence>>,
         UNCHANGED auth \/ \E e \in Epochs : auth' = Lost(auth, e)
  PROVE  KInv' /\ DraftsTold' /\ MovesOn /\ Winners(auth') = Winners(auth)
         /\ Advances(auth, auth')
<1>1. PICK st : /\ auth' = st
                /\ Sound(st, guests, busy, gen, fence) /\ Kept(st, fence)
                /\ Advances(auth, st) /\ Winners(st) = Winners(auth)
  <2>1. CASE UNCHANGED auth
    BY <2>1, Facts, StandsStill DEF ControlInv, KInv
  <2>2. CASE \E e \in Epochs : auth' = Lost(auth, e)
    BY <2>2, LostWithdraws DEF ControlInv
  <2> QED BY <2>1, <2>2
<1>2. KInv' /\ DraftsTold'
  BY <1>1, FollowsDrafts DEF ControlInv
<1>3. MovesOn
  BY <1>1, <1>2, StateMoves DEF ControlInv
<1> QED BY <1>1, <1>2, <1>3

(* Whoever the authority still prepares for is the channel's active draft.  *)
LEMMA StateHasDraft ==
  ASSUME ControlInv
  PROVE  /\ State \in {"open", "preparing", "prepared", "committed"}
         /\ State \in {"preparing", "prepared"} =>
              /\ Bound /\ active \in Epochs /\ active # NULL
              /\ auth.current # 0 /\ auth.att[auth.current].epoch = active
         /\ NULL \notin Epochs
<1>1. StateTold
  BY StateIs DEF ControlInv
<1> QED BY <1>1, NoEpochAssumption DEF ControlInv, StateTold, Named, AttemptIsReachable

LEMMA BindKeeps == ASSUME ControlInv, Bind PROVE ControlInv'
<1>1. /\ channel = "attaching" /\ channel' = "ready" /\ DraftsFollow
      /\ UNCHANGED <<auth, guests, fence, active, token, latest, command>>
  BY DEF Bind
<1>2. KInv' /\ DraftsTold' /\ MovesOn
  BY <1>1, ControllerMoves
<1>3. State' \notin {"preparing", "prepared"}
  BY <1>1, <1>2, StateHasDraft DEF MovesOn, Bound
<1>4. State' = State
  BY <1>1 DEF State
<1>5. ControlTypes' /\ AttemptIsReachable' /\ Withdrawn'
  BY <1>1, <1>3 DEF ControlInv, ControlTypes, AttemptIsReachable, Withdrawn
<1>6. HandlerKnows'
  BY <1>1, <1>4 DEF ControlInv, HandlerKnows
<1> QED BY <1>2, <1>5, <1>6 DEF ControlInv, MovesOn

LEMMA AnswerKeeps == ASSUME ControlInv, Answer PROVE ControlInv'
<1>1. /\ State = "open" /\ command = NoCommand /\ DraftsFollow
      /\ active' = NULL /\ token' = 0 /\ channel = "ready"
      /\ UNCHANGED <<auth, guests, fence, channel, latest, command>>
  BY DEF Answer, Frame, Forgotten, Cleared, Holds, Bound
<1>2. KInv' /\ DraftsTold' /\ MovesOn
  BY <1>1, ControllerMoves
<1>3. State' = "open"
  BY <1>1, <1>2 DEF MovesOn
<1>4. ControlTypes' /\ AttemptIsReachable' /\ Withdrawn'
  BY <1>1, <1>3, BoundsAssumption DEF ControlInv, ControlTypes, AttemptIsReachable, Withdrawn
<1>5. HandlerKnows'
  BY <1>1, <1>2 DEF ControlInv, HandlerKnows, NoCommand, MovesOn
<1> QED BY <1>2, <1>4, <1>5 DEF ControlInv, MovesOn

LEMMA PrepareCommandKeeps ==
  ASSUME ControlInv, NEW e \in Epochs, PrepareCommand(e)
  PROVE  ControlInv'
<1>1. /\ channel = "ready" /\ command = NoCommand /\ DraftsFollow
      /\ State # "committed" /\ Present = NULL
      /\ latest' = e /\ active' = e /\ token' = 0
      /\ command' = [awaits |-> "refresh", draft |-> e, attempt |-> 0]
      /\ UNCHANGED <<auth, guests, fence, channel>>
  BY DEF PrepareCommand, Frame, Holds, Bound, Awaiting
<1>2. KInv' /\ DraftsTold' /\ MovesOn
  BY <1>1, ControllerMoves
<1>3. State = "open"
  <2>1. State # "open" => active = NULL
    BY <1>1 DEF Present, Forgotten
  <2> QED BY <1>1, <2>1, StateHasDraft
<1>4. State' = "open"
  BY <1>2, <1>3 DEF MovesOn
<1>5. ControlTypes' /\ AttemptIsReachable' /\ Withdrawn'
  BY <1>1, <1>4, BoundsAssumption, EpochsAssumption
  DEF ControlTypes, AttemptIsReachable, Withdrawn, NoCommand, Handlers
<1>6. HandlerKnows'
  BY <1>1, <1>2, <1>4 DEF ControlInv, HandlerKnows, NoCommand, MovesOn
<1> QED BY <1>2, <1>5, <1>6 DEF ControlInv, MovesOn

LEMMA CancelCommandKeeps == ASSUME ControlInv, CancelCommand PROVE ControlInv'
<1>1. /\ channel = "ready" /\ command = NoCommand /\ DraftsFollow
      /\ State # "committed" /\ active # NULL
      /\ auth' = Lost(auth, active) /\ active' = NULL /\ token' = 0
      /\ UNCHANGED <<guests, fence, channel, latest, command>>
  BY DEF CancelCommand, Frame, Cleared, Holds, Bound, Present
<1>2. active \in Epochs
  BY <1>1 DEF ControlInv, ControlTypes
<1>3. KInv' /\ DraftsTold' /\ MovesOn
  BY <1>1, <1>2, ControllerMoves
<1>4. State' = "open"
  <2>1. State \in {"preparing", "prepared"} => State' = "open"
    BY <1>1, <1>2, StateHasDraft, LostWithdraws DEF ControlInv, State
  <2> QED BY <1>1, <1>3, <2>1, StateHasDraft DEF MovesOn
<1>5. ControlTypes' /\ AttemptIsReachable' /\ Withdrawn'
  BY <1>1, <1>4, BoundsAssumption
  DEF ControlInv, ControlTypes, AttemptIsReachable, Withdrawn
<1>6. HandlerKnows'
  BY <1>1, <1>3 DEF ControlInv, HandlerKnows, NoCommand, MovesOn
<1> QED BY <1>3, <1>5, <1>6 DEF ControlInv, MovesOn

(* The end of the channel withdraws what is not committed.                  *)
LEMMA CloseKeeps == ASSUME ControlInv, Close PROVE ControlInv'
<1>1. /\ channel' = "closed" /\ DraftsFollow
      /\ UNCHANGED <<guests, fence, latest, command>>
  BY DEF Close
<1>2. \/ /\ active \in Epochs /\ State # "committed"
         /\ auth' = Lost(auth, active) /\ active' = NULL /\ token' = 0
      \/ /\ active = NULL \/ State = "committed"
         /\ UNCHANGED <<auth, active, token>>
  BY DEF Close, Disconnected, Cleared, Holds, ControlInv, ControlTypes
<1>3. KInv' /\ DraftsTold' /\ MovesOn
  BY <1>1, <1>2, ControllerMoves
<1>4. State' \in {"open", "committed"} /\ (State' = "committed" => State = "committed")
  <2>1. CASE active \in Epochs /\ State # "committed" /\ auth' = Lost(auth, active)
    <3>1. State \in {"preparing", "prepared"} => State' = "open"
      BY <2>1, StateHasDraft, LostWithdraws DEF ControlInv, State
    <3> QED BY <1>3, <2>1, <3>1, StateHasDraft DEF MovesOn
  <2>2. CASE (active = NULL \/ State = "committed") /\ UNCHANGED auth
    <3>1. State' = State
      BY <2>2 DEF State
    <3> QED BY <2>2, <3>1, StateHasDraft
  <2> QED BY <1>2, <2>1, <2>2
<1>5. active' = NULL \/ (UNCHANGED <<active, token>> /\ State = "committed")
  BY <1>2
<1>6. ControlTypes'
  BY <1>1, <1>2, BoundsAssumption DEF ControlInv, ControlTypes
<1>7. AttemptIsReachable'
  BY <1>1, <1>4, <1>5 DEF ControlInv, AttemptIsReachable
<1>8. Withdrawn'
  BY <1>3, <1>5 DEF Withdrawn, MovesOn
<1>9. HandlerKnows'
  <2>1. auth'.current \in {0, auth.current} /\ (State = "open" => State' = "open")
    BY <1>1, <1>2, <1>3, ControllerMoves DEF Advances, MovesOn
  <2> QED BY <1>1, <1>3, <1>4, <1>5, <2>1 DEF ControlInv, HandlerKnows, MovesOn
<1> QED BY <1>3, <1>6, <1>7, <1>8, <1>9 DEF ControlInv, MovesOn
-----------------------------------------------------------------------------
(* What the authority does when it is asked. *)
LEMMA PrepareBegins ==
  ASSUME ControlInv, NEW e \in Epochs, Prepare(e), Fresh
  PROVE  /\ KInv' /\ Winners(auth') = Winners(auth)
         /\ auth'.current = auth.sequence + 1 /\ auth'.current \in Attempts
         /\ auth'.att[auth'.current].phase = "preparing"
         /\ auth'.att[auth'.current].step = "fencing"
         /\ auth'.att[auth'.current].epoch = e
         /\ \A c \in Attempts : c # auth'.current => auth'.att[c] = auth.att[c]
<1>1. auth \in AuthType /\ auth.att \in AttemptTable
  BY StartExpired, Facts DEF ControlInv, KInv, AuthType
<1>2. PICK a \in Attempts : a = auth.sequence + 1
  BY DEF Prepare, Fresh
<1>3. PICK m : m = [auth.att[a] EXCEPT !.phase = "preparing", !.epoch = e,
                                       !.step = "fencing", !.closing = "called",
                                       !.readRevision = auth.revision + 1]
  OBVIOUS
<1>4. auth' = [auth EXCEPT !.current = a, !.sequence = a, !.revision = @ + 1, !.att[a] = m]
  BY <1>2, <1>3 DEF Prepare, Fresh
<1>5. auth'.att = [auth.att EXCEPT ![a] = m] /\ auth'.current = a
  BY <1>1, <1>4 DEF AuthType
<1>6. PICK x \in AttemptRecord : x = auth.att[a]
  BY <1>1 DEF AttemptTable
<1>7. m.phase = "preparing" /\ m.step = "fencing" /\ m.epoch = e
  BY <1>3, <1>6 DEF AttemptRecord
<1>8. \A c \in Attempts : auth'.att[c] = IF c = a THEN m ELSE auth.att[c]
  BY <1>1, <1>5 DEF AttemptTable
<1>9. KInv'
  BY KeptNext DEF ControlInv, Next
<1>10. Winners(auth') = Winners(auth)
  BY AdmissionWinners DEF ControlInv, KInv
<1> QED BY <1>2, <1>5, <1>7, <1>8, <1>9, <1>10

LEMMA CommitBegins ==
  ASSUME ControlInv, Commit(token, active), Fresh, token # 0
  PROVE  /\ KInv' /\ Winners(auth') = Winners(auth)
         /\ active \in Epochs /\ token \in Attempts
         /\ auth.current = token /\ auth.att[token].epoch = active
         /\ auth'.current = token
         /\ auth'.att[token].phase = "prepared" /\ auth'.att[token].epoch = active
         /\ \A c \in Attempts : c # token => auth'.att[c] = auth.att[c]
<1>1. auth \in AuthType /\ auth.att \in AttemptTable /\ Kept(auth, fence)
  BY StartExpired DEF ControlInv, AuthType
<1>2. /\ auth.current = token /\ auth.att[token].phase = "prepared"
      /\ auth.att[token].epoch = active
      /\ auth' = Reading([auth EXCEPT !.att[token].committing = TRUE], token, "rereading")
  BY DEF Commit, Fresh
<1>3. PICK a \in Attempts : a = token
  BY <1>1, <1>2, BoundsAssumption DEF AuthType, Attempts
<1>4. active \in Epochs
  BY <1>2, <1>3 DEF ControlInv, Named, Active
<1>5. PICK x \in AttemptRecord : x = auth.att[a]
  BY <1>1 DEF AttemptTable
<1>6. PICK y : y = [x EXCEPT !.committing = TRUE]
  OBVIOUS
<1>7. y \in AttemptRecord /\ y.phase = x.phase /\ y.epoch = x.epoch
  BY <1>5, <1>6 DEF AttemptRecord
<1>8. PICK s : s = [auth EXCEPT !.att[a].committing = TRUE]
  OBVIOUS
<1>9. s.att = [auth.att EXCEPT ![a] = y] /\ s.current = auth.current
      /\ s = [s EXCEPT !.att = s.att]
  BY <1>1, <1>5, <1>6, <1>8 DEF AuthType
<1>10. PICK m : m = Asking(y, "rereading", s.revision)
  OBVIOUS
<1>11. m.phase = x.phase /\ m.epoch = x.epoch
  BY <1>7, <1>10 DEF Asking, AttemptRecord
<1>12. s.att[a] = y /\ \A c \in Attempts : c # a => s.att[c] = auth.att[c]
  BY <1>1, <1>9 DEF AttemptTable
<1>13. Rewritten(auth, s, a, y)
  BY <1>5, <1>6, <1>8 DEF Rewritten
<1>14. s \in AuthType
  BY <1>1, <1>7, <1>13, Replaced
<1>15. auth' = [s EXCEPT !.att = [s.att EXCEPT ![a] = m]]
  BY <1>2, <1>3, <1>8, <1>10, <1>12 DEF Reading
<1>16. auth'.att = [s.att EXCEPT ![a] = m] /\ auth'.current = auth.current
  BY <1>9, <1>14, <1>15 DEF AuthType
<1>17. \A c \in Attempts : auth'.att[c] = IF c = a THEN m ELSE s.att[c]
  BY <1>14, <1>16 DEF AuthType, AttemptTable
<1>18. KInv'
  BY <1>3, <1>4, KeptNext DEF ControlInv, Next
<1>19. auth'.att[a].phase = "prepared" /\ auth.att[a].phase = "prepared"
  BY <1>2, <1>3, <1>5, <1>11, <1>17
<1>20. Winners(auth') = Winners(auth)
  BY <1>12, <1>17, <1>19 DEF Winners
<1> QED BY <1>2, <1>3, <1>4, <1>5, <1>11, <1>12, <1>16, <1>17, <1>18, <1>20
LEMMA CommitCommandKeeps == ASSUME ControlInv, CommitCommand PROVE ControlInv'
<1>1. /\ channel = "ready" /\ command = NoCommand /\ Fresh /\ token # 0
      /\ Commit(token, active)
      /\ command' = [awaits |-> "commit", draft |-> active, attempt |-> token]
      /\ UNCHANGED <<channel, active, token, latest>>
  BY DEF CommitCommand, Frame, Bound, Awaiting
<1>2. /\ KInv' /\ active \in Epochs /\ token \in Attempts
      /\ auth'.current = token
      /\ auth'.att[token].phase = "prepared" /\ auth'.att[token].epoch = active
      /\ \A c \in Attempts : c # token => auth'.att[c] = auth.att[c]
  BY <1>1, CommitBegins
<1>3. busy' = busy
  BY <1>1 DEF Commit
<1>4. ControlTypes'
  BY <1>1, <1>2 DEF ControlInv, ControlTypes, NoCommand, Handlers
<1>5. DraftsTold' /\ Withdrawn'
  BY <1>1, <1>3 DEF ControlInv, DraftsTold, Bound, Withdrawn
<1>6. Named(auth)'
  BY <1>2 DEF ControlInv, Named
<1>7. AttemptIsReachable'
  BY <1>1, <1>2 DEF AttemptIsReachable, Bound
<1>8. HandlerKnows'
  <2>1. \A a \in Attempts : ~Recommits(auth.att[a])
    BY <1>1 DEF ControlInv, HandlerKnows, NoCommand
  <2>2. \A a \in Attempts : Recommits(auth'.att[a]) => a = token
    BY <1>2, <2>1
  <2> QED BY <1>1, <1>2, <2>2 DEF HandlerKnows
<1> QED BY <1>2, <1>4, <1>5, <1>6, <1>7, <1>8 DEF ControlInv
-----------------------------------------------------------------------------
(* The handlers that were waiting continue. *)
LEMMA RefreshReturnsKeeps == ASSUME ControlInv, RefreshReturns PROVE ControlInv'
<1>1. PICK e \in Epochs : e = command.draft
  BY DEF RefreshReturns, ControlInv, ControlTypes
<1>2. /\ command.awaits = "refresh" /\ Fresh
      /\ State = "open" /\ active \in {NULL, e} /\ e # NULL
      /\ UNCHANGED <<guests, fence, channel, latest>>
  BY <1>1, NoEpochAssumption DEF RefreshReturns, ControlInv, HandlerKnows
<1>3. \A a \in Attempts : ~Recommits(auth.att[a])
  BY <1>2 DEF ControlInv, HandlerKnows
<1>4. ASSUME /\ UNCHANGED auth \/ auth' = Lost(auth, e)
             /\ DraftsFollow /\ command' = NoCommand
             /\ active' = NULL /\ token' \in {0, token}
      PROVE  ControlInv'
  <2>1. KInv' /\ DraftsTold' /\ MovesOn
    BY <1>2, <1>4, ControllerMoves
  <2>2. State' = "open"
    BY <1>2, <2>1 DEF MovesOn
  <2>3. ControlTypes' /\ AttemptIsReachable' /\ Withdrawn'
    BY <1>2, <1>4, <2>2, BoundsAssumption
    DEF ControlInv, ControlTypes, AttemptIsReachable, Withdrawn, NoCommand, Handlers
  <2>4. HandlerKnows'
    BY <1>3, <1>4, <2>1 DEF HandlerKnows, NoCommand, MovesOn
  <2> QED BY <2>1, <2>3, <2>4 DEF ControlInv, MovesOn
<1>5. CASE /\ IF active = e THEN Cleared ELSE UNCHANGED <<active, token>>
           /\ CommandOver /\ UNCHANGED auth /\ DraftsFollow
  <2>1. active' = NULL /\ token' \in {0, token}
    BY <1>2, <1>5 DEF Cleared, Holds
  <2> QED BY <1>4, <1>5, <2>1 DEF CommandOver
<1>6. CASE /\ ~Current(e)
           /\ CommandOver /\ UNCHANGED <<auth, active, token, busy, gen>>
  <2>1. active = NULL
    BY <1>2, <1>6 DEF Current, Bound, ControlInv, Withdrawn
  <2>2. auth' = auth /\ busy' = busy /\ gen' = gen /\ guests' = guests /\ fence' = fence
    BY <1>2, <1>6
  <2>3. KInv'
    BY <2>2, KeptNext DEF ControlInv, vars
  <2>4. State' = State
    BY <2>2 DEF State
  <2>5. ControlTypes' /\ DraftsTold' /\ Named(auth)' /\ AttemptIsReachable' /\ Withdrawn'
    BY <1>2, <1>6, <2>1, <2>2, <2>4, BoundsAssumption
    DEF ControlInv, ControlTypes, DraftsTold, Named, AttemptIsReachable, Withdrawn,
        NoCommand, Handlers, CommandOver, Bound
  <2>6. HandlerKnows'
    BY <1>3, <1>6, <2>2 DEF HandlerKnows, NoCommand, CommandOver
  <2> QED BY <2>3, <2>5, <2>6 DEF ControlInv
<1>7. CASE /\ Current(e) /\ Prepare(e)
           /\ command' = Awaiting("prepare", e, auth.sequence + 1)
           /\ UNCHANGED <<active, token>>
  <2>1. /\ KInv' /\ auth'.current = auth.sequence + 1 /\ auth'.current \in Attempts
        /\ auth'.att[auth'.current].phase = "preparing"
        /\ auth'.att[auth'.current].step = "fencing"
        /\ auth'.att[auth'.current].epoch = e
        /\ \A c \in Attempts : c # auth'.current => auth'.att[c] = auth.att[c]
    BY <1>2, <1>7, PrepareBegins
  <2>2. PICK a \in Attempts : a = auth'.current /\ a # 0
    BY <2>1, BoundsAssumption DEF Attempts
  <2>3. /\ command' = [awaits |-> "prepare", draft |-> e, attempt |-> a]
        /\ active' = e /\ active = e /\ token' = token /\ channel = "ready"
        /\ channel' = channel /\ latest' = latest /\ busy' = busy
    BY <1>2, <1>7, <2>1, <2>2 DEF Awaiting, Current, Bound, Prepare
  <2>4. State' = "preparing"
    BY <2>1, <2>2 DEF State
  <2>5. ControlTypes' /\ DraftsTold' /\ AttemptIsReachable' /\ Withdrawn'
    BY <2>1, <2>2, <2>3, <2>4
    DEF ControlInv, ControlTypes, DraftsTold, AttemptIsReachable, Withdrawn,
        NoCommand, Handlers, Bound, Attempts
  <2>6. Named(auth)'
    BY <2>1 DEF ControlInv, Named
  <2>7. \A c \in Attempts : ~Recommits(auth'.att[c])
    BY <1>3, <2>1 DEF Recommits
  <2>8. HandlerKnows'
    BY <2>2, <2>3, <2>4, <2>7 DEF HandlerKnows
  <2> QED BY <2>1, <2>5, <2>6, <2>8 DEF ControlInv
<1>8. CASE Current(e) /\ GiveUp(e) /\ DraftsFollow
  BY <1>4, <1>8 DEF GiveUp, Cleared, Holds, CommandOver
<1> QED BY <1>1, <1>5, <1>6, <1>7, <1>8 DEF RefreshReturns

LEMMA PrepareAnsweredKeeps == ASSUME ControlInv, PrepareAnswered PROVE ControlInv'
<1>1. PICK e \in Epochs, a \in Attempts : e = command.draft /\ a = command.attempt
  BY BoundsAssumption DEF PrepareAnswered, ControlInv, ControlTypes, HandlerKnows, Attempts
<1>2. /\ command.awaits = "prepare" /\ a # 0
      /\ auth.current \in {0, a} /\ State # "committed"
      /\ active \in {NULL, e} /\ e # NULL
      /\ UNCHANGED <<guests, fence, channel, latest>> /\ DraftsFollow
      /\ auth.att[a].phase # "preparing"
  BY <1>1, NoEpochAssumption DEF PrepareAnswered, ControlInv, HandlerKnows
<1>3. \A c \in Attempts : ~Recommits(auth.att[c])
  BY <1>2 DEF ControlInv, HandlerKnows
<1>4. command' = NoCommand
  BY DEF PrepareAnswered, GiveUp, CommandOver
<1>5. UNCHANGED auth \/ auth' = Lost(auth, e)
  BY <1>1 DEF PrepareAnswered, GiveUp
<1>6. KInv' /\ DraftsTold' /\ MovesOn
  BY <1>2, <1>5, ControllerMoves
<1>7. HandlerKnows'
  BY <1>3, <1>4, <1>6 DEF HandlerKnows, NoCommand, MovesOn
<1>8. ASSUME UNCHANGED auth, active' = active, token' \in 0..MaxAttempts,
             active # NULL => token' # 0
      PROVE  ControlInv'
  <2>1. State' = State /\ auth' = auth
    BY <1>8 DEF State
  <2>2. ControlTypes' /\ AttemptIsReachable' /\ Withdrawn'
    BY <1>2, <1>4, <1>8, <2>1, BoundsAssumption
    DEF ControlInv, ControlTypes, AttemptIsReachable, Withdrawn, NoCommand, Handlers, Bound
  <2> QED BY <1>6, <1>7, <2>2 DEF ControlInv, MovesOn
<1>9. CASE ~Current(e) /\ UNCHANGED <<auth, active, token>>
  <2>1. active = NULL
    BY <1>2, <1>9 DEF Current, Bound, ControlInv, Withdrawn
  <2> QED BY <1>8, <1>9, <2>1 DEF ControlInv, ControlTypes
<1>10. CASE Current(e) /\ Holds(e, a) /\ UNCHANGED auth
  <2>1. active' = active /\ token' = a /\ a \in 0..MaxAttempts
    BY <1>10, BoundsAssumption DEF Current, Holds, Attempts
  <2> QED BY <1>2, <1>8, <1>10, <2>1
<1>11. CASE Current(e) /\ auth.att[a].phase # "prepared" /\ GiveUp(e)
  <2>1. StateTold
    BY StateIs DEF ControlInv
  <2>2. State = "open"
    BY <1>2, <1>11, <2>1 DEF StateTold
  <2>3. State' = "open"
    BY <1>6, <2>2 DEF MovesOn
  <2>4. active' = NULL /\ token' = 0
    BY <1>11 DEF GiveUp, Cleared, Holds
  <2>5. ControlTypes' /\ AttemptIsReachable' /\ Withdrawn'
    BY <1>2, <1>4, <2>3, <2>4, BoundsAssumption
    DEF ControlInv, ControlTypes, AttemptIsReachable, Withdrawn, NoCommand, Handlers
  <2> QED BY <1>6, <1>7, <2>5 DEF ControlInv, MovesOn
<1> QED BY <1>1, <1>9, <1>10, <1>11 DEF PrepareAnswered

LEMMA CommitAnsweredKeeps == ASSUME ControlInv, CommitAnswered PROVE ControlInv'
<1>1. PICK a \in Attempts : a = command.attempt
  BY BoundsAssumption DEF CommitAnswered, ControlInv, ControlTypes, HandlerKnows, Attempts
<1>2. /\ command.awaits = "commit" /\ a # 0 /\ auth.current \in {0, a}
      /\ active = NULL \/ (active = command.draft /\ token # 0)
      /\ UNCHANGED <<auth, guests, fence, channel, latest>> /\ DraftsFollow
      /\ auth.att[a].answer # "none" /\ command' = NoCommand
  BY <1>1 DEF CommitAnswered, ControlInv, HandlerKnows, CommandOver
<1>3. RecordKept(auth.att[a]) /\ (Active(auth.att[a]) <=> auth.current = a)
  BY DEF ControlInv, KInv, Kept
<1>4. KInv' /\ DraftsTold' /\ MovesOn
  BY <1>2, ControllerMoves
<1>5. State' = State /\ auth' = auth
  BY <1>2 DEF State
<1>6. \/ /\ active' = NULL /\ token' = 0 /\ State \notin {"preparing", "prepared"}
      \/ active' = active /\ token' = token /\ (active # NULL => token # 0)
  <2>1. StateTold
    BY StateIs DEF ControlInv
  <2>2. State \in {"preparing", "prepared"} => auth.current = a /\ auth.att[a].answer = "none"
    BY <1>2, <1>3, <2>1 DEF StateTold, RecordKept
  <2> QED BY <1>1, <1>2, <2>2 DEF CommitAnswered, Cleared, Holds
<1>7. ControlTypes' /\ AttemptIsReachable' /\ Withdrawn'
  BY <1>2, <1>5, <1>6, BoundsAssumption
  DEF ControlInv, ControlTypes, AttemptIsReachable, Withdrawn, NoCommand, Handlers, Bound
<1>8. \A c \in Attempts : ~Recommits(auth.att[c])
  <2>1. \A c \in Attempts : Recommits(auth.att[c]) => c = a
    BY <1>1 DEF ControlInv, HandlerKnows
  <2>2. ~Recommits(auth.att[a])
    BY <1>2, <1>3 DEF RecordKept, Recommits
  <2> QED BY <2>1, <2>2
<1>9. HandlerKnows'
  BY <1>2, <1>5, <1>8 DEF HandlerKnows, NoCommand
<1> QED BY <1>4, <1>7, <1>9 DEF ControlInv, MovesOn
-----------------------------------------------------------------------------
(* No handler decides a commit: the authority does, by itself.              *)
LEMMA ControlMoves ==
  ASSUME ControlInv, [ControlNext]_all
  PROVE  Authority \/ Winners(auth') = Winners(auth)
<1>1. ASSUME DraftsFollow, UNCHANGED <<guests, fence>>,
             UNCHANGED auth \/ \E e \in Epochs : auth' = Lost(auth, e)
      PROVE  Winners(auth') = Winners(auth)
  BY <1>1, ControllerMoves
<1>2. CASE Bind \/ Answer \/ CommitAnswered \/ \E e \in Epochs : PrepareCommand(e)
  BY <1>1, <1>2 DEF Bind, Answer, CommitAnswered, PrepareCommand
<1>3. CASE CancelCommand
  <2>1. active \in Epochs
    BY <1>3 DEF CancelCommand, Present, ControlInv, ControlTypes
  <2> QED BY <1>1, <1>3, <2>1 DEF CancelCommand
<1>4. CASE CommitCommand
  BY <1>4, CommitBegins DEF CommitCommand, Frame
<1>5. CASE RefreshReturns
  <2>1. PICK e \in Epochs : e = command.draft
    BY <1>5 DEF RefreshReturns, ControlInv, ControlTypes
  <2>2. CASE Prepare(e)
    BY <1>5, <2>2, PrepareBegins DEF RefreshReturns
  <2>3. CASE UNCHANGED auth
    BY <2>3 DEF Winners
  <2>4. CASE DraftsFollow /\ GiveUp(e)
    BY <1>1, <1>5, <2>4 DEF RefreshReturns, GiveUp
  <2> QED BY <1>5, <2>1, <2>2, <2>3, <2>4 DEF RefreshReturns
<1>6. CASE PrepareAnswered
  <2>1. PICK e \in Epochs : e = command.draft
    BY <1>6 DEF PrepareAnswered, ControlInv, ControlTypes
  <2>2. UNCHANGED auth \/ auth' = Lost(auth, e)
    BY <1>6, <2>1 DEF PrepareAnswered, GiveUp
  <2> QED BY <1>1, <1>6, <2>2 DEF PrepareAnswered
<1>7. CASE Close
  <2>1. UNCHANGED auth \/ (active \in Epochs /\ auth' = Lost(auth, active))
    BY <1>7 DEF Close, Disconnected, ControlInv, ControlTypes
  <2> QED BY <1>1, <1>7, <2>1 DEF Close
<1>8. CASE UNCHANGED all
  BY <1>8 DEF all, vars, Winners
<1> QED BY <1>2, <1>3, <1>4, <1>5, <1>6, <1>7, <1>8 DEF ControlNext, Commands, Answers

LEMMA ControlStarts == ControlInit => ControlInv
<1> SUFFICES ASSUME ControlInit PROVE ControlInv
  OBVIOUS
<1>1. /\ auth.current = 0 /\ channel = "attaching" /\ active = NULL /\ token = 0
      /\ latest = 0 /\ command = NoCommand /\ busy[Drafts]
      /\ \A a \in Attempts : auth.att[a] = NoAttempt
  BY DEF ControlInit, Init
<1>2. KInv /\ busy \in [Owners -> BOOLEAN]
  BY KeptInit, Facts DEF ControlInit, KInv
<1>3. ControlTypes
  BY <1>1, BoundsAssumption DEF ControlTypes, NoCommand, Handlers
<1>4. State = "open"
  BY <1>1 DEF State
<1>5. DraftsTold
  BY <1>1, <1>2, DraftsAssumption DEF DraftsTold, Bound
<1>6. Named(auth) /\ \A a \in Attempts : ~Recommits(auth.att[a])
  BY <1>1 DEF Named, Active, Recommits, NoAttempt
<1>7. AttemptIsReachable /\ Withdrawn /\ HandlerKnows
  BY <1>1, <1>4, <1>6 DEF AttemptIsReachable, Withdrawn, HandlerKnows, NoCommand
<1> QED BY <1>2, <1>3, <1>5, <1>6, <1>7 DEF ControlInv

LEMMA ControlStep == ControlInv /\ [ControlNext]_all => ControlInv'
<1> SUFFICES ASSUME ControlInv, [ControlNext]_all PROVE ControlInv'
  OBVIOUS
<1>1. CASE UNCHANGED all
  <2>1. KInv'
    BY <1>1, KeptNext DEF ControlInv, all
  <2>2. State' = State
    BY <1>1 DEF State, all, vars
  <2> QED BY <1>1, <2>1, <2>2
          DEF ControlInv, ControlTypes, DraftsTold, Named, AttemptIsReachable, Withdrawn,
              HandlerKnows, all, vars, control, Bound
<1> QED BY <1>1, AuthorityKeeps, BindKeeps, AnswerKeeps, PrepareCommandKeeps,
           CommitCommandKeeps, CancelCommandKeeps, CloseKeeps, RefreshReturnsKeeps,
           PrepareAnsweredKeeps, CommitAnsweredKeeps
        DEF ControlNext, Commands, Answers
-----------------------------------------------------------------------------
(* The channel, its handler and the authority agree, whoever hangs, changes *)
(* or goes away, and everything proved of the authority alone holds of it   *)
(* under its controller.                                                    *)
THEOREM ControlInvHolds == ControlSpec => []ControlInv
BY ControlStarts, ControlStep, PTL DEF ControlSpec

(* The shell can reach the attempt that keeps admission closed, and a       *)
(* restart is only committed for a shell that waits for that answer, about  *)
(* the drafts it sealed (DesktopRestartBackend).                            *)
THEOREM ControlAlwaysHeld == ControlSpec => ControlIsHeld
<1>1. ControlInv /\ ControlInv' /\ [ControlNext]_all
        => [AttemptIsReachable' /\ CommitIsAwaited]_all
  <2> SUFFICES ASSUME ControlInv, ControlInv', [ControlNext]_all
               PROVE  AttemptIsReachable' /\ CommitIsAwaited
    OBVIOUS
  <2>1. AttemptIsReachable'
    BY DEF ControlInv
  <2> SUFFICES ASSUME NEW a \in Attempts, auth.att[a].phase # "committed",
                      auth'.att[a].phase = "committed"
               PROVE  /\ Bound /\ active = auth.att[a].epoch
                      /\ command.awaits = "commit" /\ command.attempt = a
    BY <2>1 DEF CommitIsAwaited
  <2>2. Winners(auth') # Winners(auth)
    BY DEF Winners
  <2>3. Authority
    BY <2>2, ControlMoves
  <2>4. Recommits(auth.att[a])
    BY <2>3, AuthorityAdvances DEF ControlInv, Advances, RecordAdvances
  <2>5. auth.current = a /\ State = "prepared"
    BY <2>4, BoundsAssumption DEF ControlInv, KInv, Kept, Active, Recommits, State, Attempts
  <2> QED BY <2>4, <2>5, StateHasDraft DEF ControlInv, HandlerKnows
<1> QED BY <1>1, ControlInvHolds, PTL DEF ControlSpec, ControlIsHeld

(* What an attempt holds is what it was told, under the shell's controller. *)
THEOREM ShellAttemptsAreKept == ControlSpec => []AttemptsAreKept
<1>1. ControlInv => AttemptsAreKept
  BY KeptShows DEF ControlInv
<1> QED BY <1>1, ControlInvHolds, PTL

(* At the moment of a commit every owner is idle, the sealed drafts of the  *)
(* page among them, and nobody is inside.                                   *)
THEOREM ShellCommitsAreProven == ControlSpec => CommitIsProven
<1> DEFINE A(a) == auth.att[a].phase # "committed" /\ auth'.att[a].phase = "committed" =>
                     /\ \A o \in Owners : ~busy[o] /\ gen[o] = auth.att[a].generations[o]
                     /\ guests = 0 /\ CleaningUp = {}
<1>1. ControlInv /\ [ControlNext]_all => [\A a \in Attempts : A(a)]_vars
  <2> SUFFICES ASSUME ControlInv, [ControlNext]_all, NEW a \in Attempts,
                      auth.att[a].phase # "committed", auth'.att[a].phase = "committed"
               PROVE  /\ \A o \in Owners :
                           ~busy[o] /\ gen[o] = auth.att[a].generations[o]
                      /\ guests = 0 /\ CleaningUp = {}
    OBVIOUS
  <2>1. Winners(auth') # Winners(auth)
    BY DEF Winners
  <2>2. Authority /\ IInv
    BY <2>1, ControlMoves DEF ControlInv, KInv
  <2>3. PICK c \in Attempts : CommitsNow(c)
    BY <2>1, <2>2, WinnersChange DEF Authority, Next
  <2>4. a = c
    BY <2>2, <2>3, CommitChanges
  <2>5. /\ auth.att[a].step = "rereturned" /\ ProofStands(auth, a)
        /\ auth.att[a].generations = auth.att[a].readGen
    BY <2>3, <2>4 DEF CommitsNow
  <2>6. /\ \A o \in Owners : busy[o] = FALSE /\ gen[o] = auth.att[a].readGen[o]
        /\ guests = 0 /\ Cleaning(auth) = {}
    BY <2>2, <2>5, ProofIsOfNow
  <2> QED BY <2>5, <2>6 DEF Cleaning, CleaningUp
<1> QED BY <1>1, ControlInvHolds, PTL DEF ControlSpec, CommitIsProven
(* ... and the commit stays: no cancel, refresh, end of the channel or late *)
(* callback reopens it, nobody gets in, and the worker stays fenced.        *)
THEOREM ShellCommitsAreFinal == ControlSpec => CommitIsFinal
<1> DEFINE A(a) == auth.att[a].phase = "committed" =>
                     auth'.att[a].phase = "committed" /\ guests' = 0 /\ fence' = fence
<1>1. ControlInv /\ ControlInv' /\ [ControlNext]_all => [\A a \in Attempts : A(a)]_vars
  <2> SUFFICES ASSUME ControlInv, ControlInv', [ControlNext]_all, NEW a \in Attempts,
                      auth.att[a].phase = "committed"
               PROVE  auth'.att[a].phase = "committed" /\ guests' = 0 /\ fence' = fence
    OBVIOUS
  <2>1. IInv /\ IInv'
    BY DEF ControlInv, KInv
  <2>2. /\ auth.current = a /\ auth.att[a].step = "done"
        /\ fence.id = a /\ fence.acknowledged = TRUE
    BY <2>1, Facts DEF Sound, Sealed
  <2>3. Winners(auth') = Winners(auth)
    <3>1. \A c \in Attempts : ~CommitsNow(c)
      BY <2>2 DEF CommitsNow
    <3> QED BY <2>1, <3>1, ControlMoves, WinnersChange DEF Authority, Next
  <2>4. auth'.att[a].phase = "committed"
    BY <2>3 DEF Winners
  <2>5. guests' = 0 /\ fence'.id = a /\ fence'.acknowledged = TRUE
    BY <2>1, <2>4 DEF IInv, Sound, Sealed
  <2>6. /\ fence \in [id : 0..MaxAttempts, acknowledged : BOOLEAN]
        /\ fence' \in [id : 0..MaxAttempts, acknowledged : BOOLEAN]
    BY <2>1 DEF IInv, Surroundings
  <2> QED BY <2>2, <2>4, <2>5, <2>6
<1> QED BY <1>1, ControlInvHolds, PTL DEF ControlSpec, CommitIsFinal
=============================================================================
