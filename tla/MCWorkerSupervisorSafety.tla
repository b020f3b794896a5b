---------------------- MODULE MCWorkerSupervisorSafety ----------------------
(* Bounds for TLC.  A behaviour stays in one of three corners: one run     *)
(* with its question, its stops and answers that are late twice; two runs  *)
(* and two workers, the second run never stopped; a fence, another call    *)
(* and the worker's own activity against one run.                          *)
EXTENDS WorkerSupervisorProperties, TLC

VARIABLE corner

OneRun == \A r \in Runs \ Stoppable : run'[r].phase = "none"
OneWorker == child' \in {None, 1}
NoCalls == \A c \in Calls : call'[c] = "idle"
NoFences == fence' = NoFence
NoReads == ~watch'.slot
NoStops == \A r \in Runs : run'[r].stopping = "none" /\ run'[r].told = "none"
AskedTwice == \E q \in pending' \cup expired' : q.n > 1
AbortedTwice == \A q \in pending' \cup expired' : q.n > 1 => q.method = "abort"
OneActor == NoCalls \/ \A r \in Runs : run'[r].phase = "none"
OneLate == Cardinality(expired') <= 1
NoAsks == \A w \in Workers, r \in Runs : host'[w].run[r].asks = 0

Within ==
  CASE corner = "run" -> AbortedTwice /\ OneRun /\ OneWorker /\ NoCalls /\ NoFences /\ NoReads
    [] corner = "siblings" -> NoCalls /\ NoFences /\ NoReads /\ NoAsks /\ ~AskedTwice
    [] corner = "fence" -> OneLate /\ OneActor /\ OneRun /\ OneWorker /\ NoStops /\ NoAsks /\ ~AskedTwice

CornerInit ==
  /\ Init
  /\ corner \in {"run", "siblings", "fence"}

CornerSpec ==
  /\ CornerInit
  /\ [][Next /\ Within /\ UNCHANGED corner]_<<vars, corner>>
=============================================================================
