---------------------- MODULE MCWorkerSupervisorLiveness ----------------------
(* Bounds for TLC.  Two runs of which none is stopped, or one run that may *)
(* be.  Only what users do is restricted, never a fair step.               *)
EXTENDS WorkerSupervisorProperties, TLC

NoStops == \A r \in Runs : run'[r].stopping = "none" /\ run'[r].told = "none"
OneRun == \A r \in Runs \ Stoppable : run'[r].phase = "none"

VARIABLE corner

CornerInit ==
  /\ Init
  /\ corner \in {"waiting", "stopping"}

CornerFairSpec ==
  /\ CornerInit
  /\ [][/\ Next
        /\ IF corner = "waiting" THEN NoStops /\ stop' = "no" ELSE OneRun
        /\ UNCHANGED corner]_<<vars, corner>>
  /\ Fairness
=============================================================================
