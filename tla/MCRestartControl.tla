-------------------------- MODULE MCRestartControl --------------------------
(* Bounds for TLC.  A behaviour stays in one of two corners: two drafts    *)
(* one after the other while nobody else does anything, or one draft while *)
(* callers come and go and the worker's work changes.  The corners block   *)
(* the environment only and take nothing from the fairness of the rest.    *)
EXTENDS RestartControlProperties

VARIABLE corner

Within ==
  CASE corner = "drafts" -> guests' = 0 /\ busy'[Worker] = busy[Worker]
    [] corner = "callers" -> latest' <= 1

CornerInit ==
  /\ ControlInit
  /\ corner \in {"drafts", "callers"}

CornerSpec ==
  /\ CornerInit
  /\ [][ControlNext /\ Within /\ UNCHANGED corner]_<<all, corner>>
  /\ ControlFairness
=============================================================================
