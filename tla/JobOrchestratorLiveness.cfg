SPECIFICATION FairSpec
CONSTANTS
  Jobs = {j1}
  Runs = {r1}
  Kinds = {"start"}
  Cancellable = {r1}
  Cap = 1
  MaxFailures = 2
  MaxRefusals = 0
  NULL = NULL
PROPERTY WorkSettles
PROPERTY AdmissionReopens
CHECK_DEADLOCK FALSE
