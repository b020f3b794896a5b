SPECIFICATION Spec
CONSTANTS
  Jobs = {j1}
  Runs = {r1, r2}
  Kinds = {"start", "resume"}
  Cancellable = {}
  Cap = 1
  MaxFailures = 1
  MaxRefusals = 0
  NULL = NULL
SYMMETRY Symmetric
PROPERTY UnblockedAfterReap
CHECK_DEADLOCK FALSE
