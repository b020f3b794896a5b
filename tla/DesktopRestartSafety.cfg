SPECIFICATION CornerSpec
CONSTANTS
  Owners = {worker, other}
  Worker = worker
  Epochs = {c1, c2}
  MaxAttempts = 2
  MaxRevision = 3
  MaxGen = 2
  NULL = NULL
SYMMETRY Symmetry
INVARIANTS
  TypeOK
  IngressIsAccounted
  AttemptsAreKept
PROPERTIES
  CommitIsProven
  CommitIsFinal
CHECK_DEADLOCK FALSE
