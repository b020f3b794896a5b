SPECIFICATION CornerSpec
CONSTANTS
  Owners = {worker, drafts}
  Worker = worker
  Drafts = drafts
  Epochs = {1, 2}
  MaxAttempts = 2
  MaxRevision = 1
  MaxGen = 1
  NULL = NULL
PROPERTIES
  ControlIsHeld
  EveryAttemptSettles
CHECK_DEADLOCK FALSE
