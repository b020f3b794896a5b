SPECIFICATION CornerFairSpec
CONSTANTS
  Runs = {r1, r2}
  Calls = {}
  Fences = {}
  MaxWorkers = 2
  MaxMoves = 0
  MaxAsks = 0
  None = None
  MaxSame = 1
  Stoppable = {r1}
  MayShutDown = TRUE
PROPERTIES
  RunsAreDecided
  AbortIsAnswered
  ShutdownSettles
CHECK_DEADLOCK FALSE
