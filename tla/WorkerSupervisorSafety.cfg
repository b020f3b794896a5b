SPECIFICATION CornerSpec
CONSTANTS
  Runs = {r1, r2}
  Calls = {c1}
  Fences = {f1}
  MaxWorkers = 2
  MaxMoves = 1
  MaxAsks = 1
  None = None
  MaxSame = 2
  Stoppable = {r1}
  MayShutDown = FALSE
INVARIANTS
  VerdictsAreTrue
  BrowserIsTold
  FenceIsKept
  IdleProofHolds
PROPERTY KeepsPromise
CHECK_DEADLOCK FALSE
