SPECIFICATION OpenSpec
CONSTANTS
  Jobs = {j1, j2}
  Runs = {r1, r2, r3}
  Sessions = {s1}
  Owners = {o1}
  Worktrees = {w1}
  ProviderSessions = {p1}
  EventIds = {e1}
  Payloads = {x1}
  ArchivableJobs = {j1, j2}
  Cap = 1
  NULL = NULL
SYMMETRY Symmetry
INVARIANTS
  TypeOK
  CapacityBound
  LeaseMatchesState
  SessionHasOneJob
PROPERTIES
  FencingTokenGrows
  EndedRunIsFrozen
  LogIsSealed
CHECK_DEADLOCK FALSE
