SPECIFICATION ClientSpec
CONSTANTS
  Jobs = {j1, j2}
  Runs = {r1, r2}
  Sessions = {s1, s2}
  Owners = {o1}
  Worktrees = {w1}
  ProviderSessions = {}
  EventIds = {e1}
  Payloads = {x1}
  ArchivableJobs = {}
  Cap = 1
  NULL = NULL
SYMMETRY Symmetry
INVARIANTS
  TablesAgree
PROPERTIES
  ImplementsLedger
CHECK_DEADLOCK FALSE
