SPECIFICATION OneDisturbance
CONSTANTS
  Jobs = {j1}
  Runs = {r1, r2}
  Kinds = {"start", "turn", "resume"}
  Cancellable = {r1, r2}
  Cap = 1
  MaxFailures = 1
  MaxRefusals = 1
  NULL = NULL
SYMMETRY Symmetric
INVARIANT TypeOK
INVARIANT SuccessIsWhole
INVARIANT NoWorkBehindOutcome
PROPERTY ClientOfTheAuthority
CHECK_DEADLOCK FALSE
