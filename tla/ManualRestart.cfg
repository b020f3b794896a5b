SPECIFICATION Spec
CONSTANTS
  MaxVersion = 3
  MaxDisturbances = 3
INVARIANTS
  AdmissionIsEarned
  HandoverIsSafe
PROPERTIES
  UpdateRecovers
CHECK_DEADLOCK FALSE
