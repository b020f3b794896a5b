SPECIFICATION FairSpec
CONSTANTS
  Requests = {q1, q2}
  Observers = {o1}
  MaxFaults = 2
INVARIANTS
  ClientIsHonest
  AnswersAreExpected
PROPERTY RequestsSettle
CHECK_DEADLOCK FALSE
