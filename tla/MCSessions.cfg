SPECIFICATION Spec
CONSTANTS
  Requests = {q1, q2}
  MaxAttempts = 2
  MaxRequests = 6
SYMMETRY Symmetry
CHECK_DEADLOCK FALSE
INVARIANTS
  TypeOK
  OneSessionPerLogin
  ResetEndsSessions
  LatestCodeOnce
  WrongCodesBounded
