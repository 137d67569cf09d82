SPECIFICATION Spec
CONSTANTS
  Requests = {q1}
  MaxTime = 2
  MaxRequests = 1
CHECK_DEADLOCK FALSE
INVARIANT
  Rescheduled
