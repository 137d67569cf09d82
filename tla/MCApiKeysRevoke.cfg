SPECIFICATION Spec
CONSTANTS
  Keys = {k1}
  Requests = {q1}
  Flushers = {f1}
  MaxUses = 2
  MaxFaults = 0
CHECK_DEADLOCK FALSE
INVARIANT
  RevokedAtOnce
