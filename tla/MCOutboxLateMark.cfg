SPECIFICATION Spec
CONSTANTS
  Execs = {e1}
  Relays = {r1}
  MaxAttempt = 2
  RelayLimit = 2
  Lapsing = {}
  MaxFaults = 1
CHECK_DEADLOCK FALSE
INVARIANT
  NothingLost
