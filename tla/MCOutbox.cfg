SPECIFICATION FairSpec
CONSTANTS
  Execs = {e1, e2}
  Relays = {r1, r2}
  MaxAttempt = 2
  RelayLimit = 2
  Lapsing = {e1}
  MaxFaults = 2
CHECK_DEADLOCK FALSE
INVARIANTS
  TypeOK
PROPERTIES
  FirstHandoff
  EveryHandoffSafe
