SPECIFICATION FairSpec
CONSTANTS
  Keys = {k1}
  Requests = {q1, q2}
  Flushers = {f1, f2}
  MaxUses = 3
  MaxFaults = 2
CHECK_DEADLOCK FALSE
INVARIANTS
  TypeOK
  CacheExplained
PROPERTIES
  CacheSettles
  UsesReported
