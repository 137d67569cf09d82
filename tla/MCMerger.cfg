SPECIFICATION FairSpec
CONSTANTS
  e1 = e1
  e2 = e2
  Execs = {e1, e2}
  Mergers = {m1, m2}
  BatchSize = 2
  MaxAttempts = 2
  Plans <- TwoOnceOneTwice
  Rejected = {}
  MaxFaults = 1
CHECK_DEADLOCK FALSE
INVARIANTS
  TypeOK
  StaysKnown
PROPERTIES
  RowLifecycle
  HealthyApplied
