SPECIFICATION FairSpec
CONSTANTS
  once = once  skip = skip  fill = fill  broken = broken
  Schedulers = {s1, s2}
  Jobs = {once, skip, fill, broken}
  Once = {once}
  Backfill = {fill}
  Invalid = {broken}
  Period <- JobPeriods
  FirstRun <- FirstRuns
  Cap <- JobCaps
  ClaimLimit = 2
  MaxDepth = 2
  Skew = 0
  MaxTime = 3
  MaxFaults = 1
  Pausable = {fill}
CHECK_DEADLOCK FALSE
INVARIANTS
  TypeOK
  TicksInOrder
  NoTickSkipped
PROPERTIES
  NoDrift
  WithinBudget
  DueIsScheduled
