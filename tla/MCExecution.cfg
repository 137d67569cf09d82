SPECIFICATION FairSpec
CONSTANTS
  Workers = {w1, w2}
  MaxAttempts = 2
  Once = TRUE
  Strategies = {TRUE, FALSE}
  FirstCarries = {0, 1}
  MaxDelivery = 2
  Stalls = TRUE
  MaxFaults = 1
CHECK_DEADLOCK FALSE
INVARIANTS
  TypeOK
  DisabledAtTheEnd
  NeverDropped
PROPERTIES
  LifecycleSafe
  Concludes
  ComesToRest
