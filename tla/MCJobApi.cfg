SPECIFICATION Spec
CONSTANTS
  Requests = {q1, q2}
  MaxTime = 2
  MaxRequests = 2
SYMMETRY Symmetry
CHECK_DEADLOCK FALSE
INVARIANTS
  TypeOK
  
  OptionsAgree
