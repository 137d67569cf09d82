SPECIFICATION Spec
CONSTANTS
  Users = {u1, u2}
  Custom = {dev}
  Namesakes = {}
  Invites = {i1, i2}
  Requests = {q1, q2}
  Grants = {"OWNER", dev}
  MaxFills = 1
  MaxRequests = 3
  MaxFaults = 1
SYMMETRY Symmetry
CHECK_DEADLOCK FALSE
INVARIANTS
  TypeOK
  OwnerRemains
  AcceptedIffUsed
  ContextFresh
