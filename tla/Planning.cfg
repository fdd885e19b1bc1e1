SPECIFICATION Spec
CONSTANTS
  CreateIds = {p1}
  CloneIds = {p2}
  Requests = {r1, r2}
  Ports <- MCPorts
  Busy = {2}
  Contents = {draft, good, other}
  Ready = {good, other}
  MaxPlans = 1
  MaxRevision = 2
  MaxSource = 2
INVARIANTS
  ReviewedIsCommitted
  AcceptedOnce
  CloneOfOneSource
  NoPortTwice
  StartedOnce
SYMMETRY Symmetric
CHECK_DEADLOCK FALSE
