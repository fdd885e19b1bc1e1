SPECIFICATION Spec
CONSTANTS
  Instances = {i1}
  Operations = {o1, o2}
  Requests = {r1, r2}
  Plans = {}
  ChangeKinds = {"start", "stop", "restart"}
  NoOperation = NoOperation
  NoReceipt = NoReceipt
  NoPlan = NoPlan
  NoSource = NoSource
  MaxRevision = 2
  MaxAttempt = 2
  MaxSteps = 3
  MAX_CONCURRENT_CHANGES = 2
  NoClaim = NoClaim
  Unbound = Unbound
  Recoverers = {q1}
  MaxExits = 2
  MaxFaults = 1
SYMMETRY Symmetry
INVARIANTS
  OneChangeAtATime
  LiveCliIsOwned
  NobodyIsForgotten
PROPERTIES
  FollowsJournal
CHECK_DEADLOCK FALSE
