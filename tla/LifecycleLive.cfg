SPECIFICATION FairSpec
CONSTANTS
  Instances = {i1}
  Operations = {o1}
  Requests = {r1}
  Plans = {}
  ChangeKinds = {"start", "stop", "restart"}
  NoOperation = NoOperation
  NoReceipt = NoReceipt
  NoPlan = NoPlan
  NoSource = NoSource
  MaxRevision = 2
  MaxAttempt = 2
  MaxSteps = 3
  MAX_CONCURRENT_CHANGES = 2
  NoClaim = NoClaim
  Unbound = Unbound
  Recoverers = {q1, q2}
  MaxExits = 0
  MaxFaults = 0
PROPERTIES
  AcceptedIsSettled
  RecoveryReturns
CHECK_DEADLOCK FALSE
