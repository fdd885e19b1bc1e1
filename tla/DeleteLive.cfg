SPECIFICATION FairSpec
CONSTANTS
  Containers = {c1}
  Networks = {n1}
  Subject = i1
  Delete = d1
  Request = r1
  NoOperation = NoOperation
  NoReceipt = NoReceipt
  NoPlan = NoPlan
  NoSource = NoSource
  MaxRevision = 3
  MaxAttempt = 1
  MaxSteps = 5
  Worlds = {"shared", "quiet"}
  Repeats = FALSE
  MaxExits = 1
  MaxFaults = 1
PROPERTIES
  QuietDeleteRetires
CHECK_DEADLOCK FALSE
