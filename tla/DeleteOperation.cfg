SPECIFICATION Spec
CONSTANTS
  Containers = {c1, c2}
  Networks = {n1}
  Subject = i1
  Delete = d1
  Request = r1
  NoOperation = NoOperation
  NoReceipt = NoReceipt
  NoPlan = NoPlan
  NoSource = NoSource
  MaxRevision = 3
  MaxAttempt = 2
  MaxSteps = 5
  Worlds = {"shared"}
  Repeats = TRUE
  MaxExits = 1
  MaxFaults = 0
SYMMETRY Symmetry
INVARIANTS
  StrangersAreSafe
  RetirementIsFinal
CHECK_DEADLOCK FALSE
