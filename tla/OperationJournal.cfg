SPECIFICATION Spec
CONSTANTS
  Instances = {i1, i2}
  Operations = {o1, o2}
  Requests = {r1, r2}
  Plans = {p1}
  ChangeKinds = {"start", "delete"}
  NoOperation = NoOperation
  NoReceipt = NoReceipt
  NoPlan = NoPlan
  NoSource = NoSource
  MaxRevision = 2
  MaxAttempt = 2
  MaxSteps = 2
SYMMETRY Symmetry
INVARIANTS
  TablesAgree
PROPERTIES
  ClosedIsFinal
  RefinesInstanceChanges
CHECK_DEADLOCK FALSE
