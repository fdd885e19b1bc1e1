SPECIFICATION Spec
CONSTANTS
  Slots = {s1, s2}
  Ports = {p1, p2, p3, p4}
  NoChange = NoChange
  MaxBindings = 3
  Subject = i1
  Operations = {o1}
  NoOperation = NoOperation
  NoReceipt = NoReceipt
  NoPlan = NoPlan
  NoSource = NoSource
  MaxRevision = 3
  MaxAttempt = 2
  MaxSteps = 14
  NoBox = NoBox
  Histories = {"fresh", "managed"}
  MaxExits = 1
  MaxFaults = 1
SYMMETRY Symmetry
INVARIANTS
  AppliedIsCommitted
  BoxIsAccountedFor
  StartIsRecorded
  OneChangeCli
PROPERTIES
  ChangeSettlesExactly
CHECK_DEADLOCK FALSE
