SPECIFICATION FairSpec
CONSTANTS
  Callers = {c1, c2, c3, c4}
  Instances = {i1, i2, i3}
  MAX_CONCURRENT_CHANGES = 2
  NoClaim = NoClaim
  Unbound = Unbound
INVARIANTS
  GateIsSound
PROPERTIES
  RefinesChangeGate
  FinishedWorkDrains
CHECK_DEADLOCK FALSE
