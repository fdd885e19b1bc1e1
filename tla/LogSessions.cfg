SPECIFICATION Spec
CONSTANTS
  r1 = r1
  r2 = r2
  Requests = {r1, r2}
  OwnerOf <- MCOwnerOf
  Closers = {"c1"}
  Capacities = {1, 2}
  UsesOf <- MCUsesOf
INVARIANTS
  LiveReadsAreTracked
  CleanExitIsQuiet
PROPERTIES
  ClosingGivesPlaceBack
CHECK_DEADLOCK FALSE
