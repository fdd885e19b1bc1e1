SPECIFICATION Spec
CONSTANTS
  Operations = {x1, x2}
  Original = x0
  Edits = {e1, e2}
  NoFiles = nofiles
  Partial = partial
  MaxBox = 2
  MaxAttempt = 2
SYMMETRY Symmetric
INVARIANTS
  UserEditsSurvive
  NeverStranded
  StopsOnlyTheOriginal
  RestoredRunsSaved
PROPERTIES
  OneChangeCli
CHECK_DEADLOCK FALSE
