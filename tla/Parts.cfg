SPECIFICATION Spec
CONSTANTS
  Bytes = {"a", "b", "nl"}
  Newline = "nl"
  Star = "*"
  MaskWidth = 2
  SecretSets <- SecretsTried
  MaxRaw = 6
  LineBytes = 3
  LogLines = 2
  LogBytes = 6
  Slots = {1, 2}
  Inputs <- InputsTried
  Ports = {1, 2, 3, 4}
  Limit = 3
  MaxPortChanges = 2
  Fields = {"f"}
  Versions = {"v1", "v2", "v3"}
  Base = "v1"
  Templates <- TemplatesTried
  NoField <- NoDef
  NoValue = "none"
  Processes = {"old", "new"}
  Writers = {"w1", "w2", "w3"}
  MaxStarts = 2
  Home <- HomeOf
  Known <- KnownBy
  MaxAttempt = 2
  MaxVolumes = 3
  BindInstances = {"i1", "i2"}
  MaxDirs = 9
  MaxChanges = 2
INVARIANTS
  LogIsMasked
  PortSearchIsRight
  NothingIsAssumed
  DatabaseKeepsItsWord
  SameVolume
  OnlyOwnStorage
PROPERTIES
  FollowsPolicy
CHECK_DEADLOCK FALSE
