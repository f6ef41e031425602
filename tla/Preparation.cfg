SPECIFICATION PrepFairSpec
CONSTANTS
  Depth = 3
  Requests <- BlocksOfTwo
  IoLimit = 7
  Platform = "win32"
  Release = FALSE
  Faults = {"submit", "wait", "io"}
  Verified = 0
  FileSize = 7
  Patterned = {0}
  ReqSize = 2
INVARIANTS
  UniformLimit
  DrainedBeforeDestroy
  WritesApart
  CreatedFileWritten
  CreatedInFull
PROPERTIES
  TerminatesOrAborts
  Prepares
