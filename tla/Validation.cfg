SPECIFICATION PrepSpec
CONSTANTS
  Depth = 2
  Requests <- BlocksOfTwo
  IoLimit = 4
  Platform = "linux"
  Release = TRUE
  Faults = {}
  Verified = 0
  FileSize = 4
  Patterned = {0}
  ReqSize = 2
INVARIANTS
  ValidationFindsDamage
