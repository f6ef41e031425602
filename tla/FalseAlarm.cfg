SPECIFICATION DiskSpec
CONSTANTS
  Depth = 2
  Requests <- OverlappingRequests
  IoLimit = 4
  Platform = "linux"
  Release = TRUE
  Faults = {}
  Verified = 0
  FileSize = 4
  Patterned = {2}
INVARIANTS
  NoFalseAlarm
