SPECIFICATION DiskSpec
CONSTANTS
  Depth = 2
  Requests <- OverlappingRequests
  IoLimit = 6
  Platform = "linux"
  Release = TRUE
  Faults = {"setup", "submit", "wait"}
  Verified = 0
  FileSize = 4
  Patterned = {2}
INVARIANTS
  DiskTypeOK
  PrefixWritten
  SubmittedPrefixIntact
  BlamesOnlyFreshWrites
CHECK_DEADLOCK FALSE
