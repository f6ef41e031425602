SPECIFICATION Spec
CONSTANTS
  Depth = 2
  Requests <- TwoRequests
  IoLimit = 4
  Platform = "linux"
  Release = FALSE
  Faults = {}
  Verified = 0
INVARIANTS
  LimitRespected
