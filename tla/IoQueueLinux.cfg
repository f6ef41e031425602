SPECIFICATION FairSpec
CONSTANTS
  Depth = 3
  Requests <- MixedRequests
  IoLimit = 4
  Platform = "linux"
  Release = TRUE
  Faults = {}
  Verified = 0
INVARIANTS
  TypeOK
  SlotAccounting
  ActiveIsOutstanding
  FetchFindsSlot
  ByteConservation
  LimitOverrunBounded
PROPERTIES
  RequestStable
  ImplementsLedger
  FulfilsLedger
