SPECIFICATION Spec
CONSTANT
  Givens <- Commands
  Counts = {1, 3}
INVARIANTS
  PhasesTypeOK
  PrefixInFile
  SizeIsLength
  BigFilesKept
  LeavesSpace
  LimitsRestored
  NothingLeftBehind
  AgreedTestHasBlocks
