SPECIFICATION Spec
CONSTANT
  Givens <- Commands
  Counts = {1, 3}
INVARIANT
  DefaultTestHasBlocks
