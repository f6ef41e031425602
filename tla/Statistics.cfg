SPECIFICATION StatSpec
CONSTANTS
  WorkerCount = 2
  PageSize = 2
  LargestBlock = 4
  Throughputs = {1, 2, 3, 4}
  Latencies = {1, 2}
  Calls <- MainCalls
INVARIANTS
  BuffersHoldRequests
  AscendingTested
  UndefinedComesLast
  TotalsOfTests
  LatencyMeasured
PROPERTIES
  RisingGoesOn
  RunsInOrder
  TestsEnd
