SPECIFICATION FairSpec
CONSTANTS
  NThreads = 3
  Graph <- MCGraph
  NChunks = 3
  MayAbort = TRUE
  MaxGraphs = 2
INVARIANTS TypeOK NodesInOrder GraphWhole WorkersOut
PROPERTIES GraphReturns PoolFreed
CHECK_DEADLOCK FALSE
