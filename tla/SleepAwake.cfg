SPECIFICATION FairSpec
CONSTANTS
  Clients = {c1, c2, c3}
  Slow = FALSE
  MayTerminate = TRUE
  Main = main
INVARIANTS
  RequestIsCurrent
  WaitersAreHeard
PROPERTIES
  WaitEndsOrShutdown
CHECK_DEADLOCK FALSE
