SPECIFICATION FairSpec
CONSTANTS
  ToolCallLimit = 2
  MaxTurns = 2
  MaxFailed = 1
  MaxPending = 1
  Offered = {"noargs", "write"}
  MaxBatch = 1
  MaxInputs = 2
INVARIANTS NoStaleFragment
PROPERTIES TurnTerminates
CHECK_DEADLOCK FALSE
