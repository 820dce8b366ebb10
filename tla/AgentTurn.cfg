SPECIFICATION Spec
CONSTANTS
  ToolCallLimit = 2
  MaxTurns = 2
  MaxFailed = 2
  MaxPending = 1
  Offered = {"noname", "syntax", "noargs", "unknown", "task", "read", "write", "edit"}
  MaxBatch = 2
  MaxInputs = 1
INVARIANTS TypeOK BudgetsRespected ResultPairing ConfirmationGate
PROPERTIES ConversationKept
CHECK_DEADLOCK FALSE
