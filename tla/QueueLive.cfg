SPECIFICATION FairSpec
CONSTANTS
  None = None
  Readers = {r1, r2}
  Slots = {s1, s2}
  Requests = {"family"}
  Impatient = {}
  Pinnable = {}
  MayFail = TRUE
  EmptyPrompts = FALSE
  MayTerminate = TRUE
  MaxPartial = 0
PROPERTIES RequestServed LoopEnds
CHECK_DEADLOCK FALSE
