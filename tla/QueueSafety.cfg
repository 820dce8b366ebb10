SPECIFICATION Spec
CONSTANTS
  None = None
  Readers = {r1, r2}
  Slots = {s1, s2}
  Requests = {"single", "pair", "family"}
  Impatient = {r1, r2}
  Pinnable = {s1, s2}
  MayFail = TRUE
  EmptyPrompts = FALSE
  MayTerminate = FALSE
  MaxPartial = 1
INVARIANTS TaskInOnePlace AnsweredIsOver NoStrayResult CompleteMeansAnswered
SYMMETRY ReaderSlotSymmetry
CHECK_DEADLOCK FALSE
