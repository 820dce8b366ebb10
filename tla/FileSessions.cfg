SPECIFICATION Spec
CONSTANTS
  Paths = {p1}
  NoFile = NoFile
  DiskFull = TRUE
  MayFail = TRUE
  MaxStamp = 6
INVARIANTS WholeOrOld ChunksKept
PROPERTIES DriftIsCaught
