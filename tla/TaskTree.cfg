SPECIFICATION Spec
CONSTANTS
  MaxSteps = 3
  MaxBorn = 6
  MaxUpdates = 3
  NoSection = NoSection
INVARIANTS TreeSound SiblingsInOrder ModelSeesOwnChanges
CHECK_DEADLOCK FALSE
