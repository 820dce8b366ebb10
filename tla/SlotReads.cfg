SPECIFICATION Spec
CONSTANTS
  a = a
  b = b
  NoToken = NoToken
  Tokens = {a, b}
  Sampled = {b}
  NSlots = 2
  Size = 6
  NPos = 8
  NBatch = 4
  NUbatch = 2
  MaxTasks = 2
  Prompts <- MCPrompts
  Configs <- Sound
INVARIANTS
  TypeOK
  CellsExact
  ModelReadsPrompt
PROPERTIES
  RoundEnds
