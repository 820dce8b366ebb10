SPECIFICATION Spec
CONSTANTS
  MaxLen = 4
  Texts <- MCTexts
  Inserted <- MCInserted
  Searches <- MCSearches
INVARIANTS LinesSpliced NumbersAgree
PROPERTIES OnlyMatchReplaced SearchEnds
CHECK_DEADLOCK FALSE
