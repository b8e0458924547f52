SPECIFICATION Spec
CONSTANTS
  MaxItems = 9
  PerPages <- MCInts
  PageNumbers <- MCInts
  DefaultPerPage = 2
  MaxPerPage = 5
  IntLimit = 16
INVARIANTS
  TypeOK
  WalkCollectsList
  PageIsTheOneAsked
CHECK_DEADLOCK FALSE
