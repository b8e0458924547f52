SPECIFICATION Spec
CONSTANTS
  BlockOptions = {0, 1, 2}
  MaxHeight = 2
  MaxProcesses = 2
  MaxAnswers = 2
  PageSizes = {0, 1, 3}
  BlockLists <- MCBlockLists
  SnapshotLists <- MCSnapshotLists
  NonSignerPeriod = 2
  DefaultPerPage = 2
  MaxPerPage = 3
  IntLimit = 16
  Absent = Absent
  Garbage = Garbage
  Missing = Missing
INVARIANTS
  TypeOK
  AnnouncedHeightsAreServed
  RoutesAgreeOnHeight
  WalkIsComplete
CHECK_DEADLOCK FALSE
