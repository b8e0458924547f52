SPECIFICATION Spec
CONSTANTS
  BlockOptions = {0, 1, 2}
  MaxHeight = 2
  MaxProcesses = 1
  MaxAnswers = 1
  PageSizes = {0}
  BlockLists <- MCBlockLists
  SnapshotLists <- MCSnapshotLists
  NonSignerPeriod = 2
  DefaultPerPage = 2
  MaxPerPage = 3
  IntLimit = 16
  Absent = Absent
  Garbage = Garbage
  Missing = Missing
INVARIANT RoutesReadSnapshots
CHECK_DEADLOCK FALSE
