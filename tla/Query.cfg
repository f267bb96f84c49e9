SPECIFICATION Spec
CONSTANTS
  NumThreads = 2
  Transforms <- LimitLast
  Table <- MCTable
  ScanColumns = TRUE
  Unreadable = {2}
  NoTask = NoTask
INVARIANTS
  TypeOK
  BarrierHolds
  NoLostLatchWakeup
  StopsOnlyWhenFull
PROPERTIES
  ImplementsPlan
