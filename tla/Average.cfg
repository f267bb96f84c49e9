SPECIFICATION BreakersSpec
CONSTANTS
  k1 = k1
  k2 = k2
  k3 = k3
  NumThreads = 3
  SumLimit = 4
  Inputs <- MCInputs
  Tables <- MCTables
  SortColumns <- MCSortColumns
  SortKey <- MCSortKey
  NoLimit = NoLimit
  Windows <- MCWindows
  TrimFactor = 2
  SizeLimit = 16
  IndexLimit = 8
SYMMETRY Symmetry
INVARIANT
  AverageIsExact
