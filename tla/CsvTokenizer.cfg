SPECIFICATION FairSpec
CONSTANTS
  a = a
  q = q
  d = d
  n = n
  r = r
  s = s
  Quote = q
  Delim = d
  Newline = n
  Return = r
  Space = s
  Sizes = {1, 2, 3, 40}
  Widths = {0, 1, 2}
  Files <- MCFiles
  Tables <- MCTables
INVARIANTS
  TypeOK
  RowsAreLines
  QuotedTablesSurvive
PROPERTY
  ReadingEnds
