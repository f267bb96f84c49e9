SPECIFICATION ConversionSpec
CONSTANTS
  a = a
  x = x
  y = y
  r1 = r1
  r2 = r2
  r3 = r3
  r4 = r4
  r5 = r5
  Magic = Magic
  Garbage = Garbage
  Char <- MCChar
  Stray = Stray
  Files <- MCGoodFiles
  Width = 2
  Expected = 0
  RowsPerChunk = 3
  BytesPerCache = 11
  OffsetBytes = 1
  CsvSchema <- MCCsvSchema
  TextIn <- MCTextIn
  NumberIn <- MCNumberIn
  LengthLimit = 8
  Schemas <- MCSchemas
  Texts <- MCTexts
  Numbers <- MCNumbers
  MaxRows = 3
  MaxBatches = 2
INVARIANT
  NoRowLost
