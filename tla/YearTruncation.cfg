SPECIFICATION Spec
CONSTANTS
  Queries <- MCTruncations
  Percent <- MCPercent
  Replace <- MCReplace
  Limit <- MCLimit
INVARIANT
  DateTruncStarts
