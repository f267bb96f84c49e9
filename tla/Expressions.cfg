SPECIFICATION Spec
CONSTANTS
  Queries <- MCQueries
  Percent <- MCPercent
  Replace <- MCReplace
  Limit <- MCLimit
INVARIANTS
  TypeOK
  SelectionAscending
  TypesFollow
  DaysAreCounted
  KeysSeparate
PROPERTIES
  ImplementsRowQuery
