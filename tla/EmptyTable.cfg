SPECIFICATION Spec
CONSTANTS
  Table <- MCTable
  Plans <- MCQuery35
  Star = Star
  NoColumn = NoColumn
INVARIANT
  EmptyTableAnswered
