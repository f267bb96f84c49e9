SPECIFICATION Spec
CONSTANTS
  Table <- MCTable
  Plans <- MCPlans
  Star = Star
  NoColumn = NoColumn
INVARIANTS
  TypeOK
  PipelinesFollowPlan
  ColumnsInPlace
  ResultMatchesSchema
  PruningSuffices
