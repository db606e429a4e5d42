SPECIFICATION Spec
CONSTANTS
  a = a
  b = b
  Item = {1, 2, 3}
  Cell = {a, b}
  CellOf <- MCCellOf
  LabelOf <- MCLabelOf
  Answer <- MCAnswer
  Unparsable = {3}
  CacheCap = 4
  MaxRuns = 3
  MaxKills = 1
INVARIANTS RowsAnswerTheirQuestion GapRetiresNothing
CHECK_DEADLOCK FALSE
