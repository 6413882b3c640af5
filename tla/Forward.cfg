SPECIFICATION Spec
CONSTANTS
  Block = {b0, b1, b2}
  Entry = b0
  f = f
  g = g
  Fact = {f, g}
  CFGs <- MCCFGs
  Visitors <- MCVisitors
INVARIANTS
  TypeOK
  OffWorklistUpToDate
  NeverAboveASolution
  OneResult
PROPERTIES
  ExitsOnlyGrow
  EachTurnDescends
  Terminates
  DeliversLeastSolution
CHECK_DEADLOCK FALSE
