SPECIFICATION Spec
CONSTANTS
  Block = {b0, b1, b2}
  Entry = b0
  Fact = {f}
  CFGs <- MCCFGs
  Visitors <- MCMonotoneVisitors
INVARIANTS
  TypeOK
PROPERTIES
  Terminates
  ImplementsForward
  DeliversLeastSolution
CHECK_DEADLOCK FALSE
