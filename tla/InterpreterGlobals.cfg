SPECIFICATION Spec
CONSTANTS
  Programs <- MCCounter
  Nodes <- MCNodes
  Addresses <- MCAddresses
  Garbage = {7}
INVARIANTS
  PrintsWhatCPrints
CHECK_DEADLOCK FALSE
