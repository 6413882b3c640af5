SPECIFICATION Spec
CONSTANTS
  Programs <- MCPrograms
  Nodes <- MCNodes
  Addresses <- MCAddresses
  Garbage = {7}
INVARIANTS
  TypeOK
  FramesMatchCalls
  JumpsStayInFunction
  HeapOwnsMemory
  PrintsWhatCPrints
PROPERTIES
  Terminates
CHECK_DEADLOCK FALSE
