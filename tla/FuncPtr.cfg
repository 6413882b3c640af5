SPECIFICATION SoundSpec
CONSTANTS
  Modules <- MCModules
  MaxObjects = 2
  MaxFrames = 5
INVARIANTS
  CallStackNeverEmpty
  NoStaleContext
  CallsCovered
  NothingInvented
  PrintsWhatIsExpected
PROPERTIES
  AnalysisEnds
CHECK_DEADLOCK FALSE
