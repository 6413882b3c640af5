SPECIFICATION SoundSpec
CONSTANTS
  Modules <- MCModules
  MaxObjects = 14
  MaxFrames = 5
INVARIANTS
  SoundTypeOK
  CallsCovered
  OffWorklistUpToDate
  PrintsWhatIsExpected
  NothingInvented
PROPERTIES
  EntriesOnlyGrow
  AnalysisEnds
CHECK_DEADLOCK FALSE
