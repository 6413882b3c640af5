SPECIFICATION SoundSpec
CONSTANTS
  Modules <- MCPhiLoop
  MaxObjects = 2
  MaxFrames = 5
PROPERTIES
  AnalysisEnds
CHECK_DEADLOCK FALSE
