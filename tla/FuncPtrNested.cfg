SPECIFICATION SoundSpec
CONSTANTS
  Modules <- MCNested
  MaxObjects = 2
  MaxFrames = 5
INVARIANTS
  CallsCovered
CHECK_DEADLOCK FALSE
