SPECIFICATION SoundSpec
CONSTANTS
  Modules <- MCThreeCalls
  MaxObjects = 2
  MaxFrames = 5
INVARIANTS
  CallsCovered
CHECK_DEADLOCK FALSE
