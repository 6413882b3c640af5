SPECIFICATION SoundSpec
CONSTANTS
  Modules <- MCMixedCallees
  MaxObjects = 4
  MaxFrames = 2
INVARIANTS
  CallsCovered
CHECK_DEADLOCK FALSE
