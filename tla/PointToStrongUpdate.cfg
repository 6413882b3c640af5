SPECIFICATION SoundSpec
CONSTANTS
  Modules <- MCStrongUpdate
  MaxObjects = 4
  MaxFrames = 2
INVARIANTS
  CallsCovered
CHECK_DEADLOCK FALSE
