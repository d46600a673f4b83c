SPECIFICATION Spec
CONSTANTS
  MaxFrames = 3
  MaxWrites = 0
  Env = {}
CHECK_DEADLOCK FALSE
INVARIANTS FramesInOrder
