SPECIFICATION Spec
CONSTANTS
  Sends = 1
  MaxFrames = 2
  HeldOff = FALSE
INVARIANTS Aligned
CHECK_DEADLOCK FALSE
