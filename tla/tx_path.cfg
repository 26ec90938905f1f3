SPECIFICATION FairSpec
CONSTANTS
  MaxSends = 4
  MaxErrors = 2
INVARIANTS WireInOrder NothingSkipped
PROPERTIES FrameUndisturbed SendReturns
CHECK_DEADLOCK FALSE
