SPECIFICATION FairSpec
CONSTANTS
  Sends = 5
  MaxFrames = 3
  HeldOff = TRUE
INVARIANTS Aligned BankRemembered NoFrameForgotten
PROPERTIES FrameSentWhole FrameUndisturbed MainParks AllTaken
CHECK_DEADLOCK FALSE
