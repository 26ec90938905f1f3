SPECIFICATION Spec
CONSTANTS
  MaxSends = 2
  MaxErrors = 1
INVARIANTS OnlyFailedCancelled
CHECK_DEADLOCK FALSE
