\* A call behind a failed write.
SPECIFICATION Spec
CONSTANTS
  MaxCalls = 2
  MaxNodes = 2
INVARIANT NoPanic
CHECK_DEADLOCK FALSE
