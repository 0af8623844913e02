\* A key that is not waited for.
SPECIFICATION Spec
CONSTANTS
  MaxColumn = 0
  MaxFlowLevel = 1
  MaxFetches = 5
INVARIANT
  HeadIsNoKey
CHECK_DEADLOCK FALSE
