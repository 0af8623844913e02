\* Three calls with values of three nodes.
SPECIFICATION Spec
CONSTANTS
  MaxCalls = 3
  MaxNodes = 3
INVARIANTS
  TypeOK
  EncodeComplete
  FailedForGood
  IndentsMatch
  NoEmptyBlock
  SimpleKeysFit
  FlowInsideFlow
  
\* The caller may stop calling.
CHECK_DEADLOCK FALSE
