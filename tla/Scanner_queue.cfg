\* Texts of five lexemes, two columns, two levels of brackets.
SPECIFICATION Spec
CONSTANTS
  MaxColumn = 1
  MaxFlowLevel = 2
  MaxFetches = 6
INVARIANTS
  TypeOK
  HeadIndexInRange
  IndexedKeyWaits
  BlocksNest
  LookaheadEnds
PROPERTY
  RequiredKeyResolved
\* The scanner stops at the end of the stream and at an error.
CHECK_DEADLOCK FALSE
