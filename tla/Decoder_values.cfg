\* Trees of four collections and aliases, or of three and one unmarshaler that calls twice.
SPECIFICATION Spec
CONSTANTS
  Keys = {"a"}
  Structs = {{"a"}}
  KnownFields = FALSE
  MaxNodes = 4
  MaxItems = 2
  MaxUnmarshalers = 1
  MaxCalls = 2
INVARIANTS
  TypeOK
  AliasEnteredOnce
  AliasesExact
  MergePrecedence
  OriginOnce
\* Decode has returned.
CHECK_DEADLOCK FALSE
