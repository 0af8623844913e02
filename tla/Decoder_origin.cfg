\* The trees of Decoder_values, without unmarshalers.
SPECIFICATION Spec
CONSTANTS
  Keys = {"a"}
  Structs = {{"a"}}
  KnownFields = FALSE
  MaxNodes = 4
  MaxItems = 2
  MaxUnmarshalers = 0
  MaxCalls = 0
INVARIANT OwnOrigin
\* Decode has returned.
CHECK_DEADLOCK FALSE
