\* The trees of Decoder_values.cfg whose sequences hold one item.
SPECIFICATION Spec
CONSTANTS
  Keys = {"a"}
  Structs = {{"a"}}
  KnownFields = FALSE
  MaxNodes = 4
  MaxItems = 1
  MaxUnmarshalers = 1
  MaxCalls = 2
PROPERTY Returns
\* Decode has returned.
CHECK_DEADLOCK FALSE
