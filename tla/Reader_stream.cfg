\* Texts of up to three characters in buffers just large enough.
SPECIFICATION Spec
CONSTANTS
  RawSize = 4
  BufferSize = 11
  Widths = {1, 3, 4}
  MaxChars = 3
  MaxLength = 2
  MaxFailures = 1
INVARIANTS
  TypeOK
  WindowIsText
  LengthAvailable
  RefusedForFlaw
PROPERTY CallReturns
