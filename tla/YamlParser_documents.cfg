\* Directives, tags and anchors around and in collections two levels deep.
SPECIFICATION Spec
CONSTANTS
  Anchors = {"a"}
  NamedHandles = {"!e!"}
  MaxDepth = 2
  MaxDirectives = 2
INVARIANTS
  TypeOK
  TagScope
  AnchorsReported
  StackSafe
  MarksMatch
  FirstTokenAvailable
  TokensReported
PROPERTIES
  Progress
  ImplementsEventGrammar
