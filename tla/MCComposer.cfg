\* Two documents of a few nodes, or one larger one, and two anchors.
SPECIFICATION Spec
CONSTANTS
  Anchors = {a, b}
  MaxNodes = 5
SYMMETRY AnchorSymmetry
INVARIANTS
  TypeOK
  EventsExpected
  OutcomeFinal
  WholeDocument
  AliasTarget
