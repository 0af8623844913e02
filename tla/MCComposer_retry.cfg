\* A call of Decode behind one that failed with an event at hand.
SPECIFICATION Spec
CONSTANTS
  Anchors = {a, b}
  MaxNodes = 5
SYMMETRY AnchorSymmetry
INVARIANT
  NoPanic
