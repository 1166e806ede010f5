SPECIFICATION Spec
CONSTANTS
  Signed = {s1, s2}
  Array = array
  Msgs = {s1, s2, array}
  Kind <- Kinds
  Pollers = {p1}
  Seconds = 1
  Depth = 1
  SeenMax = 1
  MaxResends = 1
  MaxCrashes = 1
  MaxArchiveErrors = 0
SYMMETRY Symmetry
INVARIANTS
  CapHolds
