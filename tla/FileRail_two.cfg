SPECIFICATION FairSpec
CONSTANTS
  Signed = {s1}
  Array = none
  Msgs = {m1, s1}
  Kind <- Kinds
  Pollers = {p1, p2}
  Seconds = 0
  Depth = 1
  SeenMax = 1
  MaxResends = 0
  MaxCrashes = 0
  MaxArchiveErrors = 1
INVARIANTS
  Accounted
  HandedOnOnce
PROPERTIES
  QueuedArrives
