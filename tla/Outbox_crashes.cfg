SPECIFICATION FairSpec
CONSTANTS
  Ids <- ThreeIds
  Sweepers = {s1}
  Producers = {p1}
  Timers = {}
  Operators = {}
  Keys = {k}
  NoKey = NoKey
  KeyOf <- Mixed
  Redrained = {}
  MaxRetries = 2
  SweepBatch = 1
  MaxPending = 1
  MaxCrashes = 1
  Absent = Absent
  Torn = Torn
  Garbled = Garbled
INVARIANTS
  LossBoundedByCrashes
  SoftBound
PROPERTIES
  EventuallyResolved
