SPECIFICATION Spec
CONSTANTS
  Ids <- TwoIds
  Sweepers = {s1}
  Producers = {p1}
  Timers = {t1}
  Operators = {o1}
  Keys = {k}
  NoKey = NoKey
  KeyOf <- Durable
  Redrained <- FirstId
  MaxRetries = 2
  SweepBatch = 1
  MaxPending = 2
  MaxCrashes = 0
  Absent = Absent
  Torn = Torn
  Garbled = Garbled
INVARIANTS
  OneHome
  BudgetSpent
