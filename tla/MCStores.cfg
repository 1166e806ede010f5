SPECIFICATION StoresSpec
CONSTANTS
  Ids <- TwoIds
  Sweepers = {u1, u2}
  U1 = u1
  U2 = u2
  Producers = {p1}
  Timers = {}
  Operators = {}
  Keys = {k}
  NoKey = NoKey
  KeyOf <- Durable
  Redrained = {}
  MaxRetries = 2
  SweepBatch = 1
  MaxPending = 1
  MaxCrashes = 0
  Absent = Absent
  Torn = Torn
  Garbled = Garbled
  AllOperators = {alice, bob}
  OwnOperator = alice
  Devices = {v1, v2}
  NoDevice = NoDevice
  RailRuns = {u1, u2}
  MaxEdits = 1
  Desk = desk
  Laptop = laptop
  Writers = {desk, laptop}
  Reader = phone
  Slow = {desk}
  Posts = 2
  PostWrites = 2
  Unnamed = {2}
  Cap = 1
  MaxMishaps = 1
  Names = {a1, a2}
  Owners = {ours, theirs}
  HomeOperator = ours
  Missives = {l1}
  MaxUpsets = 2
  TurnCount = 2
  PageLimit = 1
  MaxMoves = 2
  N1 = n1
  N2 = n2
  N3 = n3
  N4 = n4
  MeshNodes = {n1, n2, n3, n4}
  Linked <- Hearing
  Everyone = everyone
  DefaultTtl = 3
  PacketCount = 1
  MaxMisses = 2
  LoraLetters = 3
  PerLetter = 2
  MaxAirtime = 2
  WindowTicks = 2
  LastMoment = 5
  MaxRadioFaults = 1
  Callers = {cli}
  Interval = 1
  Ttl = 4
  PublishTime = 1
  SyncDelay = 1
  LastBeat = 5
  MaxOrders = 2
INVARIANTS
  SyncthingKeeps
  BeaconsKeep
PROPERTIES
  KeepsPromise
SYMMETRY StoresSymmetry
