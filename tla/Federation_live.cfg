SPECIFICATION FairSpec
CONSTANTS
  Ahead = m1
  Msgs = {m1, m2}
  Trusted = {m1, m2}
  Offset <- InSync
  Handlers = {h1}
  Puller = puller
  MaxAge = 1
  MaxSkew = 1
  TTL = 3
  MaxDelay = 1
  Decisions = {"deliver", "quarantine", "drop"}
  HasRelay = TRUE
  MaxAttempts = 2
  MaxTime = 1
  MaxTimeouts = 0
  MaxFaults = 1
  MaxCrashes = 1
INVARIANTS
  ReplayedWasHandled
PROPERTIES
  DeferredArrives
CHECK_DEADLOCK FALSE
