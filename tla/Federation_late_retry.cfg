SPECIFICATION FairSpec
CONSTANTS
  Ahead = m1
  Msgs = {m1}
  Trusted = {m1}
  Offset <- InSync
  Handlers = {h1}
  Puller = puller
  MaxAge = 1
  MaxSkew = 1
  TTL = 3
  MaxDelay = 1
  Decisions = {"deliver", "quarantine", "drop"}
  HasRelay = FALSE
  MaxAttempts = 3
  MaxTime = 2
  MaxTimeouts = 0
  MaxFaults = 0
  MaxCrashes = 0
PROPERTIES
  RetriedArrives
CHECK_DEADLOCK FALSE
