SPECIFICATION PlaneSpec
CONSTANTS
  Ahead = m1
  Msgs = {m1}
  Trusted = {m1}
  Offset <- OneAhead
  Handlers = {h1, h2}
  Puller = puller
  MaxAge = 1
  MaxSkew = 1
  TTL = 3
  MaxDelay = 1
  Decisions = {"deliver", "quarantine", "drop"}
  HasRelay = TRUE
  MaxAttempts = 3
  MaxTime = 5
  MaxTimeouts = 1
  MaxFaults = 1
  MaxCrashes = 1
  Announcers = {h1, h2}
  DirWriters = {h1, h2}
  MaxAddress = 2
  MaxWriterDeaths = 1
  Lookers = {h1, h2}
  Lifetime = 2
  LastLook = 5
  MaxRaised = 1
  Surfaces = {chat, bot}
  Sessions = {chat}
  Page = 2
  LastPost = 3
  MaxStarts = 2
  Receivers = {h1, h2}
  Senders = {h1, h2}
  MaxOpened = 3
  InboxCap = 1
  Callers = {h1, h2}
  PeersAsked = {peer}
  Capacity = 1
  PeerCapacity = 1
  Rate = 1
  LastSecond = 1
  MaxAsks = 4
  Guest = g
  Guests = {g}
  Anyone = Anyone
  Ranks = {0, 1}
  Clerks = {h1, h2}
  StaticGrants <- AccessYml
  NoTemp = NoTemp
  MaxCommands = 2
  MaxLaunches = 1
INVARIANTS
  AtMostOnce
  ConfirmedIsHeld
  DirectoryKeeps
  RealmCacheKeeps
  AdaptersKeep
  SocketKeeps
  RateLimitKeeps
  AccessKeeps
SYMMETRY PlaneSymmetry
CHECK_DEADLOCK FALSE
