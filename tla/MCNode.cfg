SPECIFICATION NodeSpec
CONSTANTS
  A = a
  L1 = l1
  L2 = l2
  C1 = c1
  C2 = c2
  C3 = c3
  F = f
  G = g
  U1 = u1
  U2 = u2
  V1 = v1
  V2 = v2
  Senders = {a}
  Knocks = {v1, v2}
  SenderOf <- KnockFrom
  Handlers = {u1, u2}
  Operators = {o1}
  Mode = "public"
  Greylisting = TRUE
  Cap = 1
  Torn = Torn
  Peers = {o, p}
  Owner = o
  Gates = {u1, u2}
  Challenges = {ch}
  MaxAttempts = 2
  Mails = {m}
  Drainers = {u1, u2}
  Agents = {a1, a2}
  Shared = Shared
  QueueCrashes = 1
  Letters = {l1, l2}
  Runners = {u1, u2}
  Upgrades <- Found
  RunnerCrashes = 1
  Conns = {c1, c2, c3}
  Fps = {f, g}
  FpOf <- FpOfConn
  MaxPeers = 2
  MaxMessages = 1
  NoConn = NoConn
  Remotes = {q}
  Callers = {u1, u2}
  Slots = {w}
  Reader = Reader
  MaxObjects = 2
  MaxStops = 1
  ChunkCount = 2
  Contents = {x, y}
  NoState = NoState
  TransferCrashes = 2
  Rewrites = 3
  Handles = {b}
  Keys = {v1, v2}
  Clients = {u1, u2}
  NoKey = NoKey
  Garbled = Garbled
  NoPrint = NoPrint
  Waiting = {e1}
  Gated = FALSE
  MaxIdentities = 2
  MaxPinned = 1
  MaxWipes = 1
  MaxRestores = 1
INVARIANTS
  ConsentKeeps
  AdmissionHolds
  LegacyKeeps
  SignalingKeeps
  WebRtcKeeps
  TransferKeeps
  KeysKeep
SYMMETRY Symmetry
CHECK_DEADLOCK FALSE
