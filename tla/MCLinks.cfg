SPECIFICATION LinksSpec
CONSTANTS
  File = file
  Http = http
  NostrSf = nostr_sf
  Alice = alice
  Bob = bob
  Star = star
  Rails = {file, nostr_sf}
  StoreForward = nostr_sf
  Chain <- DefaultChain
  SignedOnly = {}
  PointToPoint = {}
  Stealth = {file, nostr_sf}
  Speed = {}
  Recipients = {alice, bob, star}
  Preferences <- NoPreference
  Modes = {"failover", "broadcast"}
  Senders = {u1, u2}
  Outcomes <- Town
  Throttling = FALSE
  Flapping = {}
  Deaf = {}
  Quarantined = {}
  Threshold = 2
  Cooldown = 2
  PermBase = 1
  PermMax = 1
  Reprobe = 1
  V1 = v1
  V2 = v2
  Managers = {alice, u1, u2}
  AutoAnswer = {u1, u2}
  MaxSessions = 2
  MaxCalls = 2
  MaxHangups = 1
  MaxRestarts = 1
  RelayCount = 2
  GiftCount = 2
  SinceWindow = 1
  Backdate = 1
  LastTick = 1
  Restarts = 1
  Listeners = {v1, v2}
  Publishers = {u1, u2}
  RemoteAgents = {alice, bob}
  MessageCount = 2
  MaxChanges = 4
  Avatars = {alice, bob}
  Creators = {u1, u2}
  Destroyers = {v1, v2}
  MaxRaises = 1
  Letters = {u1, u2}
  MaxRotations = 1
  MaxEdits = 1
  MaxProcesses = 2
  Speakers = {u1, u2}
  Receivers = {v1, v2}
  Ladder = {2, 4}
  LongestBody = 13
  MaxGarbles = 2
INVARIANTS
  DeliverableReached
  SessionsKeep
  NostrKeeps
  TrafficKeeps
SYMMETRY LinksSymmetry
