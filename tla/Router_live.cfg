SPECIFICATION FairSpec
CONSTANTS
  File = file
  Http = http
  NostrSf = nostr_sf
  Alice = alice
  Bob = bob
  Star = star
  Rails = {http, nostr_sf}
  StoreForward = nostr_sf
  Chain <- DefaultChain
  SignedOnly = {http}
  PointToPoint = {http}
  Stealth = {nostr_sf}
  Speed = {http}
  Recipients = {bob, star}
  Preferences <- NoPreference
  Modes = {"failover", "broadcast", "stealth", "speed"}
  Senders = {s1}
  Outcomes <- Town
  Throttling = TRUE
  Flapping = {http}
  Deaf = {http}
  Quarantined = {nostr_sf}
  Threshold = 2
  Cooldown = 1
  PermBase = 1
  PermMax = 2
  Reprobe = 1
INVARIANTS
  CooldownEarned
PROPERTIES
  RailsReturn
