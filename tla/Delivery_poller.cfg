SPECIFICATION CrashSpec
CONSTANTS
  Msgs = {m1, m2}
  Receivers = {r1}
  AddressOf <- OneByFqid
  VerifyAcks = TRUE
  Retries = 1
  MaxCrashes = 1
INVARIANTS
  OnlyRecipientConfirms
  HoldIsTracked
  AnswerCounts
PROPERTIES
  ResolvedOnce
  HoldResolved
