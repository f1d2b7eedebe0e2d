SPECIFICATION Spec
CONSTANTS
  Clients = {c1}
  Chatters = {w1}
  Kick = kick
  Specs = {s1}
  Codes = {x1, x2}
  Repos = {r1, r2}
  Shared = shared
  Workflows = {}
  None = none
  MaxIterate = 0
  MaxRetry = 1
  MaxRequests = 5
  MaxTurns = 1
  MaxCrashes = 1
  CanEvict = FALSE
SYMMETRY Interchangeable
INVARIANTS
  GateMatchesCode
  OneArtifact
PROPERTIES
  DoneIsFinal
  DeliveryIsPinned
CHECK_DEADLOCK FALSE
