SPECIFICATION Spec
CONSTANTS
  Clients = {c1, c2}
  Chatters = {}
  Kick = kick
  Specs = {s1, s2}
  Codes = {x1, x2}
  Repos = {}
  Shared = shared
  Workflows = {}
  None = none
  MaxIterate = 0
  MaxRetry = 1
  MaxRequests = 5
  MaxTurns = 0
  MaxCrashes = 0
  CanEvict = FALSE
SYMMETRY Interchangeable
INVARIANTS
  TypeOK
  CodeNeedsApproval
  GateNeedsToken
  OnlyVerifiedIsPushed
PROPERTY CancelledIsFinal
CHECK_DEADLOCK FALSE
