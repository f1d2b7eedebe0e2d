SPECIFICATION FairSpec
CONSTANTS
  Clients = {c1, c2}
  Chatters = {}
  Kick = kick
  Specs = {s1}
  Codes = {x1, x2}
  Repos = {}
  Shared = shared
  Workflows = {}
  None = none
  MaxIterate = 1
  MaxRetry = 1
  MaxRequests = 3
  MaxTurns = 0
  MaxCrashes = 0
  CanEvict = FALSE
PROPERTIES
  HandlersReturn
  KickedRunSettles
CHECK_DEADLOCK FALSE
