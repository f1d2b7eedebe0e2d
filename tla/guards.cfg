SPECIFICATION Spec
CONSTANTS
  Clients = {c1, c2}
  Chatters = {}
  Kick = kick
  Specs = {s1}
  Codes = {x1, x2}
  Repos = {}
  Shared = shared
  Workflows = {wf}
  None = none
  MaxIterate = 0
  MaxRetry = 0
  MaxRequests = 3
  MaxTurns = 0
  MaxCrashes = 1
  CanEvict = TRUE
SYMMETRY Interchangeable
INVARIANTS
  GuardsAreHeld
PROPERTY ImplementsGates
CHECK_DEADLOCK FALSE
