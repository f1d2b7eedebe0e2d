SPECIFICATION Spec
CONSTANTS
  Requests = {r1, r2, r3}
  Contents = {g1, a1, a2}
  Github = {g1}
  Colliding = {a2}
  None = None
  Cap = 1
  MaxRetry = 1
  MaxProposals = 2
  MaxBumps = 1
  MaxCrashes = 1
SYMMETRY Interchangeable
INVARIANTS
  TypeOK
  AtMostOnce
  SentWasConfirmed
PROPERTY InFlightIsKept
CHECK_DEADLOCK FALSE
