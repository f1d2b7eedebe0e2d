SPECIFICATION Spec
CONSTANTS
  u = u
  Anon = Anon
  Owners = {u, Anon}
  Sessions = {s1, s2}
  Requests = {r1, r2}
  None = None
  Budget = 1
  Period = 1
  MaxActive = 1
  MaxTime = 1
  MaxAsks = 2
  MaxCalls = 3
  MaxEvents = 1
  MaxCrashes = 1
SYMMETRY Interchangeable
INVARIANTS
  LedgerIsHonest
  OverAdmissionIsBounded
  QuotaStops
CHECK_DEADLOCK FALSE
