SPECIFICATION Spec
CONSTANTS
  Sessions = {s1, s2, v}
  Verify = {v}
  None = None
  Kinds = {"static", "heavy", "unsupported"}
  Launches = {1, 2}
  Ports = {1, 2}
  MaxConcurrent = 1
  MaxCode = 2
SYMMETRY Interchangeable
INVARIANTS
  CapHolds
  ChildrenAreTracked
  LiveIsOwned
  ServesShipped
CHECK_DEADLOCK FALSE
