SPECIFICATION Spec
CONSTANTS
  Jobs = {j1}
  Builds = {b1, b2}
  Static = {}
  Dirs = {d1}
  Ports = {q1}
  None = none
  Pids = {p1, p2, p3}
  MaxPublishes = 2
  MaxMishaps = 0
SYMMETRY Interchangeable
INVARIANT PublishedIsServed
CHECK_DEADLOCK FALSE
