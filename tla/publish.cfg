SPECIFICATION Spec
CONSTANTS
  Jobs = {j1, j2}
  Builds = {b1, b2, b3}
  Static = {b1, b2}
  Dirs = {d1}
  Ports = {q1, q2}
  None = none
  Pids = {p1, p2, p3}
  MaxPublishes = 3
  MaxMishaps = 1
SYMMETRY Interchangeable
INVARIANTS
  TypeOK
  FilesAreTheBuilds
  StaticIsServed
CHECK_DEADLOCK FALSE
