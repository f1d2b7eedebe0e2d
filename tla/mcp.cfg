SPECIFICATION FairSpec
CONSTANTS
  l1 = l1
  l2 = l2
  l3 = l3
  k1 = k1
  k2 = k2
  Loops = {l1, l2, l3}
  Keys = {k1, k2}
  KeyOf <- MCKeyOf
  Transports = {1, 2}
INVARIANTS
  TypeOK
  UsedIsUp
  NoOrphan
PROPERTY IdleIsReaped
CHECK_DEADLOCK FALSE
