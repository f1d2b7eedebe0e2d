SPECIFICATION FairSpec
CONSTANTS
  Cap = 2
  Backlog = 2
  MaxEmits = 4
  MaxDrops = 1
  MaxCrashes = 0
INVARIANTS
  StreamIsOrdered
  NoSilentGap
  ViewIsComplete
PROPERTY Converges
CHECK_DEADLOCK FALSE
