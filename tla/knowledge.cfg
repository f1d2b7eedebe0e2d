SPECIFICATION FairSpec
CONSTANTS
  Engines = {default, workflow}
  Default = default
  Files = {f}
  Contents = {c1}
  Absent = Absent
  Texts = {t}
  MaxRetries = 1
  MaxDead = 1
  MaxPushes = 2
  MaxBoots = 1
INVARIANTS
  TypeOK
  JobsAreAccounted
  StoresAgree
  DrainedIsDurable
PROPERTY QueueDrains
CHECK_DEADLOCK FALSE
