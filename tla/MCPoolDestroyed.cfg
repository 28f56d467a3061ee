CONSTANTS
  a = a
  b = b
  k = k
  Instance = {a, b}
  Key = {k}
  NoKey = NoKey
  NoKind = NoKind
  NoSlot = NoSlot
  Kinds <- PlainKinds
  Slot = {s1}
  MaxTasks = 1
  MaxQueuedTasks = 1
  MaxTasksPerInstance = 1
  MaxRestarts = 1
  MaxCrashes = 0
  Hosts <- Workers
SPECIFICATION FairSpec
PROPERTIES
  RunningSettles
CHECK_DEADLOCK FALSE
