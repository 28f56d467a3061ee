CONSTANTS
  a = a
  b = b
  k = k
  Instance = {a, b}
  Key = {k}
  NoKey = NoKey
  NoKind = NoKind
  NoSlot = NoSlot
  Kinds <- UrgentKinds
  Slot = {s1}
  MaxTasks = 3
  MaxQueuedTasks = 2
  MaxTasksPerInstance = 2
  MaxRestarts = 1
  MaxCrashes = 2
  Hosts <- Workers
SPECIFICATION FairSpec
PROPERTIES
  TaskSettles
CHECK_DEADLOCK FALSE
