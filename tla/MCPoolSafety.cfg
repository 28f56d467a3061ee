CONSTANTS
  a = a
  b = b
  k = k
  Instance = {a, b}
  Key = {k}
  NoKey = NoKey
  NoKind = NoKind
  NoSlot = NoSlot
  Kinds <- MergedKinds
  Slot = {s1, s2}
  MaxTasks = 3
  MaxQueuedTasks = 2
  MaxTasksPerInstance = 2
  MaxRestarts = 1
  MaxCrashes = 1
  Hosts <- AllHosts
SPECIFICATION Spec
SYMMETRY SlotSymmetry
INVARIANTS
  PlacementConsistent
  WorkConserving
  WorkerRunsItsTask
  CancelIsDelivered
PROPERTY FairTurns
CHECK_DEADLOCK FALSE
