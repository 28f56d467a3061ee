CONSTANTS
  Tx = {t1, t2, t3}
  NoTx = NoTx
  Foreign = Foreign
  Waiters = {}
  MaxForeign = 1
  MaxRetries = 1
  MaxEpoch = 0
  CanCancel = FALSE
  CancelReportsHead = FALSE

SPECIFICATION Spec
SYMMETRY TxSymmetry
CHECK_DEADLOCK FALSE

INVARIANT DocumentIsSourcePlusQueue
INVARIANT ReceiptIsTruthful
INVARIANT DependencyFirst
INVARIANT QueueConsistent
PROPERTY SettledOnce
PROPERTY SentPatchIsFixed
PROPERTY RolledBackBeforeReported
PROPERTY PromiseKept
