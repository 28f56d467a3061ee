CONSTANTS
  Tx = {t1, t2}
  NoTx = NoTx
  Foreign = Foreign
  Waiters = {}
  MaxForeign = 1
  MaxRetries = 0
  MaxEpoch = 0
  CanCancel = TRUE
  CancelReportsHead = TRUE

SPECIFICATION Spec
CHECK_DEADLOCK FALSE

INVARIANT NoSilentOverwrite
