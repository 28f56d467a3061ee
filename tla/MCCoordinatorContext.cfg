CONSTANTS
  Tx = {t1, t2}
  NoTx = NoTx
  Foreign = Foreign
  Waiters = {w1}
  MaxForeign = 1
  MaxRetries = 0
  MaxEpoch = 1
  CanCancel = TRUE
  CancelReportsHead = FALSE

SPECIFICATION Spec
SYMMETRY TxSymmetry
CHECK_DEADLOCK FALSE

INVARIANT NeverWedged
INVARIANT TypeOK
PROPERTY IdleIsPersisted
