CONSTANTS
  Tx = {t1, t2}
  NoTx = NoTx
  Foreign = Foreign
  Waiters = {w1}
  MaxForeign = 1
  MaxRetries = 0
  MaxEpoch = 0
  CanCancel = TRUE
  CancelReportsHead = FALSE

SPECIFICATION FairSpec
CHECK_DEADLOCK FALSE

PROPERTY ReceiptResolves
PROPERTY IdleResolves
