SPECIFICATION PayFairSpec
CONSTANTS
  None = None
  Procs = {p1, p2}
  Trades = {t1}
  Ids = {i1, i2}
  Kinds <- AllKinds
  MaxFaults = 1
INVARIANTS
  PayTypeOK
  LockKept
  CreditedOnce
  SuccessIsCredited
PROPERTIES
  Spec
  PaidIsCredited
