SPECIFICATION Spec
CONSTANTS
  Requests = {r1, r2}
  Keepers = {}
  Plans = {1, 2}
  UpgradeGroup <- TwoGroups
  MaxPurchase <- Limits
  Duration <- Lengths
  Base = "base"
  None = "none"
  Serial = FALSE
  MaxSubs = 3
  MaxTime = 0
  MaxFaults = 0
INVARIANTS
  PurchasesBounded
