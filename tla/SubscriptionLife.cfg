SPECIFICATION FairSpec
CONSTANTS
  Requests = {r1, r2}
  Keepers = {k1}
  Plans = {1, 2}
  UpgradeGroup <- TwoGroups
  MaxPurchase <- Limits
  Duration <- Lengths
  Base = "base"
  None = "none"
  Serial = TRUE
  MaxSubs = 2
  MaxTime = 1
  MaxFaults = 1
INVARIANTS
  TypeOK
  UpgradeKept
PROPERTIES
  DueEnds
