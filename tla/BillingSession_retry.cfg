SPECIFICATION Spec
CONSTANTS
  Requests = {r1, r2}
  Preference <- SubOnly
  Playground = {}
  Realtime = {}
  Forced = {}
  Estimates = {2}
  Prices = {1, 3}
  Fee = 0
  TrustQuota = 0
  Unlimited = FALSE
  WalletStart = 4
  TokenStart = 6
  Subs = {1}
  SubTotal <- Four
  Resettable = {}
  RowLocks = TRUE
  MaxResets = 0
  MaxEvents = 0
  MaxFaults = 1
INVARIANTS
  RefundIsIdempotent
