SPECIFICATION Spec
CONSTANTS
  Requests = {r1, r2}
  Preference <- Firsts
  Playground = {}
  Realtime = {r2}
  Forced = {r2}
  Estimates = {0, 1, 2}
  Prices = {1, 3}
  Fee = 1
  TrustQuota = 3
  Unlimited = FALSE
  WalletStart = 4
  TokenStart = 6
  Subs = {1}
  SubTotal <- Four
  Resettable = {}
  RowLocks = TRUE
  MaxResets = 0
  MaxEvents = 2
  MaxFaults = 1
INVARIANTS
  TypeOK
  PaysItsPrice
  AccountsKept
