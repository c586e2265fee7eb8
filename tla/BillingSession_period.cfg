SPECIFICATION FairSpec
CONSTANTS
  Requests = {r1, r2}
  Preference <- SubFirst
  Playground = {r1}
  Realtime = {}
  Forced = {}
  Estimates = {2}
  Prices = {1, 3}
  Fee = 0
  TrustQuota = 0
  Unlimited = TRUE
  WalletStart = 4
  TokenStart = 6
  Subs = {1, 2}
  SubTotal <- Small
  Resettable = {1}
  RowLocks = TRUE
  MaxResets = 2
  MaxEvents = 0
  MaxFaults = 0
INVARIANTS
  PaysItsPrice
  PeriodKept
PROPERTIES
  EndedStays
  BooksClose
