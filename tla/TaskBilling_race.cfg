SPECIFICATION Spec
CONSTANTS
  m1 = m1
  m2 = m2
  r1 = r1
  c1 = c1
  c2 = c2
  Tasks <- OneTask
  Channels = {c1}
  Deletable = {}
  ChannelOf <- AllOnC1
  Masters = {m1, m2}
  Readers = {}
  SunoTasks = {}
  RealtimeTasks = {}
  SubTasks = {1}
  LegacyTasks = {}
  Quotas <- Prices
  Actual <- Down
  SweepLimit = 1
  QueryLimit = 1
  TimeoutEnabled = TRUE
  MaxFaults = 2
  MaxFetches = 0
SYMMETRY Symmetry
INVARIANTS
  TypeOK
  BilledAtMostOnce
  BooksKept
PROPERTIES
  FinishedStays
  KeepsPromise
