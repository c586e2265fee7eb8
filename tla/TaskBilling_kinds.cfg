SPECIFICATION Spec
CONSTANTS
  m1 = m1
  m2 = m2
  r1 = r1
  c1 = c1
  c2 = c2
  Tasks <- TwoTasks
  Channels = {c1, c2}
  Deletable = {c1}
  ChannelOf <- Spread
  Masters = {m1}
  Readers = {r1}
  SunoTasks = {2}
  RealtimeTasks = {1}
  SubTasks = {}
  LegacyTasks = {}
  Quotas <- OnePrice
  Actual <- Down
  SweepLimit = 2
  QueryLimit = 2
  TimeoutEnabled = TRUE
  MaxFaults = 0
  MaxFetches = 2
INVARIANTS
  SunoRefundsExactly
