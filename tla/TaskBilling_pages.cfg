SPECIFICATION FairSpec
CONSTANTS
  m1 = m1
  m2 = m2
  r1 = r1
  c1 = c1
  c2 = c2
  Tasks <- TwoTasks
  Channels = {c1}
  Deletable = {}
  ChannelOf <- AllOnC1
  Masters = {m1}
  Readers = {}
  SunoTasks = {}
  RealtimeTasks = {}
  SubTasks = {}
  LegacyTasks = {}
  Quotas <- OnePrice
  Actual <- Down
  SweepLimit = 1
  QueryLimit = 1
  TimeoutEnabled = TRUE
  MaxFaults = 1
  MaxFetches = 0
PROPERTIES
  TasksEnd
