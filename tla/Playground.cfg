SPECIFICATION FairSpec
CONSTANTS
  Hasty = FALSE
  MaxRequests = 2
  MaxMessages = 4
  MaxEvents = 1
INVARIANTS
  TypeOK
  OnlyLastGenerates
  StreamedIsStored
PROPERTIES
  FinishedStays
  GenerationEnds
CHECK_DEADLOCK FALSE
