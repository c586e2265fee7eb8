SPECIFICATION Spec
CONSTANTS
  MaxTokens = 2
  MaxOperations = 2
  MaxEdits = 4
  MaxSaves = 2
  MaxPuts = 1
  MaxOthers = 1
  MaxRows = 3
  MaxRowEdits = 3
  MaxItems = 3
  MaxClicks = 3
  MaxOpens = 2
  MaxTyped = 2
  MaxTries = 2
  MaxSteps = 3
  MaxRequests = 4
INVARIANTS
  ConsoleTypeOK
  PricesAgree
  SavedComesBack
  SettingsTrue
  TablesTrue
  OwnRecord
PROPERTIES
  NothingLost
CHECK_DEADLOCK FALSE
