CONSTANTS
  MaxToggles = 2
  MaxStarts = 0
  MaxCommands = 1
  MaxRequests = 0
  MaxEvents = 0
SPECIFICATION FairSpec
PROPERTIES
  OffIsApplied
CHECK_DEADLOCK FALSE
