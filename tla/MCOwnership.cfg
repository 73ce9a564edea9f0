CONSTANTS
  MaxToggles = 2
  MaxStarts = 1
  MaxCommands = 1
  MaxRequests = 2
  MaxEvents = 1
SPECIFICATION FairSpec
INVARIANTS
  OwnersKeepTheCart
  SleepAccounted
PROPERTIES
  ModeIsApplied
CHECK_DEADLOCK FALSE
