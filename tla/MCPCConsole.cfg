CONSTANTS
  Names = {"a", "b"}
  Contents <- MCContents
  FlashRequests <- MCFlashRequests
  RomBanks <- MCRomBanks
  Banks <- MCBanks
  BlockSize = 4
  Page = 2
  WidePage = 4
  Blocks = 3
  AckRetries = 2
  MaxFrames = 4
  MaxFaults = 1
  MaxSessions = 2
SPECIFICATION MCFairSpec
INVARIANTS
  StreamsAreExact
  WritesOnceInOrder
  ProgramsAreExact
  SessionsLeaveNothing
CHECK_DEADLOCK FALSE
PROPERTY ConsoleReturns
