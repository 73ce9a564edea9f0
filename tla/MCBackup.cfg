CONSTANTS
  MaxRuns = 2
  MaxFaults = 2
  MaxCuts = 1
  Depth = 2
  Limits <- MCLimits
SPECIFICATION FairSpec
INVARIANTS
  PublishedIsWhole
  PassIsKept
  AllOrNothing
  CartIsHandedBack
PROPERTY RunEnds
CHECK_DEADLOCK FALSE
