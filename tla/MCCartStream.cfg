CONSTANTS
  SeqCount = 8
  Counts = {1, 2, 3, 4}
  Attempts = 2
  AckRetries = 2
  QspiAttempts = 2
  QueueDepth = 1
  MaxOps = 2
  Room = 1
  LossBudget = 1
SPECIFICATION FairSpec
INVARIANT LossesAreRepaired
PROPERTIES
  ReadsInOrder
  Recovers
CHECK_DEADLOCK FALSE
