CONSTANTS
  g = g
  h = h
  a = a
  b = b
  Games = {g}
  Lines <- MCLines
  Values <- MCValues
  Blocks = {0, 1}
  FirstBlock = 0
  BlockOf <- MCBlockOf
  NextBlock <- MCNextBlock
  Sequences = {1, 2}
  NextSequence <- MCNextSequence
  None = None
  Attempts = 2
  Passes = 2
  Boots = 2
  Polls = 1
  MaxWrites = 1
  LossBudget = 1
SPECIFICATION FairSpec
PROPERTIES
  WritesReachCard
  JobsEnd
