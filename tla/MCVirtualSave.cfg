CONSTANTS
  g = g
  h = h
  a = a
  b = b
  Games = {g, h}
  Lines <- MCLines
  Values <- MCValues
  Blocks = {0, 1}
  FirstBlock = 0
  BlockOf <- MCBlockOf
  NextBlock <- MCNextBlock
  Sequences = {1, 2}
  NextSequence <- MCNextSequence
  None = None
  Attempts = 2
  Passes = 2
  Boots = 2
  Polls = 0
  MaxWrites = 2
  LossBudget = 2
SYMMETRY Symmetry
SPECIFICATION Spec
INVARIANTS
  NoTornSave
  CleanMeansSaved
  FailedSwitchResumes
  RunningIsWatched
PROPERTIES
  SwitchKeepsSave
