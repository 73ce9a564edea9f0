CONSTANTS
  a = a
  b = b
  c = c
  Lines <- MCLines
  Values <- MCValues
  Blocks = {0, 1}
  FirstBlock = 0
  BlockOf <- MCBlockOf
  SetOf <- MCSetOf
  Sequences = {1}
  None = None
  NoLine = NoLine
  SlotCount = 2
  Ways = 1
SPECIFICATION FairSpec
INVARIANTS
  CleanMeansStored
PROPERTIES
  BehavesAsMemory
  RequestsAreServed
