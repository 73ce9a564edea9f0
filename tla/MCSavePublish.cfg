CONSTANTS
  s1 = s1
  s2 = s2
  s3 = s3
  Saves <- MCSaves
  NoSave = NoSave
  Partial = Partial
SPECIFICATION FairSpec
INVARIANTS
  SaveNeverLost
PROPERTIES
  ReplacesAtomically
  SavesGetThrough
