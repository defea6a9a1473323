SPECIFICATION Spec
CONSTANTS
  t1 = t1 t2 = t2 i1 = i1 i2 = i2 NoOne = NoOne NoIsolate = NoIsolate
  Threads <- MCTwoThreads
  Isolates <- MCTwoIsolates
  Limits = {1, 2}
  FirstLimit = 1
  SizeMod = 8
  MaxClock = 3
SYMMETRY MCSymmetry
INVARIANTS
  ScanMissesNobody
  TypeOK
  SlotTellsTruth
PROPERTIES
  ScanIsConsistent
  OldScriptsAreJudgedFairly
