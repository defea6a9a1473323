SPECIFICATION FairWatchedSpec
CONSTANTS
  t1 = t1 t2 = t2 c1 = c1 n1 = n1 s1 = s1
  NoThread = NoThread NoIsolate = NoIsolate
  Absent = Absent Empty = Empty NoAnswer = NoAnswer
  Threads <- MCThreads
  Convs <- MCConvs
  Nodes <- MCNodes
  Scripts <- MCScripts
  NumIsolates = 1
  Limits = {0}
  FirstLimit = 0
  SizeMod = 8
  MaxClock = 1
INVARIANTS
  SlotIsThePair
  DisposalIsClean
PROPERTIES
  WatchSpec
  EverybodyReturns
