SPECIFICATION Spec
CONSTANTS
  t1 = t1 t2 = t2 t3 = t3 c1 = c1 c2 = c2 n1 = n1 n2 = n2 s1 = s1 s2 = s2
  NoThread = NoThread NoIsolate = NoIsolate
  Absent = Absent Empty = Empty NoAnswer = NoAnswer
  Threads <- MCThreads
  Convs <- MCConvs
  Nodes <- MCNodes
  Scripts <- MCScripts
  NumIsolates = 2
SYMMETRY MCSymmetry
INVARIANTS
  TypeOK
  CallsAtHome
  EveryFunctionHasAConv
  WritersFindIsolatesFree
  ConvsAreSpread
PROPERTIES
  StoreSpec
