SPECIFICATION FairSpec
CONSTANTS
  t1 = t1 t2 = t2 c1 = c1 n1 = n1 s1 = s1
  NoThread = NoThread NoIsolate = NoIsolate NoName = NoName NoFile = NoFile
  Absent = Absent Empty = Empty NoAnswer = NoAnswer Dispatcher = Dispatcher
  Threads <- MCThreads
  Convs <- MCConvs
  Nodes <- MCNodes
  Scripts <- MCScripts
  NumIsolates = 1
  Files <- MCOneFile
  Root = "node"
  MaxVersion = 2
  MaxRequires = 2
INVARIANTS
  RequiredFilesStayPut
  NobodyWaitsInACircle
  WhoWaitsForNobodyGoesOn
PROPERTIES
  CacheOnlyGetsNewer
  RunsEnd
  WritesEnd
  DispatcherReturns
