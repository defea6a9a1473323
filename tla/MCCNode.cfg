SPECIFICATION Spec
CONSTANTS
  r1 = r1 r2 = r2 r3 = r3 t1 = t1 t2 = t2
  Absent = Absent Empty = Empty NoThread = NoThread NoRequest = NoRequest
  NoCommand = NoCommand NoResult = NoResult
  Requests <- MCThreeRequests
  Threads <- MCThreads
  Commands <- MCSomeCommands
  MaxQueueSize = 2
  Limits = {0, 1}
  FirstLimit = 0
  Levels = {2}
  MaxClock = 1
SYMMETRY MCSymmetry
INVARIANTS
  TypeOK
  AnsweredOnce
  LimitKept
  AcknowledgedCompileHolds
  ExitIsClean
PROPERTIES
  ServiceSpec
  LedgerSpec
  StoreSpec
