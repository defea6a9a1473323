SPECIFICATION FairSpec
CONSTANTS
  r1 = r1 r2 = r2 r3 = r3 t1 = t1 t2 = t2
  Absent = Absent Empty = Empty NoThread = NoThread NoRequest = NoRequest
  NoCommand = NoCommand NoResult = NoResult
  Requests <- MCTwoRequests
  Threads <- MCThreads
  Commands <- MCCommands
  MaxQueueSize = 1
  Limits = {0, 1}
  FirstLimit = 1
  Levels = {2}
  MaxClock = 1
PROPERTIES
  PrioritiesStay
  EveryRequestAnswered
