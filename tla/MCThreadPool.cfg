SPECIFICATION Spec
CONSTANTS
  w1 = w1 w2 = w2 w3 = w3 p1 = p1 p2 = p2 j1 = j1 j2 = j2 j3 = j3 j4 = j4
  NoJob = NoJob Noop = Noop Nobody = Nobody
  Workers <- MCThreeWorkers
  Producers <- MCTwoProducers
  Jobs <- MCThreeJobs
  Priority <- MCPriority
  MaxQueueSize = 1
SYMMETRY MCSymmetry
INVARIANTS
  TypeOK
  EachJobInOnePlace
  CountersAgree
  QueueBound
  WakeupsSuffice
  JoinCountsAll
PROPERTIES
  LedgerSpec
