SPECIFICATION FairSpec
CONSTANTS
  w1 = w1 w2 = w2 w3 = w3 p1 = p1 p2 = p2 j1 = j1 j2 = j2 j3 = j3 j4 = j4
  NoJob = NoJob Noop = Noop Nobody = Nobody
  Workers <- MCOneWorker
  Producers <- MCOneProducer
  Jobs <- MCTwoJobs
  Priority <- MCTwoPriority
  MaxQueueSize = 1
PROPERTIES
  ThreadsAreJoined
