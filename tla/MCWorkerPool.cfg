SPECIFICATION FairSpec
CONSTANTS
  d1 = d1
  d2 = d2
  e1 = e1
  empty = empty
  p = p
  q = q
  w1 = w1
  w2 = w2
  None = None
  NoToken = NoToken
  DeliveryId <- MCDelivery
  NoId <- empty
  PullRequest <- MCPullRequest
  Worker <- MCWorker
  PrOf <- MCPrOf
  QueueCapacity = 2
  MaxJobs = 3
  Ttl = 1
  MinEvictionInterval = 1
  MaxTime = 1
INVARIANTS
  JoinCountsOpenWork
  EveryJobInOnePlace
  RegistryHoldsNewest
  DrainLosesNothing
  UnregisteredAfterSupersession
PROPERTIES
  ImplementsJobBoard
  EveryJobEnds
  ShutdownEnds
CHECK_DEADLOCK FALSE
