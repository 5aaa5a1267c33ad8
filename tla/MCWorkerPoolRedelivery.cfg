SPECIFICATION Spec
CONSTANTS
  d1 = d1
  d2 = d2
  e1 = e1
  empty = empty
  p = p
  q = q
  w1 = w1
  w2 = w2
  None = None
  NoToken = NoToken
  DeliveryId <- MCDelivery
  NoId <- empty
  PullRequest <- MCPullRequest
  Worker <- MCWorker
  PrOf <- MCPrOf
  QueueCapacity = 1
  MaxJobs = 4
  Ttl = 2
  MinEvictionInterval = 2
  MaxTime = 0
INVARIANTS
  DuplicateWasAccepted
CHECK_DEADLOCK FALSE
