SPECIFICATION ServiceSpec
CONSTANTS
  d1 = d1
  e1 = e1
  empty = empty
  p = p
  q = q
  w1 = w1
  w2 = w2
  None = None
  NoToken = NoToken
  DeliveryId <- MCDelivery
  NoId <- empty
  PullRequest <- MCPullRequest
  Worker <- MCWorker
  PrOf <- MCPrOf
  QueueCapacity = 2
  MaxJobs = 3
  Ttl = 1
  MinEvictionInterval = 1
  MaxTime = 1
INVARIANTS
  OvertakingNeedsSupersession
  ClientsOutliveReviews
  AcceptedOncePerTtl
SYMMETRY Symmetry
CHECK_DEADLOCK FALSE
