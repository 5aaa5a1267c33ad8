SPECIFICATION Spec
CONSTANTS
  t1 = t1
  t2 = t2
  t3 = t3
  None = None
  i1 = i1
  Task <- MCTask
  Installation <- MCInstallation
  Ttl = 5
  Buffer = 2
  MaxDelay = 2
  MaxTime = 9
INVARIANTS
  TokenOutlivesItsRequest
  CacheIsRecent
PROPERTIES
  ExchangesAreRare
SYMMETRY Symmetry
