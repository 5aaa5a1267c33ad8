SPECIFICATION Spec
CONSTANTS
  d1 = d1
  d2 = d2
  empty = empty
  None = None
  DeliveryId <- MCDeliveryId
  NoId <- empty
  Ttl = 2
  MinEvictionInterval = 3
  MaxTime = 6
INVARIANTS
  AtMostOncePerTtl
  NothingExpiredSurvivesSweep
PROPERTIES
  ImplementsLedger
