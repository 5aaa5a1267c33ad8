SPECIFICATION Spec
CONSTANTS
  c1 = c1
  c2 = c2
  d1 = d1
  s1 = s1
  s2 = s2
  NoBucket = NoBucket
  Nothing = Nothing
  Client <- MCClient
  DeliveryId <- MCDeliveryId
  Slot <- MCSlot
  MaxRequests = 1
  Window = 2
  MinCleanupInterval = 5
  MaxTime = 5
  GithubSecret = TRUE
INVARIANTS
  AdmissionsBounded
  RefusalIsEarned
  ChargedWereSigned
  AnswersFitPayloads
  RememberedWereAnswered
SYMMETRY Symmetry
