SPECIFICATION FairSpec
CONSTANTS
  w1 = w1  w2 = w2  s1 = s1  s2 = s2
  Workers = {w1, w2}
  StoreRequests = {s1, s2}
  NoStore = NoStore
  Idle = Idle
  None = None
  MaxEvents = 2
  BatchSize = 2
  MaxAttempts = 2
  Budgets <- Scenarios
INVARIANTS
  AttemptsBounded OneNotification IndexFresh OpenStoresAreReviewed
PROPERTIES Delivers EventSettles
CHECK_DEADLOCK FALSE
