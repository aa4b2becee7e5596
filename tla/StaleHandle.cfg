SPECIFICATION Spec
CONSTANTS
  s1 = s1
  w1 = w1
  w2 = w2
  Nobody = Nobody
  Sessions <- OneSession
  Workers <- TwoWorkers
  MaxDeliveryAttempts = 2
  MaxEvents = 0
INVARIANT StaleHandlesAreNoOps
CHECK_DEADLOCK FALSE
