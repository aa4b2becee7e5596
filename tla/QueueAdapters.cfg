SPECIFICATION HostSpec
CONSTANTS
  s1 = s1
  s2 = s2
  w1 = w1
  w2 = w2
  monitor = monitor
  Nobody = Nobody
  Sessions <- OneSession
  Workers <- TwoWorkers
  MaxDeliveryAttempts = 2
  MaxEvents = 1
  Jobs <- TwoSessions
  Pollers <- TwoWorkers
  Monitor = monitor
  NoJob = Nobody
  DeliveryLimit = 2
  MaxSize = 1
  MaxCancels = 1
INVARIANTS
  NothingLost
  DeliveryBudget
  OnePlace
  BudgetIsExact
PROPERTIES
  Drains
  ComesToRest
CHECK_DEADLOCK FALSE
