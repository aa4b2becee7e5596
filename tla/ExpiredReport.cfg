SPECIFICATION Spec
CONSTANTS
  w1 = w1
  w2 = w2
  Workers <- TwoWorkers
  Nodes <- OneNode
  Requires <- OneRequires
  MaxAttempts = 2
  MaxGates = 1
  MaxFaults = 0
  StaleDecisions = FALSE
INVARIANT ExpiredReportFailsClosed
