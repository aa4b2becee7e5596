SPECIFICATION Spec
CONSTANTS
  w1 = w1
  w2 = w2
  Workers <- TwoWorkers
  Nodes <- ChainNodes
  Requires <- ChainRequires
  MaxAttempts = 2
  MaxGates = 1
  MaxFaults = 1
  StaleDecisions = TRUE
SYMMETRY WorkerSymmetry
INVARIANTS
  DependencyOrder
  FailedSessionHasFailedNode
