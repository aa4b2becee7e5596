SPECIFICATION FairSpec
CONSTANTS
  w1 = w1
  w2 = w2
  Workers <- OneWorker
  Nodes <- ForkNodes
  Requires <- ForkRequires
  MaxAttempts = 3
  MaxGates = 2
  MaxFaults = 0
  StaleDecisions = FALSE
INVARIANTS
  CompletedMeansDone
  GateHolds
  WaitingIsDecidable
PROPERTIES
  ImplementsWorkflowRun
  EventuallyHalts
