SPECIFICATION FairSpec
CONSTANTS
  p1 = p1
  p2 = p2
  NoPlan = NoPlan
  Keys <- ChainKeys
  InitialPlan <- Chain
  Deltas <- MCDeltas
  GateKind <- MCGateKind
  Processes <- TwoProcesses
  MaxRepairs = 1
  MaxEvents = 1
INVARIANTS
  RepairBudget
  PlanAndNodesAgree
  ResultsAreFresh
PROPERTIES
  RepairEnds
