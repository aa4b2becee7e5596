SPECIFICATION SessionSpec
CONSTANTS
  Writers <- Processes
  MaxCalls = 6
  Callers <- TwoHosts
  MaxServiceCalls = 2
  Nodes <- MCNodes
  Requires <- MCRequires
  MaxAttempts = 3
  MaxGates = 2
  Ids <- OneId
  Hosts <- TwoHosts
  MaxDeliveries = 2
  Iterations = 3
  IdleCycles = 1
  MaxFaults = 1
  TaskKeys <- PlanKeys
  Artifacts = {"post"}
  Drafts <- MCDrafts
  Edits <- MCEdits
  MaxInvokeRetries = 1
  MaxJsonRepairs = 1
  MaxInterventions = 3
INVARIANTS
  NoLostUpdate
  DecisionsBind
  TraceTellsTheSession
  EpisodeOfEverySession
  CleanExit
PROPERTIES
  IsAtomic
  HistoryIsFrozen
  SessionsSettle
  GoalIsVerified
  PlannedRunEnds
CHECK_DEADLOCK FALSE
