SPECIFICATION ExecutionSpec
CONSTANTS
  Nodes <- TwoNodes
  Requires <- Chain
  Tools <- TwoTools
  Writers <- OnlyWrite
  NodeTools <- ToolsOf
  Required <- OnlyWrite
  Expects <- Second
  Answers <- SomeAnswers
  MaxRounds = 2
  UniqueIds = TRUE
  MaxCrashes = 1
  MaxFailures = 1
  MaxDecisions = 1
  Owners <- TwoProcesses
  LeaseNodes <- OneNode
  Ttl = 3
  Offset <- Clocks
  MaxSkew = 5
  MaxExecutions = 2
  Offers <- SomeOffers
  Selections <- SomeSelections
  Cleaned <- CleanNames
  MaxCalls = 2
  MaxTurns = 2
  HostTools <- SomeHostTools
  Requests <- SomeRequests
  SecretKeys <- SomeSecrets
  Urls <- SomeUrls
  MaxRequests = 2
INVARIANTS
  AnswersAreCurrent
CHECK_DEADLOCK FALSE
