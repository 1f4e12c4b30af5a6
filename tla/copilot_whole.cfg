SPECIFICATION CopilotFairSpec
CONSTANTS
  Tools = {"list_pods"}
  MaxAgentIterations = 2
  MaxTotalTokens = 5
  AgentTimeout = 2
  TurnActions <- BoundedTurns
  TurnUsage <- BoundedUsage
  Usage = {1}
  MaxElapsed = 2
  WithStore = TRUE
  InitialStores <- NoHistory
  MaxMessages = 3
  CallTimeout = 1
  ClientInjected = FALSE
  Served = {"list_pods"}
  CallKinds = {"valid", "missing"}
  MaxCalls = 1
  MaxRounds = 3
  UsageOf = {1}
  SummaryUsage = {1}
INVARIANT
  BaseStepStaysFresh
PROPERTIES
  ImplementsGraph
  CopilotTermination
