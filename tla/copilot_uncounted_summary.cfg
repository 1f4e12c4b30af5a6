SPECIFICATION CopilotSpec
CONSTANTS
  Tools = {"list_pods"}
  MaxAgentIterations = 1
  MaxTotalTokens = 100
  AgentTimeout = 1
  TurnActions <- UnusedTurns
  TurnUsage <- BoundedUsage
  Usage = {1}
  MaxElapsed = 0
  WithStore = TRUE
  InitialStores <- NoHistory
  MaxMessages = 20
  CallTimeout = 1
  ClientInjected = FALSE
  Served = {"list_pods"}
  CallKinds = {"valid"}
  MaxCalls = 2
  MaxRounds = 10
  UsageOf = {1}
  SummaryUsage = {1}
INVARIANT
  BreakerSeesAllTokens
