SPECIFICATION Spec
CONSTANTS
  Tools = {"list_pods"}
  MaxAgentIterations = 3
  MaxTotalTokens = 10
  AgentTimeout = 1
  TurnActions <- SmallTurns
  TurnUsage = {1}
  Usage = {1}
  MaxElapsed = 1
  WithStore = TRUE
  InitialStores <- NoHistory
INVARIANT
  PromptReportsFindings
