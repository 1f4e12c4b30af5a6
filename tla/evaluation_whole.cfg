SPECIFICATION EvaluationSpec
CONSTANTS
  MaxAgentIterations = 2
  MaxTotalTokens = 5
  AgentTimeout = 1
  TurnActions <- OneCall
  TurnUsage = {0}
  Usage = {0}
  MaxElapsed = 1
  WithStore = FALSE
  InitialStores <- NoHistory
  Directories <- OneFile
  All = TRUE
  Runs = 2
  Gold <- GoldOf
  Tools = {"list_pods", "get_events"}
  One = 12
INVARIANT
  ReplaysAreIndependent
PROPERTY
  EvaluationEnds
