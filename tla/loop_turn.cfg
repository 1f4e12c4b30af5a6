SPECIFICATION FairSpec
CONSTANTS
  Tools = {"list_pods", "no_such_tool"}
  MaxMessages = 4
  CallTimeout = 1
  ClientInjected = FALSE
  Served = {"list_pods"}
  CallKinds = {"valid", "ill_typed", "unknown"}
  MaxCalls = 4
  MaxRounds = 3
  UsageOf = {1}
  SummaryUsage = {1}
  BaseSteps = {0, 3}
INVARIANTS
  TypeOK
  LogMatchesAnswers
  EveryCallAnswered
  WindowBound
  FreshAnswersReachModel
  SafeCutIsAligned
  OnlySummariesUncounted
PROPERTY
  ToolAwaitEnds
