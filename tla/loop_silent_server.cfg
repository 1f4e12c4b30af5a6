SPECIFICATION FairSpec
CONSTANTS
  Tools = {"list_pods"}
  MaxMessages = 20
  CallTimeout = 2
  ClientInjected = FALSE
  Served = {"list_pods"}
  CallKinds = {"valid"}
  MaxCalls = 1
  MaxRounds = 1
  UsageOf = {1}
  SummaryUsage = {1}
  BaseSteps = {0}
PROPERTY
  SilentServerNeverHangs
