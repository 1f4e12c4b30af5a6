SPECIFICATION Spec
CONSTANTS
  Tools = {"list_pods"}
  MaxAgentIterations = 4
  MaxTotalTokens = 5
  AgentTimeout = 1
  TurnActions <- SmallTurns
  TurnUsage = {0, 3}
  Usage = {1}
  MaxElapsed = 1
  WithStore = TRUE
  InitialStores <- Histories
INVARIANTS
  TypeOK
  StepsAreContiguous
  IterationCap
  SuperstepBound
  TripEndsRouting
  OneTurnPastBudget
  OvershootBounded
  NoFourthRepeat
  ConsultedWereRouted
  FindingsFollowTurns
  EndsWithSavedAnswer
PROPERTY
  ImplementsLifecycle
  EveryStepAdvances
