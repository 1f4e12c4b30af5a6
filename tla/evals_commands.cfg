SPECIFICATION HarnessSpec
CONSTANTS
  Commands = {"everything", "thrice", "never"}
  Directories <- SmallDirectories
  All <- AllOf
  Runs <- RunsOf
  Gold <- GoldOf
  Outcomes <- OutcomesOf
  LastSecond = 1
  Tools = {"list_pods", "get_events", "get_alerts"}
  One = 60
INVARIANTS
  ReportsAreComplete
  ReportsAreKept
  F1IsHarmonic
  ScoresAreSound
  ReplayOrderIrrelevant
PROPERTY
  EveryCommandEnds
