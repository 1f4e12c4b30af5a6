SPECIFICATION Spec
CONSTANTS
  Stems = {"s1", "s2"}
  Scenarios <- SmallScenarios
  InitialFiles <- SmallFiles
  EditedFiles <- SmallEdits
  MaxEdits = 1
  MaxCalls = 2
  Names = {"web", "db"}
  Namespaces = {"prod", "data"}
  Severities = {"critical"}
  Metrics = {"restarts", "latency"}
  TailLines <- SmallTails
INVARIANTS
  TypeOK
  ServedAsDiagnosed
  AnswersAgree
  TailsNest
