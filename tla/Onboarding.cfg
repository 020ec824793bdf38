SPECIFICATION FairSpec
CONSTANTS
  Companies = {c1, c2}
  Names = {n1, n2}
  MaxRuns = 3
  MaxWraps = 3
  Scenarios <- MCScenarios
INVARIANTS
  UsableWhenLive
  SyncsOnlyWhenEnrolled
  OneKeyEverywhere
PROPERTIES
  SetupCompletes
CHECK_DEADLOCK FALSE
