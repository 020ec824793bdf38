SPECIFICATION DesktopFairSpec
CONSTANTS
  MaxTicks = 3
  MaxStarts = 2
  Callers = {cycle, detect}
  Cycle = cycle
  MaxAsks = 1
  MaxJobs = 1
  MaxBreaks = 2
  MaxChanges = 1
INVARIANTS
  SingleFlight
  OneCycleAnswers
  OneSocket
  EncodingUnderstood
PROPERTIES
  HeededTicksRun
  EveryJobEnds
CHECK_DEADLOCK FALSE
