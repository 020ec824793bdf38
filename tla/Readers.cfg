SPECIFICATION Spec
CONSTANTS
  Computers = {c1, c2}
  First = c1
  MAX_ATTEMPTS = 2
  MaxCodes = 2
  Tabs = {t1, t2}
  Slots = {s1, s2}
  Dates = {1, 2}
  MAX_FAILURES = 2
  Scenarios <- MCScenarios
INVARIANTS
  AnsweredRightly
  GuessesBounded
  CodeWorksOnce
  RevokedStaysOut
  FiguresNeverGoBack
PROPERTIES
  NothingOpenedAfterLock
SYMMETRY Alike
CHECK_DEADLOCK FALSE
