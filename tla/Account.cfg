SPECIFICATION Spec
CONSTANTS
  Executors = {x1, x2}
  Instances = {"i"}
  InstanceOf <- MCInstanceOf
  Devices = {1, 2}
  Addresses = {"a", "b"}
  Runs = {1, 2}
  None = None
  Requests <- MCRequests
  Scenarios <- MCScenarios
  MaxTime = 3
  MaxSessions = 2
  MaxFaults = 1
  BOOTSTRAP_TTL = 1
  SESSION_IDLE_TIMEOUT = 2
  SESSION_ABSOLUTE_TTL = 3
  AUTH_WINDOW = 2
  CapPerAddress <- MCPerAddress
  CapOverall <- MCOverall
SYMMETRY Interchangeable
INVARIANTS
  OneEnrolment
  KeysHeal
  LoginCapsHold
  MigratedBeforeServed
PROPERTIES
  SessionExactlyWhileLive
CHECK_DEADLOCK FALSE
