SPECIFICATION Spec
CONSTANTS
  Jobs = {j1}
  Owners = {c1}
  Installed = {c1}
  Alarms = {a1, a2}
  HungTimeout = 1
  DeadmanDelay = 2
  StrikeStep = 1
  MaxStrikeDelay = 2
  StrikeLimit = 2
  RearmOnStart = FALSE
  CanAbort = TRUE
  NoRow = NoRow
  NoTime = NoTime
  NoAlarm = NoAlarm
  NoJob = NoJob
  NoSlot = NoSlot
  NoThread = NoThread
  PushOptions <- PlainAndLooping
  RescheduleTo = {0, 1}
  StartupFailures = {}
  MaxOps = 2
  MaxFaults = 1
  MaxOoms = 2
  MaxTracked = 1
  MaxClaims = 5
  MaxTime = 2
INVARIANTS AckedJobsAreArmed
PROPERTIES BreakerIsOrderly StaleOutcomeIgnored SingleflightRunsOnce
CHECK_DEADLOCK FALSE
