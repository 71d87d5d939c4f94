SPECIFICATION FairSpec
CONSTANTS
  Jobs = {j1, j2}
  Owners = {c1, c2}
  Installed = {c1}
  Alarms = {a1}
  HungTimeout = 1
  DeadmanDelay = 2
  StrikeStep = 1
  MaxStrikeDelay = 2
  StrikeLimit = 2
  RearmOnStart = TRUE
  CanAbort = TRUE
  NoRow = NoRow
  NoTime = NoTime
  NoAlarm = NoAlarm
  NoJob = NoJob
  NoSlot = NoSlot
  NoThread = NoThread
  PushOptions <- ExclusiveAndLooping
  RescheduleTo = {1}
  StartupFailures = {"fail"}
  MaxOps = 2
  MaxFaults = 1
  MaxOoms = 9
  MaxTracked = 0
  MaxClaims = 40
  MaxTime = 10
PROPERTIES IntentsAreRespected AckedJobsEnd
CHECK_DEADLOCK FALSE
