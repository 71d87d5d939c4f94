SPECIFICATION MCSpec
CONSTANTS
  Ids = {s1, s2}
  Root = Root
  Facets = {f1}
  Execs = {e1, e2}
  Callers = {c1}
  Kinds = {"once", "interval"}
  Interval = 1
  HungTimeout = 1
  MaxAttempts = 2
  Legacy = {s1}
  MaxCalls = 3
  MaxCrashes = 1
  NoJob = NoJob
  NoExec = NoExec
  Years = {1,2,3,4,5,6,7,8,9,10}
  Months = {1, 2}
  MonthLength <- Lengths
  LongestMonth = 3
  Week = 3
  Hours = {0, 1}
  Minutes = {0, 1}
  Seconds = {0, 1}
  Horizon = 5
  Expressions <- SomeExpressions
  Starts <- SomeStarts
  NoDate = NoDate
  Malformed = Malformed
INVARIANTS SchedulesAreOrderly
PROPERTIES CancelStopsRetries AcceptedSchedulesRun NextIsLeast
CHECK_DEADLOCK FALSE
