SPECIFICATION MCSpec
CONSTANTS
  Tasks = {t1, t2, t3}
  Times = {1}
  MaxCalls = 3
  MaxEvents = 2
  MaxFaults = 1
  Facets = {a, b}
  Calls = {c1, c2}
  MaxJobs = 2
  MaxRootCalls = 4
  MaxCrashes = 1
  MaxRaised = 1
INVARIANTS LifecycleInOrder 
PROPERTIES HeardInOrder CallsReturn CallsEnd
CHECK_DEADLOCK FALSE
