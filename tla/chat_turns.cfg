SPECIFICATION FairSpec
CONSTANTS
  Requests = {r1, r2}
  Continuations = {k1}
  Connections = {c1}
  NoTurn = NoTurn
  Tool = Tool
  SlowUnwind = TRUE
  MaxFaults = 1
  MaxCalls = 2
INVARIANTS  AnswersStayCleared
PROPERTIES TurnsLeaveQueue ProbesAreAnswered
CHECK_DEADLOCK FALSE
