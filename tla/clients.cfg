SPECIFICATION MCSpec
CONSTANTS
  Ids = {a, b}
  Registrable = {a}
  Callers = {c1, c2}
  Kinds = {"register", "remove", "migrate", "callback", "tool"}
  RestoreConcurrency = 1
  MaxConns = 3
  MaxTasks = 3
  MaxCalls = 4
  MaxFaults = 3
  NoId = NoId
  NoRow = NoRow
  NoTask = NoTask
  NoPend = NoPend
  Modes = {"one-shot", "reuse", "dynamic", "kitesurf"}
  Execs = {e1, e2}
  Ops = {1, 2}
  MaxSids = 2
  MaxOps = 3
  MaxLost = 1
  Reuse = Reuse
  NoRec = NoRec
  NoExec = NoExec
  Requests = {r1, r2}
  Tabs = {w1, w2}
  NoRequest = NoRequest
  SegmentSize = 2
  MaxChunks = 2
  MaxProbes = 2
  MaxBroken = 1
  
PROPERTIES ConnectionsAreOrderly SharedIsNotReplaced
CHECK_DEADLOCK FALSE
