SPECIFICATION MCSpec
CONSTANTS
  Ids = {1, 2}
  Ended = {2}
  Bindings = {A1}
  Filters = {Any}
  Callers = {c1}
  MaxCalls = 2
  MaxSeconds = 1
  MaxEvents = 1
  MaxReplays = 1
  NoRow = NoRow
  NoInstance = NoInstance
  NoRun = NoRun
  NoCall = NoCall
  NoWalk = NoWalk
  Any = Any
  Trees = {t1, t2}
  Opened = {t1}
  Messages = {m1, m2, m3}
  Blobs = {b1}
  Listeners <- TwoListeners
  Stored <- Chain2
  m1 = m1
  m2 = m2
  MaxTelling = 1
  MaxWrites = 3
  MaxOverlays = 2
  MaxCrashes = 0
  NoId = NoId
  NoMessage = NoMessage
  NoBlob = NoBlob
  NoTail = NoTail
  NoWork = NoWork
  Parents = {p1, p2}
  MaxChunks = 2
  MaxAsked = 3
  MaxFaults = 2
  NoCaller = NoCaller
CONSTRAINT ReadersApart
INVARIANTS EndsAreTold StoreConsistent CopyIsTrue
PROPERTIES PagesListEachOnce ViewKept ToldInOrder
CHECK_DEADLOCK FALSE
