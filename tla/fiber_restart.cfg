SPECIFICATION Spec
CONSTANTS
    NoRunner = NoRunner
    Canceller = Canceller
    Scanner = Scanner
    Free = Free
    ManagedIds = {f1}
    PlainIds = {}
    Runners = {r1, r2}
    Waiters = {}
    Kinds = {"detached", "cancel", "delete"}
    Refusals = {}
    HookEnds = {"completed"}
    Restarts = TRUE
    DeferStartup = FALSE
    MaxCrashes = 0
PROPERTIES LiveFiberLeftAlone
CHECK_DEADLOCK FALSE
