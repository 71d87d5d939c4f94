SPECIFICATION FairSpec
CONSTANTS
    NoRunner = NoRunner
    Canceller = Canceller
    Scanner = Scanner
    Free = Free
    ManagedIds = {f1, f2}
    PlainIds = {}
    Runners = {r1, r2}
    Waiters = {w1}
    Kinds = {"detached", "cancel"}
    Refusals = {}
    HookEnds = {"raises"}
    Restarts = FALSE
    DeferStartup = TRUE
    MaxCrashes = 1
PROPERTIES FibersSettle WaitersAreAnswered
CHECK_DEADLOCK FALSE
