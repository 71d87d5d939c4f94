SPECIFICATION Spec
CONSTANTS
    NoRunner = NoRunner
    Canceller = Canceller
    Scanner = Scanner
    Free = Free
    ManagedIds = {f1, f2}
    PlainIds = {p1}
    Runners = {r1, r2}
    Waiters = {}
    Kinds = {"detached", "waited", "plain", "cancel", "resolve", "delete"}
    Refusals = {"alarm_fails", "caller_cancelled", "interrupted"}
    HookEnds = {"completed", "raises", "nothing", "platform"}
    Restarts = FALSE
    DeferStartup = FALSE
    MaxCrashes = 1
SYMMETRY RunnerSymmetry
INVARIANTS LeasesKeepJob FibersAreOwned
PROPERTIES ImplementsLedger ScanTakesInterrupted
CHECK_DEADLOCK FALSE
