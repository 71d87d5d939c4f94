SPECIFICATION MCSpec
CONSTANTS
    MaxTurns = 4
    MaxAttempts = 2
    MaxOoms = 1
    MaxFaults = 2
    Busy = TRUE
    Steps = {"a", "nap"}
    Sleeps = {"nap"}
    Phases <- StepBesideNap
    Naps = {1}
    Backoff = 1
    ClaimTimeout = 2
    MemoryDelay = 1
    RetryLimit = 2
    Retains = {FALSE}
    CallbackEnds = {"ok", "platform"}
    Heavy = {}
    Redeploys = FALSE
    NoRow = NoRow
    NoTime = NoTime
    MaxFailures = 1
    Generations = 2
PROPERTIES  CallbacksRunUnderClaim ImplementsJournal
CHECK_DEADLOCK FALSE
