SPECIFICATION FairSpec
CONSTANTS
    Steps = {"a", "nap"}
    Sleeps = {"nap"}
    Phases <- StepThenNap
    Naps = {1}
    Backoff = 1
    ClaimTimeout = 2
    MemoryDelay = 1
    RetryLimit = 2
    Retains = {TRUE}
    CallbackEnds = {"ok", "raises", "platform", "oom"}
    Heavy = {"a"}
    Redeploys = TRUE
    NoRow = NoRow
    NoTime = NoTime
    MaxFailures = 2
    Generations = 2
INVARIANTS RunsAreWoken
PROPERTIES WakesFollowRuns
