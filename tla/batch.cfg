SPECIFICATION BatchSpec
CONSTANTS
    a = a
    b = b
    c = c
    s1 = s1
    None = None
    Nil = Nil
    Task = {a, b, c}
    Blockers <- Both
    Place <- Queue
    Signature = {s1}
    MaxJobs = 2
    BreakerThreshold = 2
    AttemptCap = 3
    SystemicThreshold = 2
    Modes = {"single-pr", "pr-per-task"}
    Policies = {"triage", "continue", "halt"}
    MaxFaults = 1
    Tasks = {"x", "y", "z"}
    Sigs = {"s"}
    Killed = "killed"
    Shown <- Failures
    MaxFailures = 3
    MaxRuns = 2
    MaxOrders = 1
CHECK_DEADLOCK FALSE
INVARIANTS
    AttemptsBounded
    EndsSettled
    SummaryTellsEndState
    TallyIsEarned
PROPERTIES
    LoopEnds
    StartsWithinBreakers
