SPECIFICATION Spec
CONSTANTS
    a = a
    b = b
    c = c
    s1 = s1
    s2 = s2
    None = None
    Task = {a}
    Blockers <- MCBlockers
    Place <- MCPlace
    Signature = {s1}
    MaxJobs = 2
    BreakerThreshold = 2
    AttemptCap = 3
    SystemicThreshold = 2
    Modes = {"single-pr", "pr-per-task"}
    Policies = {"triage", "continue", "halt"}
    MaxFaults = 1
CHECK_DEADLOCK FALSE
PROPERTY RefusedFailureIsRetried
