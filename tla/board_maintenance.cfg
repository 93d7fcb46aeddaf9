\* Every command of the operator, on a two-task board with a dependency.
CONSTANTS
    t1 = t1
    t2 = t2
    t3 = t3
    Task = {t1, t2}
    PlanBlockers <- Pair
    Commands = {"heal", "reset", "sync", "reingest", "vouch"}
    Landings = {"on_target", "squashed"}
    Mistakable = {"past"}
SPECIFICATION Spec
INVARIANTS
    MergedIsLanded
    BlocksExact
CHECK_DEADLOCK FALSE
