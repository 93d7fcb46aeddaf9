\* The recorded-forward lifecycle with re-ingestion and crashes, no repairs.
CONSTANTS
    t1 = t1
    t2 = t2
    t3 = t3
    Task = {t1, t2, t3}
    PlanBlockers <- Diamond
    Commands = {"reingest"}
    Landings = {}
    Mistakable = {"base", "past"}
SPECIFICATION Spec
INVARIANTS
    FrontierExact
    BlockedIsWaiting
PROPERTY GateSpec
CHECK_DEADLOCK FALSE
