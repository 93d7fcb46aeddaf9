SPECIFICATION PartsSpec
CONSTANTS
    t1 = t1
    t2 = t2
    t3 = t3
    f1 = f1
    f2 = f2
    o1 = o1
    Nil = Nil
    Task <- Three
    Flusher <- Both
    Outsider <- Others
    Breaks <- Broken
    Conflicting <- Refused
    MaxFlushes = 2
    MaxFlakes = 1
    MaxCrashes = 1
    MaxCommits = 6
CHECK_DEADLOCK FALSE
PROPERTY LocalFastForwards
