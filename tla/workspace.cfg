SPECIFICATION PartsSpec
CONSTANTS
    None = None
    Nil = Nil
    p1 = p1  p2 = p2
    Work <- Pieces
    KindOf <- Kinds
    MaxBase = 2
    Clash <- Clashing
    TouchesCode = {2}
    MaxAttempts = 3
    Writers <- TwoWriters
    Ids <- TwoEvents
    MaxStarts = 3
    MaxCrashes = 1
CHECK_DEADLOCK FALSE
INVARIANT FilesKeepEntries
PROPERTIES
    UncommittedIsSaved
    CommitsAreKept
    PrepareEnds
