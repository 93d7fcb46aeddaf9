SPECIFICATION PartsSpec
CONSTANTS
    None = None
    Nil = Nil
    Kids = TRUE
    Stall = 1
    Wall = 2
    N = 4
    Kind <- Kinds
    EvidenceOf <- Evidence
    Skilled <- WithSkill
    Gated <- Skippable
    Groups <- OneSession
    Isolations <- Both
    Modes <- AllModes
    MaxEdits = 2
    CodeOf <- Code
    MaxAttempts = 2
    MaxSeizures = 1
CHECK_DEADLOCK FALSE
INVARIANTS
    EvidencedStages
    StagedCodeTested
    NoTaskLeftRunning
    KillsAreTimeouts
PROPERTY RunsAndSessionsEnd
