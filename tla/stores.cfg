SPECIFICATION StoresSpec
CONSTANTS
    a = a  b = b  c1 = c1  c2 = c2  w1 = w1  w2 = w2  w3 = w3
    closer = closer  writer = writer  adder = adder  again = again  syncer = syncer
    Task <- Tasks
    Clone <- Clones
    Tree <- Trees
    CloneOf <- Clones_Of
    Process = {closer, again, writer, adder, syncer}
    TreeOf <- Far
    Kind <- Kinds
    Target <- Targets
    Others <- Releases
    Posture = "shared"
    Overlap = TRUE
    Offline = TRUE
    Crashes = TRUE
    Id <- Tasks
    Requirement <- Required
    Texts <- Plans
    Commands <- Repairs
    MaxEdits = 4
    Nil = Nil
    Runs <- Recorded
    Jobs <- Shipped
    Stages <- Staged_
    Days <- Kept
    Policies <- Reviewed
    MaxTime = 3
    MaxWrites = 1
    Void = Void
    Ticket <- Tasks
    BlockersOf <- Waits
    Prd <- OnePrd
    PrdOf <- Same
    Derived <- FirstNamed
    Branch <- Ends
    Trunk = main
    Bases <- Never
    MaxRetargets = 1
    MaxRuns = 2
    Stray = stray
    Null = Null
    p1 = p1  p2 = p2   E1 = E1  E2 = E2
CHECK_DEADLOCK FALSE
INVARIANTS
    TombstonesWin
    CarriesOnlyItsOwn
PROPERTIES
    LeavesByAssertion
    OnlyFetchesOverwrite
    SpecFrozen
    DependentsSeeBlockers
    FreshRunsSurvive
