SPECIFICATION CommandsSpec
CONSTANTS
    r1 = r1  r2 = r2  r3 = r3
    child1 = child1  child2 = child2  shell = shell
    here = here  there = there
    Run <- Runs
    Command <- Shells
    Checkout = {here, there}
    Home <- Homes
    Parent <- Parents
    Old = {r2}
    Forced = {r3}
    Mortal = {r1, r2}
    Overlap = FALSE
    Files <- Touched
    Version = "VERSION"
    Tasks <- Planned
    Groups <- Offered
    Clash <- Moving
    MaxCommands = 2
    Near <- Drifting
    Nil = Nil
INVARIANTS
    NoLeaseLeftBehind
    OneOwner
    WriterActsForTheOwner
    SplitKeepsWork
PROPERTIES
    PushedIsTested
    BranchesKeepWork
