SPECIFICATION Spec
CONSTANTS
    r1 = r1  r2 = r2  r3 = r3
    child1 = child1  child2 = child2  shell = shell
    here = here  there = there
    Run <- Runs
    Command <- Shells
    Checkout = {here, there}
    Home <- Homes
    Parent <- Parents
    Old = {}
    Forced = {}
    Mortal = {}
    Overlap = TRUE
INVARIANT OneOwner
