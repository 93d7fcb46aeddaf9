SPECIFICATION Spec
CONSTANTS
    a = a  b = b  c1 = c1  c2 = c2  w1 = w1  w2 = w2  w3 = w3
    closer = closer  writer = writer  adder = adder  again = again  syncer = syncer
    Task <- Tasks
    Clone <- Clones
    Tree <- Trees
    CloneOf <- Clones_Of
    Process = {writer, adder}
    TreeOf <- Far
    Kind <- Kinds
    Target <- Targets
    Others <- Releases
    Posture = "shared"
    Overlap = TRUE
    Offline = FALSE
    Crashes = FALSE
INVARIANT PushedWritesSurvive
CHECK_DEADLOCK FALSE
