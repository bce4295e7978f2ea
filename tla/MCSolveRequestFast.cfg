SPECIFICATION Spec
CONSTANTS
    c1 = c1
    c2 = c2
    Caller = {c1}
    Preparer = {c1}
    Dir = {"home"}
    Home = "home"
    InitialFiles <- ColdOrWarm
    Session <- FastSolves
    SavesMayFail = FALSE
    None = None
    Size <- MCSize
    Overhead = 2
    DefaultBudget = 10
    TightTimeout = 2
INVARIANTS
    StrictWarmRequest
CHECK_DEADLOCK FALSE
