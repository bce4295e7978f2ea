SPECIFICATION Spec
CONSTANTS
    c1 = c1
    c2 = c2
    Caller = {c1, c2}
    Preparer = {c1}
    Dir = {"home", "away"}
    Home = "home"
    InitialFiles <- ColdOrWarm
    Session <- Preparations
    SavesMayFail = TRUE
    None = None
    Size <- MCSize
    Overhead = 2
    DefaultBudget = 10
    TightTimeout = 2
INVARIANTS
    PreparationWarms
CHECK_DEADLOCK FALSE
