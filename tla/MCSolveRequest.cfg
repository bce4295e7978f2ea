SPECIFICATION FairSpec
CONSTANTS
    c1 = c1
    c2 = c2
    Caller = {c1, c2}
    Preparer = {c1}
    Dir = {"home"}
    Home = "home"
    InitialFiles <- ColdOrWarm
    Session <- Solves
    SavesMayFail = TRUE
    None = None
    Size <- MCSize
    Overhead = 2
    DefaultBudget = 10
    TightTimeout = 2
INVARIANTS
    TypeOK
    MemoryRespected
    AutoRefusal
    StrictWarmRequest
    NotReadyIsTrue
PROPERTIES
    EveryCallReturns
CHECK_DEADLOCK FALSE
