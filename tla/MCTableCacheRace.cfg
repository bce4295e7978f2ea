SPECIFICATION FairSpec
CONSTANTS
    Process = {p1, p2}
    Inode <- MCInode
    Distance <- MCDistance
    Magic = 7
    ExternalLock = FALSE
    ReadErrors = TRUE
    MaxRuns = 3
    MaxMachineCrashes = 1
    None = None
INVARIANTS
    TypeOK
    LoadedIsAdmissible
PROPERTIES
    Served
CHECK_DEADLOCK FALSE
