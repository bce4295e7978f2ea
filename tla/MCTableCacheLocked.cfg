SPECIFICATION Spec
CONSTANTS
    Process = {p1, p2}
    Inode <- MCInode
    Distance <- MCDistance
    Magic = 7
    ExternalLock = TRUE
    ReadErrors = FALSE
    MaxRuns = 4
    MaxMachineCrashes = 1
    None = None
INVARIANTS
    PublishedIsComplete
    StrictWarm
PROPERTIES
    OnlyDamageIsReplaced
    PublishesComplete
CHECK_DEADLOCK FALSE
