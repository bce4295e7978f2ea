SPECIFICATION FairSpec
CONSTANTS
    MaxThreads = 2
    Calls <- MCCalls
    None = None
INVARIANTS
    TypeOK
    NotFoundIsExhaustive
    TimeoutIsHonest
    TasksClaimedOnce
    ProfilesAgree
PROPERTIES
    SolutionWrittenOnce
    Terminates
    ImplementsOutcome
