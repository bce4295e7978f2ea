SPECIFICATION Spec
CONSTANTS
    Starts <- AllStarts
    MaxMoves = 2
    Radius = 2
    None = None
INVARIANTS
    TypeOK
    CubieFollowsStickers
    CoordinatesFollowCube
    PruningIsSafe
    EntriesJudged
PROPERTY
    BoundsAreConsistent
CHECK_DEADLOCK FALSE
