SPECIFICATION Spec
CONSTANTS
    Starts <- AllStarts
    MaxMoves = 0
    Radius = 0
    None = None
INVARIANT
    AcceptedIsPhysical
CHECK_DEADLOCK FALSE
