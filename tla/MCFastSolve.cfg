SPECIFICATION FairSpec
CONSTANTS
    Cube <- MCCube
    Solved <- MCSolved
    Move <- MCMove
    Moved <- MCMoved
    InverseOf <- MCInverseOf
    FaceOf <- MCFaceOf
    AxisOf <- MCAxisOf
    FaceOrder <- MCFaceOrder
    G1 <- MCG1
    Phase2Move <- MCPhase2Move
    Bound <- MCBound
    Phase1Bound <- MCPhase1Bound
    Phase2Bound <- MCPhase2Bound
    CandidateBound <- MCCandidateBound
    Phase1Depth = 4
    QuickLimit <- MCQuickLimit
    FullLimit <- MCFullLimit
    Width <- MCWidth
    MaxDepth = 5
    Requests <- MCRequests
INVARIANTS
    TypeOK
    AnswerIsTrue
    CandidatesAreEntries
    NoLengthSkipped
    BeamIsExhaustive
PROPERTIES
    Answers
CHECK_DEADLOCK FALSE
