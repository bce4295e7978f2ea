SPECIFICATION FairSpec
CONSTANTS
    Cube <- MCCube
    Solved <- MCSolved
    Move <- MCMove
    Moved <- MCMoved
    InverseOf <- MCInverseOf
    FaceOf <- MCFaceOf
    AxisOf <- MCAxisOf
    FaceOrder <- MCFaceOrder
    Bound <- HoledBound
    Requests <- MCRequests
    MaxRadius = 2
INVARIANTS
    TypeOK
    AnswerIsOptimal
    DepthLimitIsTrue
PROPERTIES
    Answers
CHECK_DEADLOCK FALSE
