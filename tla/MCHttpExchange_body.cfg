CONSTANTS
    Kinds <- BodyKinds
    MaxRequests = 1
    BufferSize = 4
    AnswerSize = 2
    SendRoom = 1
    MaxRetry = 1
CHECK_DEADLOCK FALSE
SPECIFICATION Spec
INVARIANTS
    AnsweredWhole
