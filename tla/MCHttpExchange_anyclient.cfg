CONSTANTS
    Kinds <- MCKinds
    MaxRequests = 3
    BufferSize = 4
    AnswerSize = 2
    SendRoom = 1
    MaxRetry = 3
CHECK_DEADLOCK FALSE
SPECIFICATION FairSpec
INVARIANTS
    TypeOK
    EveryAnswerEarned
    AnswersMatch
PROPERTIES
    PagesHonoured
    FittingServed
    ImplementsRequestResponse
    WorkerReleased
    EveryRequestAnswered
