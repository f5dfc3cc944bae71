CONSTANTS
    NumThreads = 2
    MaxTasks = 1
    MaxSpurious = 0
    CreateMayFail = TRUE
SPECIFICATION FairSpec
PROPERTIES
    CreateFailureReturns
CHECK_DEADLOCK FALSE
