\* Three workers and four tasks: more tasks than workers can be asleep, and
\* the last task can be added to an empty, a short or a full list.  Thread
\* creation may fail at any thread.
CONSTANTS
    NumThreads = 3
    MaxTasks = 4
    MaxSpurious = 1
    CreateMayFail = TRUE
SPECIFICATION FairSpec
INVARIANTS
    TypeOK
    TaskOwnership
    NoSleepOnWork
    NobodyMissesShutdown
    ReleasedPoolIsQuiet
PROPERTIES
    ImplementsTaskPool
    ImplementsFairTaskPool
    DestroyReturns
\* A creation that fails can hang (MCThreadPool_createfail.cfg): the deadlock
\* is reported there, as the violation of CreateFailureReturns.
CHECK_DEADLOCK FALSE
