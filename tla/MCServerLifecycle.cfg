CONSTANTS
    Words <- MCWords
    MaxArgs = 4
    Client = {c1, c2}
CHECK_DEADLOCK FALSE
SPECIFICATION FairSpec
INVARIANTS
    LastValueCounts
    NothingLeft
PROPERTIES
    SignalEndsServer
