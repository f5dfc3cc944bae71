SPECIFICATION FairSpec
CONSTANTS
    Client = {c1, c2}
    Worker = {w1}
    NULL = NULL
    NumFd = 1
    MaxEvents = 1
    BufferSize = 2
    Timeout = 1
    Faults = {}
PROPERTIES
    BacklogServed
