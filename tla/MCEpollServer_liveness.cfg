SPECIFICATION FairSpec
CONSTANTS
    Client = {c1, c2}
    Worker = {w1}
    NULL = NULL
    NumFd = 2
    MaxEvents = 2
    BufferSize = 2
    Timeout = 0
    Faults = {}
PROPERTIES
    BytesAreRead
    HangupCloses
    BacklogServed
    ShutdownCompletes
    ZombiesReaped
