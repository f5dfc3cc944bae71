SPECIFICATION Spec
CONSTANTS
    Client = {c1, c2}
    Worker = {w1, w2}
    NULL = NULL
    NumFd = 3
    MaxEvents = 2
    BufferSize = 2
    Timeout = 1
    Faults = {"accept", "nonblock", "malloc", "epoll_add", "dispatch", "epoll_wait", "read", "write"}
SYMMETRY Symmetry
INVARIANTS
    TypeOK
    ResourcesMatch
    OneOwner
    HeldIsProtected
    InUseIsHeld
    NoUseAfterFree
    LeavesNothing
PROPERTIES
    ImplementsConnections
