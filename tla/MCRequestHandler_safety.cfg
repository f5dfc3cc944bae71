CONSTANTS
    Sizes = {0, 3, 4, 5, 7}
    DirSizes <- DirSizesAny
    WriteSize = 6
    Reserve = 2
    HeaderLen = 2
    ErrorLen = 1
CHECK_DEADLOCK FALSE
SPECIFICATION Spec
INVARIANTS
    ReplySound
    NotFoundIsMissing
PROPERTIES
    NoDescriptorLost
