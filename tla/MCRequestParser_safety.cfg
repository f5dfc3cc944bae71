CONSTANTS
    Blanks = {1, 2}
    UriLengths = {2, 3, 14}
    Lines <- MCLines
    MaxLines = 4
    Rests = {0, 2}
    NONE = NONE
    MaxHeaders = 2
    LineSize = 6
    UriSize = 12
CHECK_DEADLOCK FALSE
SPECIFICATION Spec
INVARIANTS
    FieldsAsSent
    BodyIsTheRest
