CONSTANTS
    Worker = {w1, w2}
    MaxEvents = 2
    MaxRequests = 3
    MaxTime = 3
CHECK_DEADLOCK FALSE
SYMMETRY Symmetry
SPECIFICATION Spec
INVARIANTS
    TotalsGrow
    ConnsPlausible
    UptimeGrows
