SPECIFICATION FairSpec
CONSTANTS
    SMs = {a, b, c, d}
    NULL = NULL
    QueueMayBeFull = TRUE
    a = a
    b = b
    c = c
    d = d
INVARIANTS PermitConserved ListIsFifo
PROPERTY WaitersEnter
CHECK_DEADLOCK FALSE
