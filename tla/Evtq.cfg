SPECIFICATION FairSpec
CONSTANTS
    Size = 3
    SMs = {s1, s2}
    NULL = NULL
    TIMER = TIMER
    Evts = {TIMER, USER}
    TickSms = {s1}
    FiniOnFull = FALSE
    s1 = s1
    s2 = s2
    USER = USER
INVARIANTS RingConsistent TickCounted
PROPERTIES EventsDispatched ImplementsFifo
CHECK_DEADLOCK FALSE
