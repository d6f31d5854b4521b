SPECIFICATION Spec
CONSTANTS
    Size = 2
    SMs = {s1, s2}
    NULL = NULL
    TIMER = TIMER
    Evts = {TIMER, USER}
    TickSms = {s1}
    FiniOnFull = TRUE
    s1 = s1
    s2 = s2
    USER = USER
INVARIANTS FiniRemovesEvents
