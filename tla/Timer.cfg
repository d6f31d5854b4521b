SPECIFICATION Spec
CONSTANTS
    Pool = {p1, p2}
    Embedded = {e1}
    SMs = {s1}
    NULL = NULL
    Intervals = {1, 2}
    Counts <- MCCounts
    Wrap = 16
    MaxTime = 3
    MaxOps = 3
    p1 = p1
    p2 = p2
    e1 = e1
    s1 = s1
INVARIANTS PoolExact FiresAsAsked
 
CHECK_DEADLOCK FALSE
