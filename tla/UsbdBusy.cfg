CONSTANTS
    Requests <- TwoRequests
    EpSize = 2
    MaxReq = 3
    MaxFault = 0
    Patient = FALSE
SPECIFICATION Spec
INVARIANT HandlersSafe
CHECK_DEADLOCK FALSE
