CONSTANTS
    Requests <- MCRequests
    EpSize = 2
    MaxReq = 3
    MaxFault = 2
    Patient = TRUE
SPECIFICATION FairSpec
INVARIANTS ProcessedAsEnded AnswerExact HandlersSafe Agreed
PROPERTY RequestsEnd
CHECK_DEADLOCK FALSE
