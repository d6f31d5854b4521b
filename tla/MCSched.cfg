SPECIFICATION FairSpec
CONSTANTS
    N = 2
    QueueLen <- MCQueueLen
    SMs = {nrt, srt0, srt1, free}
    Home <- MCHome
    IsrTargets = {nrt, srt1}
    MaxSrtPrio = 1
    MaxPosts = 5
    nrt = nrt
    srt0 = srt0
    srt1 = srt1
    free = free
INVARIANTS HandlerAtHome ProtectedExclusive FifoPerSm NoLostWakeup
PROPERTIES AllDelivered
CHECK_DEADLOCK FALSE
