SPECIFICATION FairSpec
CONSTANTS
    EpSize = 2
    Block = 4
    Buffers = 2
    Commands <- MCCommands
    MaxCommands = 3
    Outcomes <- Sound
INVARIANTS DataExact CswInPlace Durable
PROPERTY Answered
CHECK_DEADLOCK FALSE
