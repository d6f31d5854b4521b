SPECIFICATION Spec
CONSTANTS
    Size = 4
    MaxChunk = 2
    MaxBytes = 8
    Modulus = 64
    Setups <- AllSetups
PROPERTY ImplementsFifo
CHECK_DEADLOCK FALSE
