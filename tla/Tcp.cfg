SPECIFICATION FairSpec
CONSTANTS
    client = client
    server = server
    TxWindow = 2
    Retry = 3
    TsnStep = 10
    Scenarios <- MCScenarios
INVARIANTS WindowKept InOrder AckedIsTaken NothingVanishes NobodyHung CloseAgreed
PROPERTY CallsReturn
CHECK_DEADLOCK FALSE
