SPECIFICATION FairSpec
CONSTANTS
    SendCap = 1
    MaxRetries = 2
    MaxFaults = 1
    MaxFlushes = 2
    MaxEvents = 2
    MaxRestarts = 1
    MaxEpochs = 2
INVARIANTS
    TypeOK
    EventAccountedFor
    EventSentOnce
    GivenUpOnlyAfterRetries
PROPERTIES
    FlushKeepsUnsent
    BacklogDrains
CHECK_DEADLOCK FALSE
