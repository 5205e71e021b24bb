SPECIFICATION FairSpec
CONSTANTS
    SendCap = 1
    MaxSize = 3
    Faulty = {}
    MaxSnapshots = 5
    MaxRestarts = 1
    MaxEpochs = 2
INVARIANTS
    TypeOK
    BufferBounded
    ItemsInOrder
    RestartKeepsLastSave
    ForeignTimesNeverSent
    SentOnceWithoutRestart
PROPERTIES
    ExtentPreserved
    BufferDrains
CHECK_DEADLOCK FALSE
