SPECIFICATION Spec
CONSTANTS
    SendCap = 1
    MaxSize = 3
    Faulty = {"redis"}
    MaxSnapshots = 2
    MaxRestarts = 1
    MaxEpochs = 2
INVARIANT RestartKeepsLastSave
CHECK_DEADLOCK FALSE
