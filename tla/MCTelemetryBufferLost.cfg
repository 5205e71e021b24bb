SPECIFICATION Spec
CONSTANTS
    SendCap = 1
    MaxSize = 3
    Faulty = {}
    MaxSnapshots = 1
    MaxRestarts = 1
    MaxEpochs = 2
INVARIANT ClearedMeansReceived
CHECK_DEADLOCK FALSE
