SPECIFICATION Spec
CONSTANTS
    SendCap = 1
    MaxRetries = 2
    MaxFaults = 0
    MaxFlushes = 2
    MaxEvents = 2
    MaxRestarts = 1
    MaxEpochs = 2
INVARIANT DurableEventsKept
CHECK_DEADLOCK FALSE
