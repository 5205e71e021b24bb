SPECIFICATION FairSpec
CONSTANTS
    SendCap = 2
    CmdCap = 1
    ConfigCap = 1
    InitialDelay = 1
    MaxDelay = 3
    MaxConns = 2
    Senders = {s1}
    MaxFrames = 2
    MaxFailures = 3
INVARIANTS
    TypeOK
    LoopsOwnTheConnection
    NotConnectedWhileConnecting
    OnlyAcceptedConnectionsCarryFrames
    InOrderAtMostOnce
    BackoffFollowsSchedule
PROPERTIES
    ImplementsLossyChannel
    DisconnectAfterLoops
    LossIsNotified
    ShutdownCompletes
