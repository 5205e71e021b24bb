SPECIFICATION Spec
CONSTANTS
    SendCap = 2
    Snapshots <- LosingFix
    StateKey = "state"
    GpsKey = "gps"
    Driving = "ready-to-drive"
    SmoothingRadius = 2
    FullResyncEvery = 1
    Tickers = {ticker}
    Main = main
    Query = query
    None = None
    MaxEpochs = 2
    MaxQueries = 1
INVARIANTS
    TypeOK
    BaselineMatchesServer
    FreshDeltaHasBase
