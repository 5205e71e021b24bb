SPECIFICATION FairSpec
CONSTANTS
    SendCap = 1
    Snapshots <- CreepingSnapshots
    StateKey = "state"
    GpsKey = "gps"
    Driving = "ready-to-drive"
    SmoothingRadius = 2
    FullResyncEvery = 2
    Tickers = {ticker}
    Main = main
    Query = query
    None = None
    MaxEpochs = 2
    MaxQueries = 0
PROPERTY ServerCatchesUp
