SPECIFICATION FairSpec
CONSTANTS
    SendCap = 1
    Snapshots <- TwoSnapshots
    StateKey = "state"
    GpsKey = "gps"
    Driving = "ready-to-drive"
    SmoothingRadius = 2
    FullResyncEvery = 1
    Tickers = {ticker}
    Main = main
    Query = query
    None = None
    MaxEpochs = 1
    MaxQueries = 0
PROPERTY OfflineStateIsBuffered
