SPECIFICATION Spec
CONSTANTS
    SendCap = 2
    Snapshots <- TwoSnapshots
    StateKey = "state"
    GpsKey = "gps"
    Driving = "ready-to-drive"
    SmoothingRadius = 2
    FullResyncEvery = 1
    Tickers = {ticker}
    Main = main
    Query = query
    None = None
    MaxEpochs = 2
    MaxQueries = 0
INVARIANT NoDeltaWithoutBase
