SPECIFICATION Spec
CONSTANTS
    Conns = {1, 2}
    Overlays = {2}
    PingEvery = 1
    IdleMax = 2
    Ttl = 3
    MaxTrouble = 1
    Apart = TRUE
    EarlyGone = FALSE
    MaxRevokes = 1
    MaxBusy = 3
    MaxLost = 1
INVARIANTS
    LiveSocketsAreListed
    OverlaysOnlyAsk
    RevokedSocketsClose
