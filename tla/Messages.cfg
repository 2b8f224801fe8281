SPECIFICATION MCSpec
CONSTANTS
    a = a
    b = b
    c1 = c1
    c2 = c2
    k1 = k1
    k2 = k2
    Setups <- Written
    Sayings = {"ok", "no"}
    MaxTurns = 4
INVARIANTS
    CutShortIsStored
    LendsWhatItHolds
    StoredAsStreamed
    PlainRunsKeepTheirIds
    RowReadsAsTheRun
    IdsAreKept
