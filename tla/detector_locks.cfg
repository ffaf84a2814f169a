SPECIFICATION FairSpec
CONSTANTS
    g1 = g1
    g2 = g2
    s1 = s1
    cleaner = cleaner
    NoOne = NoOne
    Observer <- TwoObservers
    Series <- OneSeries
    WindowSize = 1
    MaxAge = 1
    MaxCalls = 1
    MaxClock = 2
INVARIANTS
    TypeOK
    VerdictSeesOwnValue
    OneWindowPerSeries
    LockInv
PROPERTIES
    SweepSparesRecent
    EveryCallReturns
