SPECIFICATION Spec
CONSTANTS
    g1 = g1
    g2 = g2
    s1 = s1
    cleaner = cleaner
    NoOne = NoOne
    Observer <- TwoObservers
    Series <- OneSeries
    WindowSize = 2
    MaxAge = 1
    MaxCalls = 2
    MaxClock = 2
PROPERTIES
    RemovesOnlyStale
