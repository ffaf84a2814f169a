SPECIFICATION Spec
CONSTANTS
    s1 = s1
    s2 = s2
    Null = Null
    Series <- MCSeries
    Barred <- MCBarred
    Slashed <- MCSlashed
    Timestamp = {1, 2, 3, 4}
    Filter <- MCFilter
    RawLimit <- MCRawLimit
    HalfWord = 8
    DefaultLimit = 1
    MaxLimit = 2
    SeriesLimit = 1
    MaxRows = 3
INVARIANTS
    TypeOK
    PagingMissesNothing
    QuietPagingIsExact
PROPERTIES
    ListingIsNewest
