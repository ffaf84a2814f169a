SPECIFICATION Spec
CONSTANTS
    s1 = s1
    s2 = s2
    Series <- MCSeries
    Value <- MCValue
    Environment <- MCEnvironment
    Payload <- TwoSeriesPayload
    MaxAckPending = 2
    MaxStream = 4
    MaxInbox = 2
    MaxFaults = 1
INVARIANTS
    TypeOK
    SettledIsJudged
    CalmRunIsExact
    OnlyBreachesReported
CHECK_DEADLOCK FALSE
