SPECIFICATION Spec
CONSTANTS
    s1 = s1
    s2 = s2
    Series <- MCSeries
    Value <- MCValue
    Environment <- MCEnvironment
    Payload <- OneSeriesPayload
    MaxAckPending = 2
    MaxStream = 3
    MaxInbox = 2
    MaxFaults = 1
INVARIANTS
    BreachIsReported
CHECK_DEADLOCK FALSE
