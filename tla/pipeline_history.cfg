SPECIFICATION PipelineSpec
CONSTANTS
    s1 = s1
    s2 = s2
    NoId = NoId
    NoRow = NoRow
    Series <- MCSeries
    Value <- MCValue
    Environment <- MCEnvironment
    Payload <- MCPayload
    Workloads <- MCWorkloads
    MaxStream = 4
    MaxAckPending = 2
    MaxEvents = 4
    MaxInbox = 1
    MaxFaults = 1
INVARIANTS
    RowsAreBreaches
    NothingLostOnTheWay
    CalmHistoryIsExact
PROPERTIES
    EveryEventArrives
CHECK_DEADLOCK FALSE
