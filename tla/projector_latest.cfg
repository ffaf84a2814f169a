SPECIFICATION Spec
CONSTANTS
    s1 = s1
    s2 = s2
    e1 = e1
    e2 = e2
    NoId = NoId
    NoRow = NoRow
    Series <- MCSeries
    EventId <- MCEventId
    Timestamp = {1, 2}
    Payload <- MCPayload
    MaxAckPending = 2
    MaxStream = 2
    MaxInbox = 2
    MaxFaults = 1
INVARIANTS
    LatestState
CHECK_DEADLOCK FALSE
