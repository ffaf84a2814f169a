SPECIFICATION FairSpec
CONSTANTS
    Payload <- MCPayload
    MaxAckPending = 2
    MaxStream = 3
    MaxInbox = 1
    MaxFaults = 1
INVARIANTS
    TypeOK
    SettledIsPredicted
PROPERTIES
    OthersAreSettled
CHECK_DEADLOCK FALSE
