SPECIFICATION FairSpec
CONSTANTS
    feeder = feeder
    debug = debug
    Client <- TwoClients
    DebugClient <- MCDebugClient
    MaxRequests = 3
    MaxFaults = 2
INVARIANTS
    AcceptedIsStored
    StoredOnce
    AcceptedKeepsOrder
PROPERTIES
    GracefulStopEnds
CHECK_DEADLOCK FALSE
