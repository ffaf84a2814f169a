SPECIFICATION Spec
CONSTANTS
    Patience <- MCPatience
    MaxAttempts <- MCMaxAttempts
    Delay <- MCDelay
    MaxFaults = 2
INVARIANTS
    TypeOK
    StartUpIsBounded
    ReadNeedsNoMetrics
PROPERTIES
    GivesUpInTime
