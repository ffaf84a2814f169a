SPECIFICATION SeriesSpec
CONSTANTS
    Environment <- MCEnvironment
    Value <- MCValue
INVARIANTS
    BaselineIsRobust
    RisesLikeFalls
    LevelShiftAbsorbed
    SpikeStandsOut
    StoredThresholdIsCrossed
