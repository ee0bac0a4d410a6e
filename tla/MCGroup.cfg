SPECIFICATION Spec
CONSTANTS
    source = source
    fr = fr
    Source = source
    Aux <- OneLane
    MaxBlocks = 2
    MaxGroups = 2
    MaxRestarts = 1
    Kinds <- AllKinds
    MaxTroubles = 2
CONSTRAINT Close2
INVARIANTS
    OneWriterUnlessDetached
    AudioIsAccounted
    OneTimelinePerEpoch
    ViewFollowsLane
    HealthIsHonest
