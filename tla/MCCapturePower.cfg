\* One process crash, then one power loss; the recording ends. With PROPERTY
\* LaunchIndexes: the index after one power loss.
CHECK_DEADLOCK FALSE
SPECIFICATION Spec
CONSTANTS
    Minute = 2
    BlockSizes = {1, 2}
    FlushEvery = 2
    MaxFrames = 4
    MaxFaults = 0
    MaxCrashes = 1
    MaxPowerLoss = 1
INVARIANT AudioKept
