\* The old collector. With INVARIANT GoneIsDown: the health; with Kinds = {"die"}
\* and INVARIANT TailIsRecorded: the gap.
SPECIFICATION Spec
CONSTANTS
    source = source
    fr = fr
    Source = source
    Aux <- OneLane
    MaxBlocks = 2
    MaxGroups = 2
    MaxRestarts = 1
    Kinds = {"wedge", "slow"}
    MaxTroubles = 2
CONSTRAINT Close2
INVARIANT OneWriter
