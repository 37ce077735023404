SPECIFICATION Spec
CONSTANTS
    MaxSkip = 2
    U32 = 8
    AliceSends = 2
    BobSends = 1
    MaxForced = 0
    MaxDhSteps = 0
INVARIANT SkippedKeysAreUsed
CHECK_DEADLOCK FALSE
