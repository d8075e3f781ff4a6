SPECIFICATION Spec
CONSTANTS
    Base = 4
    Half = 6
    Interval = 3
    Window = 2
    Spacing = 2
    MedianWindow = 5
    MaxFuture = 2
    GenesisTarget <- MCGenesisTarget
    MaxTime = 5
    MaxBlocks = 7
CHECK_DEADLOCK FALSE
PROPERTY SlowBlocksEase
