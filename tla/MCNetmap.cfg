SPECIFICATION NetmapSpec
CONSTANTS
    W = 3
    DstPrefix = 1
    MaxSrcs = 4
INVARIANTS MappedApart FittingIsMapped
CHECK_DEADLOCK FALSE
