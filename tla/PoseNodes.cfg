CONSTANTS
    Null = Null
    Unset = Unset
    Unread = Unread
    Distances <- TwoDistances
    Target <- Above
    FixedRpy <- FacingY
    Offsets <- TwoOffsets
    Attitudes <- SomeAttitudes
    MaxTicks = 2
SPECIFICATION Spec
INVARIANTS
    BoardProper
    CupTouchesSurface
    WristTurnsLeast
    SuctionFailsSideways
    TargetRecovered
CHECK_DEADLOCK FALSE
