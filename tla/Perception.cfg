CONSTANTS
    None = None
    Threads = {t1, t2}
    Indices <- ZeroOrMinusOne
    SizeT = 8
    Sizes = {1}
    WaitTimeout = 1
    TfTimeout = 2
    TfLag = 1
    Skews <- Clocks
    Depth = 1
    MaxInstant = 4
    MaxArrays = 2
    MaxTicks = 2
SPECIFICATION FairSpec
INVARIANTS
    IndexExists
    CameraWasThere
PROPERTIES
    DetectionsMoveForward
    TickReturns
