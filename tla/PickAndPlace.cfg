CONSTANTS
    Part = part
    None = None
    MaxRuns = 3
SPECIFICATION Spec
INVARIANTS
    MotionIsAlone
    PartIgnoredWhileHandled
    SceneNeverLies
    SuccessMeansPlaced
PROPERTY
    ToolActsInPlace
CHECK_DEADLOCK FALSE
