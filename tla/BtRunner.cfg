CONSTANTS
    None = None
    Keys <- ExampleKeys
    Framework <- FrameworkKeys
    Params <- ExampleParams
    ParamType <- EditedType
    Tree <- ExampleTree
    Fields <- TwoFields
    BuiltIn <- TwoBuiltIns
SPECIFICATION FairSpec
INVARIANTS
    InputsFound
    ExitTellsOutcome
    FrameworkKept
PROPERTY
    RunnerExits
CHECK_DEADLOCK FALSE
