CONSTANTS
    close = close
    open = open
    suck = suck
    remove = remove
    setPose = setPose
    gripper = gripper
    suction = suction
    part = part
    None = None
    Endpoints = {close, open, suck, remove, setPose}
    Devices = {gripper, suction, part}
    DeviceOf <- Target
    Tools = {gripper, suction}
    Fields <- Given
    Roles <- ToolRole
    MaxCalls = 3
SPECIFICATION FairSpec
INVARIANTS
    TrueMeansDone
    LastSuccessStands
    SuccessSupersedes
PROPERTY
    CallsReturn
CHECK_DEADLOCK FALSE
