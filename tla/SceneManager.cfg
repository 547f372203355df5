CONSTANTS
    t1 = t1
    t2 = t2
    part = part
    box = box
    home = home
    place = place
    None = None
    Keep = Keep
    Threads = {t1, t2}
    Objects = {part, box}
    ObjectIds <- PartThenBox
    Kind <- AllGood
    Dynamic = {part}
    Poses = {home, place}
    InitPose = home
    TopicDepth = 1
    AcmLinks = TRUE
    SettleDrains = TRUE
    MaxRequests = 2
    MaxInterference = 1
SYMMETRY ThreadSymmetry
SPECIFICATION Spec
INVARIANTS
    TypeOK
    RaceFree
    ResponderAvailable
    ForcedMatchesPromised
    TopicTailAgrees
    RestingSceneAgrees
PROPERTIES
    AcmIsDelivered
    ImplementsLedger
