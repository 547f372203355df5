CONSTANTS
    t1 = t1
    t2 = t2
    part = part
    box = box
    home = home
    place = place
    None = None
    Keep = Keep
    Threads = {t1, t2}
    Objects = {part}
    ObjectIds <- PartOnly
    Kind <- AllGood
    Dynamic = {part}
    Poses = {home, place}
    InitPose = home
    TopicDepth = 1
    AcmLinks = FALSE
    SettleDrains = TRUE
    MaxRequests = 1
    MaxInterference = 0

SPECIFICATION FairSpec
PROPERTY
    AcknowledgedRemovalIsDone
