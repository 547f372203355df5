CONSTANTS
    t1 = t1
    t2 = t2
    part = part
    cup = cup
    home = home
    place = place
    None = None
    Keep = Keep
SPECIFICATION FairSpec
PROPERTIES
    RequestsAnswered
    ForcedConverges
