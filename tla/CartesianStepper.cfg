CONSTANTS
    MaxDist = 12
    Tol = 1
    Primary = 5
    Fallback = 2
    MinFraction = 60
SPECIFICATION FairSpec
INVARIANTS
    NeverRetreats
    StaysInStep
PROPERTIES
    RoundAdvances
    Terminates
CHECK_DEADLOCK FALSE
