CONSTANTS
    n1 = n1
    n2 = n2
    n3 = n3
    Nodes = {n1, n2, n3}
    LaneOf <- Lanes
    Panel <- Catalogue
    failureThreshold = 2
    cooldown = 2
    MaxDelay = 1
SPECIFICATION FairSpec
INVARIANT HalfOpenHasProbe
PROPERTY Reopens
CHECK_DEADLOCK FALSE
