CONSTANTS
    n1 = n1
    n2 = n2
    None = None
    Nodes <- MCNodes
    Offset <- MCOffset
    Period = 1
    Slack = 0
    Boundary = 2
    Skew = 1
    MaxLives = 2
    MaxFaults = 1
SPECIFICATION FairSpec
INVARIANTS
    SteadyListed
    DeletesOldOnly
PROPERTIES
    KeepsPromise
    Heard
CHECK_DEADLOCK FALSE
