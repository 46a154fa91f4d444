CONSTANTS
    n1 = n1
    n2 = n2
    None = None
    Nodes <- MCNodes
    Owner = n1
    MaxFrames = 2
    MaxFaults = 1
    MaxStops = 1
    MaxLeaves = 1
SPECIFICATION Spec
INVARIANT
    NoneLeft
