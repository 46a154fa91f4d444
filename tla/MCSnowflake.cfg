CONSTANTS
    n1 = n1
    n2 = n2
    None = None
    Nodes <- MCNodes
    MaxWorker = 2
    SequenceMask = 1
    MaxTime = 2
    MaxBacks = 1
    MaxStarts = 3
    MaxFaults = 1
SPECIFICATION FairSpec
INVARIANTS
    WorkersApart
    UniqueIds
PROPERTIES
    LockFreed
CHECK_DEADLOCK FALSE
