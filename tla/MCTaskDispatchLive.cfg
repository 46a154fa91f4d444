SPECIFICATION FairSpec
CONSTANTS
    n1 = n1  n2 = n2
    w1 = w1  w2 = w2
    t1 = t1  t2 = t2  t3 = t3
    u1 = u1
    Nodes = {n1}
    Workers = {w1, w2}
    Tasks = {t1, t2, t3}
    Uids = {u1}
    UidOf <- OneUid
    Registered = {t1, t2}
    MaxQueue = 1
    None = None
    MaxStops = 1
    MaxCrashes = 0
    MaxFaults = 0
PROPERTIES
    UndoTaskClaimed
    HeldTaskSettles
    StopCompletesOrStuck
CHECK_DEADLOCK FALSE
