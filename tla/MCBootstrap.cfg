CONSTANTS
    n1 = n1  n2 = n2
    Nodes = {n1, n2}
    DB = "DB"
    Plugins = {"DB", "Redis"}
    Tables <- TwoTables
    Buckets <- TwoBuckets
    Refused = {"meta_data_info", "multi_part_info", "image", "video"}
    MaxWorker = 2
    MaxFaults = 1
    MaxCrashes = 1
SPECIFICATION FairSpec
INVARIANTS
    LostOnce
PROPERTIES
    ComesUp
CHECK_DEADLOCK FALSE
