SPECIFICATION PartSpec
CONSTANTS
    a1 = a1  a2 = a2  a3 = a3  b1 = b1
    PartReqs = {a1, a2}
    Chunks = {1}
    ChunkOf <- ChunkOfReq
    None = None
    MaxTroubles = 0
INVARIANTS
    PartUnique
CHECK_DEADLOCK FALSE
