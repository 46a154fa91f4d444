SPECIFICATION MergeSpec
CONSTANTS
    a1 = a1  a2 = a2  b1 = b1
    m1 = m1  m2 = m2
    w1 = w1  w2 = w2
    PartReqs = {a1}
    Chunks = {1}
    ChunkOf <- ChunkOfReq
    None = None
    MergeReqs = {m1, m2}
    Workers = {w1, w2}
    MaxTroubles = 0
INVARIANTS
    MergedIntact
CHECK_DEADLOCK FALSE
