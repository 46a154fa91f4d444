SPECIFICATION SingleSpec
CONSTANTS
    u1 = u1  u2 = u2  u3 = u3
    a1 = a1  a2 = a2  b1 = b1  c1 = c1
    Uids = {u1, u2}
    Linked = {u1, u2}
    Reqs = {a1, b1}
    UidOf <- UidOfReq
    Md5Of <- OneMd5
    Http = {b1}
    None = None
    MaxFaults = 0
INVARIANTS
    CopiesNameObjects
CHECK_DEADLOCK FALSE
