SPECIFICATION FairLinkSpec
CONSTANTS
    u1 = u1  u2 = u2  u3 = u3  u4 = u4
    p = p  q = q  d = d  e = e
    Uids = {u1, u2, u3, u4}
    UpReqs = {p, q}
    DownReqs = {d, e}
    MadeBy <- MadeByReq
    AskedBy <- AskedByReq
    MaxFailures = 1
INVARIANTS
    LinksUsable
PROPERTIES
    KnownAnswered
CHECK_DEADLOCK FALSE
