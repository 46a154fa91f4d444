--------------------------- MODULE MCSingleUpload ---------------------------
(* Small instances of SingleUpload: one content under several uids. *)
EXTENDS SingleUpload, TLC

CONSTANTS u1, u2, u3, a1, a2, b1, c1

\* a1 and a2 use the link of u1, b1 that of u2; c1 creates u3.
UidOfReq(r) == IF r \in {a1, a2} THEN u1 ELSE IF r = b1 THEN u2 ELSE u3

OneMd5(u) == "md5"

Retries == Permutations({a1, a2})

=============================================================================
