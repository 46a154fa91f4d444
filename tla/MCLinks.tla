------------------------------- MODULE MCLinks -------------------------------
(* Small instances of Links: a request for two files and one for a third.   *)
EXTENDS Links

CONSTANTS u1, u2, u3, u4, p, q, d, e

MadeByReq(r) == IF r = p THEN {u1, u2} ELSE {u3}

\* d asks for uids of both requests, e for one made and one that never is.
AskedByReq(r) == IF r = d THEN {u1, u3} ELSE {u2, u4}

=============================================================================
