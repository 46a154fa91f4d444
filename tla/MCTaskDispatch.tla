--------------------------- MODULE MCTaskDispatch ---------------------------
(* Small instances of TaskDispatch for TLC. *)
EXTENDS TaskDispatch, TLC

CONSTANTS n1, n2, w1, w2, t1, t2, t3, u1

\* Every merge task is for the same uid: two requests to merge it were served.
OneUid(t) == u1

NodeAndWorkerSymmetry == Permutations({n1, n2}) \cup Permutations({w1, w2})

=============================================================================
