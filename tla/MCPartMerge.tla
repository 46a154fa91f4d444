----------------------------- MODULE MCPartMerge -----------------------------
(* Small instances of PartMerge: a1, a2 carry chunk 1, b1 carries chunk 2. *)
EXTENDS PartMerge, TLC

CONSTANTS a1, a2, b1, m1, m2, w1, w2

ChunkOfReq(r) == IF r = b1 THEN 2 ELSE 1

Interchangeable ==
    Permutations({a1, a2}) \cup Permutations({m1, m2})

=============================================================================
