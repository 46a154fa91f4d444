---------------------------- MODULE MCPartUpload ----------------------------
(* Small instances of PartUpload: requests a and b carry the same chunk. *)
EXTENDS PartUpload, TLC

CONSTANTS a1, a2, a3, b1

\* Three uploads of chunk 1, one of chunk 2.
ChunkOfReq(r) == IF r = b1 THEN 2 ELSE 1

Interchangeable == Permutations({a1, a2, a3})

=============================================================================
