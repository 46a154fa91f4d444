----------------------------- MODULE MCDownload -----------------------------
(* Small instances of Download. *)
EXTENDS Download, FiniteSets, TLC

Whole(size) == [multi |-> FALSE, count |-> 1, offset |-> (0 :> 0 @@ 1 :> size), num |-> 1]
InParts(offset, num) ==
    [multi |-> TRUE, count |-> Cardinality(DOMAIN offset) - 1, offset |-> offset, num |-> num]

\* Sizes around a multiple of the step, 1 and none; parts of 2, 2 and 1, parts that are
\* empty, and one that is missing.
SomeObjects ==
    {Whole(0), Whole(1), Whole(3), Whole(4), Whole(5),
     InParts(0 :> 0 @@ 1 :> 2 @@ 2 :> 4 @@ 3 :> 5, 3),
     InParts(0 :> 0 @@ 1 :> 0 @@ 2 :> 3 @@ 3 :> 3, 3), InParts(0 :> 0 @@ 1 :> 2 @@ 2 :> 3, 3)}

\* The last lies behind every object.
SomeRanges ==
    {[first |-> 0, last |-> 2], [first |-> 1, last |-> Open], [first |-> 3, last |-> 3],
     [first |-> 6, last |-> Open]}
=============================================================================
