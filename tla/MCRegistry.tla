----------------------------- MODULE MCRegistry -----------------------------
(* Two nodes, the clock of the second ahead of that of the first. *)
EXTENDS Registry

CONSTANTS n1, n2

MCNodes == {n1, n2}

MCOffset == [n \in MCNodes |-> IF n = n1 THEN 0 ELSE Skew]
=============================================================================
