---------------------------- MODULE MCSnowflake -----------------------------
(* Two nodes, two worker ids, two sequence numbers. *)
EXTENDS Snowflake

CONSTANTS n1, n2

MCNodes == {n1, n2}
=============================================================================
