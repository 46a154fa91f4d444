----------------------------- MODULE MCCluster ------------------------------
(* The owner of the directory and another node. *)
EXTENDS Cluster

CONSTANTS n1, n2

MCNodes == {n1, n2}
=============================================================================
