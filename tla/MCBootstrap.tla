---------------------------- MODULE MCBootstrap -----------------------------
(* Two nodes that start together, two tables and two MinIO buckets to be made; *)
(* the store's plugin, which is opened as redis' is, is left out.              *)
EXTENDS Bootstrap

CONSTANTS n1, n2

TwoTables  == <<"meta_data_info", "multi_part_info">>
TwoBuckets == <<"image", "video">>
=============================================================================
