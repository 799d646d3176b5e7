----------------------------- MODULE MCShardCfg -----------------------------
(***************************************************************************)
(* ShardCfg for TLC: four groups, the last with servers of two others.     *)
(***************************************************************************)
EXTENDS ShardCfg

CONSTANTS a, b, c

MCServers == <<{a}, {b}, {c}, {a, b}>>
=============================================================================
