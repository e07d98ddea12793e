--------------------------- MODULE MCRedisCluster ---------------------------
(* RedisCluster for TLC.  The servers are interchangeable.                 *)
EXTENDS RedisCluster, TLC

Symmetry == Permutations(Nodes)
=============================================================================
