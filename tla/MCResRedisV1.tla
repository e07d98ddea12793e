---------------------------- MODULE MCResRedisV1 ----------------------------
(* ResRedisV1 as TLC checks it; the constants are in the .cfg files.       *)
EXTENDS ResRedisV1
=============================================================================
