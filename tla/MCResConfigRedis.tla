-------------------------- MODULE MCResConfigRedis --------------------------
(* ResConfigRedis for TLC.                                                 *)
EXTENDS ResConfigRedis
=============================================================================
