---------------------------- MODULE MCResRedis ----------------------------
(* ResRedis for TLC: every constant is an ordinary number in the .cfg.     *)
EXTENDS ResRedis
===========================================================================
