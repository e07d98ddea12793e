------------------------- MODULE MCEventSerializer -------------------------
(* EventSerializer for TLC: the constants are numbers in the .cfg.         *)
EXTENDS EventSerializer
=============================================================================
