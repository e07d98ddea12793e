----------------------------- MODULE MCMsqLoop -----------------------------
(* MsqLoop for TLC.                                                        *)
EXTENDS MsqLoop
=============================================================================
