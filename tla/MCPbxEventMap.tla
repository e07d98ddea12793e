--------------------------- MODULE MCPbxEventMap ---------------------------
(* PbxEventMap for TLC.                                                    *)
EXTENDS PbxEventMap
=============================================================================
