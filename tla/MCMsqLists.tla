----------------------------- MODULE MCMsqLists -----------------------------
EXTENDS MsqLists
=============================================================================
