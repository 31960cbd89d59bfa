---------------------------- MODULE MCLoadStore ----------------------------
EXTENDS LoadStore
=============================================================================
