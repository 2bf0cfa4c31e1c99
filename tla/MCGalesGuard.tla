---------------------------- MODULE MCGalesGuard ----------------------------
EXTENDS GalesGuard, TLC
=============================================================================
