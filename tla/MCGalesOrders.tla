--------------------------- MODULE MCGalesOrders ---------------------------
EXTENDS GalesOrders, TLC
=============================================================================
