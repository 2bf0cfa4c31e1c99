---------------------------- MODULE MCLiveOrders ----------------------------
(* The live engine's orders for TLC.                                       *)
EXTENDS LiveOrders, TLC
=============================================================================
