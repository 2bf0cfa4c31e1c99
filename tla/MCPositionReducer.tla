-------------------------- MODULE MCPositionReducer --------------------------
(* The position reducer for TLC: thresholds 2, 3 and 4, and a leverage on  *)
(* and between each of them.                                               *)
EXTENDS PositionReducer, TLC

MCLeverages == 2..5
=============================================================================
