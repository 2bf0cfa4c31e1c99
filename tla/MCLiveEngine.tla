---------------------------- MODULE MCLiveEngine ----------------------------
(* Instances of LiveEngine for TLC: live_engine.cfg.                       *)
EXTENDS LiveEngine
=============================================================================
